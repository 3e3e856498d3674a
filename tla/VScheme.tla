------------------------------- MODULE VScheme -------------------------------
(***************************************************************************)
(* What a vScheme program means: the reference interpreter,                 *)
(* src/vscheme/vscheme.sml, on the expressions of unambiguous vScheme.  It   *)
(* evaluates from left to right, and a variable denotes a location that all *)
(* the closures that capture it share.                                      *)
(*                                                                         *)
(* A state is a record of the locations' values, the globals, what has been *)
(* printed and tested, and whether an error has occurred.  Case expressions *)
(* and constructed data, which the interpreter does not have, mean what the  *)
(* comments of knf.sml and match-compiler.sml say: the first choice whose    *)
(* pattern matches.                                                         *)
(***************************************************************************)
EXTENDS VMData, Codegen

projectBool(v) == v \notin {nilValue, mkBooleanValue(FALSE)}

\* What is printed of a value: of a function, that it is one.
RECURSIVE Shown(_)
Shown(v) ==
  CASE v.tag = "Block"      -> [v EXCEPT !.slots = [i \in DOMAIN @ |-> Shown(@[i])]]
    [] v.tag = "VMFunction" -> [tag |-> "VMFunction"]
    [] OTHER                -> v

\* check-expect's equality, which no function satisfies.
RECURSIVE EqTrees(_, _)
EqTrees(v, w) ==
  IF v.tag = "Block" /\ w.tag = "Block"
  THEN /\ Len(v.slots) = Len(w.slots)
       /\ \A i \in DOMAIN v.slots : EqTrees(v.slots[i], w.slots[i])
  ELSE "VMFunction" \notin {v.tag, w.tag} /\ eqvalue(v, w)

Cell(con, vs) == [tag |-> "Block", slots |-> <<mkStringValue(con)>> \o vs]
IsPair(v) == v.tag = "Block" /\ v.slots[1] = consSymbol /\ Len(v.slots) = 3

Result(v, s) == [v |-> v, s |-> s]
Failed(s)    == Result(nilValue, [s EXCEPT !.err = TRUE])
Showing(o, s) == [s EXCEPT !.out = Append(@, o)]

\* Goes on with what a result yields, unless it is an error.
Then(r, K(_, _)) == IF r.s.err THEN r ELSE K(r.v, r.s)

\* The interpreter's idiv rounds down, and its mod is what idiv leaves.
Evaluate(p, m, n) ==
  LET down == IF n < 0 THEN (-m) \div (-n) ELSE m \div n
  IN CASE p = "idiv" -> mkNumberValue(down)
       [] p = "mod"  -> mkNumberValue(m - n * down)
       [] OTHER      -> Compute(p, m, n)

\* The primitives.  Those that the interpreter does not have (neg, copy, swap, boolOf
\* and gc) are what the machine's instructions are.  No program divides by zero with
\* /, which gives an infinity here and is an error there.
ApplyPrimitive(p, vs, s) ==
  LET number(i) == IsNumber(vs[i])
      ok(cond, v) == IF cond THEN Result(v, s) ELSE Failed(s)
  IN IF Len(vs) # Arity(p) THEN Failed(s)
     ELSE CASE p \in BinaryOps -> ok(number(1) /\ number(2) /\ ~(p \in {"idiv", "mod"} /\ vs[2].n = 0),
                                       Evaluate(p, vs[1].n, vs[2].n))
            [] p = "neg"  -> ok(number(1), mkNumberValue(-vs[1].n))
            [] p = "="    -> Result(mkBooleanValue(eqvalue(vs[1], vs[2])), s)
            [] p = "not"  -> Result(mkBooleanValue(~projectBool(vs[1])), s)
            [] p = "cons" -> Result(Cell("cons", vs), s)
            [] p = "car"  -> ok(IsPair(vs[1]), vs[1].slots[2])
            [] p = "cdr"  -> ok(IsPair(vs[1]), vs[1].slots[3])
            [] p = "pair?" -> Result(mkBooleanValue(IsPair(vs[1])), s)
            [] p \in DOMAIN TagsOf \ {"pair?"} -> Result(mkBooleanValue(vs[1].tag \in TagsOf[p]), s)
            [] p \in {"copy", "swap"} -> Result(vs[1], s)
            [] p = "boolOf" -> Result(mkBooleanValue(projectBool(vs[1])), s)
            [] p = "gc"   -> Result(nilValue, s)
            [] p = "printu" -> IF number(1) /\ vs[1].n \in CodePoint
                               THEN Result(vs[1], Showing(vs[1], s)) ELSE Failed(s)
            [] p \in {"print", "println"} -> Result(vs[1], Showing(Shown(vs[1]), s))
            [] p = "error" -> Failed(s)

\* Does a pattern match, and what does it bind?
IsConstant(v, con) == con[2] = 0 /\ v = conLiteral(con)

RECURSIVE Matches(_, _), Bindings(_, _)
Matches(pat, v) ==
  pat[1] = "APPLY" =>
    \/ IsConstant(v, <<pat[2], Len(pat[3])>>)
    \/ /\ v.tag = "Block" /\ v.slots[1] = mkStringValue(pat[2]) /\ Len(v.slots) = Len(pat[3]) + 1
       /\ \A i \in DOMAIN pat[3] : Matches(pat[3][i], v.slots[i + 1])
Bindings(pat, v) ==
  CASE pat[1] = "VAR"      -> pat[2] :> v
    [] pat[1] = "WILDCARD" -> <<>>
    [] pat[1] = "APPLY"    -> FoldLeft(LAMBDA f, i : f @@ Bindings(pat[3][i], v.slots[i + 1]),
                                       <<>>, [i \in DOMAIN pat[3] |-> i])

\* New locations for names, and the environment that has them.
BindAll(values, rho, s, K(_, _)) ==
  LET names == SetToSeq(DOMAIN values) IN
  K([x \in DOMAIN values |-> Len(s.mem) + Place(names, x)] @@ rho,
    [s EXCEPT !.mem = @ \o [i \in DOMAIN names |-> values[names[i]]]])

RECURSIVE Eval(_, _, _), EvalList(_, _, _), Apply(_, _, _), EvalBegin(_, _, _, _)

\* Expressions from left to right; the result is a sequence of values.
EvalList(es, rho, s) ==
  IF es = <<>> THEN Result(<<>>, s)
  ELSE Then(Eval(Head(es), rho, s), LAMBDA v, s1 :
         Then(EvalList(Tail(es), rho, s1), LAMBDA vs, s2 : Result(<<v>> \o vs, s2)))

EvalBegin(es, lastval, rho, s) ==
  IF es = <<>> THEN Result(lastval, s)
  ELSE Then(Eval(Head(es), rho, s), LAMBDA v, s1 : EvalBegin(Tail(es), v, rho, s1))

Apply(f, vs, s) ==
  IF Len(f.formals) # Len(vs) THEN Failed(s)
  ELSE BindAll([x \in Range(f.formals) |-> vs[Place(f.formals, x)]], f.rho, s,
               LAMBDA rho, s1 : Eval(f.body, rho, s1))

ClosureOf(lambda, rho) ==
  [tag |-> "VMFunction", formals |-> lambda[2], body |-> lambda[3], rho |-> rho]

Eval(e, rho, s) ==
  CASE e[1] = "LITERAL"   -> Result(e[2], s)
    [] e[1] = "LOCAL"     -> Result(s.mem[rho[e[2]]], s)
    [] e[1] = "GLOBAL"    -> Result(s.globals[e[2]], s)
    [] e[1] = "SETLOCAL"  -> Then(Eval(e[3], rho, s), LAMBDA v, s1 :
                               Result(v, [s1 EXCEPT !.mem[rho[e[2]]] = v]))
    [] e[1] = "SETGLOBAL" -> Then(Eval(e[3], rho, s), LAMBDA v, s1 :
                               Result(v, [s1 EXCEPT !.globals[e[2]] = v]))
    [] e[1] = "IFX"       -> Then(Eval(e[2], rho, s), LAMBDA v, s1 :
                               Eval(IF projectBool(v) THEN e[3] ELSE e[4], rho, s1))
    [] e[1] = "WHILEX"    -> Then(Eval(e[2], rho, s), LAMBDA v, s1 :
                               IF projectBool(v)
                               THEN Then(Eval(e[3], rho, s1), LAMBDA w, s2 : Eval(e, rho, s2))
                               ELSE Result(mkBooleanValue(FALSE), s1))
    [] e[1] = "BEGIN"     -> EvalBegin(e[2], mkBooleanValue(FALSE), rho, s)
    [] e[1] = "PRIMCALL"  -> Then(EvalList(e[3], rho, s), LAMBDA vs, s1 : ApplyPrimitive(e[2], vs, s1))
    [] e[1] = "CONSTRUCTED" ->
         Then(EvalList(e[3], rho, s), LAMBDA vs, s1 :
           Result(IF e[2] \in {"#t", "#f", "'()"} THEN conLiteral(<<e[2], 0>>) ELSE Cell(e[2], vs), s1))
    [] e[1] = "FUNCALL"   -> Then(Eval(e[2], rho, s), LAMBDA f, s1 :
                               IF f.tag # "VMFunction" THEN Failed(s1)
                               ELSE Then(EvalList(e[3], rho, s1), LAMBDA vs, s2 : Apply(f, vs, s2)))
    [] e[1] = "LET"       ->
         Then(EvalList([i \in DOMAIN e[2] |-> e[2][i][2]], rho, s), LAMBDA vs, s1 :
           LET names == [i \in DOMAIN e[2] |-> e[2][i][1]] IN
           BindAll([x \in Range(names) |-> vs[Place(names, x)]], rho, s1,
                   LAMBDA rho1, s2 : Eval(e[3], rho1, s2)))
    [] e[1] = "LETREC"    ->
         LET names == [i \in DOMAIN e[2] |-> e[2][i][1]]
             lambda(x) == e[2][Place(names, x)][2]
         IN  BindAll([x \in Range(names) |-> nilValue], rho, s, LAMBDA rho1, s1 :
               Eval(e[3], rho1,
                    [s1 EXCEPT !.mem = [l \in DOMAIN @ |->
                       IF \E x \in Range(names) : rho1[x] = l
                       THEN ClosureOf(lambda(CHOOSE x \in Range(names) : rho1[x] = l), rho1)
                       ELSE @[l]]]))
    [] e[1] = "LAMBDA"    -> Result(ClosureOf(e, rho), s)
    [] e[1] = "CASE"      ->
         Then(Eval(e[2], rho, s), LAMBDA v, s1 :
           LET i == SelectInSeq(e[3], LAMBDA c : Matches(c[1], v)) IN
           IF i = 0 THEN Failed(s1)
           ELSE BindAll(Bindings(e[3][i][1], v), rho, s1, LAMBDA rho1, s2 : Eval(e[3][i][2], rho1, s2)))

\* A definition or a test.  In a test an error is an outcome.
EvalDef(def, s) ==
  LET eval(e, s1) == Eval(e, <<>>, s1)
      sound(s1) == [s1 EXCEPT !.err = FALSE]
  IN CASE def[1] = "EXP"    -> eval(def[2], s).s
       [] def[1] \in {"VAL", "DEFINE"} -> eval(<<"SETGLOBAL", def[2], def[3]>>, s).s
       [] def[1] = "CHECK_EXPECT" ->
            LET check == eval(def[3], s)
                expect == eval(def[5], sound(check.s))
            IN  Showing(Verdict(~check.s.err /\ ~expect.s.err /\ EqTrees(check.v, expect.v)),
                        sound(expect.s))
       [] def[1] = "CHECK_ASSERT" ->
            LET check == eval(def[3], s) IN
            Showing(Verdict(~check.s.err /\ projectBool(check.v)), sound(check.s))
       [] def[1] = "CHECK_ERROR" ->
            LET check == eval(def[3], s) IN Showing(Verdict(check.s.err), sound(check.s))

\* The states after each definition and test of a program, the tests last.  An error is
\* reported, and the interpreter goes on with the next definition.
EvalProgram(defs) ==
  LET isTest(def) == def[1] \in {"CHECK_EXPECT", "CHECK_ASSERT", "CHECK_ERROR"}
      start == [mem |-> <<>>, globals |-> [g \in Global |-> nilValue], out |-> <<>>, err |-> FALSE]
      goOn(states, def) ==
        LET s == IF states = <<>> THEN start ELSE [Last(states) EXCEPT !.err = FALSE]
        IN  Append(states, EvalDef(def, s))
  IN  FoldLeft(goOn, <<>>, SelectSeq(defs, LAMBDA d : ~isTest(d)) \o SelectSeq(defs, isTest))

=============================================================================
