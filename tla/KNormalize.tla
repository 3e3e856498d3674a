----------------------------- MODULE KNormalize -----------------------------
(***************************************************************************)
(* Register allocation, src/uft/knormalize.sml: from closed Scheme to       *)
(* K-normal form (knf.sml), where every intermediate value has a register.  *)
(*                                                                         *)
(* A set of registers is its smallest element n: all from n on are           *)
(* available.  The source is written in continuation-passing style; here    *)
(* a list of expressions is first bound to registers, and the bindings are  *)
(* wrapped around what the continuation makes of the registers.             *)
(***************************************************************************)
EXTENDS MatchCompiler, Values

\* The register set without a register, and without several.
Without(n, r) == Max({r + 1, n})
WithoutAll(n, rs) == Max({n} \cup {r + 1 : r \in Range(rs)})

\* LETX forms around a body, the first outermost.
Wrap(lets, body) == FoldRight(LAMBDA l, e : <<"LETX", l[1], l[2], e>>, lets, body)

\* One expression bound in a register: where, the binding if there is one, and
\* the registers left.
BindSmallest(n, k) == [reg |-> n, lets |-> <<<<n, k>>>>, left |-> n + 1]

\* Mutant of BindAnyReg: the register of a name is not taken out of the set.
BindAnyRegAndKeep(n, k) ==
  IF k[1] = "NAME" THEN [reg |-> k[2], lets |-> <<>>, left |-> n]
  ELSE [reg |-> n, lets |-> <<<<n, k>>>>, left |-> n]

\* A name is used where it is.
BindAnyReg(n, k) ==
  IF k[1] = "NAME"
  THEN [reg |-> k[2], lets |-> <<>>, left |-> Without(n, k[2])]
  ELSE BindSmallest(n, k)

getglobal(x)    == <<"VMOPLIT", "getglobal", <<>>, x>>
setglobal(x, r) == <<"VMOPLIT", "setglobal", <<r>>, x>>

IsNumberLiteral(e) == e[1] = "LITERAL" /\ e[2].tag = "Number"
FitsImmediate(i) == -128 <= i /\ i < 128

\* A list of bound expressions with one more.
Extend(bound, b) ==
  [regs |-> Append(bound.regs, b.reg), lets |-> bound.lets \o b.lets, left |-> b.left]

\* What K makes of their registers, within their bindings.
Within(bound, K(_)) == Wrap(bound.lets, K(bound.regs))

RECURSIVE Exp(_, _, _), TreeGen(_, _, _)

\* nbRegsWith: the expressions in order, each in a register of its own, as the
\* policy Bind has it.
BindList(Bind(_, _), rho, n, es) ==
  FoldLeft(LAMBDA bound, e : Extend(bound, Bind(bound.left, Exp(rho, bound.left, e))),
           [regs |-> <<>>, lets |-> <<>>, left |-> n], es)

\* An expression in a register that K uses.
BindExp(rho, n, e, K(_)) ==
  Within(BindList(BindAnyReg, rho, n, <<e>>), LAMBDA rs : K(rs[1]))

\* The parameters are in registers 1, 2, ...
Funcode(ns, body, rho, n) ==
  <<Len(ns), Exp([x \in Range(ns) |-> SelectLastInSeq(ns, LAMBDA y : y = x)] @@ rho,
                 Without(n, Len(ns)), body)>>

PrimCall(p, es, rho, n) ==
  Within(BindList(BindAnyReg, rho, n, es), LAMBDA rs : <<"VMOP", p, rs>>)

\* An instruction of their own for + and - with a small literal, and for > 0.
PlusImmediate(e, i, rho, n) ==
  IF FitsImmediate(i) THEN BindExp(rho, n, e, LAMBDA r : <<"VMOPINT", "+imm", r, i + 128>>)
  ELSE PrimCall("+", <<e, <<"LITERAL", mkNumberValue(i)>>>>, rho, n)

ImmediateCall(p, es, i, rho, n) ==
  IF p \in {"+", "-"} THEN PlusImmediate(es[1], IF p = "+" THEN i ELSE -i, rho, n)
  ELSE IF p = ">" /\ i = 0 THEN PrimCall("gt0", <<es[1]>>, rho, n)
  ELSE PrimCall(p, es, rho, n)

\* Where a letrec's closures go: the last in the smallest register.
LetrecRegisters(n, bindings) == ListOf(Len(bindings), LAMBDA i : n + Len(bindings) - i)

\* Every closure's captured variables are bound before any closure is made.
LetrecForm(rs, codes, captures, body) ==
  Wrap(ConcatMap(LAMBDA c : c.lets, captures),
       <<"LETREC", ListOf(Len(rs), LAMBDA i : <<rs[i], codes[i], captures[i].regs>>), body>>)

\* They are bound in the registers after those of the closures.
Letrec(bindings, body, rho, n) ==
  LET rs == LetrecRegisters(n, bindings)
      names == First(bindings)
      left == n + Len(bindings)
      rho1 == [x \in Range(names) |-> rs[Place(names, x)]] @@ rho
  IN  LetrecForm(rs, Map(LAMBDA b : Funcode(b[2][2], b[2][3], rho1, left), bindings),
                 Map(LAMBDA b : BindList(BindAnyReg, rho1, left, b[2][4]), bindings),
                 Exp(rho1, left, body))

Constructed(con, es, rho, n) ==
  CASE con = "#t" /\ es = <<>>  -> <<"LITERAL", mkBooleanValue(TRUE)>>
    [] con = "#f" /\ es = <<>>  -> <<"LITERAL", mkBooleanValue(FALSE)>>
    [] con = "'()" /\ es = <<>> -> <<"LITERAL", emptylistValue>>
    [] con = "cons" /\ Len(es) = 2 -> <<"SET", n, PrimCall("cons", es, rho, n + 1)>>
    [] OTHER ->
         <<"SET", n,
           Within(BindList(BindAnyReg, rho, n + 1, <<<<"LITERAL", mkStringValue(con)>>>> \o es),
                  LAMBDA rs : <<"BLOCK", rs>>)>>

\* The values of all but the last are dropped.
TranslateBegin(rho, n, es) ==
  IF es = <<>> THEN <<"LITERAL", mkBooleanValue(FALSE)>>
  ELSE FoldRight(LAMBDA e, rest : <<"BEGIN", Exp(rho, n, e), rest>>, Front(es),
                 Exp(rho, n, Last(es)))

Exp(rho, n, e) ==
  CASE e[1] = "IMPOSSIBLE" -> e
    [] e[1] = "LITERAL"    -> e
    [] e[1] = "CAPTURED"   -> e
    [] e[1] = "LOCAL"      -> <<"NAME", rho[e[2]]>>
    [] e[1] = "GLOBAL"     -> getglobal(e[2])
    [] e[1] = "SETLOCAL"   -> <<"SET", rho[e[2]], Exp(rho, n, e[3])>>
    [] e[1] = "SETGLOBAL"  -> BindExp(rho, n, e[3], LAMBDA r :
                                 <<"BEGIN", setglobal(e[2], r), <<"NAME", r>>>>)
    [] e[1] = "BEGIN"      -> TranslateBegin(rho, n, e[2])
    [] e[1] = "IFX"        -> BindExp(rho, n, e[2], LAMBDA r :
                                 <<"IFX", r, Exp(rho, n, e[3]), Exp(rho, n, e[4])>>)
    [] e[1] = "WHILEX"     -> <<"WHILEX", n, Exp(rho, n, e[2]), Exp(rho, n, e[3])>>
    [] e[1] = "PRIMCALL"   -> IF Len(e[3]) = 2 /\ IsNumberLiteral(e[3][2])
                              THEN ImmediateCall(e[2], e[3], e[3][2][2].n, rho, n)
                              ELSE PrimCall(e[2], e[3], rho, n)
    [] e[1] = "FUNCALL"    -> Within(BindList(BindSmallest, rho, n, <<e[2]>> \o e[3]),
                                     LAMBDA rs : <<"FUNCALL", rs[1], Tail(rs)>>)
    [] e[1] = "LET"        ->
         Within(BindList(BindSmallest, rho, n, Second(e[2])), LAMBDA rs :
                  Exp([x \in Range(First(e[2])) |-> rs[Place(First(e[2]), x)]] @@ rho,
                      WithoutAll(n, rs), e[3]))
    [] e[1] = "CLOSURE"    ->
         IF e[4] = <<>> THEN <<"FUNCODE", Funcode(e[2], e[3], rho, n)>>
         ELSE <<"SET", n, Within(BindList(BindAnyReg, rho, n + 1, e[4]), LAMBDA rs :
                                   <<"CLOSURE", Funcode(e[2], e[3], rho, n + 1), rs>>)>>
    [] e[1] = "LETREC"     -> Letrec(e[2], e[3], rho, n)
    [] e[1] = "CONSTRUCTED" -> Constructed(e[2], e[3], rho, n)
    [] e[1] = "CASE"       -> BindExp(rho, n, e[2], LAMBDA r :
                                 TreeGen(rho, Without(n, r), DecisionTree(r, e[3], Without(n, r))))

\* A decision tree becomes a nest of switches.
TreeGen(rho, n, tree) ==
  CASE tree[1] = "IMPOSSIBLE" -> tree
    [] tree[1] = "MATCH"      -> Exp(tree[3] @@ rho, tree[4], tree[2])
    [] tree[1] = "LET_CHILD"  -> <<"LETX", tree[3], <<"VMOP", "getblockslot", tree[2]>>,
                                   TreeGen(rho, tree[3] + 1, tree[4])>>
    [] tree[1] = "TEST"       ->
         <<"SWITCH_VCON", tree[2],
           Map(LAMBDA edge : <<edge[1], TreeGen(rho, n, edge[2])>>, tree[3]),
           IF tree[4] = <<>> THEN <<"VMOPLIT", "error", <<>>, mkStringValue("no-matching-case")>>
           ELSE TreeGen(rho, n, tree[4][1])>>

\* A definition at top level, where all registers are available.
Definition(def) ==
  LET test(prim, e, s) == BindExp(<<>>, 0, e, LAMBDA r : <<"VMOPLIT", prim, <<r>>, s>>) IN
  CASE def[1] = "EXP"    -> Exp(<<>>, 0, def[2])
    [] def[1] = "VAL"    -> Exp(<<>>, 0, <<"SETGLOBAL", def[2], def[3]>>)
    [] def[1] = "DEFINE" -> <<"LETX", 0, <<"FUNCODE", Funcode(def[3], def[4], <<>>, 0)>>,
                              setglobal(def[2], 0)>>
    [] def[1] = "CHECK_EXPECT" -> <<"BEGIN", test("check", def[3], def[2]),
                                             test("expect", def[5], def[4])>>
    [] def[1] = "CHECK_ASSERT" -> test("check-assert", def[3], def[2])
    [] def[1] = "CHECK_ERROR"  ->
         <<"LETX", 0, <<"FUNCODE", <<0, Exp(<<>>, 0, def[3])>>>>,
           <<"VMOPLIT", "check-error", <<0>>, def[2]>>>>

=============================================================================
