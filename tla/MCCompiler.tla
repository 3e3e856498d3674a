----------------------------- MODULE MCCompiler -----------------------------
(* Small programs for the compiler and the machine, in families: each gives  *)
(* every combination of some parts in the contexts that the compiler treats *)
(* differently.                                                            *)
EXTENDS Compiler

MCGlobal == {"f", "g", "h"}

Lit(v) == <<"LITERAL", v>>
N(n)   == Lit(mkNumberValue(n))
True   == Lit(mkBooleanValue(TRUE))
False  == Lit(mkBooleanValue(FALSE))
Null   == Lit(emptylistValue)
Sym(s) == Lit(mkStringValue(s))
L(x)   == <<"LOCAL", x>>
G(x)   == <<"GLOBAL", x>>
P1(p, e)      == <<"PRIMCALL", p, <<e>>>>
P2(p, e1, e2) == <<"PRIMCALL", p, <<e1, e2>>>>
Con(c, es)    == <<"CONSTRUCTED", c, es>>
Apply0(f)         == <<"FUNCALL", f, <<>>>>
Apply1(f, e)      == <<"FUNCALL", f, <<e>>>>
Apply2(f, e1, e2) == <<"FUNCALL", f, <<e1, e2>>>>
IfX(e1, e2, e3)   == <<"IFX", e1, e2, e3>>
Begin(e1, e2)     == <<"BEGIN", <<e1, e2>>>>
Let1(x, e, body)  == <<"LET", <<<<x, e>>>>, body>>
Lambda(xs, body)  == <<"LAMBDA", xs, body>>
Case(e, choices)  == <<"CASE", e, choices>>
SetL(x, e) == <<"SETLOCAL", x, e>>
SetG(x, e) == <<"SETGLOBAL", x, e>>
While(e, body) == <<"WHILEX", e, body>>
Define(f, xs, body) == <<"DEFINE", f, Lambda(xs, body)>>
Show(e) == <<"EXP", P1("println", e)>>

-----------------------------------------------------------------------------
\* Every primitive on every kind of argument.
Operands == {N(6), N(-6), N(0), True, Sym("a"), Null, P2("cons", N(1), Null), Con("SOME", <<N(1)>>)}
Quotients == {<<<<"EXP", P2("println", N(1), N(2))>>>>, <<<<"EXP", P1("swap", N(1))>>>>, <<<<"EXP", <<"PRIMCALL", "gc", <<>>>>>>>>}
  \cup {<<Show(P2(p, N(m), N(n)))>> : p \in {"idiv", "mod"}, m \in {0, 6, 7}, n \in {2, 3}}
  \cup {<<Show(P2(p, N(-m), N(-n)))>> : p \in {"idiv", "mod"}, m \in {6, 7}, n \in {2, 3}}
Primitives ==
  {<<Show(P2(p, a, b))>> : p \in (BinaryOps \ {"/"}) \cup {"=", "cons"}, a \in Operands, b \in Operands}
  \cup {<<Show(P2("/", a, b))>> : a \in Operands, b \in Operands \ {N(0)}}
  \cup {<<Show(P1(p, a))>> : p \in DOMAIN TagsOf \cup {"neg", "not", "car", "cdr", "boolOf", "copy"},
                             a \in Operands \cup {Lambda(<<>>, N(1))}}
  \cup {<<<<"EXP", P1("printu", a)>>, <<"EXP", P1("print", a)>>, <<"EXP", P1("error", a)>>>> :
           a \in Operands \ {N(-6)}}
  \cup {<<<<"EXP", P1("print", a)>>, <<"EXP", P1("error", a)>>>> : a \in Operands}
  \cup Quotients

\* Two expressions, that may call, jump, bind and have effects, in every context
\* that has a rule of its own, within a function and at top level.
Parts(x, y) ==
  {x, y, N(1), P2("-", x, y), Apply2(G("g"), x, y), IfX(P2("<", x, y), x, y),
   Let1("z", P2("*", x, y), P2("-", L("z"), y)), Begin(P1("println", x), y),
   IfX(P2(">", x, N(0)), P2("+", y, N(200)), P2("-", x, N(5)))}
Contexts(a, b) ==
  {P2("-", a, b), P2("cons", a, b), Apply2(G("g"), a, b), IfX(P2("<", a, b), b, a),
   <<"LET", <<<<"x", a>>, <<"y", b>>>>, P2("-", L("x"), L("y"))>>,
   Begin(a, b), Apply1(Lambda(<<"w">>, P2("-", L("w"), N(2))), P2("-", a, b)),
   Con("PAIR", <<a, b>>), SetG("h", P2("-", b, a)), Begin(While(P2("<", a, a), b), b)}
Middle == Define("g", <<"m", "n">>, P2("-", P2("+", L("m"), N(1)), L("n")))

InFunction == 
  UNION {{<<Middle, Define("f", <<"x", "y">>, e), Show(Apply2(G("f"), N(3), N(5)))>> :
            e \in Contexts(a, b)} : a \in Parts(L("x"), L("y")), b \in Parts(L("x"), L("y"))}
AtTopLevel ==
  UNION {{<<Middle, <<"VAL", "f", N(2)>>, <<"VAL", "h", e>>, Show(G("h"))>> :
            e \in Contexts(a, b)} : a \in Parts(G("f"), N(3)), b \in Parts(N(1), G("f"))}

\* Contexts within contexts.
Nested ==
  UNION {{<<Middle, Define("f", <<"x", "y">>, e), Show(Apply2(G("f"), N(3), N(5)))>> : e \in Contexts(a, b)} :
            a \in Contexts(L("x"), L("y")), b \in Contexts(L("y"), N(1))}

\* Functions that capture variables, and recursive ones.
Adder == Lambda(<<"a">>, Lambda(<<"b">>, P2("-", L("a"), L("b"))))
EvenOdd(n) ==
  <<"LETREC", << <<"even", Lambda(<<"n">>, IfX(P2("=", L("n"), N(0)), True, Apply1(L("odd"), P2("-", L("n"), N(1)))))>>,
                 <<"odd",  Lambda(<<"n">>, IfX(P2("=", L("n"), N(0)), False, Apply1(L("even"), P2("-", L("n"), N(1)))))>> >>,
    P2("cons", Apply1(L("even"), n), Apply1(L("odd"), n))>>
Closures ==
  {<<Show(e)>> : e \in
     {Apply1(Apply1(Adder, N(9)), N(4)),
      Let1("k", Apply1(Adder, N(9)), P2("cons", Apply1(L("k"), N(1)), Apply1(L("k"), N(2)))),
      Apply1(Apply1(Lambda(<<"p", "q">>, Lambda(<<"r">>, Con("T", <<L("q"), L("r"), L("p")>>))), N(1)), N(2)),
      Apply1(Apply2(Lambda(<<"p", "q">>, Lambda(<<"r">>, Con("T", <<L("q"), L("r"), L("p")>>))), N(1), N(2)), N(3)),
      Apply1(Apply1(Apply1(Lambda(<<"p">>, Lambda(<<"q">>, Lambda(<<"r">>, Con("T", <<L("q"), L("r"), L("p")>>)))), N(1)), N(2)), N(3)),
      Apply1(N(3), N(4)), Apply0(Adder)}}
  \cup {<<Define("f", <<"x">>, EvenOdd(L("x"))), Show(Apply1(G("f"), N(n)))>> : n \in 0..3}
  \cup {<<Show(EvenOdd(N(n)))>> : n \in 0..2}
  \cup {<<Define("f", <<"x">>, <<"LETREC",
             << <<"loop", Lambda(<<"n", "acc">>, IfX(P2("<", L("n"), L("x")),
                   Apply2(L("loop"), P2("+", L("n"), N(1)), P2("cons", L("x"), L("acc"))), L("acc")))>>,
                <<"other", Lambda(<<"n">>, P2("-", L("n"), L("x")))>> >>,
             P2("cons", Apply1(L("other"), N(8)), Apply2(L("loop"), N(0), Null))>>),
           Show(Apply1(G("f"), N(n)))>> : n \in 0..2}
  \cup {<<Define("f", <<"x">>, Lambda(<<"y">>, <<"LETREC",
             << <<"only", Lambda(<<"n">>, IfX(P2("<", L("n"), L("y")),
                   Apply1(L("only"), P2("+", L("n"), N(1))), P2("-", L("x"), L("n"))))>> >>,
             Apply1(L("only"), N(0))>>)),
           Show(Apply1(Apply1(G("f"), N(7)), N(2)))>>}

\* Loops and assignments.
Sum(e) == Begin(While(P2(">", L("n"), N(0)), Begin(SetL("s", P2("+", L("s"), e)), SetL("n", P2("-", L("n"), N(1))))), L("s"))
Loops ==
  {<<Define("f", <<"n">>, Let1("s", N(0), Sum(e))), Show(Apply1(G("f"), N(n)))>> :
      e \in {L("n"), IfX(P2("=", L("n"), N(2)), N(10), L("n"))},
      n \in 0..3}
  \cup {<< <<"VAL", "f", N(n)>>, <<"VAL", "h", While(P2(">", G("f"), N(0)), Begin(P1("println", G("f")), SetG("f", P2("-", G("f"), N(1)))))>>,
           Show(G("h"))>> : n \in 0..2}

-----------------------------------------------------------------------------
\* Patterns, and values that some of them match.
V(x) == <<"VAR", x>>
Wild == <<"WILDCARD">>
App(c, ps) == <<"APPLY", c, ps>>
Nil_ == App("'()", <<>>)
Flat == {Nil_, App("1", <<>>), App("#t", <<>>), App("NONE", <<>>), App("SOME", <<V("a")>>),
         App("cons", <<V("a"), V("b")>>)}
Deep == {App("cons", <<App("SOME", <<V("a")>>), V("b")>>), App("cons", <<V("a"), App("cons", <<V("b"), V("c")>>)>>),
         App("cons", <<App("NONE", <<>>), Nil_>>), App("SOME", <<App("SOME", <<V("a")>>)>>)}
Scrutinees ==
  {Null, N(1), N(2), False, Con("NONE", <<>>), Con("SOME", <<N(5)>>), Con("SOME", <<Con("SOME", <<N(6)>>)>>),
   P2("cons", Con("SOME", <<N(3)>>), Null), P2("cons", N(1), P2("cons", N(2), Null)),
   P2("cons", Con("NONE", <<>>), Null)}

\* What a choice evaluates: its number and the variables of its pattern.
Taken(i, p) == Con("TAKEN", <<N(i)>> \o [j \in 1..Cardinality(PatBound(p)) |-> L(SetToSeq(PatBound(p))[j])])
Rules(ps) == [i \in DOMAIN ps |-> <<ps[i], Taken(i, ps[i])>>]

CasesReturned ==
  {<<Define("f", <<"x">>, Case(L("x"), Rules(ps))), Show(Apply1(G("f"), v))>> :
     ps \in ((Flat \cup Deep) \X (Flat \cup Deep) \X {V("d"), Nil_}) \cup {<<App("cons", <<Wild, V("b")>>), Wild>>},
     v \in Scrutinees}

\* In the other contexts every case expression has a choice for every value that
\* it does not stop at.
CasesElsewhere ==
  {<<Define("f", <<"x">>, e), Show(Apply1(G("f"), v))>> :
     e \in UNION {{Let1("z", Case(L("x"), Rules(ps)), L("z")), P2("cons", L("x"), Case(L("x"), Rules(ps)))} :
                    ps \in Flat \X Flat},
     v \in Scrutinees}

-----------------------------------------------------------------------------
\* Unit tests.
Bodies == {N(1), True, P2("idiv", N(1), N(0)), P1("car", Null), Apply1(G("f"), N(0)), Apply0(G("f")), P2("cons", N(1), Null),
           Con("SOME", <<N(1)>>), P2("cons", N(2), Null)}
Sound == Bodies \ {P2("idiv", N(1), N(0)), P1("car", Null), Apply1(G("f"), N(0)), Apply0(G("f"))}
Thrower == Define("f", <<"x">>, Let1("y", P1("not", L("x")), IfX(L("y"), L("x"), P2("-", N(1), Apply1(G("g"), L("x"))))))
Tests ==
  {<<Thrower, Define("g", <<"x">>, P1("error", L("x"))), <<"CHECK_ERROR", "s", b>>,
     <<"CHECK_EXPECT", "s", c, "t", d>>, <<"CHECK_ASSERT", "s", e>>, <<"CHECK_ERROR", "s", P1("cdr", N(1))>>>> :
       b \in Bodies, c \in Sound, d \in Sound, e \in {True, False}}

MCPrograms ==
  Primitives \cup InFunction \cup AtTopLevel \cup Nested \cup Closures \cup Loops \cup CasesReturned \cup CasesElsewhere \cup Tests

-----------------------------------------------------------------------------
\* What is compiled to something else.  A default in a context that does not return:
DefaultGoesOn ==
  <<Define("f", <<"x">>, Let1("z", Case(L("x"), <<<<App("1", <<>>), N(10)>>, <<Wild, N(20)>>>>), L("z"))),
    Show(Apply1(G("f"), N(2)))>>

\* Two closures of a letrec that capture variables which are themselves captured:
CapturedTwice ==
  <<Define("g", <<"p", "q">>, Lambda(<<"r">>, <<"LETREC",
       << <<"one", Lambda(<<>>, L("p"))>>, <<"two", Lambda(<<>>, L("q"))>> >>,
       P2("cons", Apply0(L("one")), Apply0(L("two")))>>)),
    Show(Apply1(Apply2(G("g"), N(1), N(2)), N(3)))>>

\* An operand that sets a variable which the operand before it reads:
SetInOperand ==
  <<Define("h", <<"x">>, P2("+", L("x"), SetL("x", N(5)))), Show(Apply1(G("h"), N(1)))>>

\* A variable that is set after a closure has captured it:
SetAfterCapture ==
  <<Show(Let1("x", N(1), Let1("f", Lambda(<<>>, L("x")), Begin(SetL("x", N(2)), Apply0(L("f"))))))>>

\* A case expression at the top level of a module, whose choice drops the value of a
\* primitive that fails and then prints a number that is not a code point:
AtTopLevelCase ==
  << <<"EXP", Case(N(1), <<<<App("1", <<>>), Begin(P1("car", N(1)), P1("printu", N(-6)))>>,
                           <<Wild, Begin(P1("println", N(30)), P1("println", N(40)))>>>>)>> >>

\* All of them: it means the output 20, (1 . 2), 6, 2 and an error.
MiscompiledProgram == {DefaultGoesOn \o CapturedTwice \o SetInOperand \o SetAfterCapture \o AtTopLevelCase}

=============================================================================
