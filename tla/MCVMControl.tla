---------------------------- MODULE MCVMControl ----------------------------
(* Small programs for VMControl: a module that calls f, tests f or tests   *)
(* nothing, a second module, and every body of f and g over an alphabet of *)
(* instructions.  Bodies end as the compiler's do: in a return or in a tail *)
(* call.                                                                   *)
EXTENDS VMControl, TLC

MCFunctions == {"f", "g"}
MCModules == <<"m1", "m2">>
MCArity == [n \in MCFunctions |-> IF n = "g" THEN 1 ELSE 0]

R(op, x, y, z) == [op |-> op, x |-> x, y |-> y, z |-> z, k |-> 0, v |-> Nil]
K(op, x, k)    == [op |-> op, x |-> x, y |-> 0, z |-> 0, k |-> k, v |-> Nil]
Lit(x, v) == [op |-> "LoadLiteral", x |-> x, y |-> 0, z |-> 0, k |-> 0, v |-> v]

\* The first literal slot that a message may have.
CONSTANT FirstSlot

\* The first two are as the compiler generates them.
ModuleOne ==
  {<<Lit(0, Number), Lit(1, VMFunction("f")), R("Call", 0, 1, 1), R("CheckAssert", 0, 0, 0)>>,
   <<Lit(0, True), Lit(1, VMFunction("f")), K("CheckError", 1, FirstSlot), R("CheckAssert", 0, 0, 0),
     Lit(1, VMFunction("f")), R("Call", 0, 1, 1)>>,
   <<Lit(0, VMFunction("f")), R("Check", 0, 0, 0), K("CheckError", 0, FirstSlot), R("Expect", 0, 0, 0)>>}

ModuleTwo == {<<>>, <<Lit(0, VMFunction("f")), K("CheckError", 0, FirstSlot + 1)>>}

\* Modules that break a rule, with a function that only returns.
BadModules ==
  {<<R("Return", 0, 0, 0)>>,
   <<Lit(0, Number), K("CheckError", 0, FirstSlot)>>,
   <<Lit(0, VMFunction("g")), K("CheckError", 0, FirstSlot)>>,
   <<R("Check", 0, 0, 0), R("Check", 0, 0, 0)>>,
   <<R("Expect", 0, 0, 0)>>,
   <<R("Check", 0, 0, 0), R("CheckAssert", 0, 0, 0)>>,
   <<Lit(1, VMFunction("f")), R("Tailcall", 1, 0, 0)>>,
   <<Lit(1, VMFunction("f")), R("Call", 0, 1, 1), K("Goto", 0, -3)>>}

Steps ==
  {Lit(0, Number), Lit(1, VMFunction("f")), Lit(1, VMFunction("g")), Lit(2, True),
   R("MkClosure", 1, 1, 0), R("Error", 0, 0, 0), R("Call", 1, 1, 1), R("Call", 0, 1, 2),
   R("Gc", 0, 0, 0)}

Ends == {R("Return", 0, 0, 0), R("Return", 1, 0, 0), R("Tailcall", 1, 1, 0), R("Tailcall", 1, 2, 0)}

BodiesF ==
  {<<a, b, c>> : a \in Steps \cup {R("If", 1, 0, 0)}, b \in Steps \cup {K("Goto", 0, -2)}, c \in Ends}
BodiesG ==
  {<<R("Error", 1, 0, 0), R("Return", 1, 0, 0)>>,
   <<Lit(2, VMFunction("f")), R("Tailcall", 2, 2, 0)>>,
   <<R("MkClosure", 0, 0, 0), R("Return", 0, 0, 0)>>,
   <<Lit(1, VMFunction("f")), K("CheckError", 1, FirstSlot + 2), R("Return", 0, 0, 0)>>}

\* Two tail calls to functions with more registers, at the end of the file.
Cramped ==
  [m1 |-> <<Lit(2, VMFunction("g")), R("Call", 0, 2, 3)>>, m2 |-> <<>>,
   f  |-> <<R("Tailcall", 0, 3, 0)>>, g |-> <<Lit(1, VMFunction("f")), R("Tailcall", 1, 1, 0)>>]

Program(m1, m2, f, g) == ("m1" :> m1) @@ ("m2" :> m2) @@ ("f" :> f) @@ ("g" :> g)

MCPrograms ==
  {Program(m1, m2, f, g) : m1 \in ModuleOne, m2 \in ModuleTwo, f \in BodiesF, g \in BodiesG}
  \cup {Program(m1, <<>>, <<R("Return", 0, 0, 0)>>, <<R("Return", 0, 0, 0)>>) : m1 \in BadModules}
  \cup {Cramped}
=============================================================================
