------------------------------ MODULE Assembler ------------------------------
(***************************************************************************)
(* The assembler, src/uft/assembler.sml: from assembly code with labels to   *)
(* object code with offsets, and to the functions that the loader makes of   *)
(* it (module Loader has how it reads them).                                *)
(***************************************************************************)
EXTENDS Codegen

\* How many instructions of object code an instruction becomes.
Position(i) ==
  CASE i.op = "DEFLABEL"      -> 0
    [] i.op = "IF_GOTO_LABEL" -> 2
    [] OTHER                  -> 1

\* Where the next instruction is after each one of a list.
Positions(is) ==
  LET after[j \in 0..Len(is)] == IF j = 0 THEN 0 ELSE after[j - 1] + Position(is[j])
  IN  after

\* labelEnv, and its error.
Definitions(is) == {j \in DOMAIN is : is[j].op = "DEFLABEL"}
LabelEnv(is) ==
  LET at == Positions(is) IN
  [l \in {is[j].k : j \in Definitions(is)} |->
     at[CHOOSE j \in Definitions(is) : is[j].k = l]]
NoDuplicates(is) == \A i, j \in Definitions(is) : is[i].k = is[j].k => i = j

\* rewriteGotoVcon: a switch becomes a goto-vcon and its jump table.
RECURSIVE RewriteGotoVcon(_)
RewriteGotoVcon(is) ==
  LET entry(c) == <<I("if-vcon-match", <<c[2]>>, c[1]), goto(c[3])>>
      expand(i) ==
        CASE i.op = "GOTO_VCON" ->
               <<I("goto-vcon", i.r, Len(i.k))>> \o ConcatMap(entry, i.k)
          [] i.op = "LOADFUNC"  -> <<[i EXCEPT !.k.code = RewriteGotoVcon(@)]>>
          [] OTHER              -> <<i>>
  IN  ConcatMap(expand, is)

\* The loader ends every function with this instruction.
HaltSentinel == I("halt", <<>>, 0)

\* Labels that are used, and are to be in the environment.
UsedLabels(is) == {is[j].k : j \in {i \in DOMAIN is : is[i].op \in {"GOTO_LABEL", "IF_GOTO_LABEL"}}}

\* What the assembler accepts, and a reader of its output: not an error
\* instruction that has a literal in the place of its register.
RECURSIVE Accepts(_)
Accepts(is) ==
  /\ NoDuplicates(is)
  /\ UsedLabels(is) \subseteq {is[j].k : j \in Definitions(is)}
  /\ \A j \in DOMAIN is :
       /\ is[j].op # "IMPOSSIBLE"
       /\ is[j].op = "error" => is[j].r # <<>>
       /\ is[j].op = "LOADFUNC" => Accepts(is[j].k.code)

RECURSIVE Translate(_)

\* labelElim: every label is replaced by its distance from the instruction after
\* the jump, with the environment env.
LabelElim(is, env) ==
  LET at == Positions(is)
      jump(j) == I("goto", <<>>, env[is[j].k] - at[j])
      object(j) ==
        CASE is[j].op = "GOTO_LABEL"    -> <<jump(j)>>
          [] is[j].op = "DEFLABEL"      -> <<>>
          [] is[j].op = "IF_GOTO_LABEL" -> <<I("if", is[j].r, 0), jump(j)>>
          [] is[j].op = "LOADFUNC"      ->
               <<loadlit(is[j].r[1], mkVMFunctionValue([arity |-> is[j].k.arity,
                                                       code |-> Translate(is[j].k.code)]))>>
          [] OTHER                      -> <<is[j]>>
  IN  Each(object, is)

\* translate, with the loader's sentinel at the end.  The environment is that of
\* the code as it was before switches became jump tables.
Translate(is) == LabelElim(RewriteGotoVcon(is), LabelEnv(is)) \o <<HaltSentinel>>

=============================================================================
