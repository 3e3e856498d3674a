------------------------------ MODULE Compiler ------------------------------
(***************************************************************************)
(* The universal forward translator, src/uft/uft.sml, and the machine that   *)
(* runs what it makes: a program in vScheme goes through closure conversion, *)
(* K-normalization, code generation and assembly, and module VMData runs the *)
(* result.  The properties compare the run with what the program means.     *)
(***************************************************************************)
EXTENDS VScheme, ClosureConvert, KNormalize, Assembler, ObjectCode

CONSTANT Programs      \* programs: sequences of definitions, tests at the end

VARIABLE source        \* the program

allvars == <<vars, source>>

\* VS_of_KN and VO_of: the code of every definition, one after the other.
Generate(defs) ==
  Each(LAMBDA i : ForEffect(Definition(Close(defs[i])), <<i>>), defs)

\* A program is given to the translator.
Init ==
  /\ source \in Programs
  /\ fun = [arity |-> 0, code |-> <<HaltSentinel>>]
  /\ outcome = "translating"
  /\ Loaded

\* The translator refuses it, or the machine starts on the module it makes.
TranslateSource ==
  /\ outcome = "translating"
  /\ LET code == Generate(source) IN
     IF Accepts(code)
     THEN /\ fun' = [arity |-> 0, code |-> Translate(code)]
          /\ outcome' = "running"
     ELSE outcome' = "rejected" /\ UNCHANGED fun
  /\ UNCHANGED <<pc, base, stack, data, tests, source>>

Run == Next /\ UNCHANGED source

\* A machine that has stopped stays as it is.
Stopped == outcome \notin {"translating", "running"} /\ UNCHANGED allvars

\* The machine never waits: fairness is that the processor goes on.
Spec == Init /\ [][TranslateSource \/ Run \/ Stopped]_allvars /\ WF_allvars(Run)

-----------------------------------------------------------------------------
\* A certificate of a function: where control gets from some places, and what holds
\* there.
RECURSIVE Reached(_, _)
Reached(code, places) ==
  LET more == UNION {Successors(code, i) : i \in places \cap DOMAIN code} \ places
  IN  IF more = {} THEN places ELSE Reached(code, places \cup more)

Certificate(f) ==
  LET code == f.code
      Since(i, Begins(_), Ends(_)) ==
        \E m \in 1..i - 1 : Begins(code[m]) /\ \A l \in m + 1..i - 1 : ~Ends(code[l])
  IN [i \in Reached(code, {1}) |->
       [unset  |-> UNION {Leaves(code[m]) \ UNION {Fills(code[l]) : l \in m + 1..i - 1} : m \in 1..i - 1},
        facts  |-> {a \in {"own closure", "awaits"} :
                      IF a = "awaits"
                      THEN Since(i, LAMBDA ins : ins.op = "check", LAMBDA ins : ins.op = "expect")
                      ELSE ~Since(i, Overwrites, LAMBDA ins : ins.op \in {"return", "tailcall", "error"})},
        loaded |-> IF code[i].op \in {"mkclosure", "check-error"}
                   THEN After(code, i - 1, AtStart).loaded ELSE {}]]

RECURSIVE HasCertificates(_, _)
HasCertificates(f, isModule) ==
  /\ IsCertified(f, Certificate(f), isModule)
  /\ \A i \in DOMAIN f.code : LoadsFunction(f.code[i]) => HasCertificates(f.code[i].k.f, FALSE)

(* What the machine takes on trust (module ObjectCode) holds of every module that  *)
(* it is started on, and of every function that the module loads.                 *)
CodeIsCertified ==
  outcome = "running" /\ pc = 1 /\ stack = <<>> => HasCertificates(fun, TRUE)

\* Of the states after each definition, the one in which the machine should end.
FirstErrorOrEnd(states) ==
  LET failed == SelectInSeq(states, LAMBDA s : s.err)
  IN  IF failed = 0 THEN Last(states) ELSE states[failed]

EndsIn(s) ==
  /\ outcome = IF s.err THEN "error" ELSE "halted"
  /\ out = s.out
  /\ \A g \in Global : Tree(globals[g]) = Shown(s.globals[g])

(* A program that has ended has printed, tested and assigned what the         *)
(* reference interpreter does, and has ended in an error when it meets one:   *)
(* then, since the machine stops at an error and the interpreter goes on, what  *)
(* it has done is what the interpreter has after the definition that failed.  *)
ComputesWhatItMeans ==
  outcome \notin {"translating", "running"} => EndsIn(FirstErrorOrEnd(EvalProgram(source)))

(* Every program whose meaning is finite ends: no jump is compiled into a     *)
(* loop that the program does not have.                                       *)
Ends == outcome = "running" ~> outcome # "running"

=============================================================================
