----------------------------- MODULE ObjectCode -----------------------------
(***************************************************************************)
(* What the machine takes on trust.  vmrun checks tags, arities and the      *)
(* indices of blocks; it does not check that a jump stays in its function,  *)
(* that a closure has the slots its function reads, that a new object is    *)
(* filled before it is used, or that a check is followed by its expect.     *)
(* The code generator and the assembler see to that (module Compiler).       *)
(*                                                                         *)
(* A certificate of a function says what holds before each instruction that *)
(* can be reached: which slots of which new objects are yet to be set,      *)
(* whether register 0 still holds the function's own closure, which literal *)
(* has just been loaded, and whether a check awaits its expect.             *)
(***************************************************************************)
EXTENDS VMData

\* Where control may go within a function from its i-th instruction, calls and
\* check-errors that have returned included.
Successors(code, i) ==
  IF code[i].op \in {"return", "tailcall", "error", "halt"} THEN {}
  ELSE IF code[i].op = "goto" THEN {i + 1 + code[i].k}
  ELSE IF code[i].op = "if" THEN {i + 1, i + 2}
  ELSE IF code[i].op = "goto-vcon"
  THEN {i + 1 + 2 * code[i].k} \cup {i + 2 * j + 1 + code[i + 2 * j].k : j \in 1..code[i].k}
  ELSE {i + 1}

\* The registers of an instruction, and those of its own window that it sets.
Three == BinaryOps \cup {"=", "cons", "call"}
Two == DOMAIN TagsOf \cup
  {"neg", "gt0", "+imm", "copy", "not", "boolOf", "swap", "car", "cdr", "mkblock", "setblockslot",
   "getblockslot", "mkclosure", "setclslot", "getclslot", "tailcall"}
One == {"inc", "dec", "loadliteral", "getglobal", "setglobal", "if", "goto-vcon", "return", "print",
        "println", "printu", "error", "check", "expect", "check-assert", "check-error"}
None == {"goto", "gc", "halt", "printl", "printlnl"}

Uses(ins) == IF ins.op \in Three THEN 1..3 ELSE IF ins.op \in Two THEN 1..2
             ELSE IF ins.op \in One THEN {1} ELSE {}

HasResult == BinaryOps \cup UnaryOps \cup DOMAIN TagsOf \cup
  {"copy", "not", "boolOf", "=", "swap", "loadliteral", "getglobal", "cons", "car", "cdr", "mkblock",
   "getblockslot", "mkclosure", "getclslot", "call"}

\* A call may leave anything in the registers from that of the function on.
Overwrites(ins) ==
  \/ ins.op \in HasResult /\ ins.r[1] = 0
  \/ ins.op \in {"swap", "call"} /\ ins.r[2] = 0

\* The captured variables that a function reads.
Captured(f) == {f.code[i].k : i \in {j \in DOMAIN f.code : f.code[j].op = "getclslot"}}

LoadsFunction(ins) == ins.op = "loadliteral" /\ ins.k.tag = "VMFunction"

\* The slots, from 0, that an instruction leaves to be set, and that it sets.
Making == {"mkblock", "mkclosure"}
Filling == {"setblockslot", "setclslot"}
TagMade(op) == IF op \in {"mkblock", "setblockslot"} THEN "Block" ELSE "VMClosure"
Leaves(ins) ==
  IF ins.op \notin Making THEN {}
  ELSE {<<TagMade(ins.op), ins.r[1], j>> : j \in (IF ins.op = "mkblock" THEN 1 ELSE 0)..ins.k - 1}
Fills(ins) == IF ins.op \in Filling THEN {<<TagMade(ins.op), ins.r[1], ins.k>>} ELSE {}

\* What holds before the first instruction, and after the i-th before which s holds.
AtStart == [unset |-> {}, facts |-> {"own closure"}, loaded |-> {}]
After(code, i, s) ==
  LET ins == code[i] IN
  [unset  |-> (s.unset \ Fills(ins)) \cup Leaves(ins),
   facts  |-> {a \in s.facts : /\ a = "own closure" => ~Overwrites(ins)
                               /\ a = "awaits" => ins.op # "expect"}
              \cup (IF ins.op = "check" THEN {"awaits"} ELSE {}),
   loaded |-> IF LoadsFunction(ins) THEN {i} ELSE {}]

\* A certificate may forget what register 0 and a register just loaded hold, but a
\* function that needs a closure is never without one for longer than an instruction.
Leads(code, s, t) ==
  /\ t.unset = s.unset
  /\ "awaits" \in s.facts <=> "awaits" \in t.facts
  /\ "own closure" \in t.facts => "own closure" \in s.facts
  /\ t.loaded = s.loaded \/ (t.loaded = {} /\ \A p \in s.loaded : Captured(code[p].k.f) = {})

-----------------------------------------------------------------------------
(* What an instruction may be where s holds *)

\* Operands are of their types.
HasOperands(ins) ==
  /\ ins.op \in Three \cup Two \cup One \cup None
  /\ Uses(ins) \subseteq DOMAIN ins.r /\ \A j \in Uses(ins) : ins.r[j] \in Nat
  /\ ins.op = "loadliteral" =>
       /\ ins.k.tag \in {"Nil", "Emptylist", "String", "Boolean", "Number", "VMFunction"}
       /\ ins.k.tag = "Boolean" => ins.k.b \in BOOLEAN
       /\ ins.k.tag = "Number" => ins.k.n \in Int
  /\ ins.op \in {"getglobal", "setglobal"} => ins.k \in Global
  /\ ins.op \in {"+imm", "goto"} => ins.k \in Int
  /\ ins.op \in {"getblockslot", "goto-vcon"} \cup Making \cup Filling => ins.k \in Nat

\* New objects are filled at once, and by instructions that cannot fail.
FillsObjects(ins, s) ==
  /\ s.unset # {} => ins.op \in {"loadliteral"} \cup Making \cup Filling
  /\ ins.op \in {"loadliteral"} \cup Making => \A u \in s.unset : u[2] # ins.r[1]
  /\ ins.op \in Filling => Fills(ins) \subseteq s.unset
  /\ ins.op = "mkblock" => ins.k # 0

\* A closure is made of a function that was loaded into its register, with a slot
\* for every variable that the function reads; the register 0 is read from.
MakesClosures(code, ins, s) ==
  /\ ins.op = "mkclosure" =>
       /\ ins.r[1] = ins.r[2]
       /\ \E p \in s.loaded : code[p].r[1] = ins.r[1] /\ Captured(code[p].k.f) \subseteq 0..ins.k - 1
  /\ \A p \in s.loaded :
       Captured(code[p].k.f) # {} => ins.op = "mkclosure" /\ ins.r[1] = code[p].r[1]
  /\ ins.op = "getclslot" => ins.r[2] = 0 /\ "own closure" \in s.facts

\* Tests are in the module, and so is the only halt that is reached.
KeepsToItsPlace(code, ins, s, isModule) ==
  /\ ins.op \in {"check", "expect", "check-assert", "check-error", "halt"} => isModule
  /\ ins.op \in {"getclslot", "tailcall"} => ~isModule
  /\ ins.op \in {"check", "check-assert", "check-error"} => "awaits" \notin s.facts
  /\ ins.op = "expect" => "awaits" \in s.facts
  /\ ins.op = "check-error" => \E p \in s.loaded : code[p].r[1] = ins.r[1] /\ code[p].k.f.arity = 0

Allowed(code, ins, s, isModule) ==
  /\ HasOperands(ins) /\ FillsObjects(ins, s) /\ MakesClosures(code, ins, s)
  /\ KeepsToItsPlace(code, ins, s, isModule)

\* certificate is a function of the places that control can reach.
IsCertified(f, certificate, isModule) ==
  /\ f.arity \in 0..255
  /\ DOMAIN f.code = 1..Len(f.code) /\ DOMAIN certificate \subseteq DOMAIN f.code
  /\ 1 \in DOMAIN certificate /\ Leads(f.code, AtStart, certificate[1])
  /\ \A i \in DOMAIN certificate :
       /\ certificate[i].loaded \subseteq {j \in DOMAIN certificate : LoadsFunction(f.code[j])}
       /\ Allowed(f.code, f.code[i], certificate[i], isModule)
       /\ Successors(f.code, i) \subseteq DOMAIN certificate
       /\ \A j \in Successors(f.code, i) :
            Leads(f.code, After(f.code, i, certificate[i]), certificate[j])

=============================================================================
