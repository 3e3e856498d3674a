------------------------------- MODULE VMData -------------------------------
(***************************************************************************)
(* What the instructions of src/svm/vmrun.c do to values: arithmetic,       *)
(* comparison, lists, blocks, closures, globals, jumps on a condition or on *)
(* a constructor, calls and unit tests.  One step executes one instruction. *)
(*                                                                         *)
(* An instruction is a record with the name that the instruction table      *)
(* gives it, its registers r, and an operand k: a literal, the name of a    *)
(* global, a small integer or an offset.  Module Loader shows how it got    *)
(* there.  A function is a record with its arity and its code, whose last   *)
(* instruction is the sentinel halt.                                        *)
(*                                                                         *)
(* The limits of the stack and of the register file are in VMControl, and   *)
(* where objects lie and how they are moved in CopyingGC: here an object    *)
(* keeps its number in the heap.  Numbers are integers, which no operation  *)
(* here takes out of the range where doubles are exact; the instruction     *)
(* hash is left out, because its result is a number without a meaning.      *)
(***************************************************************************)
EXTENDS Values, SequencesExt, TLC

CONSTANTS Global,       \* names of globals
          NumRegisters

ASSUME VMDataAssumption == NumRegisters \in Nat \ {0}

VARIABLES
  fun, pc,        \* the running function, and the index of the instruction
  registers, base,
  stack,          \* activations: [fun, pc, base, dest, test]
  heap,           \* struct VMBlock and struct VMClosure, in order of allocation
  globals,
  awaiting,       \* vm->awaiting_expect, when a check awaits its expect
  out,            \* what has been printed, and the results of unit tests
  outcome         \* "running", "halted", "error", "undefined"; "translating" before
                  \* there is a module, "rejected" when there is none

control == <<fun, pc, base, stack>>
data == <<registers, heap, globals>>
tests == <<awaiting, out>>
vars == <<control, data, tests, outcome>>

Verdict(passed) == [tag |-> "Test", b |-> passed]
consSymbol == mkStringValue("cons")

\* What a slot of a new object holds before it is set.
Garbage == [tag |-> "Garbage"]

\* The machine at the first instruction of a module.
Loaded ==
  /\ pc = 1 /\ base = 0 /\ stack = <<>>
  /\ registers = [r \in 0..NumRegisters - 1 |-> nilValue]
  /\ heap = <<>>
  /\ globals = [g \in Global |-> nilValue]
  /\ awaiting = <<>> /\ out = <<>>

-----------------------------------------------------------------------------
(* Decoding *)

Instr == fun.code[pc]
Executes(ops) == outcome = "running" /\ Instr.op \in ops

X == Instr.r[1]
Y == Instr.r[2]
Z == Instr.r[3]
Reg(i) == registers[base + i]

WithRegister(i, v) == [registers EXCEPT ![base + i] = v]

\* The instruction sets register X to v.
Yields(v) == /\ registers' = WithRegister(X, v)
             /\ pc' = pc + 1
             /\ UNCHANGED <<fun, base, stack, heap, globals, tests, outcome>>

TestFrames == {i \in DOMAIN stack : stack[i].test}

\* runerror and typeerror, and what dofile and the head of vmrun do after the
\* longjmp: in a check-error the activations above the test's are popped with it,
\* and the test passes.
RunErrorWith(regs) ==
  IF TestFrames = {}
  THEN outcome' = "error" /\ UNCHANGED <<control, data, tests>>
  ELSE LET a == stack[Max(TestFrames)] IN
       /\ fun' = a.fun /\ pc' = a.pc + 1 /\ base' = a.base
       /\ stack' = SubSeq(stack, 1, Max(TestFrames) - 1)
       /\ registers' = regs
       /\ out' = Append(out, Verdict(TRUE))
       /\ UNCHANGED <<heap, globals, awaiting, outcome>>
RunError == RunErrorWith(registers)

\* A failed assertion, an access outside of an object, or one through a null pointer.
Undefined == outcome' = "undefined" /\ UNCHANGED <<control, data, tests>>

-----------------------------------------------------------------------------
(* Numbers, comparisons and other operations on values alone *)

\* C's division of integers truncates.
AbsValue(n) == IF n < 0 THEN -n ELSE n
Quotient(m, n) == LET q == AbsValue(m) \div AbsValue(n) IN IF (m < 0) = (n < 0) THEN q ELSE -q
Remainder(m, n) == m - n * Quotient(m, n)

Divisions == {"/", "idiv", "mod"}
BinaryOps == {"+", "-", "*", "<", ">", "<=", ">="} \cup Divisions

\* Programs divide with / only where there is no remainder.
Compute(op, m, n) ==
  CASE op = "+"  -> mkNumberValue(m + n)
    [] op = "-"  -> mkNumberValue(m - n)
    [] op = "*"  -> mkNumberValue(m * n)
    [] op \in {"/", "idiv"} -> mkNumberValue(Quotient(m, n))
    [] op = "mod" -> mkNumberValue(Remainder(m, n))
    [] op = "<"  -> mkBooleanValue(m < n)
    [] op = ">"  -> mkBooleanValue(m > n)
    [] op = "<=" -> mkBooleanValue(m <= n)
    [] op = ">=" -> mkBooleanValue(m >= n)

IsNumber(v) == v.tag = "Number"

Binary ==
  /\ Executes(BinaryOps)
  /\ IF IsNumber(Reg(Y)) /\ IsNumber(Reg(Z)) /\ ~(Instr.op \in Divisions /\ Reg(Z).n = 0)
     THEN Yields(Compute(Instr.op, Reg(Y).n, Reg(Z).n))
     ELSE RunError

\* neg, gt0, inc, dec, and the addition of an immediate operand, which is
\* encoded with an excess of 128.
UnaryOps == {"neg", "gt0", "inc", "dec", "+imm"}
Operand == IF Instr.op \in {"inc", "dec"} THEN Reg(X) ELSE Reg(Y)
ComputeUnary(op, n) ==
  CASE op = "neg" -> mkNumberValue(-n)
    [] op = "gt0" -> mkBooleanValue(n > 0)
    [] op = "inc" -> mkNumberValue(n + 1)
    [] op = "dec" -> mkNumberValue(n - 1)
    [] op = "+imm" -> mkNumberValue(n + (Instr.k - 128))

Unary ==
  /\ Executes(UnaryOps)
  /\ IF IsNumber(Operand) THEN Yields(ComputeUnary(Instr.op, Operand.n)) ELSE RunError

TagsOf ==
  [test \in {"nil?", "boolean?", "number?", "symbol?", "null?", "pair?", "function?"} |->
     CASE test = "nil?"      -> {"Nil"}
       [] test = "boolean?"  -> {"Boolean"}
       [] test = "number?"   -> {"Number"}
       [] test = "symbol?"   -> {"String"}
       [] test = "null?"     -> {"Emptylist"}
       [] test = "pair?"     -> {"ConsCell"}
       [] test = "function?" -> {"VMFunction", "VMClosure"}]

TypeTest ==
  /\ Executes(DOMAIN TagsOf)
  /\ Yields(mkBooleanValue(Reg(Y).tag \in TagsOf[Instr.op]))

Copy   == Executes({"copy"}) /\ Yields(Reg(Y))
Not    == Executes({"not"}) /\ Yields(mkBooleanValue(~asBool(Reg(Y))))
BoolOf == Executes({"boolOf"}) /\ Yields(mkBooleanValue(asBool(Reg(Y))))
Eq     == Executes({"="}) /\ Yields(mkBooleanValue(eqvalue(Reg(Y), Reg(Z))))

Swap ==
  /\ Executes({"swap"})
  /\ registers' = [registers EXCEPT ![base + X] = Reg(Y), ![base + Y] = Reg(X)]
  /\ pc' = pc + 1
  /\ UNCHANGED <<fun, base, stack, heap, globals, tests, outcome>>

LoadLiteral == Executes({"loadliteral"}) /\ Yields(Instr.k)
GetGlobal   == Executes({"getglobal"}) /\ Yields(globals[Instr.k])

SetGlobal ==
  /\ Executes({"setglobal"})
  /\ globals' = [globals EXCEPT ![Instr.k] = Reg(X)]
  /\ pc' = pc + 1
  /\ UNCHANGED <<fun, base, stack, registers, heap, tests, outcome>>

-----------------------------------------------------------------------------
(* Cons cells, blocks and closures *)

Slots(v) == heap[v.p].slots

\* Register X is set to a new object with n slots, of which the first are set.
Allocate(tag, f, n, set) ==
  /\ heap' = Append(heap, [tag |-> tag, f |-> f, slots |-> [i \in 1..n |->
                                                  IF i \in DOMAIN set THEN set[i] ELSE Garbage]])
  /\ registers' = WithRegister(X, mkPointerValue(tag, Len(heap) + 1))
  /\ pc' = pc + 1
  /\ UNCHANGED <<fun, base, stack, globals, tests, outcome>>

SetSlot(v, i, w) ==
  /\ heap' = [heap EXCEPT ![v.p].slots[i] = w]
  /\ pc' = pc + 1
  /\ UNCHANGED <<fun, base, stack, registers, globals, tests, outcome>>

MkCons == Executes({"cons"}) /\ Allocate("ConsCell", nilValue, 2, <<Reg(Y), Reg(Z)>>)

CarCdr ==
  /\ Executes({"car", "cdr"})
  /\ IF Reg(Y).tag = "ConsCell"
     THEN Yields(Slots(Reg(Y))[IF Instr.op = "car" THEN 1 ELSE 2])
     ELSE RunError

MkBlock == Executes({"mkblock"}) /\ Allocate("Block", nilValue, Instr.k, <<Reg(Y)>>)

SetBlockSlot ==
  /\ Executes({"setblockslot"})
  /\ IF Reg(X).tag # "Block" THEN RunError
     ELSE IF Instr.k >= Len(Slots(Reg(X))) THEN Undefined
     ELSE SetSlot(Reg(X), Instr.k + 1, Reg(Y))

\* A cons cell answers as a block with the symbol cons in slot 0 would.
BlockSlots(v) == IF v.tag = "ConsCell" THEN <<consSymbol>> \o Slots(v) ELSE Slots(v)

GetBlockSlot ==
  /\ Executes({"getblockslot"})
  /\ IF Reg(Y).tag \in {"ConsCell", "Block"} /\ Instr.k < Len(BlockSlots(Reg(Y)))
     THEN Yields(BlockSlots(Reg(Y))[Instr.k + 1])
     ELSE RunError

MkClosure ==
  /\ Executes({"mkclosure"})
  /\ IF Reg(Y).tag = "VMFunction" THEN Allocate("VMClosure", Reg(Y), Instr.k, <<>>) ELSE RunError

SetClSlot ==
  /\ Executes({"setclslot"})
  /\ IF Reg(X).tag # "VMClosure" THEN RunError
     ELSE IF Instr.k >= Len(Slots(Reg(X))) THEN Undefined
     ELSE SetSlot(Reg(X), Instr.k + 1, Reg(Y))

GetClSlot ==
  /\ Executes({"getclslot"})
  /\ IF Reg(Y).tag # "VMClosure" THEN RunError
     ELSE IF Instr.k >= Len(Slots(Reg(Y))) THEN Undefined
     ELSE Yields(Slots(Reg(Y))[Instr.k + 1])

-----------------------------------------------------------------------------
(* Control *)

JumpTo(i) == pc' = i /\ UNCHANGED <<fun, base, stack, data, tests, outcome>>

If == Executes({"if"}) /\ JumpTo(IF asBool(Reg(X)) THEN pc + 1 ELSE pc + 2)
Goto == Executes({"goto"}) /\ JumpTo(pc + 1 + Instr.k)
Gc == Executes({"gc"}) /\ JumpTo(pc + 1)

\* The end of the module's code, or of a function that does not return.
Halt == Executes({"halt"}) /\ outcome' = "halted" /\ UNCHANGED <<control, data, tests>>

\* The constructor of a scrutinee, and how many arguments it has.
Constructor(v) == IF v.tag \in {"Block", "ConsCell"} THEN BlockSlots(v)[1] ELSE v
ConArity(v) == IF v.tag \in {"Block", "ConsCell"} THEN Len(BlockSlots(v)) - 1 ELSE 0

\* The jump table is a sequence of pairs of an if-vcon-match and a goto.
GotoVcon ==
  /\ Executes({"goto-vcon"})
  /\ LET v == Reg(X)
         Case(i) == pc + 2 * i - 1
         Matches(i) == /\ fun.code[Case(i)].r[1] = ConArity(v)
                       /\ eqvalue(fun.code[Case(i)].k, Constructor(v))
         found == {i \in 1..Instr.k : Matches(i)}
     IN  JumpTo(IF found = {} THEN pc + 1 + 2 * Instr.k
                ELSE Case(Min(found)) + 2 + fun.code[Case(Min(found)) + 1].k)

\* The function to call, of a value that is one.
IsFunction(v) == v.tag \in TagsOf["function?"]
Callee(v) == IF v.tag = "VMFunction" THEN v.f ELSE heap[v.p].f.f

\* Mutant of Activation: the instruction to return to is that after the call.
ActivationOfNext(dest, test) ==
  [fun |-> fun, pc |-> pc + 1, base |-> base, dest |-> dest, test |-> test]

Activation(dest, test) == [fun |-> fun, pc |-> pc, base |-> base, dest |-> dest, test |-> test]

\* The activation of a call with a wrong number of arguments is pushed before the
\* error that pops it again.
Call ==
  /\ Executes({"call"})
  /\ IF ~IsFunction(Reg(Y)) \/ Callee(Reg(Y)).arity # Z - Y
     THEN RunError
     ELSE /\ stack' = Append(stack, Activation(X, FALSE))
          /\ fun' = Callee(Reg(Y)) /\ pc' = 1 /\ base' = base + Y
          /\ UNCHANGED <<data, tests, outcome>>

\* The function and its arguments are copied before the arity is checked.
Tailcall ==
  /\ Executes({"tailcall"})
  /\ LET moved == [i \in DOMAIN registers |->
                     IF i \in base..base + (Y - X) THEN registers[i + X] ELSE registers[i]]
     IN  IF ~IsFunction(Reg(X)) THEN RunError
         ELSE IF Callee(Reg(X)).arity # Y - X THEN RunErrorWith(moved)
         ELSE /\ fun' = Callee(Reg(X)) /\ pc' = 1
              /\ registers' = moved
              /\ UNCHANGED <<base, stack, heap, globals, tests, outcome>>

\* A test that ends in a return, and not in an error, has failed.
Return ==
  /\ Executes({"return"})
  /\ IF stack = <<>>
     THEN RunError
     ELSE LET a == Last(stack) IN
          /\ stack' = Front(stack)
          /\ fun' = a.fun /\ pc' = a.pc + 1 /\ base' = a.base
          /\ IF a.test
             THEN out' = Append(out, Verdict(FALSE)) /\ UNCHANGED registers
             ELSE registers' = [registers EXCEPT ![a.base + a.dest] = Reg(X)] /\ UNCHANGED out
          /\ UNCHANGED <<heap, globals, awaiting, outcome>>

-----------------------------------------------------------------------------
(* Output and unit tests *)

\* A value as it is printed and as eqtests sees it: a tree of cells and blocks, with
\* a leaf for every function.
TreeWith(function, v) ==
  LET leaf(w) == IF IsFunction(w) THEN function ELSE w
      tree[p \in DOMAIN heap] ==
        LET slots == BlockSlots(mkPointerValue(heap[p].tag, p)) IN
        [tag |-> "Block", slots |-> [i \in DOMAIN slots |->
           IF slots[i].tag \in {"ConsCell", "Block"} THEN tree[slots[i].p] ELSE leaf(slots[i])]]
  IN IF v.tag \in {"ConsCell", "Block"} THEN tree[v.p] ELSE leaf(v)
Tree(v) == TreeWith([tag |-> "VMFunction"], v)

\* A function is equal to none, not to itself either.  Programs test no value that has
\* a function in it: a block would be equal to itself even then.
eqtests(v, w) ==
  TreeWith([tag |-> "VMFunction", of |-> 1], v) = TreeWith([tag |-> "VMFunction", of |-> 2], w)

Emit(o) == /\ out' = Append(out, o)
           /\ pc' = pc + 1
           /\ UNCHANGED <<fun, base, stack, data, outcome>>

\* vmrun has no case for the entry of a jump table, which only goto-vcon reads: the
\* default prints that the opcode is not implemented, and control goes on.
Output ==
  /\ Executes({"print", "println", "printl", "printlnl", "if-vcon-match"})
  /\ Emit(CASE Instr.op \in {"print", "println"}   -> Tree(Reg(X))
            [] Instr.op \in {"printl", "printlnl"} -> Instr.k
            [] OTHER                               -> [tag |-> "Message"])
  /\ UNCHANGED awaiting

\* What printunicode takes for a code point: what fits in 21 bits.
CodePoint == 0..2^21 - 1

\* For another number printunicode calls runerror with no machine, and stackunwind
\* goes through the null pointer.
Printu ==
  /\ Executes({"printu"})
  /\ IF ~IsNumber(Reg(X)) THEN RunError
     ELSE IF Reg(X).n \notin CodePoint THEN Undefined
     ELSE Emit(Reg(X)) /\ UNCHANGED awaiting

Error == Executes({"error"}) /\ RunError

\* check, expect, and check-assert, which is a check and an expect of true.
Check ==
  /\ Executes({"check"})
  /\ IF awaiting # <<>> THEN Undefined
     ELSE /\ awaiting' = <<Reg(X)>> /\ pc' = pc + 1
          /\ UNCHANGED <<fun, base, stack, data, out, outcome>>

Expect ==
  /\ Executes({"expect"})
  /\ IF awaiting = <<>> THEN Undefined
     ELSE awaiting' = <<>> /\ Emit(Verdict(eqtests(awaiting[1], Reg(X))))

CheckAssert ==
  /\ Executes({"check-assert"})
  /\ IF awaiting # <<>> THEN Undefined
     ELSE Emit(Verdict(eqtests(Reg(X), mkBooleanValue(TRUE)))) /\ UNCHANGED awaiting

CheckError ==
  /\ Executes({"check-error"})
  /\ IF TestFrames # {} THEN Undefined
     ELSE IF Reg(X).tag # "VMFunction" THEN RunError
     ELSE IF Reg(X).f.arity # 0 THEN Undefined
     ELSE /\ stack' = Append(stack, Activation(X, TRUE))
          /\ fun' = Reg(X).f /\ pc' = 1
          /\ UNCHANGED <<base, data, tests, outcome>>

-----------------------------------------------------------------------------
Next ==
  \/ Binary \/ Unary \/ TypeTest \/ Copy \/ Not \/ BoolOf \/ Eq \/ Swap
  \/ LoadLiteral \/ GetGlobal \/ SetGlobal
  \/ MkCons \/ CarCdr \/ MkBlock \/ SetBlockSlot \/ GetBlockSlot
  \/ MkClosure \/ SetClSlot \/ GetClSlot
  \/ If \/ Goto \/ Gc \/ GotoVcon \/ Call \/ Tailcall \/ Return \/ Halt
  \/ Output \/ Printu \/ Error \/ Check \/ Expect \/ CheckAssert \/ CheckError

-----------------------------------------------------------------------------
ObjectTags == {"ConsCell", "Block", "VMClosure"}

\* A value whose pointer points to an object of its tag.
WellFormed(v) ==
  /\ v.tag \in {"Nil", "Emptylist", "String", "Boolean", "Number", "VMFunction"} \cup ObjectTags
  /\ v.tag = "Boolean" => v.b \in BOOLEAN
  /\ v.tag = "Number" => v.n \in Int
  /\ v.tag = "VMFunction" => v.f.arity \in 0..255 /\ v.f.code # <<>>
  /\ v.tag \in ObjectTags => v.p \in DOMAIN heap /\ heap[v.p].tag = v.tag

(* Type correctness of vmrun's variables: control is at an instruction of the *)
(* running function, every activation is that of a call, a tail call or a     *)
(* test, and no register, global or set slot holds what is not a value.       *)
TypeOK ==
  /\ pc \in DOMAIN fun.code
  /\ base \in DOMAIN registers
  /\ \A i \in DOMAIN stack :
       /\ stack[i].pc \in DOMAIN stack[i].fun.code
       /\ stack[i].base <= IF i = Len(stack) THEN base ELSE stack[i + 1].base
       /\ stack[i].fun.code[stack[i].pc].op = IF stack[i].test THEN "check-error" ELSE "call"
  /\ \A r \in DOMAIN registers : WellFormed(registers[r])
  /\ \A g \in Global : WellFormed(globals[g])
  /\ \A p \in DOMAIN heap : \A i \in DOMAIN heap[p].slots :
       heap[p].slots[i] = Garbage \/ WellFormed(heap[p].slots[i])
  /\ \A i \in DOMAIN awaiting : WellFormed(awaiting[i])
  /\ outcome \in {"translating", "rejected", "running", "halted", "error", "undefined"}

\* Where vmrun may call the collector: at a call, a tail call, a jump backward
\* and a gc.
MayCollect ==
  Executes({"call", "tailcall", "gc"}) \/ (Executes({"goto"}) /\ Instr.k < 0)

(* mkblock and mkclosure leave slots unset, which the instructions that follow *)
(* set: no collection may come before they have, since the collector would     *)
(* take what is in them for values.                                            *)
CollectionsFindValues ==
  MayCollect => \A p \in DOMAIN heap : Garbage \notin Range(heap[p].slots)

(* The machine never fails an assertion, reads outside of an object or through *)
(* a null pointer, runs into a jump table, or stops in a function that the     *)
(* module has called.                                                         *)
NoFault ==
  /\ outcome # "undefined"
  /\ ~Executes({"if-vcon-match"})
  /\ outcome = "halted" => stack = <<>>

(* The one fault that the text of the code does not rule out: printu of a      *)
(* number that is not a code point.                                           *)
FaultsInPrintu ==
  /\ outcome = "undefined"
  /\ Instr.op = "printu" /\ IsNumber(Reg(X)) /\ Reg(X).n \notin CodePoint

=============================================================================
