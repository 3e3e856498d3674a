----------------------------- MODULE VMControl -----------------------------
(***************************************************************************)
(* The control of the virtual machine: vmrun's calls, tail calls, returns, *)
(* jumps and check-error tests (vmrun.c), the error handler that unwinds   *)
(* the frame stack and jumps (vmerror.c), the loop that loads and runs one *)
(* module after the other and is jumped back to (svm.c), and the counters  *)
(* of unit tests (check-expect.c).                                         *)
(*                                                                         *)
(* The program is data: a code in Programs gives every function a sequence *)
(* of instructions.  Of the instructions that only compute, the module has *)
(* one that loads a literal, one that allocates and may fail, and one that *)
(* fails.  Memory is abstracted to what control sees of it: a pointer to a *)
(* function is valid until the next collection unless it is a root.        *)
(***************************************************************************)
EXTENDS Integers, Sequences, FiniteSetsExt

CONSTANTS Functions,        \* code objects that are not modules
          Modules,          \* the modules, in the order in which they are loaded
          Arity,            \* arity of each function
          Programs,         \* codes: what each function's instructions are
          MAX_STACK_FRAMES,
          NUM_REGISTERS

Registers == 0..NUM_REGISTERS - 1

Nil    == [tag |-> "Nil"]
True   == [tag |-> "Boolean"]
Number == [tag |-> "Number"]
VMFunction(f) == [tag |-> "VMFunction", f |-> f]
VMClosure(f)  == [tag |-> "VMClosure", f |-> f]
Value ==
  {Nil, True, Number} \cup [tag : {"VMFunction", "VMClosure"}, f : Functions]

Opcode == {"Halt", "LoadLiteral", "MkClosure", "Error", "Check", "Expect",
           "CheckAssert", "CheckError", "If", "Goto", "Gc", "Return", "Call",
           "Tailcall"}

\* Three registers, and the offset, the literal's slot or the literal.
Instruction ==
  [op : Opcode, x : 0..255, y : 0..255, z : 0..255, k : Int, v : Value]

HaltSentinel == [op |-> "Halt", x |-> 0, y |-> 0, z |-> 0, k |-> 0, v |-> Nil]

ModuleSet == {Modules[i] : i \in DOMAIN Modules}
CodeObject == Functions \cup ModuleSet

ASSUME ModulesAssumption ==
  /\ Modules \in Seq(ModuleSet) /\ Modules # <<>>
  /\ ModuleSet \cap Functions = {}

ASSUME ArityAssumption == Arity \in [Functions -> 0..255]

\* Where control may go within a function from its i-th instruction.
Flow(ins, i) ==
  CASE ins.op \in {"Return", "Tailcall", "Error"} -> {}
    [] ins.op = "Goto" -> {i + 1 + ins.k}
    [] ins.op = "If"   -> {i + 1, i + 2}
    [] OTHER           -> {i + 1}

\* No function halts or runs off its end: the compiler ends every path through
\* one in a return or a tail call (codegen.sml).
ASSUME ProgramsAssumption ==
  \A p \in Programs :
    /\ p \in [CodeObject -> Seq(Instruction)]
    /\ \A f \in Functions :
         /\ p[f] # <<>>
         /\ \A i \in DOMAIN p[f] : /\ p[f][i].op # "Halt"
                                  /\ Flow(p[f][i], i) \subseteq DOMAIN p[f]

ASSUME LimitsAssumption == MAX_STACK_FRAMES \in Nat /\ NUM_REGISTERS \in Nat

\* A call's destination is a register; the frame of a check-error test has the
\* literal slot of the test's source text instead, negated.
ASSUME SlotsAssumption ==
  \A p \in Programs : \A f \in CodeObject : \A i \in DOMAIN p[f] :
    p[f][i].op = "CheckError" => p[f][i].k \in Nat

\* No message is the string "cons", which vmstate.c puts in slot 0.
MessagesAreNotInSlotZero ==
  \A p \in Programs : \A f \in CodeObject : \A i \in DOMAIN p[f] :
    p[f][i].op = "CheckError" => p[f][i].k > 0

VARIABLES code,            \* the program
          next,            \* dofile: number of the next module
          module,          \* dofile's local `module`
          fun,             \* vm->fun, and vmrun's local `fun`
          pc,              \* the instruction that vmrun's local `pc` points to
          counter,         \* vm->counter
          R_window_start,
          registers,
          Stack,
          mode,            \* vmerror.c
          checks,          \* check-expect.c: is a check waiting for its expect?
          awaiting_expect,
          ntests, npassed,
          nfailed,         \* failures reported on standard error
          gc_needed,
          status,          \* where the C program is
          trial            \* history: the machine as the last check-error found it

vmvars   == <<counter, R_window_start, registers, Stack>>
testvars == <<checks, awaiting_expect, ntests, npassed, nfailed>>
vars     == <<code, next, module, fun, pc, vmvars, mode, testvars, gc_needed,
              status, trial>>

\* A pointer to function f; not valid when a collection moved f and did not
\* forward the pointer.
Pointer == [f : CodeObject, valid : BOOLEAN]
Address == [f : CodeObject, i : Int]

\* `counter` is a distance from fun's instructions, here the address that it
\* denotes.  `base` and `kept` are history: the window of the function that was
\* called, and the registers as they were when the frame was pushed.
Frame ==
  [fun : Pointer, counter : Address, R_window_start : Nat, dest_reg_idx : Int,
   base : Nat, kept : [Registers -> Value]]

Init ==
  /\ code \in Programs
  /\ next = 1
  /\ module = [f |-> Modules[1], valid |-> FALSE]
  /\ fun = module
  /\ pc = [f |-> fun.f, i |-> 0]
  /\ counter = 0
  /\ R_window_start = 0
  /\ registers = [r \in Registers |-> Nil]
  /\ Stack = <<>>
  /\ mode = "NORMAL"
  /\ checks = FALSE
  /\ awaiting_expect = Nil
  /\ ntests = 0 /\ npassed = 0 /\ nfailed = 0
  /\ gc_needed = FALSE
  /\ status = "loading"
  /\ trial = [pc |-> pc, R_window_start |-> 0, Stack |-> <<>>]

-----------------------------------------------------------------------------
(* Fetching. *)

InCode == pc.i \in 0..Len(code[pc.f])
Instr  == IF pc.i < Len(code[pc.f]) THEN code[pc.f][pc.i + 1] ELSE HaltSentinel

Reg(x) == R_window_start + x

\* A call and a tail call read their last operand as a number only.
Accessed(i) ==
  CASE i.op = "Tailcall" -> {i.x}
    [] i.op = "Call"     -> {i.x, i.y}
    [] OTHER             -> {i.x, i.y, i.z}

InFile == \A x \in Accessed(Instr) : Reg(x) \in Registers

\* The loader sets nregs to one more than the largest register that a function's
\* instructions mention; the one that a .load sets to a function does not count.
Mentioned(i) ==
  IF i.op = "LoadLiteral" /\ i.v.tag = "VMFunction" THEN {} ELSE {i.x, i.y, i.z}

RegistersOf(f) ==
  {0} \cup UNION {Mentioned(code[f][n]) : n \in DOMAIN code[f]}

\* A call, a tail call and a backward jump collect before anything else.
CollectionIsDue ==
  /\ gc_needed
  /\ \/ Instr.op \in {"Call", "Tailcall"}
     \/ Instr.op = "Goto" /\ Instr.k < 0

Executes(op) ==
  status = "running" /\ InCode /\ Instr.op = op /\ InFile /\ ~CollectionIsDue

Proceed == pc' = [pc EXCEPT !.i = @ + 1]

\* Mutant of SetRegister: the window is forgotten.
SetRegisterOfFile(x, v) == registers' = [registers EXCEPT ![x] = v]

SetRegister(x, v) == registers' = [registers EXCEPT ![Reg(x)] = v]

-----------------------------------------------------------------------------
(* Errors (vmerror.c). *)

ErrorFrames(stack) == {i \in DOMAIN stack : stack[i].dest_reg_idx < 0}

\* Mutant of Unwound: the frame of the test is popped with the others.
UnwoundTooFar(stack) == SubSeq(stack, 1, Max({0} \cup ErrorFrames(stack)) - 1)

\* stackunwind pops the frames above the topmost frame of a check-error test.
Unwound(stack) == SubSeq(stack, 1, Max({0} \cup ErrorFrames(stack)))

\* runerror, runerror_p and typeerror: the program stops, or control jumps to
\* dofile, which calls vmrun again.
RunError(stack) ==
  /\ Stack' = Unwound(stack)
  /\ status' = IF mode = "NORMAL" THEN "aborted" ELSE "entering"
  /\ UNCHANGED <<fun, pc, counter, R_window_start, mode, testvars, gc_needed, trial>>

\* What C leaves undefined ends the behaviour.
Undefined == status' = "undefined"
Abort     == status' = "aborted"

-----------------------------------------------------------------------------
(* Modules (svm.c, and the head of vmrun). *)

\* loadmodule allocates, so that a collection may be due when it returns.
LoadModule ==
  /\ status = "loading"
  /\ next <= Len(Modules)
  /\ module' = [f |-> Modules[next], valid |-> TRUE]
  /\ next' = next + 1
  /\ gc_needed' \in {gc_needed, TRUE}
  /\ status' = "entering"
  /\ UNCHANGED <<code, fun, pc, vmvars, mode, testvars, trial>>

\* report_unit_tests prints and resets the counters.
Finish ==
  /\ status = "loading"
  /\ next > Len(Modules)
  /\ ntests' = 0 /\ npassed' = 0
  /\ status' = "exit"
  /\ UNCHANGED <<code, next, module, fun, pc, vmvars, mode, checks,
                 awaiting_expect, nfailed, gc_needed, trial>>

\* VMLOAD takes the place to start from vm->counter.
EnterModule ==
  /\ status = "entering"
  /\ mode = "NORMAL"
  /\ fun' = module
  /\ IF code[module.f] = <<>>
     THEN status' = "loading" /\ pc' = pc
     ELSE status' = "running" /\ pc' = [f |-> module.f, i |-> counter]
  /\ UNCHANGED <<code, next, module, vmvars, mode, testvars, gc_needed, trial>>

\* After an error in a check-error test: the test passes, and its frame says
\* where to go on.  The stack pointer is unsigned: popping an empty stack would
\* read outside it.
ReenterModule ==
  /\ status = "entering"
  /\ mode = "TESTING"
  /\ fun' = module
  /\ npassed' = npassed + 1
  /\ mode' = "NORMAL"
  /\ IF Stack = <<>>
     THEN Undefined /\ UNCHANGED <<pc, R_window_start, Stack>>
     ELSE LET a == Stack[Len(Stack)]
          IN  /\ R_window_start' = a.R_window_start
              /\ pc' = [a.counter EXCEPT !.i = @ + 1]
              /\ Stack' = SubSeq(Stack, 1, Len(Stack) - 1)
              /\ status' = "running"
  /\ UNCHANGED <<code, next, module, counter, registers, checks, awaiting_expect,
                 ntests, nfailed, gc_needed, trial>>

Halt ==
  /\ Executes("Halt")
  /\ status' = "loading"
  /\ UNCHANGED <<code, next, module, fun, pc, vmvars, mode, testvars, gc_needed, trial>>

-----------------------------------------------------------------------------
(* Instructions within a function. *)

LoadLiteral ==
  /\ Executes("LoadLiteral")
  /\ SetRegister(Instr.x, Instr.v)
  /\ Proceed
  /\ UNCHANGED <<code, next, module, fun, counter, R_window_start, Stack, mode,
                 testvars, gc_needed, status, trial>>

MkClosure ==
  /\ Executes("MkClosure")
  /\ LET v == registers[Reg(Instr.y)]
     IN  IF v.tag = "VMFunction"
         THEN /\ SetRegister(Instr.x, VMClosure(v.f))
              /\ gc_needed' \in {gc_needed, TRUE}
              /\ Proceed
              /\ UNCHANGED <<fun, counter, R_window_start, Stack, mode, testvars,
                             status, trial>>
         ELSE RunError(Stack) /\ UNCHANGED registers
  /\ UNCHANGED <<code, next, module>>

Error ==
  /\ Executes("Error")
  /\ RunError(Stack)
  /\ UNCHANGED <<code, next, module, registers>>

If ==
  /\ Executes("If")
  /\ pc' = [pc EXCEPT !.i = @ + (IF registers[Reg(Instr.x)] = Nil THEN 2 ELSE 1)]
  /\ UNCHANGED <<code, next, module, fun, vmvars, mode, testvars, gc_needed,
                 status, trial>>

Goto ==
  /\ Executes("Goto")
  /\ pc' = [pc EXCEPT !.i = @ + 1 + Instr.k]
  /\ UNCHANGED <<code, next, module, fun, vmvars, mode, testvars, gc_needed,
                 status, trial>>

-----------------------------------------------------------------------------
(* Collections.  VMSAVE turns pc into a distance from vm->fun, gc forwards   *)
(* the roots, and VMLOAD turns the distance back: this is defined if vm->fun *)
(* and the frames' functions are valid pointers to the functions that pc and *)
(* the frames' counters are in.                                              *)

WindowFits(base, f) == \A n \in RegistersOf(f) : base + n \in Registers

RootsAreSound ==
  /\ fun.valid /\ fun.f = pc.f
  /\ \A i \in DOMAIN Stack : Stack[i].fun.valid /\ Stack[i].fun.f = Stack[i].counter.f
  /\ WindowFits(R_window_start, fun.f)

\* scan_vmstate clears the registers above the running function's; dofile's
\* local `module` is not a root.
GC ==
  IF RootsAreSound
  THEN /\ counter' = pc.i
       /\ registers' = [r \in Registers |->
                          IF \E n \in RegistersOf(fun.f) : r <= Reg(n) THEN registers[r] ELSE Nil]
       /\ module' = [module EXCEPT !.valid = FALSE]
       /\ gc_needed' = FALSE
       /\ status' = status
  ELSE Undefined /\ UNCHANGED <<counter, registers, module, gc_needed>>

Collect ==
  /\ status = "running" /\ InCode /\ InFile
  /\ CollectionIsDue
  /\ GC
  /\ UNCHANGED <<code, next, fun, pc, R_window_start, Stack, mode, testvars, trial>>

Gc ==
  /\ Executes("Gc")
  /\ GC
  /\ Proceed
  /\ UNCHANGED <<code, next, fun, R_window_start, Stack, mode, testvars, trial>>

-----------------------------------------------------------------------------
(* Calls. *)

Callable(v) == v.tag \in {"VMFunction", "VMClosure"}

NArgs(first, last) == (last - first) % 256     \* uint8_t

\* Mutant of HasRoom: only the register window is checked.
HasWindow(base, f) == WindowFits(base, f)

\* There is room for one more frame, and for the function's registers.
HasRoom(base, f) == Len(Stack) < MAX_STACK_FRAMES /\ WindowFits(base, f)

CallFrame ==
  [fun |-> fun, counter |-> pc, R_window_start |-> R_window_start,
   dest_reg_idx |-> Instr.x, base |-> Reg(Instr.y), kept |-> registers]

EnterFunction(f) ==
  /\ fun' = [f |-> f, valid |-> TRUE]
  /\ pc' = [f |-> f, i |-> 0]
  /\ UNCHANGED <<counter, mode, testvars, gc_needed, status, trial>>

CallFails(stack) == RunError(stack) /\ UNCHANGED registers

Call ==
  /\ Executes("Call")
  /\ LET v    == registers[Reg(Instr.y)]
         base == Reg(Instr.y)
         Pushed == Append(Stack, CallFrame)
     IN  \/ ~Callable(v) /\ CallFails(Stack)
         \/ Callable(v) /\ ~HasRoom(base, v.f) /\ CallFails(Stack)
         \/ /\ Callable(v) /\ HasRoom(base, v.f)
            /\ Arity[v.f] # NArgs(Instr.y, Instr.z)
            /\ CallFails(Pushed)
         \/ /\ Callable(v) /\ HasRoom(base, v.f)
            /\ Arity[v.f] = NArgs(Instr.y, Instr.z)
            /\ Stack' = Pushed
            /\ R_window_start' = base
            /\ EnterFunction(v.f)
            /\ UNCHANGED registers
  /\ UNCHANGED <<code, next, module>>

\* The arguments are copied before the arity is checked.
Tailcall ==
  /\ Executes("Tailcall")
  /\ LET v == registers[Reg(Instr.x)]
         n == NArgs(Instr.x, Instr.y)
         Room == Instr.y + R_window_start < NUM_REGISTERS
         Copied == [r \in Registers |->
                     IF r \in R_window_start..R_window_start + n
                     THEN registers[r + Instr.x] ELSE registers[r]]
     IN  \/ ~Callable(v) /\ CallFails(Stack)
         \/ Callable(v) /\ ~Room /\ CallFails(Stack)
         \/ /\ Callable(v) /\ Room /\ Reg(Instr.x + n) \notin Registers
            /\ Undefined
            /\ UNCHANGED <<fun, pc, vmvars, mode, testvars, gc_needed, trial>>
         \/ /\ Callable(v) /\ Room /\ Reg(Instr.x + n) \in Registers
            /\ registers' = Copied
            /\ IF Arity[v.f] = n
               THEN EnterFunction(v.f) /\ UNCHANGED <<R_window_start, Stack>>
               ELSE RunError(Stack)
  /\ UNCHANGED <<code, next, module>>

\* The value returned is read in the window of the function that returns.  The
\* frame of a check-error test fails the test: there was no error.
Return ==
  /\ Executes("Return")
  /\ \/ Stack = <<>> /\ RunError(Stack) /\ UNCHANGED registers
     \/ /\ Stack # <<>>
        /\ LET callee == Stack[Len(Stack)]
               dest   == callee.R_window_start + callee.dest_reg_idx
           IN  /\ Stack' = SubSeq(Stack, 1, Len(Stack) - 1)
               /\ R_window_start' = callee.R_window_start
               /\ fun' = callee.fun
               /\ pc' = [callee.counter EXCEPT !.i = @ + 1]
               /\ IF callee.dest_reg_idx >= 0
                  THEN /\ registers' = [registers EXCEPT ![dest] = registers[Reg(Instr.x)]]
                       /\ UNCHANGED <<mode, nfailed, status>>
                  ELSE /\ nfailed' = nfailed + 1
                       /\ IF mode = "TESTING" THEN mode' = "NORMAL" /\ UNCHANGED status
                                              ELSE Abort /\ UNCHANGED mode
                       /\ UNCHANGED registers
        /\ UNCHANGED <<counter, checks, awaiting_expect, ntests, npassed, gc_needed, trial>>
  /\ UNCHANGED <<code, next, module>>

-----------------------------------------------------------------------------
(* Unit tests (check-expect.c).  `checks` holds the source text between a    *)
(* check and its expect; both assert that they come in turn.                 *)

AssertionFails ==
  Abort /\ UNCHANGED <<pc, testvars>>

\* Mutant of Expected: a failure is reported and also counted as passed.
ExpectedLeniently(awaited, v) ==
  npassed' = npassed + 1 /\ nfailed' = IF awaited = v THEN nfailed ELSE nfailed + 1

Expected(awaited, v) ==
  IF awaited = v THEN npassed' = npassed + 1 /\ nfailed' = nfailed
                 ELSE nfailed' = nfailed + 1 /\ npassed' = npassed

Check ==
  /\ Executes("Check")
  /\ IF checks THEN AssertionFails
     ELSE /\ checks' = TRUE
          /\ awaiting_expect' = registers[Reg(Instr.x)]
          /\ Proceed
          /\ UNCHANGED <<ntests, npassed, nfailed, status>>
  /\ UNCHANGED <<code, next, module, fun, vmvars, mode, gc_needed, trial>>

Expect ==
  /\ Executes("Expect")
  /\ IF ~checks THEN AssertionFails
     ELSE /\ ntests' = ntests + 1
          /\ Expected(awaiting_expect, registers[Reg(Instr.x)])
          /\ awaiting_expect' = Nil
          /\ checks' = FALSE
          /\ Proceed
          /\ UNCHANGED status
  /\ UNCHANGED <<code, next, module, fun, vmvars, mode, gc_needed, trial>>

\* A check and an expect of #t in one instruction.
CheckAssert ==
  /\ Executes("CheckAssert")
  /\ IF checks THEN AssertionFails
     ELSE /\ ntests' = ntests + 1
          /\ Expected(registers[Reg(Instr.x)], True)
          /\ awaiting_expect' = Nil
          /\ Proceed
          /\ UNCHANGED <<checks, status>>
  /\ UNCHANGED <<code, next, module, fun, vmvars, mode, gc_needed, trial>>

\* Mutant of ErrorFrame: the place to return to is already the next instruction.
ErrorFrameAtNext ==
  [fun |-> fun, counter |-> [pc EXCEPT !.i = @ + 1], R_window_start |-> R_window_start,
   dest_reg_idx |-> -Instr.k, base |-> R_window_start, kept |-> registers]

ErrorFrame ==
  [fun |-> fun, counter |-> pc, R_window_start |-> R_window_start,
   dest_reg_idx |-> -Instr.k, base |-> R_window_start, kept |-> registers]

\* The function under test is called in the window of its caller.
StartTest(f) ==
  /\ ntests' = ntests + 1
  /\ mode' = "TESTING"
  /\ Stack' = Append(Stack, ErrorFrame)
  /\ trial' = [pc |-> pc, R_window_start |-> R_window_start, Stack |-> Stack]
  /\ fun' = [f |-> f, valid |-> TRUE]
  /\ pc' = [f |-> f, i |-> 0]
  /\ UNCHANGED <<status, counter, R_window_start, checks, awaiting_expect,
                 npassed, nfailed, gc_needed>>

CheckError ==
  /\ Executes("CheckError")
  /\ LET v == registers[Reg(Instr.x)]
         Full == Len(Stack) = MAX_STACK_FRAMES
     IN  \/ /\ mode = "TESTING"            \* nested check-error not allowed
            /\ Abort
            /\ UNCHANGED <<fun, pc, vmvars, mode, testvars, gc_needed, trial>>
         \/ /\ mode = "NORMAL" /\ v.tag # "VMFunction"
            /\ RunError(Stack)
         \/ /\ mode = "NORMAL" /\ v.tag = "VMFunction"
            /\ Full \/ Arity[v.f] # 0
            /\ ntests' = ntests + 1
            /\ Abort
            /\ mode' = IF Full THEN "NORMAL" ELSE "TESTING"
            /\ Stack' = IF Full THEN Unwound(Stack) ELSE Stack
            /\ UNCHANGED <<fun, pc, counter, R_window_start, checks,
                           awaiting_expect, npassed, nfailed, gc_needed, trial>>
         \/ /\ mode = "NORMAL" /\ v.tag = "VMFunction"
            /\ ~Full /\ Arity[v.f] = 0
            /\ StartTest(v.f)
  /\ UNCHANGED <<code, next, module, registers>>

-----------------------------------------------------------------------------

\* vmrun neither checks pc nor a register's number against their arrays.
OutOfBounds ==
  /\ status = "running"
  /\ InCode => ~InFile
  /\ Undefined
  /\ UNCHANGED <<code, next, module, fun, pc, vmvars, mode, testvars, gc_needed, trial>>

Stopped == status \in {"exit", "aborted", "undefined"} /\ UNCHANGED vars

Next ==
  \/ LoadModule \/ Finish \/ EnterModule \/ ReenterModule
  \/ LoadLiteral \/ MkClosure \/ Error \/ If \/ Goto
  \/ Collect \/ Gc
  \/ Call \/ Tailcall \/ Return
  \/ Check \/ Expect \/ CheckAssert \/ CheckError
  \/ Halt \/ OutOfBounds \/ Stopped

Spec == Init /\ [][Next]_vars

-----------------------------------------------------------------------------
(* Properties. *)

TypeOK ==
  /\ code \in [CodeObject -> Seq(Instruction)]
  /\ next \in 1..Len(Modules) + 1
  /\ module \in Pointer
  /\ fun \in Pointer
  /\ pc \in Address
  /\ counter \in Int
  /\ R_window_start \in Nat
  /\ registers \in [Registers -> Value]
  /\ Stack \in Seq(Frame)
  /\ Len(Stack) <= MAX_STACK_FRAMES
  /\ mode \in {"NORMAL", "TESTING"}
  /\ checks \in BOOLEAN
  /\ awaiting_expect \in Value
  /\ ntests \in Nat /\ npassed \in Nat /\ nfailed \in Nat
  /\ gc_needed \in BOOLEAN
  /\ status \in {"loading", "entering", "running", "exit", "aborted", "undefined"}

Alive == status \in {"loading", "entering", "running"}

\* The machine is in TESTING mode exactly while the frame of one check-error
\* test is on the stack, however the function under test calls, tail-calls and
\* fails: the handler always finds the frame that it unwinds to (vmerror.c,
\* stackunwind; vmrun.c, CheckError).
ErrorFrameMarksTest ==
  Alive => IF mode = "TESTING" THEN \E i \in DOMAIN Stack : ErrorFrames(Stack) = {i}
                               ELSE ErrorFrames(Stack) = {}

\* A function never changes a register below its window, and no collection
\* clears one: when it returns, or when an error unwinds its frame, its caller
\* finds the registers below the one that held the function as they were
\* (vmrun.c, Call, Tailcall and Return; vmheap.c, scan_vmstate).
CallersRegistersKept ==
  Alive => \A i \in DOMAIN Stack : \A r \in Registers :
             r < Stack[i].base => registers[r] = Stack[i].kept[r]

\* Every test that was started has passed, was reported to have failed, or is
\* the check-error that is running: none is counted twice or lost
\* (check-expect.c and vmrun.c, CheckError and the entry in TESTING mode).
TestsAccountedFor ==
  Alive => ntests = npassed + nfailed + (IF mode = "TESTING" THEN 1 ELSE 0)

\* When a check-error test ends, whether by an error in any depth of calls or
\* without one, the machine goes on after the check-error instruction with the
\* frames and the window that it found there.
CheckErrorResumes ==
  [][mode = "TESTING" /\ mode' = "NORMAL"
       => /\ Stack' = trial.Stack
          /\ R_window_start' = trial.R_window_start
          /\ pc' = [trial.pc EXCEPT !.i = @ + 1]]_vars

\* A module is run from its first instruction: vm->counter, from which vmrun
\* takes the place to start, is 0 (vmstate.h; vmrun.c, VMLOAD).
ModulesStartAtTheTop ==
  [][status = "entering" /\ mode = "NORMAL" /\ status' = "running" => pc'.i = 0]_vars

\* vm->fun and fun are always the currently running function (vmrun.c): the
\* pointer is not one that a collection left behind.
FunIsRunning == status = "running" => fun.valid /\ fun.f = pc.f

=============================================================================
