-------------------------- MODULE VMControlProofs --------------------------
(***************************************************************************)
(* Safety of the virtual machine's control for every program, every depth  *)
(* of the frame stack and every size of the register file.                 *)
(***************************************************************************)
EXTENDS VMControl, SequenceTheorems, TLAPS

-----------------------------------------------------------------------------
(* The inductive invariant *)

\* Windows are nested: no frame's callee starts below a frame's own window, and
\* all later windows start at or above it.
WindowsNested ==
  Alive => \A i \in DOMAIN Stack :
             /\ Stack[i].R_window_start <= Stack[i].base
             /\ Stack[i].base <= R_window_start
             /\ \A j \in DOMAIN Stack : i < j => Stack[i].base <= Stack[j].R_window_start

\* Within is an address of an instruction of its function, not of the sentinel,
\* if it is in a function that is not a module.
Within(a) == a.f \in Functions => a.i \in 0..Len(code[a.f]) - 1

\* While a module's code runs there are no frames, and control never reaches the
\* end of a function, now or when the function is returned to.
CodeIsClosed ==
  Alive =>
    /\ status = "running" => /\ Within(pc)
                             /\ Stack # <<>> => pc.f \in Functions
    /\ \A i \in DOMAIN Stack :
         /\ Within([Stack[i].counter EXCEPT !.i = @ + 1])
         /\ i > 1 => Stack[i].counter.f \in Functions

\* Between modules there are no frames; after an error the frame of the test is
\* the topmost.
BetweenRuns ==
  /\ status = "loading" => Stack = <<>> /\ mode = "NORMAL"
  /\ status = "entering" => IF mode = "NORMAL" THEN Stack = <<>>
                            ELSE Len(Stack) \in ErrorFrames(Stack)

\* The frame of the test remembers what the history variable does.
TrialIsRemembered ==
  Alive /\ mode = "TESTING" =>
    \A i \in ErrorFrames(Stack) :
      /\ SubSeq(Stack, 1, i - 1) = trial.Stack
      /\ Stack[i].counter = trial.pc
      /\ Stack[i].R_window_start = trial.R_window_start

\* dofile's module is not a function.
ModuleIsNoFunction == module.f \notin Functions

IInv ==
  /\ TypeOK
  /\ code \in Programs
  /\ ModuleIsNoFunction
  /\ ErrorFrameMarksTest
  /\ CallersRegistersKept
  /\ TestsAccountedFor
  /\ WindowsNested
  /\ CodeIsClosed
  /\ BetweenRuns
  /\ TrialIsRemembered

-----------------------------------------------------------------------------
(* Sequences of frames *)

\* Pushing a frame.
LEMMA Pushed ==
  ASSUME NEW s \in Seq(Frame), NEW a \in Frame
  PROVE  /\ Append(s, a) \in Seq(Frame)
         /\ Len(s) \in Nat /\ Len(Append(s, a)) = Len(s) + 1
         /\ DOMAIN s = 1..Len(s) /\ DOMAIN Append(s, a) = 1..Len(s) + 1
         /\ \A i \in 1..Len(s) : Append(s, a)[i] = s[i]
         /\ Append(s, a)[Len(s) + 1] = a
         /\ Append(s, a) # <<>>
OBVIOUS

\* Popping frames.
LEMMA Popped ==
  ASSUME NEW s \in Seq(Frame), NEW n \in 0..Len(s)
  PROVE  /\ SubSeq(s, 1, n) \in Seq(Frame)
         /\ Len(s) \in Nat /\ Len(SubSeq(s, 1, n)) = n
         /\ DOMAIN s = 1..Len(s) /\ DOMAIN SubSeq(s, 1, n) = 1..n
         /\ \A i \in 1..n : SubSeq(s, 1, n)[i] = s[i]
         /\ SubSeq(s, 1, n) = <<>> <=> n = 0
<1>1. Len(s) \in Nat /\ \A i \in 1..n : s[i] \in Frame
  OBVIOUS
<1>2. SubSeq(s, 1, n) \in Seq(Frame) /\ Len(SubSeq(s, 1, n)) = n
      /\ \A i \in 1..n : SubSeq(s, 1, n)[i] = s[i]
  BY <1>1, SubSeqProperties
<1>3. DOMAIN SubSeq(s, 1, n) = 1..n /\ DOMAIN s = 1..Len(s)
  BY <1>2
<1>4. SubSeq(s, 1, n) = <<>> <=> n = 0
  BY <1>2, EmptySeq
<1> QED
  BY <1>1, <1>2, <1>3, <1>4

\* A shorter prefix of a prefix.
LEMMA PoppedTwice ==
  ASSUME NEW s \in Seq(Frame), NEW n \in 0..Len(s), NEW m \in 0..n
  PROVE  SubSeq(SubSeq(s, 1, n), 1, m) = SubSeq(s, 1, m)
<1> DEFINE t == SubSeq(s, 1, n)
<1>1. t \in Seq(Frame) /\ Len(t) = n /\ \A i \in 1..n : t[i] = s[i]
  BY Popped
<1>2. m \in 0..Len(t) /\ m \in 0..Len(s) /\ Len(s) \in Nat
  BY <1>1
<1> HIDE DEF t
<1>3. /\ SubSeq(t, 1, m) \in Seq(Frame) /\ Len(SubSeq(t, 1, m)) = m
      /\ \A i \in 1..m : SubSeq(t, 1, m)[i] = t[i]
  BY <1>1, <1>2, Popped
<1>4. /\ SubSeq(s, 1, m) \in Seq(Frame) /\ Len(SubSeq(s, 1, m)) = m
      /\ \A i \in 1..m : SubSeq(s, 1, m)[i] = s[i]
  BY <1>2, Popped
<1>5. \A i \in 1..m : SubSeq(t, 1, m)[i] = SubSeq(s, 1, m)[i]
  BY <1>1, <1>2, <1>3, <1>4
<1>6. SubSeq(t, 1, m) = SubSeq(s, 1, m)
  BY <1>3, <1>4, <1>5, SeqEqual
<1> QED
  BY <1>6 DEF t

\* A prefix is not changed by a push.
LEMMA PrefixOfPushed ==
  ASSUME NEW s \in Seq(Frame), NEW a \in Frame, NEW m \in 0..Len(s)
  PROVE  SubSeq(Append(s, a), 1, m) = SubSeq(s, 1, m)
<1> DEFINE t == Append(s, a)
<1>1. t \in Seq(Frame) /\ Len(t) = Len(s) + 1 /\ Len(s) \in Nat
      /\ \A i \in 1..Len(s) : t[i] = s[i]
  BY Pushed
<1>2. m \in 0..Len(t)
  BY <1>1
<1> HIDE DEF t
<1>3. /\ SubSeq(t, 1, m) \in Seq(Frame) /\ Len(SubSeq(t, 1, m)) = m
      /\ \A i \in 1..m : SubSeq(t, 1, m)[i] = t[i]
  BY <1>1, <1>2, Popped
<1>4. /\ SubSeq(s, 1, m) \in Seq(Frame) /\ Len(SubSeq(s, 1, m)) = m
      /\ \A i \in 1..m : SubSeq(s, 1, m)[i] = s[i]
  BY Popped
<1>5. \A i \in 1..m : SubSeq(t, 1, m)[i] = SubSeq(s, 1, m)[i]
  BY <1>1, <1>3, <1>4
<1>6. SubSeq(t, 1, m) = SubSeq(s, 1, m)
  BY <1>3, <1>4, <1>5, SeqEqual
<1> QED
  BY <1>6 DEF t

\* The whole of a stack is its prefix.
LEMMA WholePrefix ==
  ASSUME NEW s \in Seq(Frame)
  PROVE  SubSeq(s, 1, Len(s)) = s
<1>1. Len(s) \in Nat /\ Len(s) \in 0..Len(s)
  OBVIOUS
<1>2. /\ SubSeq(s, 1, Len(s)) \in Seq(Frame) /\ Len(SubSeq(s, 1, Len(s))) = Len(s)
      /\ \A i \in 1..Len(s) : SubSeq(s, 1, Len(s))[i] = s[i]
  BY <1>1, Popped
<1> QED
  BY <1>2, SeqEqual

\* Unwinding a stack that has at most one frame of a test.
LEMMA UnwoundIsPrefix ==
  ASSUME NEW s \in Seq(Frame)
  PROVE  /\ ErrorFrames(s) = {} => Unwound(s) = SubSeq(s, 1, 0)
         /\ \A i \in DOMAIN s : ErrorFrames(s) = {i} => Unwound(s) = SubSeq(s, 1, i)
<1>1. Max({0} \cup {}) = 0
  BY DEF Max
<1>2. ASSUME NEW i \in DOMAIN s, ErrorFrames(s) = {i} PROVE Max({0} \cup {i}) = i
  <2>1. i \in Nat /\ i >= 1
    OBVIOUS
  <2>2. i \in {0} \cup {i} /\ \A y \in {0} \cup {i} : i >= y
    BY <2>1
  <2>3. \A x \in {0} \cup {i} : (\A y \in {0} \cup {i} : x >= y) => x = i
    BY <2>1
  <2> QED
    BY <2>2, <2>3 DEF Max
<1> QED
  BY <1>1, <1>2 DEF Unwound

-----------------------------------------------------------------------------
(* Instructions and values *)

\* What can be called is a function.
LEMMA CallableHasFunction ==
  \A v \in Value : v.tag \in {"VMFunction", "VMClosure"} => v.f \in Functions
BY DEF Value, Nil, True, Number

\* The constant values.
LEMMA ConstantValues ==
  /\ Nil \in Value /\ True \in Value /\ Number \in Value
  /\ \A f \in Functions : VMClosure(f) \in Value
BY DEF Value, VMClosure

\* Functions and modules are code objects, and modules are not functions.
LEMMA CodeObjects ==
  /\ Functions \subseteq CodeObject
  /\ \A i \in DOMAIN Modules : Modules[i] \in CodeObject /\ Modules[i] \notin Functions
  /\ Len(Modules) \in Nat \ {0} /\ DOMAIN Modules = 1..Len(Modules)
<1>1. Len(Modules) \in Nat /\ DOMAIN Modules = 1..Len(Modules) /\ Len(Modules) # 0
  BY ModulesAssumption, EmptySeq
<1>2. \A i \in DOMAIN Modules : Modules[i] \in ModuleSet
  BY DEF ModuleSet
<1> QED
  BY <1>1, <1>2, ModulesAssumption DEF CodeObject

\* The instruction fetched is one of the machine's, and in a function it is not
\* the sentinel and control stays within the function after it.
LEMMA Fetched ==
  ASSUME TypeOK, code \in Programs, InCode
  PROVE  /\ Instr \in Instruction
         /\ Instr.x \in Nat /\ Instr.y \in Nat /\ Instr.z \in Nat /\ Instr.k \in Int
         /\ Instr.v \in Value
         /\ Within(pc) /\ pc.f \in Functions =>
              /\ Instr.op # "Halt"
              /\ \A j \in Flow(Instr, pc.i + 1) : j - 1 \in 0..Len(code[pc.f]) - 1
         /\ Instr.op = "CheckError" => Instr.k \in Nat
<1> DEFINE c == code[pc.f]
<1>1. pc.f \in CodeObject /\ pc.i \in 0..Len(c)
  BY DEF TypeOK, Address, InCode
<1>2. c \in Seq(Instruction) /\ Len(c) \in Nat /\ DOMAIN c = 1..Len(c)
  BY <1>1 DEF TypeOK
<1>3. HaltSentinel \in Instruction
  BY ConstantValues DEF HaltSentinel, Instruction, Opcode
<1>4. pc.i < Len(c) => pc.i + 1 \in DOMAIN c /\ Instr = c[pc.i + 1] /\ Instr \in Instruction
  BY <1>1, <1>2 DEF Instr
<1>5. ~(pc.i < Len(c)) => Instr = HaltSentinel
  BY DEF Instr
<1>6. Instr \in Instruction
  BY <1>3, <1>4, <1>5
<1>7. Instr.x \in Nat /\ Instr.y \in Nat /\ Instr.z \in Nat /\ Instr.k \in Int /\ Instr.v \in Value
  BY <1>6 DEF Instruction
<1>8. ASSUME Within(pc), pc.f \in Functions
      PROVE  /\ Instr.op # "Halt"
             /\ \A j \in Flow(Instr, pc.i + 1) : j - 1 \in 0..Len(c) - 1
  <2>1. pc.i \in 0..Len(c) - 1
    BY <1>8 DEF Within
  <2>2. pc.i + 1 \in DOMAIN c /\ Instr = c[pc.i + 1]
    BY <2>1, <1>2, <1>4
  <2>3. Instr.op # "Halt" /\ Flow(Instr, pc.i + 1) \subseteq DOMAIN c
    BY <2>2, <1>8, ProgramsAssumption
  <2> QED
    BY <2>3, <1>2
<1>9. Instr.op = "CheckError" => Instr.k \in Nat
  <2>1. pc.i < Len(c) /\ Instr.op = "CheckError" => Instr.k \in Nat
    BY <1>4, <1>1, SlotsAssumption
  <2>2. HaltSentinel.k \in Nat
    BY DEF HaltSentinel
  <2> QED
    BY <2>1, <2>2, <1>5
<1> QED
  BY <1>6, <1>7, <1>8, <1>9

-----------------------------------------------------------------------------
(* Steps that leave the frames alone *)

\* A step that ends the behaviour needs only to keep the types.
LEMMA Stops ==
  ASSUME IInv, TypeOK', code' = code, module'.f = module.f, ~Alive'
  PROVE  IInv'
<1>1. status' # "loading" /\ status' # "entering"
  BY DEF Alive
<1> QED
  BY <1>1 DEF IInv, ErrorFrameMarksTest, CallersRegistersKept, TestsAccountedFor,
       WindowsNested, CodeIsClosed, BetweenRuns, TrialIsRemembered, ModuleIsNoFunction

\* A step between two modules, or from the head of vmrun into a module's code.
LEMMA Outside ==
  ASSUME IInv, TypeOK', Alive, Alive', module'.f \notin Functions,
         UNCHANGED <<code, R_window_start, registers, Stack, mode, testvars, trial>>,
         BetweenRuns', status' = "running" => Within(pc') /\ Stack = <<>>
  PROVE  IInv'
<1>1. ErrorFrameMarksTest' /\ CallersRegistersKept' /\ TestsAccountedFor'
  BY DEF IInv, ErrorFrameMarksTest, CallersRegistersKept, TestsAccountedFor, ErrorFrames, testvars
<1>2. WindowsNested' /\ TrialIsRemembered'
  BY DEF IInv, WindowsNested, TrialIsRemembered, ErrorFrames
<1>3. CodeIsClosed'
  <2>1. \A i \in DOMAIN Stack :
          /\ Within([Stack[i].counter EXCEPT !.i = @ + 1])
          /\ i > 1 => Stack[i].counter.f \in Functions
    BY DEF IInv, CodeIsClosed
  <2> QED
    BY <2>1 DEF CodeIsClosed, Within
<1> QED
  BY <1>1, <1>2, <1>3 DEF IInv, ModuleIsNoFunction

\* An instruction that neither moves the window nor touches a frame.
LEMMA Local ==
  ASSUME IInv, TypeOK', status = "running", status' = "running", module'.f = module.f,
         UNCHANGED <<code, R_window_start, Stack, mode, trial>>,
         \A r \in Registers : r < R_window_start => registers'[r] = registers[r],
         TestsAccountedFor', Within(pc'), Stack # <<>> => pc'.f \in Functions
  PROVE  IInv'
<1>1. Alive /\ Alive'
  BY DEF Alive
<1>2. ErrorFrameMarksTest' /\ TrialIsRemembered'
  BY <1>1 DEF IInv, ErrorFrameMarksTest, TrialIsRemembered, ErrorFrames
<1>3. CallersRegistersKept'
  <2> SUFFICES ASSUME NEW i \in DOMAIN Stack, NEW r \in Registers, r < Stack[i].base
               PROVE  registers'[r] = Stack[i].kept[r]
    BY DEF CallersRegistersKept
  <2>1. Stack[i].base <= R_window_start
    BY <1>1 DEF IInv, WindowsNested
  <2>2. registers[r] = Stack[i].kept[r]
    BY <1>1 DEF IInv, CallersRegistersKept
  <2>3. Stack[i] \in Frame
    BY DEF IInv, TypeOK
  <2>4. Stack[i].base \in Nat /\ R_window_start \in Nat /\ r \in Int
    BY <2>3, LimitsAssumption DEF Frame, IInv, TypeOK, Registers
  <2> QED
    BY <2>1, <2>2, <2>4
<1>4. WindowsNested' /\ BetweenRuns'
  BY <1>1 DEF IInv, WindowsNested, BetweenRuns
<1>5. CodeIsClosed'
  <2>1. \A i \in DOMAIN Stack :
          /\ Within([Stack[i].counter EXCEPT !.i = @ + 1])
          /\ i > 1 => Stack[i].counter.f \in Functions
    BY <1>1 DEF IInv, CodeIsClosed
  <2> QED
    BY <2>1 DEF CodeIsClosed, Within
<1> QED
  BY <1>2, <1>3, <1>4, <1>5 DEF IInv, ModuleIsNoFunction

-----------------------------------------------------------------------------
(* Errors *)

\* What unwinding leaves of the running machine's stack.
LEMMA UnwoundStack ==
  ASSUME IInv, Alive
  PROVE  \E n \in 0..Len(Stack) :
           /\ Unwound(Stack) = SubSeq(Stack, 1, n)
           /\ mode = "NORMAL" => ErrorFrames(Stack) = {} /\ n = 0
           /\ mode = "TESTING" => ErrorFrames(Stack) = {n} /\ n > 0
<1>1. Stack \in Seq(Frame) /\ Len(Stack) \in Nat /\ DOMAIN Stack = 1..Len(Stack)
  BY DEF IInv, TypeOK
<1>2. mode \in {"NORMAL", "TESTING"}
  BY DEF IInv, TypeOK
<1>3. CASE mode = "NORMAL"
  <2>1. ErrorFrames(Stack) = {}
    BY <1>3 DEF IInv, ErrorFrameMarksTest
  <2>2. Unwound(Stack) = SubSeq(Stack, 1, 0)
    BY <2>1, <1>1, UnwoundIsPrefix
  <2> QED
    BY <2>1, <2>2, <1>1, <1>3
<1>4. CASE mode = "TESTING"
  <2>1. PICK i \in DOMAIN Stack : ErrorFrames(Stack) = {i}
    BY <1>4 DEF IInv, ErrorFrameMarksTest
  <2>2. Unwound(Stack) = SubSeq(Stack, 1, i)
    BY <2>1, <1>1, UnwoundIsPrefix
  <2> QED
    BY <2>1, <2>2, <1>1, <1>4
<1> QED
  BY <1>2, <1>3, <1>4

\* An error keeps the invariant.
LEMMA Fails ==
  ASSUME IInv, status = "running", RunError(Stack), UNCHANGED <<code, next, module>>,
         registers' \in [Registers -> Value],
         \A r \in Registers : r < R_window_start => registers'[r] = registers[r]
  PROVE  IInv'
<1>1. Alive
  BY DEF Alive
<1>2. PICK n \in 0..Len(Stack) :
        /\ Unwound(Stack) = SubSeq(Stack, 1, n)
        /\ mode = "NORMAL" => ErrorFrames(Stack) = {} /\ n = 0
        /\ mode = "TESTING" => ErrorFrames(Stack) = {n} /\ n > 0
  BY <1>1, UnwoundStack
<1>3. /\ Stack \in Seq(Frame) /\ Len(Stack) <= MAX_STACK_FRAMES
      /\ mode \in {"NORMAL", "TESTING"} /\ R_window_start \in Nat
  BY DEF IInv, TypeOK
<1>4. Stack' = SubSeq(Stack, 1, n)
  BY <1>2 DEF RunError
<1>5. /\ Stack' \in Seq(Frame) /\ Len(Stack) \in Nat /\ Len(Stack') = n
      /\ DOMAIN Stack = 1..Len(Stack) /\ DOMAIN Stack' = 1..n
      /\ \A i \in 1..n : Stack'[i] = Stack[i]
  BY <1>3, <1>4, Popped
<1>6. TypeOK'
  <2>1. status' \in {"aborted", "entering"}
    BY DEF RunError
  <2>2. Len(Stack') <= MAX_STACK_FRAMES
    BY <1>3, <1>5, LimitsAssumption
  <2> QED
    BY <2>1, <2>2, <1>5 DEF IInv, TypeOK, RunError, testvars
<1>7. CASE mode = "NORMAL"
  <2>1. ~Alive'
    BY <1>7 DEF RunError, Alive
  <2> QED
    BY <2>1, <1>6, Stops
<1>8. CASE mode = "TESTING"
  <2>1. status' = "entering" /\ mode' = "TESTING" /\ Alive' /\ UNCHANGED <<R_window_start, trial, testvars, pc>>
    BY <1>8 DEF RunError, Alive
  <2>2. ErrorFrames(Stack') = {n} /\ n \in DOMAIN Stack' /\ ErrorFrames(Stack) = {n}
    BY <1>2, <1>5, <1>8 DEF ErrorFrames
  <2>3. ErrorFrameMarksTest' /\ BetweenRuns'
    BY <2>1, <2>2, <1>5 DEF ErrorFrameMarksTest, BetweenRuns, ErrorFrames
  <2>4. CallersRegistersKept'
    <3> SUFFICES ASSUME NEW i \in 1..n, NEW r \in Registers, r < Stack[i].base
                 PROVE  registers'[r] = Stack[i].kept[r]
      BY <1>5 DEF CallersRegistersKept
    <3>1. i \in DOMAIN Stack /\ Stack[i] \in Frame
      BY <1>3, <1>5
    <3>2. Stack[i].base <= R_window_start /\ registers[r] = Stack[i].kept[r]
      BY <1>1, <3>1 DEF IInv, WindowsNested, CallersRegistersKept
    <3>3. Stack[i].base \in Nat /\ r \in Int
      BY <3>1, LimitsAssumption DEF Frame, Registers
    <3> QED
      BY <3>2, <3>3, <1>3
  <2>5. TestsAccountedFor'
    BY <1>1, <1>8, <2>1 DEF IInv, TestsAccountedFor, testvars
  <2>6. WindowsNested'
    BY <1>1, <1>5, <2>1 DEF IInv, WindowsNested
  <2>7. CodeIsClosed'
    <3>1. \A i \in 1..n :
            /\ Within([Stack[i].counter EXCEPT !.i = @ + 1])
            /\ i > 1 => Stack[i].counter.f \in Functions
      BY <1>1, <1>5 DEF IInv, CodeIsClosed
    <3> QED
      BY <3>1, <2>1, <1>5 DEF CodeIsClosed, Within
  <2>8. TrialIsRemembered'
    <3>1. n - 1 \in 0..n
      BY <2>2, <1>5
    <3>2. SubSeq(Stack', 1, n - 1) = SubSeq(Stack, 1, n - 1)
      BY <3>1, <1>3, <1>4, PoppedTwice
    <3>3. /\ SubSeq(Stack, 1, n - 1) = trial.Stack
          /\ Stack[n].counter = trial.pc /\ Stack[n].R_window_start = trial.R_window_start
      BY <1>1, <1>8, <2>2 DEF IInv, TrialIsRemembered
    <3>4. Stack'[n] = Stack[n]
      BY <2>2, <1>5
    <3> QED
      BY <3>2, <3>3, <3>4, <2>1, <2>2 DEF TrialIsRemembered
  <2> QED
    BY <1>6, <2>3, <2>4, <2>5, <2>6, <2>7, <2>8 DEF IInv, ModuleIsNoFunction
<1> QED
  BY <1>3, <1>7, <1>8

\* The frame of a call is not that of a test.
LEMMA PushedCall ==
  ASSUME NEW s \in Seq(Frame), NEW a \in Frame, a.dest_reg_idx >= 0
  PROVE  /\ ErrorFrames(Append(s, a)) = ErrorFrames(s)
         /\ DOMAIN s \subseteq DOMAIN Append(s, a)
<1> DEFINE t == Append(s, a)
<1>1. /\ t \in Seq(Frame) /\ Len(s) \in Nat
      /\ DOMAIN s = 1..Len(s) /\ DOMAIN t = 1..Len(s) + 1
      /\ \A i \in 1..Len(s) : t[i] = s[i]
      /\ t[Len(s) + 1] = a
  BY Pushed
<1>2. a.dest_reg_idx \in Int
  BY DEF Frame
<1> HIDE DEF t
<1>3. \A i \in DOMAIN t : i \in DOMAIN s \/ i = Len(s) + 1
  BY <1>1
<1>4. \A i \in DOMAIN t : t[i].dest_reg_idx < 0 => i \in DOMAIN s /\ s[i].dest_reg_idx < 0
  BY <1>1, <1>2, <1>3
<1>5. \A i \in DOMAIN s : i \in DOMAIN t /\ t[i] = s[i]
  BY <1>1
<1>6. ErrorFrames(t) = ErrorFrames(s)
  BY <1>4, <1>5 DEF ErrorFrames
<1> QED
  BY <1>5, <1>6 DEF t

\* An error after a call has pushed its frame is an error before.
LEMMA FailsAfterPush ==
  ASSUME IInv, status = "running", NEW a \in Frame, a.dest_reg_idx >= 0, RunError(Append(Stack, a))
  PROVE  RunError(Stack)
<1>1. Alive /\ Stack \in Seq(Frame)
  BY DEF Alive, IInv, TypeOK
<1>2. PICK n \in 0..Len(Stack) :
        /\ Unwound(Stack) = SubSeq(Stack, 1, n)
        /\ mode = "NORMAL" => ErrorFrames(Stack) = {} /\ n = 0
        /\ mode = "TESTING" => ErrorFrames(Stack) = {n} /\ n > 0
  BY <1>1, UnwoundStack
<1> DEFINE t == Append(Stack, a)
<1>3. /\ t \in Seq(Frame) /\ Len(Stack) \in Nat
      /\ DOMAIN Stack = 1..Len(Stack) /\ DOMAIN t = 1..Len(Stack) + 1
      /\ \A i \in 1..Len(Stack) : t[i] = Stack[i]
      /\ t[Len(Stack) + 1] = a
  BY <1>1, Pushed
<1>4. SubSeq(t, 1, n) = SubSeq(Stack, 1, n)
  BY <1>1, PrefixOfPushed
<1>5. mode \in {"NORMAL", "TESTING"} /\ a.dest_reg_idx \in Int
  BY DEF IInv, TypeOK, Frame
<1> HIDE DEF t
<1>6. ErrorFrames(t) = ErrorFrames(Stack)
  BY <1>1, PushedCall DEF t
<1>7. Unwound(t) = SubSeq(t, 1, n)
  <2>1. CASE mode = "NORMAL"
    BY <2>1, <1>2, <1>3, <1>6, UnwoundIsPrefix
  <2>2. CASE mode = "TESTING"
    <3>1. n \in DOMAIN t /\ ErrorFrames(t) = {n}
      BY <2>2, <1>2, <1>3, <1>6
    <3> QED
      BY <3>1, <1>3, UnwoundIsPrefix
  <2> QED
    BY <1>5, <2>1, <2>2
<1> QED
  BY <1>2, <1>4, <1>7 DEF RunError, t

-----------------------------------------------------------------------------
(* Calls and returns *)

\* Pushing a frame and entering a function.
LEMMA Calls ==
  ASSUME IInv, TypeOK', code' = code, module'.f = module.f,
         status = "running", status' = "running",
         NEW a \in Frame, Stack' = Append(Stack, a),
         a.R_window_start = R_window_start, a.base = R_window_start',
         R_window_start' >= R_window_start,
         a.counter = pc, Within([pc EXCEPT !.i = @ + 1]),
         a.kept = registers, registers' = registers,
         pc'.f \in Functions, Within(pc'),
         TestsAccountedFor', ErrorFrameMarksTest', TrialIsRemembered'
  PROVE  IInv'
<1>1. Alive /\ Alive'
  BY DEF Alive
<1>2. /\ Stack \in Seq(Frame) /\ R_window_start \in Nat /\ R_window_start' \in Nat
      /\ registers \in [Registers -> Value]
  BY DEF IInv, TypeOK
<1> DEFINE l == Len(Stack) + 1
<1>3. /\ Len(Stack) \in Nat /\ DOMAIN Stack = 1..Len(Stack) /\ DOMAIN Stack' = 1..l
      /\ \A i \in 1..Len(Stack) : Stack'[i] = Stack[i]
      /\ Stack'[l] = a /\ Stack' # <<>>
  BY <1>2, Pushed
<1>4. \A i \in 1..l : i \in 1..Len(Stack) \/ i = l
  BY <1>3
<1>5. \A i \in 1..Len(Stack) : Stack[i] \in Frame /\ Stack[i].base \in Nat
  <2>1. \A i \in 1..Len(Stack) : Stack[i] \in Frame
    BY <1>2
  <2>2. \A b \in Frame : b.base \in Nat
    BY DEF Frame
  <2> QED
    BY <2>1, <2>2
<1> HIDE DEF l
<1>6. CallersRegistersKept'
  <2>1. \A i \in 1..Len(Stack) : \A r \in Registers :
          r < Stack[i].base => registers[r] = Stack[i].kept[r]
    BY <1>1, <1>3 DEF IInv, CallersRegistersKept
  <2>2. \A r \in Registers : registers[r] = a.kept[r]
    OBVIOUS
  <2> QED
    BY <2>1, <2>2, <1>3, <1>4 DEF CallersRegistersKept
<1>7. WindowsNested'
  <2>1. \A i \in 1..Len(Stack) :
          /\ Stack[i].R_window_start <= Stack[i].base
          /\ Stack[i].base <= R_window_start
          /\ \A j \in 1..Len(Stack) : i < j => Stack[i].base <= Stack[j].R_window_start
    BY <1>1, <1>3 DEF IInv, WindowsNested
  <2>2. \A i \in 1..Len(Stack) : Stack[i].base <= R_window_start'
    BY <2>1, <1>2, <1>5
  <2>3. l \in Nat /\ \A i \in 1..Len(Stack) : ~(l < i)
    BY <1>3 DEF l
  <2>4. SUFFICES ASSUME NEW i \in 1..l
                 PROVE  /\ Stack'[i].R_window_start <= Stack'[i].base
                        /\ Stack'[i].base <= R_window_start'
                        /\ \A j \in 1..l : i < j => Stack'[i].base <= Stack'[j].R_window_start
    BY <1>3 DEF WindowsNested
  <2>5. CASE i \in 1..Len(Stack)
    BY <2>1, <2>2, <2>5, <1>3, <1>4
  <2>6. CASE i = l
    BY <2>3, <2>6, <1>2, <1>3, <1>4
  <2> QED
    BY <2>5, <2>6, <1>4
<1>8. CodeIsClosed'
  <2>1. \A i \in 1..Len(Stack) :
          /\ Within([Stack[i].counter EXCEPT !.i = @ + 1])
          /\ i > 1 => Stack[i].counter.f \in Functions
    BY <1>1, <1>3 DEF IInv, CodeIsClosed
  <2>2. Stack # <<>> => pc.f \in Functions
    BY <1>1 DEF IInv, CodeIsClosed
  <2>3. l > 1 => Stack # <<>>
    BY <1>2, <1>3, EmptySeq DEF l
  <2> QED
    BY <2>1, <2>2, <2>3, <1>3, <1>4 DEF CodeIsClosed, Within
<1>9. BetweenRuns'
  BY DEF BetweenRuns
<1> QED
  BY <1>6, <1>7, <1>8, <1>9 DEF IInv, ModuleIsNoFunction

\* Popping a frame and going on after the instruction that pushed it.
LEMMA Pops ==
  ASSUME IInv, TypeOK', code' = code, module'.f = module.f,
         Alive, status' = "running", Stack # <<>>,
         Stack' = SubSeq(Stack, 1, Len(Stack) - 1),
         R_window_start' = Stack[Len(Stack)].R_window_start,
         pc' = [Stack[Len(Stack)].counter EXCEPT !.i = @ + 1],
         \A r \in Registers : r < R_window_start' => registers'[r] = registers[r],
         TestsAccountedFor',
         IF Len(Stack) \in ErrorFrames(Stack) THEN mode' = "NORMAL" ELSE mode' = mode,
         mode' = "TESTING" => trial' = trial
  PROVE  IInv'
<1>1. Alive'
  BY DEF Alive
<1>2. Stack \in Seq(Frame) /\ R_window_start \in Nat /\ mode \in {"NORMAL", "TESTING"}
  BY DEF IInv, TypeOK
<1> DEFINE l == Len(Stack)
           n == l - 1
<1>3. l \in Nat /\ l > 0 /\ n \in 0..l
  BY <1>2, EmptySeq
<1>4. /\ Stack' \in Seq(Frame) /\ Len(Stack') = n
      /\ DOMAIN Stack = 1..l /\ DOMAIN Stack' = 1..n
      /\ \A i \in 1..n : Stack'[i] = Stack[i]
      /\ Stack' = <<>> <=> n = 0
  BY <1>2, <1>3, Popped
<1>5. \A i \in 1..n : i \in 1..l /\ i < l /\ Stack[i] \in Frame
  BY <1>2, <1>3, <1>4
<1>6. Stack[l] \in Frame /\ l \in 1..l
  BY <1>2, <1>3
<1>7. Stack' = SubSeq(Stack, 1, n)
  OBVIOUS
<1>8. /\ R_window_start' = Stack[l].R_window_start
      /\ pc' = [Stack[l].counter EXCEPT !.i = @ + 1]
      /\ IF l \in ErrorFrames(Stack) THEN mode' = "NORMAL" ELSE mode' = mode
  OBVIOUS
<1>9. l = n + 1
  BY <1>3
<1> HIDE DEF l, n
<1>10. ErrorFrames(Stack') = ErrorFrames(Stack) \ {l}
  <2>1. \A i \in 1..l : i \in 1..n \/ i = l
    BY <1>3, <1>9
  <2> QED
    BY <2>1, <1>4, <1>5 DEF ErrorFrames
<1>11. ErrorFrameMarksTest'
  <2>1. CASE mode = "NORMAL"
    <3>1. ErrorFrames(Stack) = {}
      BY <2>1 DEF IInv, ErrorFrameMarksTest
    <3> QED
      BY <3>1, <2>1, <1>8, <1>10 DEF ErrorFrameMarksTest
  <2>2. CASE mode = "TESTING"
    <3>1. PICK i \in DOMAIN Stack : ErrorFrames(Stack) = {i}
      BY <2>2 DEF IInv, ErrorFrameMarksTest
    <3>2. CASE i = l
      <4>1. ErrorFrames(Stack') = {} /\ mode' = "NORMAL"
        BY <3>1, <3>2, <1>8, <1>10
      <4> QED
        BY <4>1 DEF ErrorFrameMarksTest
    <3>3. CASE i # l
      <4>1. ErrorFrames(Stack') = {i} /\ mode' = "TESTING"
        BY <3>1, <3>3, <2>2, <1>8, <1>10
      <4>2. i \in DOMAIN Stack'
        BY <3>1, <3>3, <1>3, <1>4, <1>9
      <4> QED
        BY <4>1, <4>2 DEF ErrorFrameMarksTest
    <3> QED
      BY <3>2, <3>3
  <2> QED
    BY <1>2, <2>1, <2>2
<1>12. CallersRegistersKept'
  <2> SUFFICES ASSUME NEW i \in 1..n, NEW r \in Registers, r < Stack[i].base
               PROVE  registers'[r] = Stack[i].kept[r]
    BY <1>4 DEF CallersRegistersKept
  <2>1. Stack[i].base <= Stack[l].R_window_start
    BY <1>4, <1>5, <1>6 DEF IInv, WindowsNested
  <2>2. registers[r] = Stack[i].kept[r]
    BY <1>4, <1>5 DEF IInv, CallersRegistersKept
  <2>3. Stack[i].base \in Nat /\ Stack[l].R_window_start \in Nat /\ r \in Int
    BY <1>5, <1>6, LimitsAssumption DEF Frame, Registers
  <2>4. r < R_window_start'
    BY <2>1, <2>3, <1>8
  <2> QED
    BY <2>2, <2>4
<1>13. WindowsNested'
  <2>1. \A i \in 1..n :
          /\ Stack[i].R_window_start <= Stack[i].base
          /\ Stack[i].base <= Stack[l].R_window_start
          /\ \A j \in 1..n : i < j => Stack[i].base <= Stack[j].R_window_start
    BY <1>4, <1>5, <1>6 DEF IInv, WindowsNested
  <2> QED
    BY <2>1, <1>4, <1>8 DEF WindowsNested
<1>14. CodeIsClosed'
  <2>1. \A i \in 1..l :
          /\ Within([Stack[i].counter EXCEPT !.i = @ + 1])
          /\ i > 1 => Stack[i].counter.f \in Functions
    BY <1>4 DEF IInv, CodeIsClosed
  <2>2. Stack[l].counter \in Address
    BY <1>6 DEF Frame
  <2>3. pc'.f = Stack[l].counter.f
    BY <2>2, <1>8 DEF Address
  <2>4. Stack' # <<>> => l > 1
    BY <1>3, <1>4, <1>9
  <2>5. Within(pc') /\ (Stack' # <<>> => pc'.f \in Functions)
    BY <2>1, <2>3, <2>4, <1>6, <1>8
  <2>6. \A i \in 1..n :
          /\ Within([Stack[i].counter EXCEPT !.i = @ + 1])
          /\ i > 1 => Stack[i].counter.f \in Functions
    BY <2>1, <1>5
  <2> QED
    BY <2>5, <2>6, <1>4 DEF CodeIsClosed, Within
<1>15. BetweenRuns'
  BY DEF BetweenRuns
<1>16. TrialIsRemembered'
  <2> SUFFICES ASSUME mode' = "TESTING", NEW i \in ErrorFrames(Stack')
               PROVE  /\ SubSeq(Stack', 1, i - 1) = trial.Stack
                      /\ Stack'[i].counter = trial.pc
                      /\ Stack'[i].R_window_start = trial.R_window_start
    BY DEF TrialIsRemembered
  <2>1. mode = "TESTING" /\ i \in ErrorFrames(Stack) /\ i \in 1..n
    BY <1>4, <1>8, <1>10 DEF ErrorFrames
  <2>2. /\ SubSeq(Stack, 1, i - 1) = trial.Stack
        /\ Stack[i].counter = trial.pc /\ Stack[i].R_window_start = trial.R_window_start
    BY <2>1 DEF IInv, TrialIsRemembered
  <2>3. i - 1 \in 0..n
    BY <2>1, <1>3, <1>9
  <2>4. SubSeq(Stack', 1, i - 1) = SubSeq(Stack, 1, i - 1)
    BY <2>3, <1>2, <1>3, <1>7, PoppedTwice DEF l
  <2> QED
    BY <2>1, <2>2, <2>4, <1>4
<1> QED
  BY <1>11, <1>12, <1>13, <1>14, <1>15, <1>16 DEF IInv, ModuleIsNoFunction
-----------------------------------------------------------------------------
(* What an instruction finds *)

\* The instruction that is executed, its operands and where it may go.
LEMMA Executed ==
  ASSUME IInv, NEW op, Executes(op)
  PROVE  /\ Alive /\ status = "running" /\ Instr.op = op
         /\ Instr.x \in Nat /\ Instr.y \in Nat /\ Instr.z \in Nat
         /\ Instr.k \in Int /\ Instr.v \in Value
         /\ op = "CheckError" => Instr.k \in Nat
         /\ Reg(Instr.x) \in Registers
         /\ op # "Tailcall" => Reg(Instr.y) \in Registers
         /\ pc \in Address
         /\ Stack # <<>> => pc.f \in Functions
         /\ pc.f \in Functions =>
              op # "Halt" /\ \A j \in Flow(Instr, pc.i + 1) : j - 1 \in 0..Len(code[pc.f]) - 1
<1>1. status = "running" /\ InCode /\ Instr.op = op /\ InFile
  BY DEF Executes
<1>2. Alive /\ Within(pc) /\ (Stack # <<>> => pc.f \in Functions)
  BY <1>1 DEF Alive, IInv, CodeIsClosed
<1>3. TypeOK /\ code \in Programs /\ pc \in Address
  BY DEF IInv, TypeOK
<1>4. /\ Instr.x \in Accessed(Instr)
      /\ op # "Tailcall" => Instr.y \in Accessed(Instr)
  BY <1>1 DEF Accessed
<1>5. Reg(Instr.x) \in Registers /\ (op # "Tailcall" => Reg(Instr.y) \in Registers)
  BY <1>1, <1>4 DEF InFile
<1> QED
  BY <1>1, <1>2, <1>3, <1>5, Fetched

\* Control stays within the function.
LEMMA Moved ==
  ASSUME IInv, NEW op, Executes(op), NEW j \in Int, j + 1 \in Flow(Instr, pc.i + 1)
  PROVE  /\ [pc EXCEPT !.i = j] \in Address
         /\ Within([pc EXCEPT !.i = j])
         /\ [pc EXCEPT !.i = j].f = pc.f
<1>1. /\ pc \in Address
      /\ pc.f \in Functions =>
           \A h \in Flow(Instr, pc.i + 1) : h - 1 \in 0..Len(code[pc.f]) - 1
  BY Executed
<1>2. /\ [pc EXCEPT !.i = j] \in Address
      /\ [pc EXCEPT !.i = j].f = pc.f
      /\ [pc EXCEPT !.i = j].i = j
  BY <1>1 DEF Address
<1>3. pc.f \in Functions => j \in 0..Len(code[pc.f]) - 1
  <2>1. (j + 1) - 1 = j
    OBVIOUS
  <2> QED
    BY <1>1, <2>1
<1>4. Within([pc EXCEPT !.i = j])
  BY <1>2, <1>3 DEF Within
<1> QED
  BY <1>2, <1>4

\* A function is entered at its first instruction.
LEMMA Entered ==
  ASSUME IInv, NEW f \in Functions
  PROVE  /\ [f |-> f, i |-> 0] \in Address
         /\ Within([f |-> f, i |-> 0])
<1>1. code[f] # <<>> /\ code[f] \in Seq(Instruction)
  BY ProgramsAssumption DEF IInv, TypeOK, CodeObject
<1>2. Len(code[f]) \in Nat \ {0}
  BY <1>1, EmptySeq
<1> QED
  BY <1>2 DEF Address, CodeObject, Within

\* A test is lost or counted twice only where the counters or the mode change.
LEMMA TestsUntouched ==
  ASSUME IInv, Alive, UNCHANGED <<mode, testvars>>
  PROVE  TestsAccountedFor'
BY DEF IInv, TestsAccountedFor, testvars

\* A value written to a register of the window leaves those below it alone.
LEMMA Written ==
  ASSUME IInv, NEW x \in Nat, Reg(x) \in Registers, NEW v \in Value, SetRegister(x, v)
  PROVE  /\ registers' \in [Registers -> Value]
         /\ \A r \in Registers : r < R_window_start => registers'[r] = registers[r]
<1>1. R_window_start \in Nat /\ registers \in [Registers -> Value]
  BY DEF IInv, TypeOK
<1>2. registers' = [registers EXCEPT ![Reg(x)] = v]
  BY DEF SetRegister
<1>3. \A r \in Registers : r < R_window_start => r # Reg(x)
  BY <1>1, LimitsAssumption DEF Reg, Registers
<1> QED
  BY <1>1, <1>2, <1>3

-----------------------------------------------------------------------------
(* The steps between modules *)

\* A module is loaded.
LEMMA LoadModuleStep ==
  ASSUME IInv, LoadModule
  PROVE  IInv'
<1>1. next \in DOMAIN Modules /\ next + 1 \in 1..Len(Modules) + 1
  BY CodeObjects DEF LoadModule, IInv, TypeOK
<1>2. module'.f \notin Functions /\ module' \in Pointer
  BY <1>1, CodeObjects DEF LoadModule, Pointer
<1>3. TypeOK'
  BY <1>1, <1>2 DEF LoadModule, IInv, TypeOK, vmvars, testvars
<1>4. Stack = <<>> /\ mode = "NORMAL"
  BY DEF LoadModule, IInv, BetweenRuns
<1>5. BetweenRuns' /\ Alive /\ Alive'
  BY <1>4 DEF LoadModule, BetweenRuns, Alive, vmvars
<1> QED
  BY <1>2, <1>3, <1>5, Outside DEF LoadModule, vmvars, testvars

\* There are no more modules.
LEMMA FinishStep ==
  ASSUME IInv, Finish
  PROVE  IInv'
<1>1. TypeOK'
  BY DEF Finish, IInv, TypeOK, vmvars
<1>2. ~Alive'
  BY DEF Finish, Alive
<1> QED
  BY <1>1, <1>2, Stops DEF Finish

\* vmrun starts a module.
LEMMA EnterModuleStep ==
  ASSUME IInv, EnterModule
  PROVE  IInv'
<1>1. module \in Pointer /\ module.f \notin Functions /\ module.f \in CodeObject /\ counter \in Int
  BY DEF IInv, ModuleIsNoFunction, TypeOK, Pointer
<1>2. pc' \in Address /\ status' \in {"loading", "running"}
  BY <1>1 DEF EnterModule, IInv, TypeOK, Address
<1>3. TypeOK'
  BY <1>1, <1>2 DEF EnterModule, IInv, TypeOK, vmvars, testvars
<1>4. Stack = <<>> /\ mode = "NORMAL"
  BY DEF EnterModule, IInv, BetweenRuns
<1>5. BetweenRuns' /\ Alive /\ Alive'
  BY <1>2, <1>4 DEF EnterModule, BetweenRuns, Alive, vmvars
<1>6. status' = "running" => Within(pc')
  BY <1>1 DEF EnterModule, Within
<1> QED
  BY <1>1, <1>3, <1>4, <1>5, <1>6, Outside DEF EnterModule, vmvars, testvars

\* What is left when the topmost frame is popped.
LEMMA TopFrame ==
  ASSUME IInv, Stack # <<>>
  PROVE  /\ Len(Stack) \in DOMAIN Stack
         /\ Stack[Len(Stack)] \in Frame
         /\ [Stack[Len(Stack)].counter EXCEPT !.i = @ + 1] \in Address
         /\ SubSeq(Stack, 1, Len(Stack) - 1) \in Seq(Frame)
         /\ Len(SubSeq(Stack, 1, Len(Stack) - 1)) <= MAX_STACK_FRAMES
<1>1. Stack \in Seq(Frame) /\ Len(Stack) <= MAX_STACK_FRAMES
  BY DEF IInv, TypeOK
<1>2. Len(Stack) \in Nat \ {0} /\ DOMAIN Stack = 1..Len(Stack)
  BY <1>1, EmptySeq
<1>3. Len(Stack) - 1 \in 0..Len(Stack) /\ Len(Stack) \in DOMAIN Stack
  BY <1>2
<1>4. Stack[Len(Stack)] \in Frame
  BY <1>1, <1>3
<1>5. Stack[Len(Stack)].counter \in Address
  BY <1>4 DEF Frame
<1>6. [Stack[Len(Stack)].counter EXCEPT !.i = @ + 1] \in Address
  BY <1>5 DEF Address
<1>7. /\ SubSeq(Stack, 1, Len(Stack) - 1) \in Seq(Frame)
      /\ Len(SubSeq(Stack, 1, Len(Stack) - 1)) = Len(Stack) - 1
  BY <1>1, <1>3, Popped
<1> QED
  BY <1>1, <1>2, <1>3, <1>4, <1>6, <1>7, LimitsAssumption

\* vmrun goes on after an error in a check-error test.
LEMMA ReenterModuleStep ==
  ASSUME IInv, ReenterModule
  PROVE  IInv'
<1>1. Alive /\ mode = "TESTING" /\ mode' = "NORMAL" /\ module' = module /\ code' = code
  BY DEF ReenterModule, Alive
<1>2. Len(Stack) \in ErrorFrames(Stack)
  BY DEF ReenterModule, IInv, BetweenRuns
<1>3. Stack # <<>>
  BY <1>2 DEF ErrorFrames
<1>4. /\ R_window_start' = Stack[Len(Stack)].R_window_start
      /\ pc' = [Stack[Len(Stack)].counter EXCEPT !.i = @ + 1]
      /\ Stack' = SubSeq(Stack, 1, Len(Stack) - 1)
      /\ status' = "running" /\ npassed' = npassed + 1
      /\ UNCHANGED <<registers, ntests, nfailed>>
  BY <1>3 DEF ReenterModule
<1>5. R_window_start' \in Nat
  BY <1>3, <1>4, TopFrame DEF Frame
<1>6. TypeOK'
  BY <1>1, <1>3, <1>4, <1>5, TopFrame DEF ReenterModule, IInv, TypeOK
<1>7. TestsAccountedFor'
  BY <1>1, <1>4 DEF IInv, TestsAccountedFor, TypeOK
<1> QED
  BY <1>1, <1>2, <1>3, <1>4, <1>6, <1>7, Pops

\* A module ends.
LEMMA HaltStep ==
  ASSUME IInv, Halt
  PROVE  IInv'
<1>1. Executes("Halt") /\ status' = "loading"
  BY DEF Halt
<1>2. Alive /\ Alive' /\ status = "running" /\ pc.f \notin Functions /\ Stack = <<>>
  BY <1>1, Executed DEF Alive
<1>3. TypeOK'
  BY DEF Halt, IInv, TypeOK, vmvars, testvars
<1>4. mode = "NORMAL"
  BY <1>2 DEF IInv, TypeOK, ErrorFrameMarksTest
<1>5. BetweenRuns'
  BY <1>1, <1>2, <1>4 DEF Halt, BetweenRuns, vmvars
<1>6. module'.f \notin Functions
  BY DEF Halt, IInv, ModuleIsNoFunction
<1> QED
  BY <1>1, <1>2, <1>3, <1>5, <1>6, Outside DEF Halt, vmvars, testvars

-----------------------------------------------------------------------------
(* The steps within a function *)

\* A register of the window is set.
LEMMA LoadLiteralStep ==
  ASSUME IInv, LoadLiteral
  PROVE  IInv'
<1>1. Executes("LoadLiteral") /\ SetRegister(Instr.x, Instr.v) /\ pc' = [pc EXCEPT !.i = pc.i + 1]
  BY DEF LoadLiteral, Proceed
<1>2. /\ Alive /\ status = "running" /\ Reg(Instr.x) \in Registers /\ Instr.x \in Nat
      /\ Instr.v \in Value /\ pc \in Address /\ Instr.op = "LoadLiteral"
      /\ Stack # <<>> => pc.f \in Functions
  BY <1>1, Executed
<1>3. /\ registers' \in [Registers -> Value]
      /\ \A r \in Registers : r < R_window_start => registers'[r] = registers[r]
  BY <1>1, <1>2, Written
<1>4. pc.i \in Int /\ pc.i + 1 \in Int /\ (pc.i + 1) + 1 \in Flow(Instr, pc.i + 1)
  BY <1>2 DEF Flow, Address
<1>5. pc' \in Address /\ Within(pc') /\ pc'.f = pc.f
  BY <1>1, <1>4, Moved
<1>6. TypeOK'
  BY <1>3, <1>5 DEF LoadLiteral, IInv, TypeOK, testvars
<1>7. TestsAccountedFor'
  BY <1>2, TestsUntouched DEF LoadLiteral
<1> QED
  BY <1>2, <1>3, <1>5, <1>6, <1>7, Local DEF LoadLiteral

\* A closure is allocated in a register of the window.
LEMMA MkClosureStep ==
  ASSUME IInv, MkClosure
  PROVE  IInv'
<1> DEFINE v == registers[Reg(Instr.y)]
<1>1. Executes("MkClosure") /\ UNCHANGED <<code, next, module>>
  BY DEF MkClosure
<1>2. /\ Alive /\ status = "running" /\ Reg(Instr.x) \in Registers /\ Instr.x \in Nat
      /\ Reg(Instr.y) \in Registers /\ pc \in Address /\ Instr.op = "MkClosure"
      /\ Stack # <<>> => pc.f \in Functions
  BY <1>1, Executed
<1>3. v \in Value /\ registers \in [Registers -> Value]
  BY <1>2 DEF IInv, TypeOK
<1>4. CASE v.tag = "VMFunction"
  <2>1. SetRegister(Instr.x, VMClosure(v.f)) /\ pc' = [pc EXCEPT !.i = pc.i + 1]
    BY <1>4 DEF MkClosure, Proceed
  <2>2. VMClosure(v.f) \in Value
    BY <1>3, <1>4, CallableHasFunction, ConstantValues
  <2>3. /\ registers' \in [Registers -> Value]
        /\ \A r \in Registers : r < R_window_start => registers'[r] = registers[r]
    BY <1>2, <2>1, <2>2, Written
  <2>4. pc.i \in Int /\ pc.i + 1 \in Int /\ (pc.i + 1) + 1 \in Flow(Instr, pc.i + 1)
    BY <1>2 DEF Flow, Address
  <2>5. pc' \in Address /\ Within(pc') /\ pc'.f = pc.f
    BY <1>1, <2>1, <2>4, Moved
  <2>6. /\ UNCHANGED <<fun, counter, R_window_start, Stack, mode, testvars, status, trial>>
        /\ gc_needed' \in {gc_needed, TRUE}
    BY <1>4 DEF MkClosure
  <2>7. TypeOK'
    BY <1>1, <2>3, <2>5, <2>6 DEF IInv, TypeOK, testvars
  <2>8. TestsAccountedFor'
    BY <1>2, <2>6, TestsUntouched
  <2> QED
    BY <1>1, <1>2, <2>3, <2>5, <2>6, <2>7, <2>8, Local
<1>5. CASE v.tag # "VMFunction"
  <2>1. RunError(Stack) /\ registers' = registers
    BY <1>5 DEF MkClosure
  <2> QED
    BY <1>1, <1>2, <1>3, <2>1, Fails
<1> QED
  BY <1>4, <1>5

\* A program's call of error.
LEMMA ErrorStep ==
  ASSUME IInv, Error
  PROVE  IInv'
<1>1. status = "running" /\ registers \in [Registers -> Value]
  BY DEF Error, Executes, IInv, TypeOK
<1> QED
  BY <1>1, Fails DEF Error

\* A jump changes nothing but pc.
LEMMA Jumps ==
  ASSUME IInv, NEW op, Executes(op), NEW j \in Int, j + 1 \in Flow(Instr, pc.i + 1),
         pc' = [pc EXCEPT !.i = j],
         UNCHANGED <<code, next, module, fun, vmvars, mode, testvars, gc_needed, status, trial>>
  PROVE  IInv'
<1>1. Alive /\ status = "running" /\ (Stack # <<>> => pc.f \in Functions)
  BY Executed
<1>2. pc' \in Address /\ Within(pc') /\ pc'.f = pc.f
  BY Moved
<1>3. TypeOK'
  BY <1>2 DEF IInv, TypeOK, vmvars, testvars
<1>4. TestsAccountedFor'
  BY <1>1, TestsUntouched
<1> QED
  BY <1>1, <1>2, <1>3, <1>4, Local DEF vmvars

\* A conditional skips the next instruction or does not.
LEMMA IfStep ==
  ASSUME IInv, If
  PROVE  IInv'
<1> DEFINE j == pc.i + (IF registers[Reg(Instr.x)] = Nil THEN 2 ELSE 1)
<1>1. Executes("If") /\ pc' = [pc EXCEPT !.i = j]
  BY DEF If
<1>2. Instr.op = "If" /\ pc.i \in Int
  BY <1>1, Executed DEF Address
<1>3. j \in Int /\ j + 1 \in Flow(Instr, pc.i + 1)
  BY <1>2 DEF Flow
<1> QED
  BY <1>1, <1>3, Jumps DEF If

\* A jump.
LEMMA GotoStep ==
  ASSUME IInv, Goto
  PROVE  IInv'
<1> DEFINE j == pc.i + 1 + Instr.k
<1>1. Executes("Goto") /\ pc' = [pc EXCEPT !.i = j]
  BY DEF Goto
<1>2. Instr.op = "Goto" /\ pc.i \in Int /\ Instr.k \in Int
  BY <1>1, Executed DEF Address
<1>3. j \in Int /\ j + 1 \in Flow(Instr, pc.i + 1)
  BY <1>2 DEF Flow
<1> QED
  BY <1>1, <1>3, Jumps DEF Goto

-----------------------------------------------------------------------------
(* Collections *)

\* A collection clears no register below the window and moves no function that
\* control is in.
LEMMA Collected ==
  ASSUME IInv, status = "running", GC,
         UNCHANGED <<code, next, fun, R_window_start, Stack, mode, testvars, trial>>,
         pc' \in Address, Within(pc'), Stack # <<>> => pc'.f \in Functions
  PROVE  IInv'
<1>1. /\ Alive /\ pc \in Address /\ module \in Pointer
      /\ registers \in [Registers -> Value] /\ R_window_start \in Nat
  BY DEF Alive, IInv, TypeOK
<1>2. CASE RootsAreSound
  <2>1. /\ counter' = pc.i /\ module' = [module EXCEPT !.valid = FALSE]
        /\ gc_needed' = FALSE /\ status' = "running"
        /\ registers' = [r \in Registers |->
                          IF \E n \in RegistersOf(fun.f) : r <= Reg(n) THEN registers[r] ELSE Nil]
    BY <1>2 DEF GC
  <2>2. registers' \in [Registers -> Value]
    BY <1>1, <2>1, ConstantValues
  <2>3. \A r \in Registers : r < R_window_start => registers'[r] = registers[r]
    <3>1. 0 \in RegistersOf(fun.f)
      BY DEF RegistersOf
    <3>2. \A r \in Registers : r < R_window_start => r <= Reg(0)
      BY <1>1, LimitsAssumption DEF Reg, Registers
    <3> QED
      BY <2>1, <3>1, <3>2
  <2>4. module'.f = module.f /\ module' \in Pointer /\ counter' \in Int
    BY <1>1, <2>1 DEF Pointer, Address
  <2>5. TypeOK'
    BY <2>1, <2>2, <2>4 DEF IInv, TypeOK, testvars
  <2>6. TestsAccountedFor'
    BY <1>1, TestsUntouched
  <2> QED
    BY <2>1, <2>3, <2>4, <2>5, <2>6, Local
<1>3. CASE ~RootsAreSound
  <2>1. status' = "undefined" /\ UNCHANGED <<counter, registers, module, gc_needed>>
    BY <1>3 DEF GC, Undefined
  <2>2. TypeOK'
    BY <2>1 DEF IInv, TypeOK, testvars
  <2> QED
    BY <2>1, <2>2, Stops DEF Alive
<1> QED
  BY <1>2, <1>3

\* A collection before a call or a backward jump.
LEMMA CollectStep ==
  ASSUME IInv, Collect
  PROVE  IInv'
<1>1. status = "running" /\ GC /\ pc' = pc
      /\ UNCHANGED <<code, next, fun, R_window_start, Stack, mode, testvars, trial>>
  BY DEF Collect
<1>2. pc \in Address /\ Within(pc) /\ (Stack # <<>> => pc.f \in Functions)
  BY <1>1 DEF Alive, IInv, TypeOK, CodeIsClosed
<1>3. Within(pc')
  BY <1>1, <1>2
<1> QED
  BY <1>1, <1>2, <1>3, Collected

\* The instruction that collects.
LEMMA GcStep ==
  ASSUME IInv, Gc
  PROVE  IInv'
<1>1. /\ Executes("Gc") /\ GC /\ pc' = [pc EXCEPT !.i = pc.i + 1]
      /\ UNCHANGED <<code, next, fun, R_window_start, Stack, mode, testvars, trial>>
  BY DEF Gc, Proceed
<1>2. /\ Instr.op = "Gc" /\ pc.i \in Int /\ status = "running"
      /\ Stack # <<>> => pc.f \in Functions
  BY <1>1, Executed DEF Address
<1>3. pc.i + 1 \in Int /\ (pc.i + 1) + 1 \in Flow(Instr, pc.i + 1)
  BY <1>2 DEF Flow
<1>4. pc' \in Address /\ Within(pc') /\ pc'.f = pc.f
  BY <1>1, <1>3, Moved
<1> QED
  BY <1>1, <1>2, <1>4, Collected

-----------------------------------------------------------------------------
(* Calls and returns *)

\* A call pushes the frame of its caller and moves the window up.
LEMMA CallStep ==
  ASSUME IInv, Call
  PROVE  IInv'
<1> DEFINE v == registers[Reg(Instr.y)]
           base == Reg(Instr.y)
<1>1. Executes("Call") /\ UNCHANGED <<code, next, module>> /\ registers' = registers
  BY DEF Call, CallFails
<1>2. /\ Alive /\ status = "running" /\ base \in Registers
      /\ Instr.x \in Nat /\ Instr.y \in Nat
      /\ pc \in Address /\ pc.i \in Int /\ Instr.op = "Call"
      /\ Stack # <<>> => pc.f \in Functions
  BY <1>1, Executed DEF Address
<1>3. /\ registers \in [Registers -> Value] /\ R_window_start \in Nat /\ fun \in Pointer
      /\ Stack \in Seq(Frame) /\ mode \in {"NORMAL", "TESTING"}
  BY DEF IInv, TypeOK
<1>4. v \in Value /\ base \in Nat /\ base >= R_window_start
  BY <1>2, <1>3 DEF Reg
<1>5. /\ CallFrame \in Frame /\ CallFrame.dest_reg_idx >= 0
      /\ CallFrame.R_window_start = R_window_start /\ CallFrame.base = base
      /\ CallFrame.counter = pc /\ CallFrame.kept = registers
  BY <1>2, <1>3, <1>4 DEF CallFrame, Frame
<1>6. CASE RunError(Stack)
  BY <1>1, <1>2, <1>3, <1>6, Fails
<1>7. CASE RunError(Append(Stack, CallFrame))
  BY <1>1, <1>2, <1>3, <1>5, <1>7, Fails, FailsAfterPush
<1>8. CASE /\ Callable(v) /\ HasRoom(base, v.f)
           /\ Stack' = Append(Stack, CallFrame)
           /\ R_window_start' = base
           /\ EnterFunction(v.f)
  <2>1. v.f \in Functions
    BY <1>4, <1>8, CallableHasFunction DEF Callable
  <2>2. /\ fun' = [f |-> v.f, valid |-> TRUE] /\ pc' = [f |-> v.f, i |-> 0]
        /\ UNCHANGED <<counter, mode, testvars, gc_needed, status, trial>>
    BY <1>8 DEF EnterFunction
  <2>3. pc' \in Address /\ Within(pc') /\ pc'.f \in Functions
    BY <2>1, <2>2, Entered
  <2>4. fun' \in Pointer
    BY <2>1, <2>2, CodeObjects DEF Pointer
  <2>5. Stack' \in Seq(Frame) /\ Len(Stack) \in Nat /\ Len(Stack') = Len(Stack) + 1
    BY <1>3, <1>5, <1>8, Pushed
  <2>6. Len(Stack') <= MAX_STACK_FRAMES
    BY <1>8, <2>5, LimitsAssumption DEF HasRoom
  <2>7. R_window_start' \in Nat
    BY <1>4, <1>8
  <2>8. TypeOK'
    BY <1>1, <2>2, <2>3, <2>4, <2>5, <2>6, <2>7 DEF IInv, TypeOK, testvars
  <2>9. TestsAccountedFor'
    BY <1>2, <2>2, TestsUntouched
  <2>10. ErrorFrames(Stack') = ErrorFrames(Stack) /\ DOMAIN Stack \subseteq DOMAIN Stack'
    BY <1>3, <1>5, <1>8, PushedCall
  <2>11. ErrorFrameMarksTest'
    BY <1>2, <2>2, <2>10 DEF IInv, ErrorFrameMarksTest
  <2>12. TrialIsRemembered'
    <3> SUFFICES ASSUME mode = "TESTING", NEW i \in ErrorFrames(Stack)
                 PROVE  /\ SubSeq(Stack', 1, i - 1) = trial.Stack
                        /\ Stack'[i].counter = trial.pc
                        /\ Stack'[i].R_window_start = trial.R_window_start
      BY <2>2, <2>10 DEF TrialIsRemembered
    <3>1. /\ SubSeq(Stack, 1, i - 1) = trial.Stack
          /\ Stack[i].counter = trial.pc /\ Stack[i].R_window_start = trial.R_window_start
      BY <1>2 DEF IInv, TrialIsRemembered
    <3>2. i \in 1..Len(Stack) /\ i - 1 \in 0..Len(Stack)
      BY <1>3 DEF ErrorFrames
    <3>3. SubSeq(Stack', 1, i - 1) = SubSeq(Stack, 1, i - 1)
      BY <1>3, <1>5, <1>8, <3>2, PrefixOfPushed
    <3>4. Stack'[i] = Stack[i]
      BY <1>3, <1>5, <1>8, <3>2, Pushed
    <3> QED
      BY <3>1, <3>3, <3>4
  <2>13. Within([pc EXCEPT !.i = pc.i + 1])
    <3>1. pc.i + 1 \in Int /\ (pc.i + 1) + 1 \in Flow(Instr, pc.i + 1)
      BY <1>2 DEF Flow
    <3> QED
      BY <1>1, <3>1, Moved
  <2>14. CallFrame.base = R_window_start' /\ R_window_start' >= R_window_start
    BY <1>4, <1>5, <1>8
  <2>15. status' = "running"
    BY <1>2, <2>2
  <2> QED
    BY <1>1, <1>2, <1>5, <1>8, <2>3, <2>8, <2>9, <2>11, <2>12, <2>13, <2>14, <2>15, Calls
<1> QED
  BY <1>6, <1>7, <1>8 DEF Call, CallFails

\* A tail call copies its arguments to its own window, never below it.
LEMMA TailcallStep ==
  ASSUME IInv, Tailcall
  PROVE  IInv'
<1> DEFINE v == registers[Reg(Instr.x)]
           n == NArgs(Instr.x, Instr.y)
           Room == Instr.y + R_window_start < NUM_REGISTERS
           Copied == [r \in Registers |->
                       IF r \in R_window_start..R_window_start + n
                       THEN registers[r + Instr.x] ELSE registers[r]]
<1>1. Executes("Tailcall") /\ UNCHANGED <<code, next, module>>
  BY DEF Tailcall
<1>2. /\ Alive /\ status = "running" /\ Reg(Instr.x) \in Registers
      /\ Instr.x \in Nat /\ Instr.y \in Nat
  BY <1>1, Executed
<1>3. /\ registers \in [Registers -> Value] /\ R_window_start \in Nat
      /\ Stack \in Seq(Frame)
  BY DEF IInv, TypeOK
<1>4. v \in Value
  BY <1>2, <1>3
<1>5. CASE RunError(Stack) /\ registers' = registers
  BY <1>1, <1>2, <1>3, <1>5, Fails
<1>6. CASE Undefined /\ UNCHANGED <<fun, pc, vmvars, mode, testvars, gc_needed, trial>>
  <2>1. TypeOK' /\ ~Alive'
    BY <1>1, <1>6 DEF Undefined, Alive, IInv, TypeOK, vmvars, testvars
  <2> QED
    BY <1>1, <2>1, Stops
<1>7. CASE /\ Callable(v) /\ Reg(Instr.x + n) \in Registers
           /\ registers' = Copied
           /\ IF Arity[v.f] = n
              THEN EnterFunction(v.f) /\ UNCHANGED <<R_window_start, Stack>>
              ELSE RunError(Stack)
  <2>1. n \in Nat
    BY <1>2 DEF NArgs
  <2>2. \A r \in Registers : r \in R_window_start..R_window_start + n => r + Instr.x \in Registers
    BY <1>2, <1>3, <1>7, <2>1, LimitsAssumption DEF Reg, Registers
  <2>3. Copied \in [Registers -> Value]
    BY <1>3, <2>2
  <2>4. \A r \in Registers : r < R_window_start => Copied[r] = registers[r]
    BY <1>3, <2>1, LimitsAssumption DEF Registers
  <2>5. /\ registers' \in [Registers -> Value]
        /\ \A r \in Registers : r < R_window_start => registers'[r] = registers[r]
    BY <1>7, <2>3, <2>4
  <2>6. CASE RunError(Stack)
    BY <1>1, <1>2, <2>5, <2>6, Fails
  <2>7. CASE EnterFunction(v.f) /\ UNCHANGED <<R_window_start, Stack>>
    <3>1. v.f \in Functions
      BY <1>4, <1>7, CallableHasFunction DEF Callable
    <3>2. /\ fun' = [f |-> v.f, valid |-> TRUE] /\ pc' = [f |-> v.f, i |-> 0]
          /\ UNCHANGED <<counter, mode, testvars, gc_needed, status, trial>>
      BY <2>7 DEF EnterFunction
    <3>3. pc' \in Address /\ Within(pc') /\ pc'.f \in Functions
      BY <3>1, <3>2, Entered
    <3>4. fun' \in Pointer
      BY <3>1, <3>2, CodeObjects DEF Pointer
    <3>5. TypeOK'
      BY <1>1, <2>5, <2>7, <3>2, <3>3, <3>4 DEF IInv, TypeOK, testvars
    <3>6. TestsAccountedFor'
      BY <1>2, <3>2, TestsUntouched
    <3> QED
      BY <1>1, <1>2, <2>5, <2>7, <3>2, <3>3, <3>5, <3>6, Local
  <2> QED
    BY <1>7, <2>6, <2>7
<1> QED
  BY <1>5, <1>6, <1>7 DEF Tailcall, CallFails

\* A return pops the topmost frame; that of a test fails the test.
LEMMA ReturnStep ==
  ASSUME IInv, Return
  PROVE  IInv'
<1> DEFINE callee == Stack[Len(Stack)]
           dest == callee.R_window_start + callee.dest_reg_idx
<1>1. Executes("Return") /\ UNCHANGED <<code, next, module>>
  BY DEF Return
<1>2. /\ Alive /\ status = "running" /\ Reg(Instr.x) \in Registers
  BY <1>1, Executed
<1>3. /\ registers \in [Registers -> Value] /\ R_window_start \in Nat
      /\ mode \in {"NORMAL", "TESTING"} /\ nfailed \in Nat /\ ntests \in Nat /\ npassed \in Nat
  BY DEF IInv, TypeOK
<1>4. CASE Stack = <<>>
  <2>1. RunError(Stack) /\ registers' = registers
    BY <1>4 DEF Return
  <2> QED
    BY <1>1, <1>2, <1>3, <2>1, Fails
<1>5. CASE Stack # <<>>
  <2>1. /\ Stack' = SubSeq(Stack, 1, Len(Stack) - 1)
        /\ R_window_start' = callee.R_window_start
        /\ fun' = callee.fun
        /\ pc' = [callee.counter EXCEPT !.i = @ + 1]
        /\ UNCHANGED <<counter, checks, awaiting_expect, ntests, npassed, gc_needed, trial>>
        /\ IF callee.dest_reg_idx >= 0
           THEN /\ registers' = [registers EXCEPT ![dest] = registers[Reg(Instr.x)]]
                /\ UNCHANGED <<mode, nfailed, status>>
           ELSE /\ nfailed' = nfailed + 1
                /\ IF mode = "TESTING" THEN mode' = "NORMAL" /\ UNCHANGED status
                                       ELSE Abort /\ UNCHANGED mode
                /\ UNCHANGED registers
    BY <1>5 DEF Return
  <2>2. /\ callee \in Frame /\ Len(Stack) \in DOMAIN Stack
        /\ pc' \in Address /\ Stack' \in Seq(Frame) /\ Len(Stack') <= MAX_STACK_FRAMES
    BY <1>5, <2>1, TopFrame
  <2>3. callee.R_window_start \in Nat /\ callee.dest_reg_idx \in Int /\ callee.fun \in Pointer
    BY <2>2 DEF Frame
  <2>4. Len(Stack) \in ErrorFrames(Stack) <=> callee.dest_reg_idx < 0
    BY <2>2 DEF ErrorFrames
  <2>5. CASE callee.dest_reg_idx >= 0
    <3>1. /\ registers' = [registers EXCEPT ![dest] = registers[Reg(Instr.x)]]
          /\ UNCHANGED <<mode, nfailed, status>>
      BY <2>1, <2>5
    <3>2. registers[Reg(Instr.x)] \in Value
      BY <1>2, <1>3
    <3>3. registers' \in [Registers -> Value]
      BY <1>3, <3>1, <3>2
    <3>4. \A r \in Registers : r < R_window_start' => registers'[r] = registers[r]
      <4>1. \A r \in Registers : r < R_window_start' => r # dest
        BY <2>1, <2>3, <2>5, LimitsAssumption DEF Registers
      <4> QED
        BY <1>3, <3>1, <4>1
    <3>5. TypeOK'
      BY <1>1, <2>1, <2>2, <2>3, <3>1, <3>3 DEF IInv, TypeOK
    <3>6. TestsAccountedFor'
      BY <1>2, <2>1, <3>1, TestsUntouched DEF testvars
    <3>7. ~(Len(Stack) \in ErrorFrames(Stack))
      BY <2>3, <2>4, <2>5
    <3> QED
      BY <1>1, <1>2, <1>5, <2>1, <3>1, <3>4, <3>5, <3>6, <3>7, Pops
  <2>6. CASE ~(callee.dest_reg_idx >= 0)
    <3>1. Len(Stack) \in ErrorFrames(Stack)
      BY <2>3, <2>4, <2>6
    <3>2. mode = "TESTING"
      BY <1>2, <1>3, <3>1 DEF IInv, ErrorFrameMarksTest
    <3>3. /\ nfailed' = nfailed + 1 /\ mode' = "NORMAL" /\ status' = status
          /\ registers' = registers
      BY <2>1, <2>6, <3>2
    <3>4. TypeOK'
      BY <1>1, <1>3, <2>1, <2>2, <2>3, <3>3 DEF IInv, TypeOK
    <3>5. TestsAccountedFor'
      BY <1>2, <1>3, <2>1, <3>2, <3>3 DEF IInv, TestsAccountedFor
    <3> QED
      BY <1>1, <1>2, <1>5, <2>1, <3>1, <3>3, <3>4, <3>5, Pops
  <2> QED
    BY <2>5, <2>6
<1> QED
  BY <1>4, <1>5

-----------------------------------------------------------------------------
(* Unit tests *)

\* A test's result is counted once.
LEMMA Counted ==
  ASSUME IInv, Alive, mode' = mode, ntests' = ntests + 1, NEW u, NEW w, Expected(u, w)
  PROVE  TestsAccountedFor' /\ ntests' \in Nat /\ npassed' \in Nat /\ nfailed' \in Nat
<1>1. ntests \in Nat /\ npassed \in Nat /\ nfailed \in Nat
  BY DEF IInv, TypeOK
<1>2. CASE u = w
  <2>1. npassed' = npassed + 1 /\ nfailed' = nfailed
    BY <1>2 DEF Expected
  <2>2. TestsAccountedFor'
    BY <1>1, <2>1 DEF IInv, TestsAccountedFor
  <2> QED
    BY <1>1, <2>1, <2>2
<1>3. CASE u # w
  <2>1. npassed' = npassed /\ nfailed' = nfailed + 1
    BY <1>3 DEF Expected
  <2>2. TestsAccountedFor'
    BY <1>1, <2>1 DEF IInv, TestsAccountedFor
  <2> QED
    BY <1>1, <2>1, <2>2
<1> QED
  BY <1>2, <1>3

\* An instruction of a unit test goes on with the next one, or an assertion
\* fails.
LEMMA TestGoesOn ==
  ASSUME IInv, NEW op, Executes(op), op \in {"Check", "Expect", "CheckAssert"},
         UNCHANGED <<code, next, module, fun, vmvars, mode, gc_needed, trial>>,
         \/ AssertionFails
         \/ /\ Proceed /\ status' = status
            /\ checks' \in BOOLEAN /\ awaiting_expect' \in Value
            /\ TestsAccountedFor' /\ ntests' \in Nat /\ npassed' \in Nat /\ nfailed' \in Nat
  PROVE  IInv'
<1>1. CASE AssertionFails
  <2>1. TypeOK' /\ ~Alive'
    BY <1>1 DEF AssertionFails, Abort, Alive, IInv, TypeOK, vmvars, testvars
  <2> QED
    BY <2>1, Stops
<1>2. CASE /\ Proceed /\ status' = status
           /\ checks' \in BOOLEAN /\ awaiting_expect' \in Value
           /\ TestsAccountedFor' /\ ntests' \in Nat /\ npassed' \in Nat /\ nfailed' \in Nat
  <2>1. /\ Instr.op = op /\ pc.i \in Int /\ status = "running" /\ Alive
        /\ Stack # <<>> => pc.f \in Functions
    BY Executed DEF Address
  <2>2. pc.i + 1 \in Int /\ (pc.i + 1) + 1 \in Flow(Instr, pc.i + 1)
    BY <2>1 DEF Flow
  <2>3. pc' = [pc EXCEPT !.i = pc.i + 1]
    BY <1>2 DEF Proceed
  <2>4. pc' \in Address /\ Within(pc') /\ pc'.f = pc.f
    BY <2>2, <2>3, Moved
  <2>5. TypeOK'
    BY <1>2, <2>4 DEF IInv, TypeOK, vmvars
  <2> QED
    BY <1>2, <2>1, <2>4, <2>5, Local DEF vmvars
<1> QED
  BY <1>1, <1>2

\* The first half of a test.
LEMMA CheckStep ==
  ASSUME IInv, Check
  PROVE  IInv'
<1>1. Executes("Check")
  BY DEF Check
<1>2. Alive /\ Reg(Instr.x) \in Registers
  BY <1>1, Executed
<1>3. registers[Reg(Instr.x)] \in Value /\ ntests \in Nat /\ npassed \in Nat /\ nfailed \in Nat
  BY <1>2 DEF IInv, TypeOK
<1>4. CASE checks
  BY <1>1, <1>4, TestGoesOn DEF Check
<1>5. CASE ~checks
  <2>1. /\ checks' = TRUE /\ awaiting_expect' = registers[Reg(Instr.x)]
        /\ Proceed /\ UNCHANGED <<ntests, npassed, nfailed, status, mode>>
    BY <1>5 DEF Check
  <2>2. TestsAccountedFor'
    BY <1>2, <2>1 DEF IInv, TestsAccountedFor
  <2> QED
    BY <1>1, <1>3, <2>1, <2>2, TestGoesOn DEF Check
<1> QED
  BY <1>4, <1>5

\* The second half of a test.
LEMMA ExpectStep ==
  ASSUME IInv, Expect
  PROVE  IInv'
<1>1. Executes("Expect")
  BY DEF Expect
<1>2. Alive
  BY <1>1, Executed
<1>3. CASE ~checks
  BY <1>1, <1>3, TestGoesOn DEF Expect
<1>4. CASE checks
  <2>1. /\ ntests' = ntests + 1 /\ mode' = mode
        /\ Expected(awaiting_expect, registers[Reg(Instr.x)])
        /\ awaiting_expect' = Nil /\ checks' = FALSE /\ Proceed /\ UNCHANGED status
    BY <1>4 DEF Expect
  <2>2. TestsAccountedFor' /\ ntests' \in Nat /\ npassed' \in Nat /\ nfailed' \in Nat
    BY <1>2, <2>1, Counted
  <2> QED
    BY <1>1, <2>1, <2>2, ConstantValues, TestGoesOn DEF Expect
<1> QED
  BY <1>3, <1>4

\* A test in one instruction.
LEMMA CheckAssertStep ==
  ASSUME IInv, CheckAssert
  PROVE  IInv'
<1>1. Executes("CheckAssert")
  BY DEF CheckAssert
<1>2. Alive
  BY <1>1, Executed
<1>3. CASE checks
  BY <1>1, <1>3, TestGoesOn DEF CheckAssert
<1>4. CASE ~checks
  <2>1. /\ ntests' = ntests + 1 /\ mode' = mode
        /\ Expected(registers[Reg(Instr.x)], True)
        /\ awaiting_expect' = Nil /\ Proceed /\ UNCHANGED <<checks, status>>
    BY <1>4 DEF CheckAssert
  <2>2. TestsAccountedFor' /\ ntests' \in Nat /\ npassed' \in Nat /\ nfailed' \in Nat
    BY <1>2, <2>1, Counted
  <2>3. checks' \in BOOLEAN
    BY <2>1 DEF IInv, TypeOK
  <2> QED
    BY <1>1, <2>1, <2>2, <2>3, ConstantValues, TestGoesOn DEF CheckAssert
<1> QED
  BY <1>3, <1>4

\* The frame of a test, pushed while no test is running, marks the test.
LEMMA PushedTest ==
  ASSUME NEW s \in Seq(Frame), ErrorFrames(s) = {}, NEW a \in Frame, a.dest_reg_idx < 0
  PROVE  ErrorFrames(Append(s, a)) = {Len(s) + 1}
<1> DEFINE t == Append(s, a)
<1>1. /\ Len(s) \in Nat /\ DOMAIN s = 1..Len(s) /\ DOMAIN t = 1..Len(s) + 1
      /\ \A i \in 1..Len(s) : t[i] = s[i]
      /\ t[Len(s) + 1] = a
  BY Pushed
<1> HIDE DEF t
<1>2. \A i \in DOMAIN t : i \in DOMAIN s \/ i = Len(s) + 1
  BY <1>1
<1>3. \A i \in DOMAIN s : ~(s[i].dest_reg_idx < 0)
  BY DEF ErrorFrames
<1>4. \A i \in DOMAIN t : t[i].dest_reg_idx < 0 <=> i = Len(s) + 1
  BY <1>1, <1>2, <1>3
<1>5. Len(s) + 1 \in DOMAIN t
  BY <1>1
<1>6. ErrorFrames(t) = {Len(s) + 1}
  BY <1>4, <1>5 DEF ErrorFrames
<1> QED
  BY <1>6 DEF t

\* A check-error instruction starts a test, unless the program stops.
LEMMA CheckErrorStep ==
  ASSUME IInv, MessagesAreNotInSlotZero, CheckError
  PROVE  IInv'
<1> DEFINE v == registers[Reg(Instr.x)]
           Full == Len(Stack) = MAX_STACK_FRAMES
<1>1. Executes("CheckError") /\ UNCHANGED <<code, next, module, registers>>
  BY DEF CheckError
<1>2. /\ Alive /\ status = "running" /\ Reg(Instr.x) \in Registers
      /\ pc \in Address /\ pc.i \in Int /\ Instr.op = "CheckError" /\ InCode
      /\ Instr.k \in Nat
      /\ Stack # <<>> => pc.f \in Functions
  BY <1>1, Executed DEF Address, Executes
<1>3. /\ registers \in [Registers -> Value] /\ R_window_start \in Nat /\ fun \in Pointer
      /\ Stack \in Seq(Frame) /\ Len(Stack) <= MAX_STACK_FRAMES /\ Len(Stack) \in Nat
      /\ ntests \in Nat /\ npassed \in Nat /\ nfailed \in Nat
  BY DEF IInv, TypeOK
<1>4. v \in Value
  BY <1>2, <1>3
<1>5. CASE Abort /\ UNCHANGED <<fun, pc, vmvars, mode, testvars, gc_needed, trial>>
  <2>1. TypeOK' /\ ~Alive'
    BY <1>1, <1>5 DEF Abort, Alive, IInv, TypeOK, vmvars, testvars
  <2> QED
    BY <1>1, <2>1, Stops
<1>6. CASE RunError(Stack)
  BY <1>1, <1>2, <1>3, <1>6, Fails
<1>7. CASE /\ ntests' = ntests + 1
           /\ Abort
           /\ mode' = IF Full THEN "NORMAL" ELSE "TESTING"
           /\ Stack' = IF Full THEN Unwound(Stack) ELSE Stack
           /\ UNCHANGED <<fun, pc, counter, R_window_start, checks,
                          awaiting_expect, npassed, nfailed, gc_needed, trial>>
  <2>1. PICK n \in 0..Len(Stack) : Unwound(Stack) = SubSeq(Stack, 1, n)
    BY <1>2, UnwoundStack
  <2>2. SubSeq(Stack, 1, n) \in Seq(Frame) /\ Len(SubSeq(Stack, 1, n)) = n
    BY <1>3, Popped
  <2>3. Stack' \in Seq(Frame) /\ Len(Stack') <= MAX_STACK_FRAMES
    BY <1>3, <1>7, <2>1, <2>2, LimitsAssumption
  <2>4. TypeOK'
    BY <1>1, <1>3, <1>7, <2>3 DEF Abort, IInv, TypeOK
  <2> QED
    BY <1>1, <1>7, <2>4, Stops DEF Abort, Alive
<1>8. CASE /\ mode = "NORMAL" /\ v.tag = "VMFunction" /\ ~Full
           /\ StartTest(v.f)
  <2>1. v.f \in Functions
    BY <1>4, <1>8, CallableHasFunction
  <2>2. /\ ntests' = ntests + 1 /\ mode' = "TESTING"
        /\ Stack' = Append(Stack, ErrorFrame)
        /\ trial' = [pc |-> pc, R_window_start |-> R_window_start, Stack |-> Stack]
        /\ fun' = [f |-> v.f, valid |-> TRUE] /\ pc' = [f |-> v.f, i |-> 0]
        /\ UNCHANGED <<status, counter, R_window_start, checks, awaiting_expect,
                       npassed, nfailed, gc_needed>>
    BY <1>8 DEF StartTest
  <2>3. Instr.k > 0
    <3>1. pc.f \in CodeObject /\ pc.i \in 0..Len(code[pc.f]) /\ code[pc.f] \in Seq(Instruction)
      BY <1>2 DEF Address, InCode, IInv, TypeOK
    <3>2. HaltSentinel.op # "CheckError"
      BY DEF HaltSentinel
    <3>3. pc.i + 1 \in DOMAIN code[pc.f] /\ Instr = code[pc.f][pc.i + 1]
      BY <1>2, <3>1, <3>2 DEF Instr
    <3> QED
      BY <1>2, <3>1, <3>3 DEF IInv, MessagesAreNotInSlotZero
  <2>4. /\ ErrorFrame \in Frame /\ ErrorFrame.dest_reg_idx < 0
        /\ ErrorFrame.R_window_start = R_window_start /\ ErrorFrame.base = R_window_start
        /\ ErrorFrame.counter = pc /\ ErrorFrame.kept = registers
    BY <1>2, <1>3, <2>3 DEF ErrorFrame, Frame
  <2>5. pc' \in Address /\ Within(pc') /\ pc'.f \in Functions
    BY <2>1, <2>2, Entered
  <2>6. fun' \in Pointer
    BY <2>1, <2>2, CodeObjects DEF Pointer
  <2>7. Stack' \in Seq(Frame) /\ Len(Stack') = Len(Stack) + 1
    BY <1>3, <2>2, <2>4, Pushed
  <2>8. Len(Stack') <= MAX_STACK_FRAMES
    BY <1>3, <1>8, <2>7, LimitsAssumption
  <2>9. TypeOK'
    BY <1>1, <1>3, <2>2, <2>5, <2>6, <2>7, <2>8 DEF IInv, TypeOK
  <2>10. TestsAccountedFor'
    BY <1>2, <1>3, <1>8, <2>2 DEF IInv, TestsAccountedFor
  <2>11. ErrorFrames(Stack') = {Len(Stack) + 1} /\ Len(Stack) + 1 \in DOMAIN Stack'
    <3>1. ErrorFrames(Stack) = {}
      BY <1>2, <1>8 DEF IInv, ErrorFrameMarksTest
    <3> QED
      BY <1>3, <2>2, <2>4, <3>1, Pushed, PushedTest
  <2>12. ErrorFrameMarksTest'
    BY <2>2, <2>11 DEF ErrorFrameMarksTest
  <2>13. TrialIsRemembered'
    <3>1. Len(Stack) \in 0..Len(Stack) /\ (Len(Stack) + 1) - 1 = Len(Stack)
      BY <1>3
    <3>2. SubSeq(Stack', 1, Len(Stack)) = Stack
      BY <1>3, <2>2, <2>4, <3>1, PrefixOfPushed, WholePrefix
    <3>3. Stack'[Len(Stack) + 1] = ErrorFrame
      BY <1>3, <2>2, <2>4, Pushed
    <3> QED
      BY <2>2, <2>4, <2>11, <3>1, <3>2, <3>3 DEF TrialIsRemembered
  <2>14. Within([pc EXCEPT !.i = pc.i + 1])
    <3>1. pc.i + 1 \in Int /\ (pc.i + 1) + 1 \in Flow(Instr, pc.i + 1)
      BY <1>2 DEF Flow
    <3> QED
      BY <1>1, <3>1, Moved
  <2>15. ErrorFrame.base = R_window_start' /\ R_window_start' >= R_window_start
         /\ status' = "running"
    BY <1>2, <1>3, <2>2, <2>4
  <2> QED
    BY <1>1, <1>2, <2>2, <2>4, <2>5, <2>9, <2>10, <2>12, <2>13, <2>14, <2>15, Calls
<1> QED
  BY <1>5, <1>6, <1>7, <1>8 DEF CheckError

-----------------------------------------------------------------------------
(* The theorems *)

\* What C leaves undefined ends the behaviour.
LEMMA OutOfBoundsStep ==
  ASSUME IInv, OutOfBounds
  PROVE  IInv'
<1>1. TypeOK' /\ ~Alive'
  BY DEF OutOfBounds, Undefined, Alive, IInv, TypeOK, vmvars, testvars
<1> QED
  BY <1>1, Stops DEF OutOfBounds

\* Nothing changes.
LEMMA Stuttering ==
  ASSUME IInv, UNCHANGED vars
  PROVE  IInv'
<1>1. TypeOK' /\ code' \in Programs /\ ModuleIsNoFunction' /\ Alive' = Alive
  BY DEF vars, vmvars, testvars, IInv, TypeOK, ModuleIsNoFunction, Alive
<1>2. ErrorFrameMarksTest' /\ CallersRegistersKept' /\ TestsAccountedFor'
  BY <1>1 DEF vars, vmvars, testvars, IInv, ErrorFrameMarksTest, CallersRegistersKept,
       TestsAccountedFor, ErrorFrames
<1>3. WindowsNested' /\ BetweenRuns' /\ TrialIsRemembered'
  BY <1>1 DEF vars, vmvars, IInv, WindowsNested, BetweenRuns, TrialIsRemembered, ErrorFrames
<1>4. CodeIsClosed'
  BY <1>1 DEF vars, vmvars, IInv, CodeIsClosed, Within
<1> QED
  BY <1>1, <1>2, <1>3, <1>4 DEF IInv

\* The machine starts with no frames and no test.
LEMMA Initially ==
  ASSUME Init
  PROVE  IInv
<1>1. Modules[1] \in CodeObject /\ Modules[1] \notin Functions /\ 1 \in 1..Len(Modules) + 1
  BY CodeObjects
<1>2. Stack \in Seq(Frame) /\ Len(Stack) = 0 /\ DOMAIN Stack = {} /\ ErrorFrames(Stack) = {}
  BY DEF Init, ErrorFrames
<1>3. code \in [CodeObject -> Seq(Instruction)]
  BY ProgramsAssumption DEF Init
<1>4. TypeOK
  <2>1. module \in Pointer /\ fun \in Pointer /\ pc \in Address
    BY <1>1 DEF Init, Pointer, Address
  <2>2. registers \in [Registers -> Value] /\ awaiting_expect \in Value
    BY ConstantValues DEF Init
  <2>3. Len(Stack) <= MAX_STACK_FRAMES
    BY <1>2, LimitsAssumption
  <2>4. next \in 1..Len(Modules) + 1 /\ counter \in Int /\ R_window_start \in Nat
        /\ ntests \in Nat /\ npassed \in Nat /\ nfailed \in Nat
        /\ mode = "NORMAL" /\ checks = FALSE /\ gc_needed = FALSE /\ status = "loading"
    BY <1>1 DEF Init
  <2> QED
    BY <1>2, <1>3, <2>1, <2>2, <2>3, <2>4 DEF TypeOK
<1>5. ModuleIsNoFunction /\ ErrorFrameMarksTest /\ CallersRegistersKept /\ TestsAccountedFor
  BY <1>1, <1>2 DEF Init, ModuleIsNoFunction, ErrorFrameMarksTest, CallersRegistersKept,
       TestsAccountedFor
<1>6. WindowsNested /\ CodeIsClosed /\ BetweenRuns /\ TrialIsRemembered
  BY <1>2 DEF Init, WindowsNested, CodeIsClosed, BetweenRuns, TrialIsRemembered
<1> QED
  BY <1>4, <1>5, <1>6 DEF Init, IInv

\* IInv is an invariant of the virtual machine for every program whose messages
\* are not in literal slot 0.
THEOREM Invariance ==
  ASSUME MessagesAreNotInSlotZero
  PROVE  Spec => []IInv
<1>1. Init => IInv
  BY Initially
<1>2. IInv /\ [Next]_vars => IInv'
  <2> SUFFICES ASSUME IInv, [Next]_vars
               PROVE  IInv'
    OBVIOUS
  <2>1. CASE LoadModule
    BY <2>1, LoadModuleStep
  <2>2. CASE Finish
    BY <2>2, FinishStep
  <2>3. CASE EnterModule
    BY <2>3, EnterModuleStep
  <2>4. CASE ReenterModule
    BY <2>4, ReenterModuleStep
  <2>5. CASE LoadLiteral
    BY <2>5, LoadLiteralStep
  <2>6. CASE MkClosure
    BY <2>6, MkClosureStep
  <2>7. CASE Error
    BY <2>7, ErrorStep
  <2>8. CASE If
    BY <2>8, IfStep
  <2>9. CASE Goto
    BY <2>9, GotoStep
  <2>10. CASE Collect
    BY <2>10, CollectStep
  <2>11. CASE Gc
    BY <2>11, GcStep
  <2>12. CASE Call
    BY <2>12, CallStep
  <2>13. CASE Tailcall
    BY <2>13, TailcallStep
  <2>14. CASE Return
    BY <2>14, ReturnStep
  <2>15. CASE Check
    BY <2>15, CheckStep
  <2>16. CASE Expect
    BY <2>16, ExpectStep
  <2>17. CASE CheckAssert
    BY <2>17, CheckAssertStep
  <2>18. CASE CheckError
    BY <2>18, CheckErrorStep
  <2>19. CASE Halt
    BY <2>19, HaltStep
  <2>20. CASE OutOfBounds
    BY <2>20, OutOfBoundsStep
  <2>21. CASE Stopped
    BY <2>21, Stuttering DEF Stopped
  <2>22. CASE UNCHANGED vars
    BY <2>22, Stuttering
  <2> QED
    BY <2>1, <2>2, <2>3, <2>4, <2>5, <2>6, <2>7, <2>8, <2>9, <2>10, <2>11, <2>12, <2>13,
       <2>14, <2>15, <2>16, <2>17, <2>18, <2>19, <2>20, <2>21, <2>22 DEF Next
<1> QED
  BY <1>1, <1>2, PTL DEF Spec

\* Type correctness.
THEOREM TypeCorrectness ==
  ASSUME MessagesAreNotInSlotZero
  PROVE  Spec => []TypeOK
<1>1. IInv => TypeOK
  BY DEF IInv
<1> QED
  BY <1>1, Invariance, PTL

\* The machine is in TESTING mode exactly while the frame of one check-error
\* test is on the stack.
THEOREM TestIsMarked ==
  ASSUME MessagesAreNotInSlotZero
  PROVE  Spec => []ErrorFrameMarksTest
<1>1. IInv => ErrorFrameMarksTest
  BY DEF IInv
<1> QED
  BY <1>1, Invariance, PTL

\* No function and no collection changes a register that a caller will read.
THEOREM RegistersOfCallers ==
  ASSUME MessagesAreNotInSlotZero
  PROVE  Spec => []CallersRegistersKept
<1>1. IInv => CallersRegistersKept
  BY DEF IInv
<1> QED
  BY <1>1, Invariance, PTL

\* No test is lost or counted twice.
THEOREM EveryTestCounted ==
  ASSUME MessagesAreNotInSlotZero
  PROVE  Spec => []TestsAccountedFor
<1>1. IInv => TestsAccountedFor
  BY DEF IInv
<1> QED
  BY <1>1, Invariance, PTL

\* A step that ends a check-error test leaves the machine after the instruction
\* that started the test, with the stack and the window of then.
LEMMA TestEnds ==
  ASSUME IInv, Next, mode = "TESTING", mode' = "NORMAL"
  PROVE  /\ Stack' = trial.Stack
         /\ R_window_start' = trial.R_window_start
         /\ pc' = [trial.pc EXCEPT !.i = @ + 1]
<1> DEFINE callee == Stack[Len(Stack)]
<1>1. mode # mode'
  OBVIOUS
<1>2. SUFFICES ASSUME Alive, Len(Stack) \in ErrorFrames(Stack),
                      Stack' = SubSeq(Stack, 1, Len(Stack) - 1),
                      R_window_start' = callee.R_window_start,
                      pc' = [callee.counter EXCEPT !.i = @ + 1]
               PROVE  /\ Stack' = trial.Stack
                      /\ R_window_start' = trial.R_window_start
                      /\ pc' = [trial.pc EXCEPT !.i = @ + 1]
  <2>1. CASE ReenterModule
    <3>1. Alive /\ Len(Stack) \in ErrorFrames(Stack)
      BY <2>1 DEF ReenterModule, Alive, IInv, BetweenRuns
    <3>2. Stack # <<>>
      BY <3>1 DEF ErrorFrames
    <3> QED
      BY <1>2, <2>1, <3>1, <3>2 DEF ReenterModule
  <2>2. CASE Return
    <3>1. Stack # <<>> /\ ~(callee.dest_reg_idx >= 0)
      BY <1>1, <2>2 DEF Return, RunError
    <3>2. Len(Stack) \in DOMAIN Stack /\ callee.dest_reg_idx < 0
      BY <3>1, TopFrame DEF Frame
    <3>3. Alive /\ Len(Stack) \in ErrorFrames(Stack)
      BY <2>2, <3>2 DEF Return, Executes, Alive, ErrorFrames
    <3> QED
      BY <1>2, <2>2, <3>1, <3>3 DEF Return
  <2>3. CASE LoadModule \/ Finish \/ EnterModule \/ Halt
    BY <1>1, <2>3 DEF LoadModule, Finish, EnterModule, Halt
  <2>4. CASE LoadLiteral \/ MkClosure \/ Error \/ If \/ Goto \/ Collect \/ Gc
    BY <1>1, <2>4 DEF LoadLiteral, MkClosure, Error, If, Goto, Collect, Gc, RunError
  <2>5. CASE Call \/ Tailcall
    BY <1>1, <2>5 DEF Call, Tailcall, CallFails, EnterFunction, RunError
  <2>6. CASE Check \/ Expect \/ CheckAssert \/ OutOfBounds
    BY <1>1, <2>6 DEF Check, Expect, CheckAssert, OutOfBounds
  <2>7. CASE CheckError
    <3>1. mode # "NORMAL"
      OBVIOUS
    <3> QED
      BY <1>1, <2>7, <3>1 DEF CheckError
  <2>8. CASE Stopped
    BY <1>1, <2>8 DEF Stopped, vars
  <2> QED
    BY <2>1, <2>2, <2>3, <2>4, <2>5, <2>6, <2>7, <2>8 DEF Next
<1>3. /\ SubSeq(Stack, 1, Len(Stack) - 1) = trial.Stack
      /\ callee.counter = trial.pc
      /\ callee.R_window_start = trial.R_window_start
  BY <1>2 DEF IInv, TrialIsRemembered
<1> QED
  BY <1>2, <1>3

\* After a check-error test the machine goes on as if nothing had been called.
THEOREM CheckErrorResumption ==
  ASSUME MessagesAreNotInSlotZero
  PROVE  Spec => CheckErrorResumes
<1> DEFINE Resumes == mode = "TESTING" /\ mode' = "NORMAL"
                        => /\ Stack' = trial.Stack
                           /\ R_window_start' = trial.R_window_start
                           /\ pc' = [trial.pc EXCEPT !.i = @ + 1]
<1>1. IInv /\ [Next]_vars => [Resumes]_vars
  <2>1. ASSUME IInv, Next PROVE Resumes
    BY <2>1, TestEnds
  <2>2. ASSUME UNCHANGED vars PROVE [Resumes]_vars
    BY <2>2
  <2> QED
    BY <2>1, <2>2
<1> QED
  BY <1>1, Invariance, PTL DEF Spec, CheckErrorResumes
=============================================================================
