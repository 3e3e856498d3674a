---------------------------- MODULE VMDataProofs ----------------------------
(***************************************************************************)
(* The machine runs certified object code without a fault: for every module *)
(* and every set of functions with certificates (module ObjectCode), of any *)
(* size, and for every run, however long.  That the translator makes such    *)
(* code is the property CodeIsCertified of module Compiler.                 *)
(***************************************************************************)
EXTENDS ObjectCode, SequenceTheorems, WellFoundedInduction, TLAPS

CONSTANTS Module, ModuleCertificate,     \* the module that runs
          Function, Certificate          \* the functions that it and they load

\* All of the code has certificates.
Trusted ==
  /\ IsCertified(Module, ModuleCertificate, TRUE)
  /\ \A f \in Function : IsCertified(f, Certificate[f], FALSE)
  /\ \A f \in Function \cup {Module} :
       \A i \in DOMAIN f.code : LoadsFunction(f.code[i]) => f.code[i].k.f \in Function

\* The machine is started on the module.
Start == fun = Module /\ outcome = "running" /\ Loaded
Spec == Start /\ [][Next]_vars

\* The registers that an instruction uses are in the register file.  vmrun sees to that at
\* a call (HasRoom in module VMControl); at a tail call it looks at the arguments only,
\* and at a check-error at nothing.
InFile ==
  outcome = "running" => \A j \in Uses(Instr) : base + Instr.r[j] \in DOMAIN registers

-----------------------------------------------------------------------------
(* The inductive invariant *)

\* What holds at the i-th instruction of f, that runs above n activations.
At(n, f, i) == IF n = 0 THEN ModuleCertificate[i] ELSE Certificate[f][i]
Places(n, f) == IF n = 0 THEN DOMAIN ModuleCertificate ELSE DOMAIN Certificate[f]
Here == At(Len(stack), fun, pc)

\* The module is at the bottom, and functions are above it.
IsAbove(n, f) == IF n = 0 THEN f = Module ELSE f \in Function

IsSeq(s) == s \in Seq(Range(s))

\* Where control is and will return to is certified, and what waits there is a call
\* or, in the module only, a test.
ControlInv ==
  /\ IsSeq(stack)
  /\ IsAbove(Len(stack), fun) /\ pc \in Places(Len(stack), fun)
  /\ \A i \in DOMAIN stack :
       LET a == stack[i] IN
       /\ IsAbove(i - 1, a.fun) /\ a.pc \in Places(i - 1, a.fun)
       /\ a.fun.code[a.pc].op = IF a.test THEN "check-error" ELSE "call"
       /\ a.test \in BOOLEAN
       /\ a.test => i = 1
       /\ a.dest = a.fun.code[a.pc].r[1]

\* The window of a callee begins at the register of the function that was called.
WindowAbove(a) == a.base + (IF a.test THEN 0 ELSE a.fun.code[a.pc].r[2])

\* Windows are in the order of their activations.
WindowsInv ==
  /\ DOMAIN registers = 0..NumRegisters - 1
  /\ base \in DOMAIN registers
  /\ \A i \in DOMAIN stack :
       /\ stack[i].base \in DOMAIN registers
       /\ WindowAbove(stack[i]) <= base
       /\ \A j \in DOMAIN stack : i < j => WindowAbove(stack[i]) <= stack[j].base

\* A value that is safe to use: its function, if it is one, needs no closure.
IsPlain(h, v) ==
  /\ v.tag \in {"Nil", "Emptylist", "String", "Boolean", "Number", "VMFunction"} \cup ObjectTags
  /\ v.tag = "Boolean" => v.b \in BOOLEAN
  /\ v.tag = "Number" => v.n \in Int
  /\ v.tag = "VMFunction" => v.f \in Function /\ Captured(v.f) = {}
  /\ v.tag \in ObjectTags => v.p \in DOMAIN h /\ h[v.p].tag = v.tag

\* An object with as many slots as its kind and its function ask for.
IsObject(o) ==
  /\ o = [tag |-> o.tag, f |-> o.f, slots |-> o.slots]
  /\ o.tag \in ObjectTags
  /\ IsSeq(o.slots)
  /\ o.tag = "ConsCell" => Len(o.slots) = 2
  /\ o.tag = "Block" => Len(o.slots) # 0
  /\ o.tag = "VMClosure" => o.f.f \in Function /\ Captured(o.f.f) \subseteq 0..Len(o.slots) - 1

\* The literal that was just loaded from the place p of the running function.
JustLoaded(p) ==
  /\ base + fun.code[p].r[1] \in DOMAIN registers
  /\ registers[base + fun.code[p].r[1]] = fun.code[p].k

RegistersInv ==
  /\ \A p \in Here.loaded : JustLoaded(p)
  /\ \A r \in DOMAIN registers :
       IsPlain(heap, registers[r]) \/ \E p \in Here.loaded : r = base + fun.code[p].r[1]

\* u stands for the slot i of the object p.
IsUnset(u, p, i) ==
  /\ u[2] \in Nat /\ base + u[2] \in DOMAIN registers
  /\ registers[base + u[2]] = mkPointerValue(u[1], p)
  /\ heap[p].tag = u[1] /\ i = u[3] + 1

\* A slot that is not set is one that the certificate names.
ObjectsInv ==
  /\ IsSeq(heap)
  /\ \A p \in DOMAIN heap : IsObject(heap[p])
  /\ \A p \in DOMAIN heap : \A i \in DOMAIN heap[p].slots :
       \/ IsPlain(heap, heap[p].slots[i])
       \/ heap[p].slots[i] = Garbage /\ \E u \in Here.unset : IsUnset(u, p, i)
  /\ \A u \in Here.unset : \E p \in DOMAIN heap : \E i \in DOMAIN heap[p].slots : IsUnset(u, p, i)

GlobalsInv == DOMAIN globals = Global /\ \A g \in Global : IsPlain(heap, globals[g])
AwaitingInv == awaiting = <<>> \/ (awaiting = <<awaiting[1]>> /\ IsPlain(heap, awaiting[1]))

\* A function that reads captured variables finds its closure in register 0 of its
\* window, b.
HasClosure(regs, h, f, b) ==
  Captured(f) # {} => regs[b].tag = "VMClosure" /\ h[regs[b].p].f.f = f

\* The activation a, above n others, will find it when it is returned to.
KeepsClosure(n, a) == "own closure" \in At(n, a.fun, a.pc + 1).facts

\* It does so now, or when the activation i returns.
ClosureInv ==
  /\ stack # <<>> /\ "own closure" \in Here.facts => HasClosure(registers, heap, fun, base)
  /\ \A i \in DOMAIN stack :
       i > 1 /\ KeepsClosure(i - 1, stack[i]) =>
         HasClosure(registers, heap, stack[i].fun, stack[i].base)

\* A check awaits its expect in the module when the certificate says so.
TestsInv ==
  LET i == IF stack = <<>> THEN pc ELSE stack[1].pc + 1 IN
  awaiting # <<>> <=> "awaits" \in ModuleCertificate[i].facts

OutcomeInv ==
  /\ outcome \in {"running", "halted", "error"} \/ FaultsInPrintu
  /\ outcome = "halted" => stack = <<>>

MachineInv ==
  /\ ControlInv /\ WindowsInv
  /\ RegistersInv /\ ObjectsInv /\ GlobalsInv /\ AwaitingInv
  /\ ClosureInv /\ TestsInv
IInv == MachineInv /\ OutcomeInv

-----------------------------------------------------------------------------
(* Sequences *)

\* A sequence has a length, and is a function on the places up to it.
LEMMA SeqIs ==
  ASSUME NEW s, IsSeq(s)
  PROVE  /\ Len(s) \in Nat /\ DOMAIN s = 1..Len(s)
         /\ s = <<>> <=> Len(s) = 0
<1>1. s \in Seq(Range(s))
  BY DEF IsSeq
<1> QED
  BY <1>1, EmptySeq

\* A function on the first n places is a sequence.
LEMMA SeqOfFunction ==
  ASSUME NEW n \in Nat, NEW s, DOMAIN s = 1..n, s = [i \in 1..n |-> s[i]]
  PROVE  IsSeq(s) /\ Len(s) = n
<1>1. s \in [1..n -> Range(s)]
  BY DEF Range
<1>2. s \in Seq(Range(s))
  BY <1>1, SeqDef
<1> QED
  BY <1>2 DEF IsSeq

\* A sequence over any set is one over its own elements.
LEMMA SeqOver ==
  ASSUME NEW S, NEW s \in Seq(S)
  PROVE  IsSeq(s)
<1>1. Len(s) \in Nat /\ s \in [1..Len(s) -> S]
  OBVIOUS
<1>2. DOMAIN s = 1..Len(s) /\ s = [i \in 1..Len(s) |-> s[i]]
  BY <1>1
<1> QED
  BY <1>1, <1>2, SeqOfFunction

\* The empty sequence is one, and has no places.
LEMMA EmptyIsSeq == IsSeq(<<>>) /\ DOMAIN <<>> = {}
<1>1. <<>> \in Seq({}) /\ Len(<<>>) = 0
  OBVIOUS
<1>2. IsSeq(<<>>)
  BY <1>1, SeqOver
<1> QED
  BY <1>1, <1>2, SeqIs

\* What is put on a stack, or allocated, comes last and changes nothing before it.
LEMMA Pushed ==
  ASSUME NEW s, IsSeq(s), NEW e
  PROVE  /\ IsSeq(Append(s, e))
         /\ Len(s) \in Nat /\ Len(Append(s, e)) = Len(s) + 1
         /\ DOMAIN s = 1..Len(s) /\ DOMAIN Append(s, e) = 1..Len(s) + 1
         /\ \A i \in 1..Len(s) : Append(s, e)[i] = s[i]
         /\ Append(s, e)[Len(s) + 1] = e
         /\ Append(s, e) # <<>>
<1> DEFINE S == Range(s) \cup {e}
           t == Append(s, e)
<1>1. s \in Seq(S) /\ e \in S /\ Len(s) \in Nat
  BY SeqIs DEF IsSeq
<1>2. /\ t \in Seq(S) /\ Len(t) = Len(s) + 1 /\ DOMAIN s = 1..Len(s) /\ DOMAIN t = 1..Len(s) + 1
      /\ \A i \in 1..Len(s) : t[i] = s[i]
      /\ t[Len(s) + 1] = e /\ t # <<>>
  BY <1>1
<1>4. IsSeq(t)
  BY <1>2, SeqOver
<1> QED
  BY <1>1, <1>2, <1>4

\* What is left when the stack is cut off.
LEMMA Popped ==
  ASSUME NEW s, IsSeq(s), NEW n \in 0..Len(s)
  PROVE  /\ IsSeq(SubSeq(s, 1, n))
         /\ Len(s) \in Nat /\ Len(SubSeq(s, 1, n)) = n
         /\ DOMAIN s = 1..Len(s) /\ DOMAIN SubSeq(s, 1, n) = 1..n
         /\ \A i \in 1..n : SubSeq(s, 1, n)[i] = s[i]
         /\ SubSeq(s, 1, n) = <<>> <=> n = 0
<1> DEFINE S == Range(s)
           t == SubSeq(s, 1, n)
<1>1. s \in Seq(S) /\ Len(s) \in Nat /\ \A i \in 1..n : s[i] \in S
  BY SeqIs DEF IsSeq
<1>2. /\ t \in Seq(S) /\ Len(t) = n /\ \A i \in 1..n : t[i] = s[i]
  BY <1>1, SubSeqProperties
<1>3. DOMAIN t = 1..n /\ DOMAIN s = 1..Len(s) /\ (t = <<>> <=> n = 0)
  BY <1>1, <1>2, EmptySeq
<1>5. IsSeq(t)
  BY <1>2, SeqOver
<1> QED
  BY <1>1, <1>2, <1>3, <1>5

\* The slots of an object, one of which is set.
LEMMA Changed ==
  ASSUME NEW s, IsSeq(s), NEW i, NEW e
  PROVE  LET t == [s EXCEPT ![i] = e] IN
         /\ IsSeq(t) /\ Len(t) = Len(s) /\ DOMAIN t = DOMAIN s
         /\ \A j \in DOMAIN s : t[j] = IF j = i THEN e ELSE s[j]
<1> DEFINE t == [s EXCEPT ![i] = e]
<1>1. Len(s) \in Nat /\ DOMAIN s = 1..Len(s)
  BY SeqIs
<1>2. DOMAIN t = 1..Len(s) /\ \A j \in DOMAIN s : t[j] = IF j = i THEN e ELSE s[j]
  BY <1>1
<1>3. t = [j \in 1..Len(s) |-> t[j]]
  BY <1>2
<1>4. IsSeq(t) /\ Len(t) = Len(s)
  <2> HIDE DEF t
  <2> QED
    BY <1>1, <1>2, <1>3, SeqOfFunction
<1> QED
  BY <1>1, <1>2, <1>4

-----------------------------------------------------------------------------
(* What a certificate says *)

\* The certificate of the module, and that of a function, of what is above n activations.
LEMMA Certified ==
  ASSUME Trusted, NEW n \in Nat, NEW f, IsAbove(n, f)
  PROVE  /\ f.arity \in 0..255
         /\ 1 \in Places(n, f) /\ Leads(f.code, AtStart, At(n, f, 1))
         /\ \A i \in Places(n, f) :
              /\ i \in DOMAIN f.code /\ i \in Int
              /\ At(n, f, i).loaded \subseteq {j \in Places(n, f) : LoadsFunction(f.code[j])}
              /\ Allowed(f.code, f.code[i], At(n, f, i), n = 0)
              /\ Successors(f.code, i) \subseteq Places(n, f)
              /\ \A j \in Successors(f.code, i) :
                   Leads(f.code, After(f.code, i, At(n, f, i)), At(n, f, j))
         /\ \A i \in DOMAIN f.code : LoadsFunction(f.code[i]) => f.code[i].k.f \in Function
<1>1. PICK c : c = IF n = 0 THEN ModuleCertificate ELSE Certificate[f]
  OBVIOUS
<1>2. IsCertified(f, c, n = 0)
  <2>1. CASE n = 0
    BY <1>1, <2>1 DEF Trusted, IsAbove
  <2>2. CASE n # 0
    <3>1. (n = 0) = FALSE
      BY <2>2
    <3> QED
      BY <1>1, <2>2, <3>1 DEF Trusted, IsAbove
  <2> QED
    BY <2>1, <2>2
<1>3. Places(n, f) = DOMAIN c /\ \A i : At(n, f, i) = c[i]
  BY <1>1 DEF Places, At
<1>4. \A i \in DOMAIN c : i \in DOMAIN f.code /\ i \in Int
  BY <1>2 DEF IsCertified
<1>5. \A i \in DOMAIN f.code : LoadsFunction(f.code[i]) => f.code[i].k.f \in Function
  BY DEF Trusted, IsAbove
<1> QED
  BY <1>2, <1>3, <1>4, <1>5 DEF IsCertified

\* A function has an arity that fits in a byte, and code.
LEMMA FunctionsAreFunctions ==
  ASSUME Trusted, NEW f \in Function
  PROVE  f.arity \in 0..255 /\ f.code # <<>>
<1>1. IsAbove(1, f)
  BY DEF IsAbove
<1>2. f.arity \in 0..255 /\ 1 \in DOMAIN f.code
  BY <1>1, Certified
<1> QED
  BY <1>2

\* The instructions that do not concern new objects and loaded functions.
Special == {"loadliteral"} \cup Making \cup Filling

\* Around them nothing is new, and no function that needs a closure is in a register.
LEMMA Ordinary ==
  ASSUME Trusted, NEW n \in Nat, NEW f, IsAbove(n, f), NEW i \in Places(n, f),
         f.code[i].op \notin Special
  PROVE  /\ At(n, f, i).unset = {}
         /\ \A p \in At(n, f, i).loaded : Captured(f.code[p].k.f) = {}
         /\ \A j \in Successors(f.code, i) : At(n, f, j).unset = {} /\ At(n, f, j).loaded = {}
<1> DEFINE s == At(n, f, i)
           ins == f.code[i]
<1>1. Allowed(f.code, ins, s, n = 0)
  BY Certified
<1>2. s.unset = {}
  BY <1>1 DEF Allowed, FillsObjects, Special
<1>3. \A p \in s.loaded : Captured(f.code[p].k.f) = {}
  BY <1>1 DEF Allowed, MakesClosures, Special, Making
<1>4. ASSUME NEW j \in Successors(f.code, i)
      PROVE  At(n, f, j).unset = {} /\ At(n, f, j).loaded = {}
  <2>1. Leads(f.code, After(f.code, i, s), At(n, f, j))
    BY Certified
  <2>2. After(f.code, i, s).unset = {}
    BY <1>2 DEF After, Leaves, Fills, Special
  <2>3. After(f.code, i, s).loaded = {}
    BY DEF After, LoadsFunction, Special
  <2> QED
    BY <2>1, <2>2, <2>3 DEF Leads
<1> QED
  BY <1>2, <1>3, <1>4

\* The facts that hold after an instruction.
LEMMA FactsAfter ==
  ASSUME Trusted, NEW n \in Nat, NEW f, IsAbove(n, f), NEW i \in Places(n, f),
         NEW j \in Successors(f.code, i)
  PROVE  /\ "own closure" \in At(n, f, j).facts =>
              "own closure" \in At(n, f, i).facts /\ ~Overwrites(f.code[i])
         /\ "awaits" \in At(n, f, j).facts <=>
              \/ f.code[i].op = "check"
              \/ "awaits" \in At(n, f, i).facts /\ f.code[i].op # "expect"
<1> DEFINE s == At(n, f, i)
<1>1. Leads(f.code, After(f.code, i, s), At(n, f, j))
  BY Certified
<1>2. "own closure" \in After(f.code, i, s).facts =>
         "own closure" \in s.facts /\ ~Overwrites(f.code[i])
  BY DEF After
<1>3. "awaits" \in After(f.code, i, s).facts <=>
         f.code[i].op = "check" \/ ("awaits" \in s.facts /\ f.code[i].op # "expect")
  BY DEF After
<1> QED
  BY <1>1, <1>2, <1>3 DEF Leads

-----------------------------------------------------------------------------
(* Control *)

\* The number of activations.
LEMMA Depth == ControlInv => Len(stack) \in Nat /\ DOMAIN stack = 1..Len(stack)
                             /\ (stack = <<>> <=> Len(stack) = 0)
BY SeqIs DEF ControlInv

\* What the certificate says of the instruction that is executed.
LEMMA Executing ==
  ASSUME Trusted, ControlInv
  PROVE  /\ pc \in DOMAIN fun.code /\ pc \in Int
         /\ Allowed(fun.code, Instr, Here, stack = <<>>)
         /\ Here.loaded \subseteq {j \in Places(Len(stack), fun) : LoadsFunction(fun.code[j])}
         /\ \A j \in Here.loaded : fun.code[j].k.tag = "VMFunction" /\ fun.code[j].k.f \in Function
<1>1. Len(stack) \in Nat /\ (stack = <<>> <=> Len(stack) = 0)
  BY Depth
<1>2. IsAbove(Len(stack), fun) /\ pc \in Places(Len(stack), fun)
  BY DEF ControlInv
<1>3. \A j \in Places(Len(stack), fun) : j \in DOMAIN fun.code /\ j \in Int
  BY <1>1, <1>2, Certified
<1> QED
  BY <1>1, <1>2, <1>3, Certified DEF Here, Instr, LoadsFunction

\* What the certificate says of an activation: control returns to the instruction after
\* the call.
LEMMA Waiting ==
  ASSUME Trusted, ControlInv, NEW i \in DOMAIN stack, NEW a, a = stack[i]
  PROVE  /\ i - 1 \in Nat /\ IsAbove(i - 1, a.fun) /\ a.pc \in Places(i - 1, a.fun)
         /\ a.fun.code[a.pc].op = IF a.test THEN "check-error" ELSE "call"
         /\ a.test \in BOOLEAN
         /\ a.test => i = 1
         /\ a.pc + 1 \in Successors(a.fun.code, a.pc)
         /\ ~a.test => /\ a.fun.code[a.pc].r[1] \in Nat
                       /\ a.fun.code[a.pc].r[2] \in Nat
<1> DEFINE ins == a.fun.code[a.pc]
<1>1. i - 1 \in Nat
  BY Depth
<1>2. /\ IsAbove(i - 1, a.fun) /\ a.pc \in Places(i - 1, a.fun)
      /\ ins.op = IF a.test THEN "check-error" ELSE "call"
      /\ a.test \in BOOLEAN
      /\ a.test => i = 1
  BY DEF ControlInv
<1>3. a.pc + 1 \in Successors(a.fun.code, a.pc)
  BY <1>2 DEF Successors
<1>4. ASSUME ~a.test PROVE ins.r[1] \in Nat /\ ins.r[2] \in Nat
  <2>1. Allowed(a.fun.code, ins, At(i - 1, a.fun, a.pc), i - 1 = 0)
    BY <1>1, <1>2, Certified
  <2>2. ins.op \in Three
    BY <1>2, <1>4 DEF Three
  <2>3. 1 \in Uses(ins) /\ 2 \in Uses(ins)
    BY <2>2 DEF Uses
  <2> QED
    BY <2>1, <2>3 DEF Allowed, HasOperands
<1> QED
  BY <1>1, <1>2, <1>3, <1>4

\* The windows of the activations begin at registers.
LEMMA WindowsAreNumbers ==
  ASSUME Trusted, ControlInv, WindowsInv, NEW i \in DOMAIN stack
  PROVE  stack[i].base \in Int /\ WindowAbove(stack[i]) \in Int
<1>1. PICK a : a = stack[i]
  OBVIOUS
<1>2. a.base \in Int
  BY <1>1, VMDataAssumption DEF WindowsInv
<1>3. a.test \in BOOLEAN /\ (~a.test => a.fun.code[a.pc].r[2] \in Nat)
  BY <1>1, Waiting
<1>4. WindowAbove(a) \in Int
  BY <1>2, <1>3 DEF WindowAbove
<1> QED
  BY <1>1, <1>2, <1>4

\* Control goes on in the same function.
GoesOn == fun' = fun /\ stack' = stack /\ pc' \in Successors(fun.code, pc)

\* Control stays where the certificate says what holds.
LEMMA GoingOn ==
  ASSUME Trusted, ControlInv, GoesOn
  PROVE  /\ ControlInv'
         /\ Here' = At(Len(stack), fun, pc')
         /\ Leads(fun.code, After(fun.code, pc, Here), Here')
<1>1. Len(stack) \in Nat /\ IsAbove(Len(stack), fun) /\ pc \in Places(Len(stack), fun)
  BY Depth DEF ControlInv
<1>2. pc' \in Places(Len(stack), fun)
  BY <1>1, Certified DEF GoesOn
<1>3. Here' = At(Len(stack), fun, pc')
  BY DEF Here, GoesOn, At
<1>4. Leads(fun.code, After(fun.code, pc, Here), Here')
  BY <1>1, <1>3, Certified DEF Here, GoesOn
<1>5. ControlInv'
  BY <1>2 DEF ControlInv, GoesOn, Places, IsAbove
<1> QED
  BY <1>3, <1>4, <1>5

-----------------------------------------------------------------------------
(* Registers and objects *)

\* Every pointer in a register points to an object of its tag.
LEMMA Pointers ==
  ASSUME Trusted, ControlInv, RegistersInv, NEW r \in DOMAIN registers,
         registers[r].tag \in ObjectTags
  PROVE  registers[r].p \in DOMAIN heap /\ heap[registers[r].p].tag = registers[r].tag
<1>1. ASSUME NEW p \in Here.loaded, r = base + fun.code[p].r[1]
      PROVE  FALSE
  <2>1. registers[r].tag = "VMFunction"
    BY <1>1, Executing DEF RegistersInv, JustLoaded
  <2> QED
    BY <2>1 DEF ObjectTags
<1>2. IsPlain(heap, registers[r])
  BY <1>1 DEF RegistersInv
<1> QED
  BY <1>2 DEF IsPlain

\* Objects stay where they are, with their tags, functions and lengths.
Extends(h, g) ==
  \A p \in DOMAIN h : /\ p \in DOMAIN g
                      /\ g[p].tag = h[p].tag /\ g[p].f = h[p].f

\* Where nothing is new and nothing was just loaded.
AllPlain ==
  /\ DOMAIN registers = 0..NumRegisters - 1
  /\ \A r \in DOMAIN registers : IsPlain(heap, registers[r])
  /\ IsSeq(heap)
  /\ \A p \in DOMAIN heap : IsObject(heap[p])
  /\ \A p \in DOMAIN heap : \A i \in DOMAIN heap[p].slots : IsPlain(heap, heap[p].slots[i])
  /\ GlobalsInv /\ AwaitingInv

\* An ordinary instruction finds only values that are safe to use.
LEMMA PlainBefore ==
  ASSUME Trusted, MachineInv, Instr.op \notin Special
  PROVE  AllPlain /\ Here.unset = {}
<1> USE DEF MachineInv
<1>1. Len(stack) \in Nat /\ IsAbove(Len(stack), fun) /\ pc \in Places(Len(stack), fun)
  BY Depth DEF ControlInv
<1>2. Here.unset = {} /\ \A p \in Here.loaded : Captured(fun.code[p].k.f) = {}
  BY <1>1, Ordinary DEF Here, Instr
<1>3. ASSUME NEW p \in Here.loaded PROVE IsPlain(heap, registers[base + fun.code[p].r[1]])
  <2>1. registers[base + fun.code[p].r[1]] = fun.code[p].k
    BY DEF RegistersInv, JustLoaded
  <2>2. fun.code[p].k.tag = "VMFunction" /\ fun.code[p].k.f \in Function
    BY Executing
  <2> QED
    BY <2>1, <2>2, <1>2 DEF IsPlain, ObjectTags
<1>4. \A r \in DOMAIN registers : IsPlain(heap, registers[r])
  BY <1>3 DEF RegistersInv
<1> QED
  BY <1>2, <1>4 DEF AllPlain, ObjectsInv, WindowsInv

DataInv == RegistersInv /\ ObjectsInv /\ GlobalsInv /\ AwaitingInv

\* It is enough that it leaves only such values.
LEMMA PlainAfter ==
  ASSUME AllPlain', Here'.unset = {}, Here'.loaded = {}
  PROVE  DataInv'
BY DEF AllPlain, DataInv, RegistersInv, ObjectsInv

\* Where the running function goes on, nothing below its window is written to, nor
\* register 0 of its window unless the instruction overwrites it.
Local ==
  /\ DOMAIN registers' = DOMAIN registers
  /\ \A r \in DOMAIN registers :
       r < base \/ (r = base /\ ~Overwrites(Instr)) => registers'[r] = registers[r]

\* Nothing below the register b is written to.
LeavesBelow(b) ==
  /\ DOMAIN registers' = DOMAIN registers
  /\ \A r \in DOMAIN registers : r < b => registers'[r] = registers[r]

\* The closure that an activation will need is kept.
LEMMA ClosuresKept ==
  ASSUME Trusted, MachineInv, Extends(heap, heap'), NEW i \in DOMAIN stack, i > 1,
         NEW b \in DOMAIN registers, LeavesBelow(b),
         NEW a, a = stack[i], WindowAbove(a) <= b,
         KeepsClosure(i - 1, a)
  PROVE  HasClosure(registers', heap', a.fun, a.base)
<1>1. ControlInv /\ WindowsInv /\ RegistersInv /\ ClosureInv
  BY DEF MachineInv
<1>2. /\ i - 1 \in Nat /\ IsAbove(i - 1, a.fun) /\ a.pc \in Places(i - 1, a.fun)
      /\ a.fun.code[a.pc].op = "call" /\ a.test = FALSE
      /\ a.pc + 1 \in Successors(a.fun.code, a.pc)
      /\ a.fun.code[a.pc].r[2] \in Nat
  BY <1>1, Waiting
<1>3. ~Overwrites(a.fun.code[a.pc])
  <2>1. PICK n, j : n = i - 1 /\ j = a.pc + 1
    OBVIOUS
  <2>2. n \in Nat /\ IsAbove(n, a.fun) /\ a.pc \in Places(n, a.fun)
        /\ j \in Successors(a.fun.code, a.pc)
    BY <1>2, <2>1
  <2>3. "own closure" \in At(n, a.fun, j).facts
    BY <2>1 DEF KeepsClosure
  <2> QED
    BY <2>2, <2>3, FactsAfter
<1>4. a.fun.code[a.pc].r[2] \in Nat \ {0}
  BY <1>2, <1>3 DEF Overwrites
<1>5. a.base \in DOMAIN registers
  BY <1>1 DEF WindowsInv
<1>6. a.base \in Int /\ b \in Int
  BY <1>1, <1>5, VMDataAssumption DEF WindowsInv
<1>7. a.base < b
  BY <1>2, <1>4, <1>5, <1>6 DEF WindowAbove
<1>8. registers'[a.base] = registers[a.base]
  BY <1>5, <1>7 DEF LeavesBelow
<1>9. HasClosure(registers, heap, a.fun, a.base)
  BY <1>1 DEF ClosureInv
<1>10. ASSUME registers[a.base].tag = "VMClosure" PROVE registers[a.base].p \in DOMAIN heap
  BY <1>1, <1>5, <1>10, Pointers DEF ObjectTags
<1> QED
  BY <1>8, <1>9, <1>10 DEF HasClosure, Extends

\* Where control goes on, the window and the stack stay, and so do the closures that they need.
LEMMA Proceeds ==
  ASSUME Trusted, MachineInv, GoesOn, base' = base, Local, Extends(heap, heap'),
         awaiting' # <<>> <=> Instr.op = "check" \/ (awaiting # <<>> /\ Instr.op # "expect")
  PROVE  ControlInv' /\ WindowsInv' /\ ClosureInv' /\ TestsInv'
<1> USE DEF MachineInv
<1>1. ControlInv' /\ Here' = At(Len(stack), fun, pc')
  BY GoingOn
<1>2. WindowsInv'
  BY DEF WindowsInv, GoesOn, Local, WindowAbove
<1>3. Len(stack) \in Nat /\ IsAbove(Len(stack), fun) /\ pc \in Places(Len(stack), fun)
      /\ (stack = <<>> <=> Len(stack) = 0)
  BY Depth DEF ControlInv
<1>4. pc' \in Successors(fun.code, pc)
  BY DEF GoesOn
<1>5. ASSUME stack # <<>>, "own closure" \in Here'.facts
      PROVE  HasClosure(registers', heap', fun, base)
  <2>1. "own closure" \in Here.facts /\ ~Overwrites(Instr)
    BY <1>1, <1>3, <1>4, <1>5, FactsAfter DEF Here, Instr
  <2>2. HasClosure(registers, heap, fun, base)
    BY <1>5, <2>1 DEF ClosureInv
  <2>3. registers'[base] = registers[base] /\ base \in DOMAIN registers
    BY <2>1 DEF Local, WindowsInv
  <2>4. ASSUME registers[base].tag = "VMClosure" PROVE registers[base].p \in DOMAIN heap
    BY <2>3, <2>4, Pointers DEF ObjectTags
  <2> QED
    BY <2>2, <2>3, <2>4 DEF HasClosure, Extends
<1>6. ASSUME NEW i \in DOMAIN stack, i > 1,
             KeepsClosure(i - 1, stack[i])
      PROVE  HasClosure(registers', heap', stack[i].fun, stack[i].base)
  <2>1. LeavesBelow(base) /\ base \in DOMAIN registers /\ WindowAbove(stack[i]) <= base
    BY DEF Local, LeavesBelow, WindowsInv
  <2> QED
    BY <1>6, <2>1, ClosuresKept
<1>7. ClosureInv'
  BY <1>1, <1>5, <1>6 DEF ClosureInv, GoesOn
<1>8. TestsInv'
  <2>1. CASE stack = <<>>
    <3>1. "awaits" \in Here'.facts <=>
            Instr.op = "check" \/ ("awaits" \in Here.facts /\ Instr.op # "expect")
      BY <1>1, <1>3, <1>4, FactsAfter DEF Here, Instr
    <3>2. Here = ModuleCertificate[pc] /\ Here' = ModuleCertificate[pc']
      BY <1>1, <1>3, <2>1 DEF Here, At
    <3> QED
      BY <2>1, <3>1, <3>2 DEF TestsInv, GoesOn
  <2>2. CASE stack # <<>>
    <3>1. Instr.op \notin {"check", "expect"}
      BY <2>2, Executing DEF Allowed, KeepsToItsPlace
    <3> QED
      BY <2>2, <3>1 DEF TestsInv, GoesOn
  <2> QED
    BY <2>1, <2>2
<1> QED
  BY <1>1, <1>2, <1>7, <1>8

-----------------------------------------------------------------------------
(* Steps of ordinary instructions *)

\* The operands of the instruction are in the window.
LEMMA OperandsAre ==
  ASSUME Trusted, MachineInv, InFile, outcome = "running"
  PROVE  /\ base \in Nat
         /\ \A j \in Uses(Instr) : Instr.r[j] \in Nat /\ base + Instr.r[j] \in DOMAIN registers
<1>1. HasOperands(Instr)
  BY Executing DEF MachineInv, Allowed
<1>2. base \in Nat
  BY VMDataAssumption DEF MachineInv, WindowsInv
<1> QED
  BY <1>1, <1>2 DEF HasOperands, InFile

\* An ordinary instruction keeps the invariant if it writes to its own window, and what
\* is safe to use.
LEMMA OrdinaryStep ==
  ASSUME Trusted, MachineInv, Instr.op \notin Special, GoesOn, base' = base, Local,
         Extends(heap, heap'), AllPlain',
         awaiting' # <<>> <=> Instr.op = "check" \/ (awaiting # <<>> /\ Instr.op # "expect")
  PROVE  MachineInv'
<1>1. ControlInv' /\ WindowsInv' /\ ClosureInv' /\ TestsInv'
  BY Proceeds
<1>2. Here' = At(Len(stack), fun, pc')
  BY GoingOn DEF MachineInv
<1>3. Len(stack) \in Nat /\ IsAbove(Len(stack), fun) /\ pc \in Places(Len(stack), fun)
  BY Depth DEF MachineInv, ControlInv
<1>4. pc' \in Successors(fun.code, pc) /\ fun.code[pc].op \notin Special
  BY DEF GoesOn, Instr
<1>5. Here'.unset = {} /\ Here'.loaded = {}
  BY <1>2, <1>3, <1>4, Ordinary
<1>6. DataInv'
  BY <1>5, PlainAfter
<1> QED
  BY <1>1, <1>6 DEF MachineInv, DataInv

\* An instruction goes on to the next if it has no other successor.
Jumps == {"goto", "if", "goto-vcon"}
Ends == {"return", "tailcall", "error", "halt"}

\* Other instructions have the next one as a successor.
LEMMA NextIsSuccessor ==
  ASSUME Instr.op \notin Jumps \cup Ends
  PROVE  pc + 1 \in Successors(fun.code, pc)
BY DEF Successors, Instr, Jumps, Ends

\* A heap that is not changed is extended.
LEMMA Unchanged == Extends(heap, heap)
BY DEF Extends

\* Register X is set to a value.
LEMMA YieldsStep ==
  ASSUME Trusted, MachineInv, InFile, outcome = "running",
         Instr.op \in HasResult,
         Instr.op \notin Special \cup Jumps \cup Ends \cup {"check", "expect"},
         1 \in Uses(Instr),
         NEW v, IsPlain(heap, v), Yields(v)
  PROVE  MachineInv' /\ outcome' = outcome
<1>1. X \in Nat /\ base \in Nat /\ base + X \in DOMAIN registers
  BY OperandsAre DEF X
<1>2. AllPlain
  BY PlainBefore
<1>3. GoesOn /\ base' = base
  BY NextIsSuccessor DEF GoesOn, Yields
<1>4. registers' = [registers EXCEPT ![base + X] = v]
  BY DEF Yields, WithRegister
<1>5. Overwrites(Instr) \/ X # 0
  BY DEF Overwrites, X
<1>6. \A r \in DOMAIN registers : r \in Int
  BY <1>2 DEF AllPlain
<1>7. Local
  BY <1>1, <1>4, <1>5, <1>6 DEF Local
<1>8. heap' = heap /\ Extends(heap, heap') /\ awaiting' = awaiting /\ globals' = globals
      /\ outcome' = outcome
  BY Unchanged DEF Yields, tests
<1>9. AllPlain'
  BY <1>2, <1>4, <1>8 DEF AllPlain, GlobalsInv, AwaitingInv
<1> QED
  BY <1>3, <1>7, <1>8, <1>9, OrdinaryStep

\* Only the module has a test running.
LEMMA TestIsFirst ==
  ASSUME ControlInv, TestFrames # {}
  PROVE  /\ TestFrames = {1} /\ Max(TestFrames) = 1
         /\ 1 \in DOMAIN stack /\ stack[1].test
         /\ SubSeq(stack, 1, Max(TestFrames) - 1) = <<>>
<1>1. \A i \in DOMAIN stack : stack[i].test => i = 1
  BY DEF ControlInv
<1>2. TestFrames = {1} /\ 1 \in DOMAIN stack /\ stack[1].test
  BY <1>1 DEF TestFrames
<1>3. Max(TestFrames) = 1
  BY <1>2 DEF Max
<1>4. SubSeq(stack, 1, 0) = <<>>
  BY Popped, Depth DEF ControlInv
<1> QED
  BY <1>2, <1>3, <1>4

\* A machine that stops is left as it is.
LEMMA Stopping ==
  ASSUME MachineInv, UNCHANGED <<control, data, tests>>
  PROVE  MachineInv'
<1>1. UNCHANGED <<fun, pc, base, stack, registers, heap, globals, awaiting>>
  BY DEF control, data, tests
<1>2. Here' = Here
  BY <1>1 DEF Here
<1>3. ControlInv' /\ WindowsInv'
  BY <1>1 DEF MachineInv, ControlInv, WindowsInv
<1>4. RegistersInv'
  BY <1>1, <1>2 DEF MachineInv, RegistersInv, JustLoaded
<1>5. ObjectsInv'
  BY <1>1, <1>2 DEF MachineInv, ObjectsInv, IsUnset
<1>6. GlobalsInv' /\ AwaitingInv'
  BY <1>1 DEF MachineInv, GlobalsInv, AwaitingInv
<1>7. ClosureInv' /\ TestsInv'
  BY <1>1, <1>2 DEF MachineInv, ClosureInv, TestsInv
<1> QED
  BY <1>3, <1>4, <1>5, <1>6, <1>7 DEF MachineInv

\* An error ends the program, or the test.
LEMMA RunErrorStep ==
  ASSUME Trusted, MachineInv, outcome = "running", Instr.op \notin Special,
         NEW regs, DOMAIN regs = DOMAIN registers, \A r \in DOMAIN regs : IsPlain(heap, regs[r]),
         RunErrorWith(regs)
  PROVE  MachineInv' /\ OutcomeInv'
<1>0. ControlInv /\ WindowsInv /\ TestsInv
  BY DEF MachineInv
<1>1. CASE TestFrames = {}
  <2>1. UNCHANGED <<control, data, tests>> /\ outcome' = "error"
    BY <1>1 DEF RunErrorWith
  <2>2. MachineInv'
    BY <2>1, Stopping
  <2> QED
    BY <2>1, <2>2 DEF OutcomeInv
<1>2. CASE TestFrames # {}
  <2>1. /\ 1 \in DOMAIN stack /\ stack[1].test /\ Max(TestFrames) = 1
        /\ SubSeq(stack, 1, Max(TestFrames) - 1) = <<>>
    BY <1>0, <1>2, TestIsFirst
  <2>2. PICK a : a = stack[1]
    OBVIOUS
  <2>3. /\ fun' = a.fun /\ pc' = a.pc + 1 /\ base' = a.base /\ stack' = <<>>
        /\ registers' = regs
        /\ heap' = heap /\ globals' = globals /\ awaiting' = awaiting /\ outcome' = outcome
    BY <1>2, <2>1, <2>2 DEF RunErrorWith
  <2>4. /\ IsAbove(0, a.fun) /\ a.pc \in Places(0, a.fun)
        /\ a.fun.code[a.pc].op = "check-error"
        /\ a.pc + 1 \in Successors(a.fun.code, a.pc)
    <3>1. /\ IsAbove(1 - 1, a.fun) /\ a.pc \in Places(1 - 1, a.fun)
          /\ a.fun.code[a.pc].op = "check-error"
          /\ a.pc + 1 \in Successors(a.fun.code, a.pc)
      BY <1>0, <2>1, <2>2, Waiting
    <3> QED
      BY <3>1
  <2>5. pc' \in Places(0, a.fun)
    BY <2>3, <2>4, Certified
  <2>6. Here' = At(0, a.fun, pc') /\ Len(stack') = 0
    BY <2>3 DEF Here
  <2>7. Here'.unset = {} /\ Here'.loaded = {}
    <3>1. a.fun.code[a.pc].op \notin Special
      BY <2>4 DEF Special, Making, Filling
    <3> QED
      BY <2>3, <2>4, <2>6, <3>1, Ordinary
  <2>8. AllPlain /\ AllPlain'
    BY <2>3, PlainBefore DEF AllPlain, GlobalsInv, AwaitingInv
  <2>9. DataInv'
    BY <2>7, <2>8, PlainAfter
  <2>10. DOMAIN stack' = {} /\ IsSeq(stack')
    BY <2>3, EmptyIsSeq
  <2>11. ControlInv'
    BY <2>3, <2>4, <2>5, <2>6, <2>10 DEF ControlInv
  <2>12. WindowsInv'
    BY <1>0, <2>1, <2>2, <2>3, <2>10 DEF WindowsInv
  <2>13. ClosureInv'
    BY <2>3, <2>10 DEF ClosureInv
  <2>14. TestsInv'
    BY <1>0, <2>1, <2>2, <2>3 DEF TestsInv
  <2>15. OutcomeInv'
    BY <2>3 DEF OutcomeInv
  <2> QED
    BY <2>9, <2>11, <2>12, <2>13, <2>14, <2>15 DEF MachineInv, DataInv
<1> QED
  BY <1>1, <1>2

\* An error in an ordinary instruction, with the registers as they are.
LEMMA RunErrorHere ==
  ASSUME Trusted, MachineInv, outcome = "running", Instr.op \notin Special, RunError
  PROVE  MachineInv' /\ OutcomeInv'
<1>1. \A r \in DOMAIN registers : IsPlain(heap, registers[r])
  BY PlainBefore DEF AllPlain
<1> QED
  BY <1>1, RunErrorStep DEF RunError

-----------------------------------------------------------------------------
(* Instructions that compute a value *)

\* Numbers are safe to use.
LEMMA Numbers == \A h, n : n \in Int => IsPlain(h, mkNumberValue(n))
BY DEF IsPlain, mkNumberValue, ObjectTags

\* Booleans are safe to use.
LEMMA Booleans == \A h, b : b \in BOOLEAN => IsPlain(h, mkBooleanValue(b))
BY DEF IsPlain, mkBooleanValue, ObjectTags

\* C's quotient and remainder of integers are integers.
LEMMA Quotients ==
  ASSUME NEW m \in Int, NEW n \in Int, n # 0
  PROVE  Quotient(m, n) \in Int /\ Remainder(m, n) \in Int
<1>1. AbsValue(m) \in Nat /\ AbsValue(n) \in Nat \ {0}
  BY DEF AbsValue
<1>2. AbsValue(m) \div AbsValue(n) \in Int
  BY <1>1
<1>3. Quotient(m, n) \in Int
  BY <1>2 DEF Quotient
<1>4. n * Quotient(m, n) \in Int
  BY <1>3
<1> QED
  BY <1>3, <1>4 DEF Remainder

\* What an arithmetic instruction computes is a number or a Boolean.
LEMMA Computes ==
  ASSUME NEW op \in BinaryOps, NEW m \in Int, NEW n \in Int, op \in Divisions => n # 0, NEW h
  PROVE  IsPlain(h, Compute(op, m, n))
<1>1. CASE op \in {"/", "idiv", "mod"}
  <2>1. Quotient(m, n) \in Int /\ Remainder(m, n) \in Int
    BY <1>1, Quotients DEF Divisions
  <2>2. Compute(op, m, n) \in {mkNumberValue(Quotient(m, n)), mkNumberValue(Remainder(m, n))}
    BY <1>1 DEF Compute
  <2> QED
    BY <2>1, <2>2, Numbers
<1>2. CASE op \in {"+", "-", "*"}
  <2>1. m + n \in Int /\ m - n \in Int /\ m * n \in Int
    OBVIOUS
  <2>2. Compute(op, m, n) \in {mkNumberValue(m + n), mkNumberValue(m - n), mkNumberValue(m * n)}
    BY <1>2 DEF Compute
  <2> QED
    BY <2>1, <2>2, Numbers
<1>3. CASE op \in {"<", ">", "<=", ">="}
  <2>1. (m < n) \in BOOLEAN /\ (m > n) \in BOOLEAN /\ (m <= n) \in BOOLEAN /\ (m >= n) \in BOOLEAN
    OBVIOUS
  <2>2. Compute(op, m, n) \in {mkBooleanValue(m < n), mkBooleanValue(m > n),
                               mkBooleanValue(m <= n), mkBooleanValue(m >= n)}
    BY <1>3 DEF Compute
  <2> QED
    BY <2>1, <2>2, Booleans
<1> QED
  BY <1>1, <1>2, <1>3 DEF BinaryOps, Divisions

\* What a step of one of these instructions has in common.
Steps(ops) == Trusted /\ MachineInv /\ InFile /\ Executes(ops)
Safely == MachineInv' /\ OutcomeInv'

\* An instruction that sets register X to what is safe to use keeps the invariant.
LEMMA Yielding ==
  ASSUME NEW ops, Steps(ops), ops \subseteq HasResult,
         ops \cap (Special \cup Jumps \cup Ends \cup {"check", "expect"}) = {},
         ops \subseteq Three \cup Two \cup One,
         NEW v, IsPlain(heap, v), Yields(v)
  PROVE  Safely
<1>1. 1 \in Uses(Instr)
  BY DEF Uses, Steps, Executes
<1>2. MachineInv' /\ outcome' = outcome
  BY <1>1, YieldsStep DEF Steps, Executes
<1> QED
  BY <1>2 DEF Safely, OutcomeInv, Steps, Executes

\* An ordinary instruction that fails keeps the invariant.
LEMMA Failing ==
  ASSUME NEW ops, Steps(ops), ops \cap Special = {}, RunError
  PROVE  Safely
BY RunErrorHere DEF Safely, Steps, Executes

\* The registers that the instruction reads hold values.
LEMMA Reads ==
  ASSUME NEW ops, Steps(ops), ops \cap Special = {}
  PROVE  /\ ops \subseteq Three \cup Two \cup One =>
              /\ IsPlain(heap, Reg(X)) /\ base + X \in DOMAIN registers
              /\ X \in Nat /\ base \in Nat
         /\ ops \subseteq Three \cup Two => IsPlain(heap, Reg(Y)) /\ base + Y \in DOMAIN registers
                                             /\ Y \in Nat
         /\ ops \subseteq Three =>
              IsPlain(heap, Reg(Z)) /\ base + Z \in DOMAIN registers /\ Z \in Nat
<1>1. \A j \in Uses(Instr) : Instr.r[j] \in Nat /\ base + Instr.r[j] \in DOMAIN registers
  BY OperandsAre DEF Steps, Executes
<1>2. base \in Nat
  BY OperandsAre DEF Steps, Executes
<1>3. \A r \in DOMAIN registers : IsPlain(heap, registers[r])
  BY PlainBefore DEF AllPlain, Steps, Executes
<1>4. Instr.op \in ops
  BY DEF Steps, Executes
<1>5. ops \subseteq Three \cup Two \cup One => 1 \in Uses(Instr)
  BY <1>4 DEF Uses
<1>6. ops \subseteq Three \cup Two => 2 \in Uses(Instr)
  BY <1>4 DEF Uses
<1>7. ops \subseteq Three => 3 \in Uses(Instr)
  BY <1>4 DEF Uses
<1> QED
  BY <1>1, <1>2, <1>3, <1>5, <1>6, <1>7 DEF Reg, X, Y, Z

\* Add to Le of vmrun: two numbers, or an error.
LEMMA BinaryStep == ASSUME Steps(BinaryOps), Binary PROVE Safely
<1>1. /\ BinaryOps \cap (Special \cup Jumps \cup Ends \cup {"check", "expect"}) = {}
      /\ BinaryOps \subseteq HasResult /\ BinaryOps \subseteq Three
  BY DEF BinaryOps, Divisions, Special, Making, Filling, Jumps, Ends, HasResult, Three
<1>2. IsPlain(heap, Reg(Y)) /\ IsPlain(heap, Reg(Z)) /\ Instr.op \in BinaryOps
  BY <1>1, Reads DEF Binary, Executes
<1>3. CASE IsNumber(Reg(Y)) /\ IsNumber(Reg(Z)) /\ ~(Instr.op \in Divisions /\ Reg(Z).n = 0)
  <2>1. Reg(Y).n \in Int /\ Reg(Z).n \in Int
    BY <1>2, <1>3 DEF IsPlain, IsNumber
  <2>2. IsPlain(heap, Compute(Instr.op, Reg(Y).n, Reg(Z).n))
    BY <1>2, <1>3, <2>1, Computes
  <2>3. Yields(Compute(Instr.op, Reg(Y).n, Reg(Z).n))
    BY <1>3 DEF Binary
  <2> QED
    BY <1>1, <2>2, <2>3, Yielding
<1>4. CASE ~(IsNumber(Reg(Y)) /\ IsNumber(Reg(Z)) /\ ~(Instr.op \in Divisions /\ Reg(Z).n = 0))
  <2>1. RunError
    BY <1>4 DEF Binary
  <2> QED
    BY <1>1, <2>1, Failing
<1> QED
  BY <1>3, <1>4

\* Inc, Dec, Neg, PlusImm and Gt0: a number, or an error.
LEMMA UnaryStep == ASSUME Steps(UnaryOps), Unary PROVE Safely
<1>1. /\ UnaryOps \cap (Special \cup Jumps \cup Ends \cup {"check", "expect"}) = {}
      /\ UnaryOps \subseteq HasResult /\ UnaryOps \subseteq Three \cup Two \cup One
      /\ UnaryOps \ {"inc", "dec"} \subseteq Two /\ {"inc", "dec"} \subseteq One
  BY DEF UnaryOps, Special, Making, Filling, Jumps, Ends, HasResult, Two, One
<1>2. Instr.op \in UnaryOps
  BY DEF Unary, Executes
<1>3. IsPlain(heap, Operand)
  <2>1. CASE Instr.op \in {"inc", "dec"}
    BY <1>1, <2>1, Reads DEF Operand
  <2>2. CASE Instr.op \in UnaryOps \ {"inc", "dec"}
    <3>1. Steps(UnaryOps \ {"inc", "dec"})
      BY <2>2 DEF Steps, Executes
    <3>2. IsPlain(heap, Reg(Y))
      BY <1>1, <3>1, Reads
    <3> QED
      BY <2>2, <3>2 DEF Operand
  <2> QED
    BY <1>2, <2>1, <2>2
<1>4. CASE IsNumber(Operand)
  <2>1. Operand.n \in Int
    BY <1>3, <1>4 DEF IsPlain, IsNumber
  <2>2. Instr.op = "+imm" => Instr.k \in Int
    BY Executing DEF Steps, MachineInv, Allowed, HasOperands
  <2>3. IsPlain(heap, ComputeUnary(Instr.op, Operand.n))
    <3> DEFINE n == Operand.n
    <3>1. CASE Instr.op = "neg"
      BY <2>1, <3>1, Numbers DEF ComputeUnary
    <3>2. CASE Instr.op = "gt0"
      <4>1. (n > 0) \in BOOLEAN
        OBVIOUS
      <4> QED
        BY <3>2, <4>1, Booleans DEF ComputeUnary
    <3>3. CASE Instr.op = "inc"
      BY <2>1, <3>3, Numbers DEF ComputeUnary
    <3>4. CASE Instr.op = "dec"
      BY <2>1, <3>4, Numbers DEF ComputeUnary
    <3>5. CASE Instr.op = "+imm"
      <4>1. n + (Instr.k - 128) \in Int
        BY <2>1, <2>2, <3>5
      <4> QED
        BY <3>5, <4>1, Numbers DEF ComputeUnary
    <3> QED
      BY <1>2, <3>1, <3>2, <3>3, <3>4, <3>5 DEF UnaryOps
  <2>4. Yields(ComputeUnary(Instr.op, Operand.n))
    BY <1>4 DEF Unary
  <2> QED
    BY <1>1, <2>3, <2>4, Yielding
<1>5. CASE ~IsNumber(Operand)
  <2>1. RunError
    BY <1>5 DEF Unary
  <2> QED
    BY <1>1, <2>1, Failing
<1> QED
  BY <1>4, <1>5

\* The names of the tests of a tag.
LEMMA TagTests ==
  DOMAIN TagsOf = {"nil?", "boolean?", "number?", "symbol?", "null?", "pair?", "function?"}
  /\ TagsOf["function?"] = {"VMFunction", "VMClosure"}
BY DEF TagsOf

\* Tests of a value, copies, and what a global holds.
LEMMA ValueStep ==
  ASSUME NEW ops, Steps(ops),
         TypeTest \/ Copy \/ Not \/ BoolOf \/ Eq \/ GetGlobal,
         ops \in {DOMAIN TagsOf, {"copy"}, {"not"}, {"boolOf"}, {"="}, {"getglobal"}}
  PROVE  Safely
<1>1. /\ ops \cap (Special \cup Jumps \cup Ends \cup {"check", "expect"}) = {}
      /\ ops \subseteq HasResult /\ ops \subseteq Three \cup Two \cup One
  BY TagTests DEF Special, Making, Filling, Jumps, Ends, HasResult, Three, Two, One
<1>2. Instr.op \in ops
  BY DEF Steps, Executes
<1>3. CASE Copy
  <2>1. Instr.op = "copy" /\ Yields(Reg(Y))
    BY <1>3 DEF Copy, Executes
  <2>2. Steps({"copy"}) /\ {"copy"} \subseteq Two /\ {"copy"} \cap Special = {}
    BY <2>1 DEF Steps, Executes, Two, Special, Making, Filling
  <2>3. IsPlain(heap, Reg(Y))
    BY <2>2, Reads
  <2> QED
    BY <1>1, <2>1, <2>3, Yielding
<1>4. CASE GetGlobal
  <2>1. Instr.op = "getglobal" /\ Yields(globals[Instr.k])
    BY <1>4 DEF GetGlobal, Executes
  <2>2. Instr.k \in Global
    BY <2>1, Executing DEF Steps, MachineInv, Allowed, HasOperands
  <2>3. IsPlain(heap, globals[Instr.k])
    BY <2>2 DEF Steps, MachineInv, GlobalsInv
  <2> QED
    BY <1>1, <2>1, <2>3, Yielding
<1>5. ASSUME NEW b \in BOOLEAN, Yields(mkBooleanValue(b)) PROVE Safely
  BY <1>1, <1>5, Booleans, Yielding
<1>6. CASE TypeTest
  <2>1. (Reg(Y).tag \in TagsOf[Instr.op]) \in BOOLEAN
    OBVIOUS
  <2> QED
    BY <1>5, <1>6, <2>1 DEF TypeTest
<1>7. CASE Not
  <2>1. (~asBool(Reg(Y))) \in BOOLEAN
    BY DEF asBool
  <2> QED
    BY <1>5, <1>7, <2>1 DEF Not
<1>8. CASE BoolOf
  <2>1. asBool(Reg(Y)) \in BOOLEAN
    BY DEF asBool
  <2> QED
    BY <1>5, <1>8, <2>1 DEF BoolOf
<1>9. CASE Eq
  <2>1. eqvalue(Reg(Y), Reg(Z)) \in BOOLEAN
    BY DEF eqvalue
  <2> QED
    BY <1>5, <1>9, <2>1 DEF Eq
<1> QED
  BY <1>3, <1>4, <1>6, <1>7, <1>8, <1>9

-----------------------------------------------------------------------------
(* Instructions that read objects *)

\* What is in the slots of an object that a register points to, the symbol cons included.
LEMMA SlotsOf ==
  ASSUME AllPlain, NEW v, IsPlain(heap, v), v.tag \in ObjectTags
  PROVE  /\ v.p \in DOMAIN heap /\ heap[v.p].tag = v.tag
         /\ IsSeq(Slots(v)) /\ Len(Slots(v)) \in Nat /\ DOMAIN Slots(v) = 1..Len(Slots(v))
         /\ v.tag = "ConsCell" => Len(Slots(v)) = 2
         /\ v.tag = "Block" => Len(Slots(v)) # 0
         /\ \A i \in DOMAIN Slots(v) : IsPlain(heap, Slots(v)[i])
<1>1. v.p \in DOMAIN heap /\ heap[v.p].tag = v.tag
  BY DEF IsPlain
<1>2. IsObject(heap[v.p])
  BY <1>1 DEF AllPlain
<1>3. IsSeq(Slots(v)) /\ Len(Slots(v)) \in Nat /\ DOMAIN Slots(v) = 1..Len(Slots(v))
  BY <1>2, SeqIs DEF IsObject, Slots
<1>4. \A i \in DOMAIN Slots(v) : IsPlain(heap, Slots(v)[i])
  BY <1>1 DEF AllPlain, Slots
<1> QED
  BY <1>1, <1>2, <1>3, <1>4 DEF IsObject, Slots

\* A cell or a block, seen as a block.
LEMMA BlockSlotsOf ==
  ASSUME AllPlain, NEW v, IsPlain(heap, v), v.tag \in {"ConsCell", "Block"}
  PROVE  /\ Len(BlockSlots(v)) \in Nat \ {0}
         /\ \A i \in 1..Len(BlockSlots(v)) : IsPlain(heap, BlockSlots(v)[i])
<1>1. /\ IsSeq(Slots(v)) /\ Len(Slots(v)) \in Nat /\ DOMAIN Slots(v) = 1..Len(Slots(v))
      /\ v.tag = "ConsCell" => Len(Slots(v)) = 2
      /\ v.tag = "Block" => Len(Slots(v)) # 0
      /\ \A i \in DOMAIN Slots(v) : IsPlain(heap, Slots(v)[i])
  BY SlotsOf DEF ObjectTags
<1>2. CASE v.tag = "Block"
  <2>1. BlockSlots(v) = Slots(v)
    BY <1>2 DEF BlockSlots
  <2> QED
    BY <1>1, <1>2, <2>1
<1>3. CASE v.tag = "ConsCell"
  <2> DEFINE S == Range(Slots(v)) \cup {consSymbol}
             one == <<consSymbol>>
             t == one \o Slots(v)
  <2>1. Slots(v) \in Seq(S) /\ one \in Seq(S) /\ Len(one) = 1 /\ one[1] = consSymbol
    BY <1>1 DEF IsSeq
  <2>2. BlockSlots(v) = t
    BY <1>3 DEF BlockSlots
  <2>3. /\ Len(t) = 3
        /\ \A i \in 1..3 : t[i] = IF i <= 1 THEN one[i] ELSE Slots(v)[i - 1]
    <3> HIDE DEF one
    <3> QED
      BY <1>1, <1>3, <2>1, ConcatProperties
  <2>4. IsPlain(heap, consSymbol)
    BY DEF IsPlain, consSymbol, mkStringValue, ObjectTags
  <2>5. \A i \in 1..3 : IsPlain(heap, t[i])
    BY <1>1, <1>3, <2>1, <2>3, <2>4
  <2> QED
    BY <2>2, <2>3, <2>5
<1> QED
  BY <1>2, <1>3

\* Car and Cdr: a slot of a cell, or an error.
LEMMA CarCdrStep == ASSUME Steps({"car", "cdr"}), CarCdr PROVE Safely
<1> DEFINE ops == {"car", "cdr"}
<1>1. /\ ops \cap (Special \cup Jumps \cup Ends \cup {"check", "expect"}) = {}
      /\ ops \subseteq HasResult /\ ops \subseteq Two
  BY DEF Special, Making, Filling, Jumps, Ends, HasResult, Two
<1>2. IsPlain(heap, Reg(Y)) /\ AllPlain
  BY <1>1, Reads, PlainBefore DEF Steps, Executes
<1>3. CASE Reg(Y).tag = "ConsCell"
  <2> DEFINE v == Slots(Reg(Y))[IF Instr.op = "car" THEN 1 ELSE 2]
  <2>1. IsPlain(heap, v)
    BY <1>2, <1>3, SlotsOf DEF ObjectTags
  <2>2. Yields(v)
    BY <1>3 DEF CarCdr
  <2> QED
    BY <1>1, <2>1, <2>2, Yielding
<1>4. CASE Reg(Y).tag # "ConsCell"
  BY <1>1, <1>4, Failing DEF CarCdr
<1> QED
  BY <1>3, <1>4

\* GetBlockSlot: a slot that is there, or an error.
LEMMA GetBlockSlotStep == ASSUME Steps({"getblockslot"}), GetBlockSlot PROVE Safely
<1> DEFINE ops == {"getblockslot"}
<1>1. /\ ops \cap (Special \cup Jumps \cup Ends \cup {"check", "expect"}) = {}
      /\ ops \subseteq HasResult /\ ops \subseteq Two
  BY DEF Special, Making, Filling, Jumps, Ends, HasResult, Two
<1>2. IsPlain(heap, Reg(Y)) /\ AllPlain
  BY <1>1, Reads, PlainBefore DEF Steps, Executes
<1>3. Instr.k \in Nat
  BY Executing DEF Steps, Executes, MachineInv, Allowed, HasOperands
<1>4. CASE Reg(Y).tag \in {"ConsCell", "Block"} /\ Instr.k < Len(BlockSlots(Reg(Y)))
  <2> DEFINE v == BlockSlots(Reg(Y))[Instr.k + 1]
  <2>1. IsPlain(heap, v)
    BY <1>2, <1>3, <1>4, BlockSlotsOf
  <2>2. Yields(v)
    BY <1>4 DEF GetBlockSlot
  <2> QED
    BY <1>1, <2>1, <2>2, Yielding
<1>5. CASE ~(Reg(Y).tag \in {"ConsCell", "Block"} /\ Instr.k < Len(BlockSlots(Reg(Y))))
  BY <1>1, <1>5, Failing DEF GetBlockSlot
<1> QED
  BY <1>4, <1>5

\* A captured variable is read from the closure of the running function, which has it.
LEMMA GetClSlotStep == ASSUME Steps({"getclslot"}), GetClSlot PROVE Safely
<1> DEFINE ops == {"getclslot"}
<1>0. Trusted /\ MachineInv /\ ControlInv /\ ClosureInv
  BY DEF Steps, MachineInv
<1>1. /\ ops \cap (Special \cup Jumps \cup Ends \cup {"check", "expect"}) = {}
      /\ ops \subseteq HasResult /\ ops \subseteq Two
  BY DEF Special, Making, Filling, Jumps, Ends, HasResult, Two
<1>2. IsPlain(heap, Reg(Y)) /\ AllPlain /\ base \in Nat
  BY <1>1, Reads, PlainBefore DEF Steps, Executes
<1>3. Instr.op = "getclslot"
  BY DEF Steps, Executes
<1>4. Instr.r[2] = 0 /\ "own closure" \in Here.facts /\ stack # <<>>
  BY <1>0, <1>3, Executing DEF Allowed, MakesClosures, KeepsToItsPlace
<1>5. Instr.k \in Captured(fun)
  BY <1>0, <1>3, Executing DEF Captured, Instr
<1>6. Reg(Y) = registers[base]
  <2>1. base + 0 = base
    BY <1>2
  <2> QED
    BY <1>4, <2>1 DEF Reg, Y
<1>7. Reg(Y).tag = "VMClosure" /\ heap[Reg(Y).p].f.f = fun
  BY <1>0, <1>4, <1>5, <1>6 DEF ClosureInv, HasClosure
<1>8. Reg(Y).p \in DOMAIN heap /\ heap[Reg(Y).p].tag = "VMClosure"
  BY <1>2, <1>7 DEF IsPlain, ObjectTags
<1>9. Instr.k \in 0..Len(Slots(Reg(Y))) - 1
  BY <1>2, <1>5, <1>7, <1>8 DEF AllPlain, IsObject, Slots
<1>10. IsPlain(heap, Slots(Reg(Y))[Instr.k + 1])
  BY <1>2, <1>7, <1>9, SlotsOf DEF ObjectTags
<1>11. ~(Instr.k >= Len(Slots(Reg(Y))))
  BY <1>2, <1>7, <1>9, SlotsOf DEF ObjectTags
<1>12. Yields(Slots(Reg(Y))[Instr.k + 1])
  BY <1>7, <1>11 DEF GetClSlot
<1> QED
  BY <1>1, <1>10, <1>12, Yielding

-----------------------------------------------------------------------------
(* Swaps, globals, jumps, output and tests *)

\* Swap: two registers of the window.
LEMMA SwapStep == ASSUME Steps({"swap"}), Swap PROVE Safely
<1>0. {"swap"} \cap Special = {} /\ {"swap"} \subseteq Two /\ Instr.op = "swap"
  BY DEF Special, Making, Filling, Two, Steps, Executes
<1>1. /\ X \in Nat /\ Y \in Nat /\ base \in Nat
      /\ base + X \in DOMAIN registers /\ base + Y \in DOMAIN registers
      /\ IsPlain(heap, Reg(X)) /\ IsPlain(heap, Reg(Y))
  BY <1>0, Reads
<1>2. AllPlain
  BY <1>0, PlainBefore DEF Steps, Executes
<1>3. GoesOn /\ base' = base /\ heap' = heap /\ globals' = globals /\ awaiting' = awaiting
      /\ outcome' = outcome
  BY <1>0, NextIsSuccessor DEF GoesOn, Swap, Jumps, Ends, tests
<1>4. registers' = [registers EXCEPT ![base + X] = Reg(Y), ![base + Y] = Reg(X)]
  BY DEF Swap
<1>5. Overwrites(Instr) \/ (X # 0 /\ Y # 0)
  BY <1>0 DEF Overwrites, X, Y, HasResult
<1>6. \A r \in DOMAIN registers : r \in Int
  BY <1>2 DEF AllPlain
<1>7. Local
  BY <1>1, <1>4, <1>5, <1>6 DEF Local
<1>8. AllPlain'
  BY <1>1, <1>2, <1>3, <1>4 DEF AllPlain, GlobalsInv, AwaitingInv
<1>9. MachineInv'
  BY <1>0, <1>3, <1>7, <1>8, Unchanged, OrdinaryStep DEF Steps
<1> QED
  BY <1>3, <1>9 DEF Safely, OutcomeInv, Steps, Executes

\* The instruction changes neither registers nor objects.
LEMMA QuietStep ==
  ASSUME NEW ops, Steps(ops), ops \cap Special = {}, GoesOn,
         base' = base, registers' = registers, heap' = heap, outcome' = outcome,
         GlobalsInv', AwaitingInv',
         awaiting' # <<>> <=> Instr.op = "check" \/ (awaiting # <<>> /\ Instr.op # "expect")
  PROVE  Safely
<1>1. AllPlain /\ Instr.op \notin Special
  BY PlainBefore DEF Steps, Executes
<1>2. AllPlain'
  BY <1>1 DEF AllPlain
<1>3. Local
  BY DEF Local
<1>4. MachineInv'
  BY <1>1, <1>2, <1>3, Unchanged, OrdinaryStep DEF Steps
<1> QED
  BY <1>4 DEF Safely, OutcomeInv, Steps, Executes

\* Values are as safe to use when no object has changed.
LEMMA StillPlain ==
  ASSUME MachineInv, heap' = heap
  PROVE  /\ globals' = globals => GlobalsInv'
         /\ awaiting' = awaiting => AwaitingInv'
BY DEF MachineInv, GlobalsInv, AwaitingInv

\* SetGlobal.
LEMMA SetGlobalStep == ASSUME Steps({"setglobal"}), SetGlobal PROVE Safely
<1>1. /\ {"setglobal"} \cap Special = {} /\ {"setglobal"} \subseteq One
      /\ Instr.op = "setglobal"
  BY DEF Special, Making, Filling, One, Steps, Executes
<1>2. IsPlain(heap, Reg(X))
  BY <1>1, Reads
<1>3. GoesOn /\ base' = base /\ registers' = registers /\ heap' = heap /\ awaiting' = awaiting
      /\ outcome' = outcome
  BY <1>1, NextIsSuccessor DEF GoesOn, SetGlobal, Jumps, Ends, tests
<1>4. globals' = [globals EXCEPT ![Instr.k] = Reg(X)]
  BY DEF SetGlobal
<1>5. GlobalsInv'
  BY <1>2, <1>3, <1>4 DEF GlobalsInv, Steps, MachineInv
<1>6. AwaitingInv'
  BY <1>3, StillPlain DEF Steps
<1> QED
  BY <1>1, <1>3, <1>5, <1>6, QuietStep

\* A jump to a place that is a successor.
LEMMA JumpStep ==
  ASSUME NEW ops, Steps(ops), ops \cap (Special \cup {"check", "expect"}) = {},
         NEW i \in Successors(fun.code, pc), JumpTo(i)
  PROVE  Safely
<1>1. GoesOn /\ base' = base /\ registers' = registers /\ heap' = heap /\ awaiting' = awaiting
      /\ globals' = globals /\ outcome' = outcome
  BY DEF JumpTo, GoesOn, data, tests
<1>2. GlobalsInv' /\ AwaitingInv'
  BY <1>1, StillPlain DEF Steps
<1>3. Instr.op \notin {"check", "expect"}
  BY DEF Steps, Executes
<1> QED
  BY <1>1, <1>2, <1>3, QuietStep

\* If, Goto and Gc.
LEMMA SimpleJumpStep ==
  ASSUME NEW ops \in {{"if"}, {"goto"}, {"gc"}}, Steps(ops), If \/ Goto \/ Gc
  PROVE  Safely
<1>1. ops \cap (Special \cup {"check", "expect"}) = {}
  BY DEF Special, Making, Filling
<1>2. CASE If
  <2>1. Instr.op = "if" /\ JumpTo(IF asBool(Reg(X)) THEN pc + 1 ELSE pc + 2)
    BY <1>2 DEF If, Executes
  <2>2. pc + 1 \in Successors(fun.code, pc) /\ pc + 2 \in Successors(fun.code, pc)
    BY <2>1 DEF Successors, Instr
  <2> QED
    BY <1>1, <2>1, <2>2, JumpStep
<1>3. CASE Goto
  <2>1. Instr.op = "goto" /\ JumpTo(pc + 1 + Instr.k)
    BY <1>3 DEF Goto, Executes
  <2>2. pc + 1 + Instr.k \in Successors(fun.code, pc)
    BY <2>1 DEF Successors, Instr
  <2> QED
    BY <1>1, <2>1, <2>2, JumpStep
<1>4. CASE Gc
  <2>1. Instr.op = "gc" /\ JumpTo(pc + 1)
    BY <1>4 DEF Gc, Executes
  <2>2. pc + 1 \in Successors(fun.code, pc)
    BY <2>1, NextIsSuccessor DEF Jumps, Ends
  <2> QED
    BY <1>1, <2>1, <2>2, JumpStep
<1> QED
  BY <1>2, <1>3, <1>4

\* A set of numbers that has an element has a least one.
LEMMA LeastIs ==
  ASSUME NEW S \in SUBSET Nat, S # {}
  PROVE  Min(S) \in S
<1>1. PICK m \in S : \A n \in S : ~(<<n, m>> \in OpToRel(<, Nat))
  BY NatLessThanWellFounded, WFMin
<1>2. \A n \in S : ~(n < m)
  BY <1>1 DEF OpToRel
<1>3. \A n \in S : m <= n
  BY <1>2
<1> QED
  BY <1>3 DEF Min

\* GotoVcon: to the first choice that matches, or to the default.
LEMMA GotoVconStep == ASSUME Steps({"goto-vcon"}), GotoVcon PROVE Safely
<1>1. /\ {"goto-vcon"} \cap (Special \cup {"check", "expect"}) = {}
      /\ Instr.op = "goto-vcon"
  BY DEF Special, Making, Filling, Steps, Executes
<1>2. Instr.k \in Nat /\ pc \in Int
  BY <1>1, Executing DEF Allowed, HasOperands, Steps, MachineInv
<1>3. Successors(fun.code, pc) =
        {pc + 1 + 2 * Instr.k} \cup {pc + 2 * j + 1 + fun.code[pc + 2 * j].k : j \in 1..Instr.k}
  BY <1>1 DEF Successors, Instr
<1> DEFINE Case(i) == pc + 2 * i - 1
           Matches(i) == /\ fun.code[Case(i)].r[1] = ConArity(Reg(X))
                         /\ eqvalue(fun.code[Case(i)].k, Constructor(Reg(X)))
           found == {i \in 1..Instr.k : Matches(i)}
           there == IF found = {} THEN pc + 1 + 2 * Instr.k
                    ELSE Case(Min(found)) + 2 + fun.code[Case(Min(found)) + 1].k
<1>4. JumpTo(there)
  BY DEF GotoVcon
<1>5. there \in Successors(fun.code, pc)
  <2>1. CASE found = {}
    BY <1>3, <2>1
  <2>2. CASE found # {}
    <3>1. found \in SUBSET Nat
      BY <1>2
    <3>2. PICK j : j = Min(found)
      OBVIOUS
    <3>3. j \in found
      <4> HIDE DEF found
      <4> QED
        BY <2>2, <3>1, <3>2, LeastIs
    <3>4. j \in 1..Instr.k
      BY <3>3
    <3>5. there = Case(j) + 2 + fun.code[Case(j) + 1].k
      BY <2>2, <3>2
    <3>6. Case(j) + 1 = pc + 2 * j /\ Case(j) + 2 = pc + 2 * j + 1
      BY <1>2, <3>4
    <3> QED
      BY <1>3, <3>4, <3>5, <3>6
  <2> QED
    BY <2>1, <2>2
<1> HIDE DEF there
<1> QED
  BY <1>1, <1>4, <1>5, JumpStep

\* Halt, which only the module reaches.
LEMMA HaltStep == ASSUME Steps({"halt"}), Halt PROVE Safely
<1>1. stack = <<>>
  BY Executing DEF Steps, Executes, MachineInv, Allowed, KeepsToItsPlace
<1>2. UNCHANGED <<control, data, tests>> /\ outcome' = "halted"
  BY DEF Halt
<1>3. stack' = stack
  BY <1>2 DEF control
<1>4. MachineInv'
  BY <1>2, Stopping DEF Steps
<1> QED
  BY <1>1, <1>2, <1>3, <1>4 DEF Safely, OutcomeInv

\* Something is printed, or a test ends.
LEMMA EmitStep ==
  ASSUME NEW ops, Steps(ops), ops \cap (Special \cup Jumps \cup Ends) = {},
         NEW o, Emit(o), AwaitingInv',
         awaiting' # <<>> <=> Instr.op = "check" \/ (awaiting # <<>> /\ Instr.op # "expect")
  PROVE  Safely
<1>1. GoesOn /\ base' = base /\ registers' = registers /\ heap' = heap /\ globals' = globals
      /\ outcome' = outcome
  BY NextIsSuccessor DEF Emit, GoesOn, data, Steps, Executes
<1>2. GlobalsInv'
  BY <1>1, StillPlain DEF Steps
<1> QED
  BY <1>1, <1>2, QuietStep

\* Printing, and the verdict of a test, change no value.
LEMMA PrintStep ==
  ASSUME NEW ops, Steps(ops),
         ops \cap (Special \cup Jumps \cup Ends \cup {"check", "expect"}) = {},
         NEW o, Emit(o), UNCHANGED awaiting
  PROVE  Safely
<1>1. heap' = heap
  BY DEF Emit, data
<1>2. AwaitingInv'
  BY <1>1, StillPlain DEF Steps
<1>3. Instr.op \notin {"check", "expect"}
  BY DEF Steps, Executes
<1> QED
  BY <1>2, <1>3, EmitStep

\* Control does not run into a jump table.
LEMMA OutputStep ==
  ASSUME Steps({"print", "println", "printl", "printlnl", "if-vcon-match"}), Output
  PROVE  Safely
<1> DEFINE ops == {"print", "println", "printl", "printlnl", "if-vcon-match"}
<1>1. ops \cap (Special \cup Jumps \cup Ends \cup {"check", "expect"}) = {}
  BY DEF Special, Making, Filling, Jumps, Ends
<1>2. \E o : Emit(o) /\ UNCHANGED awaiting
  BY DEF Output
<1> QED
  BY <1>1, <1>2, PrintStep

\* Printu: a code point, an error, or the one fault.
LEMMA PrintuStep == ASSUME Steps({"printu"}), Printu PROVE Safely
<1>1. {"printu"} \cap (Special \cup Jumps \cup Ends \cup {"check", "expect"}) = {}
  BY DEF Special, Making, Filling, Jumps, Ends
<1>2. CASE IsNumber(Reg(X)) /\ Reg(X).n \notin CodePoint
  <2>1. UNCHANGED <<control, data, tests>> /\ outcome' = "undefined"
    BY <1>2 DEF Printu, Undefined
  <2>2. MachineInv'
    BY <2>1, Stopping DEF Steps
  <2>3. UNCHANGED <<fun, pc, base, registers>>
    BY <2>1 DEF control, data
  <2>4. Instr.op = "printu"
    BY DEF Steps, Executes
  <2>5. FaultsInPrintu'
    BY <1>2, <2>1, <2>3, <2>4 DEF FaultsInPrintu, IsNumber, Reg, X, Instr
  <2> QED
    BY <2>1, <2>2, <2>5 DEF Safely, OutcomeInv
<1>3. CASE ~(IsNumber(Reg(X)) /\ Reg(X).n \notin CodePoint)
  <2>1. RunError \/ \E o : Emit(o) /\ UNCHANGED awaiting
    BY <1>3 DEF Printu
  <2> QED
    BY <1>1, <2>1, PrintStep, Failing
<1> QED
  BY <1>2, <1>3

\* Error.
LEMMA ErrorStep == ASSUME Steps({"error"}), Error PROVE Safely
<1>1. {"error"} \cap Special = {}
  BY DEF Special, Making, Filling
<1> QED
  BY <1>1, Failing DEF Error

\* A test starts and ends where the certificate says so.
LEMMA TestPlaces ==
  ASSUME Trusted, MachineInv
  PROVE  /\ Instr.op \in {"check", "check-assert", "check-error"} => stack = <<>> /\ awaiting = <<>>
         /\ Instr.op = "expect" => stack = <<>> /\ awaiting # <<>>
<1>1. KeepsToItsPlace(fun.code, Instr, Here, stack = <<>>)
  BY Executing DEF MachineInv, Allowed
<1>2. stack = <<>> => Here = ModuleCertificate[pc]
  BY Depth DEF Here, At, MachineInv
<1>3. stack = <<>> => (awaiting # <<>> <=> "awaits" \in Here.facts)
  BY <1>2 DEF MachineInv, TestsInv
<1> QED
  BY <1>1, <1>3 DEF KeepsToItsPlace

\* Check: none awaits its expect, so its assertion holds.
LEMMA CheckStep == ASSUME Steps({"check"}), Check PROVE Safely
<1>1. /\ {"check"} \cap Special = {} /\ {"check"} \subseteq One /\ Instr.op = "check"
  BY DEF Special, Making, Filling, One, Steps, Executes
<1>2. IsPlain(heap, Reg(X))
  BY <1>1, Reads
<1>3. awaiting = <<>>
  BY <1>1, TestPlaces DEF Steps
<1>4. GoesOn /\ base' = base /\ registers' = registers /\ heap' = heap /\ globals' = globals
      /\ outcome' = outcome /\ awaiting' = <<Reg(X)>>
  BY <1>1, <1>3, NextIsSuccessor DEF GoesOn, Check, Jumps, Ends, data
<1>5. GlobalsInv'
  BY <1>4, StillPlain DEF Steps
<1>6. awaiting'[1] = Reg(X) /\ awaiting' # <<>>
  BY <1>4
<1>7. AwaitingInv'
  BY <1>2, <1>4, <1>6 DEF AwaitingInv
<1> QED
  BY <1>1, <1>4, <1>5, <1>6, <1>7, QuietStep

\* Expect: a check awaits it, so its assertion holds.
LEMMA ExpectStep == ASSUME Steps({"expect"}), Expect PROVE Safely
<1>1. /\ {"expect"} \cap (Special \cup Jumps \cup Ends) = {} /\ Instr.op = "expect"
  BY DEF Special, Making, Filling, Jumps, Ends, Steps, Executes
<1>2. awaiting # <<>>
  BY <1>1, TestPlaces DEF Steps
<1>3. awaiting' = <<>> /\ \E o : Emit(o)
  BY <1>2 DEF Expect
<1>4. AwaitingInv'
  BY <1>3 DEF AwaitingInv
<1> QED
  BY <1>1, <1>3, <1>4, EmitStep

\* CheckAssert: no check awaits its expect, so its assertion holds.
LEMMA CheckAssertStep == ASSUME Steps({"check-assert"}), CheckAssert PROVE Safely
<1>1. /\ {"check-assert"} \cap (Special \cup Jumps \cup Ends \cup {"check", "expect"}) = {}
      /\ Instr.op = "check-assert"
  BY DEF Special, Making, Filling, Jumps, Ends, Steps, Executes
<1>2. awaiting = <<>>
  BY <1>1, TestPlaces DEF Steps
<1>3. \E o : Emit(o) /\ UNCHANGED awaiting
  BY <1>2 DEF CheckAssert
<1> QED
  BY <1>1, <1>3, PrintStep

-----------------------------------------------------------------------------
(* New objects *)

\* Allocation and assignment to slots leave a value safe to use.
LEMMA PlainInMore ==
  ASSUME NEW h, NEW g, Extends(h, g), NEW v, IsPlain(h, v)
  PROVE  IsPlain(g, v)
BY DEF IsPlain, Extends

\* The heap after an allocation, and the new object.
LEMMA Allocation ==
  ASSUME IsSeq(heap), NEW tag, NEW f, NEW n \in Nat, NEW set, Allocate(tag, f, n, set)
  PROVE  LET o == heap'[Len(heap) + 1] IN
         /\ IsSeq(heap') /\ Extends(heap, heap')
         /\ Len(heap) \in Nat /\ DOMAIN heap = 1..Len(heap)
         /\ DOMAIN heap' = 1..Len(heap) + 1
         /\ \A p \in DOMAIN heap : heap'[p] = heap[p]
         /\ o.tag = tag /\ o.f = f /\ o = [tag |-> o.tag, f |-> o.f, slots |-> o.slots]
         /\ IsSeq(o.slots) /\ Len(o.slots) = n /\ DOMAIN o.slots = 1..n
         /\ \A i \in 1..n : o.slots[i] = IF i \in DOMAIN set THEN set[i] ELSE Garbage
<1> DEFINE slots == [i \in 1..n |-> IF i \in DOMAIN set THEN set[i] ELSE Garbage]
           obj == [tag |-> tag, f |-> f, slots |-> slots]
<1>1. heap' = Append(heap, obj)
  BY DEF Allocate
<1>2. IsSeq(slots) /\ Len(slots) = n
  BY SeqOfFunction
<1>3. /\ obj.slots = slots /\ obj.tag = tag /\ obj.f = f
      /\ obj = [tag |-> obj.tag, f |-> obj.f, slots |-> obj.slots]
  OBVIOUS
<1>4. DOMAIN slots = 1..n /\ \A i \in 1..n : slots[i] = IF i \in DOMAIN set THEN set[i] ELSE Garbage
  OBVIOUS
<1> HIDE DEF obj, slots
<1>5. /\ IsSeq(heap') /\ Len(heap) \in Nat /\ DOMAIN heap = 1..Len(heap)
      /\ DOMAIN heap' = 1..Len(heap) + 1
      /\ \A p \in 1..Len(heap) : heap'[p] = heap[p]
      /\ heap'[Len(heap) + 1] = obj
  BY <1>1, Pushed
<1>6. Extends(heap, heap')
  BY <1>5 DEF Extends
<1> QED
  BY <1>2, <1>3, <1>4, <1>5, <1>6

\* Cons: both slots of the new cell are set at once.
LEMMA MkConsStep == ASSUME Steps({"cons"}), MkCons PROVE Safely
<1>1. /\ {"cons"} \cap Special = {} /\ {"cons"} \subseteq Three /\ Instr.op = "cons"
  BY DEF Special, Making, Filling, Three, Steps, Executes
<1>2. /\ IsPlain(heap, Reg(Y)) /\ IsPlain(heap, Reg(Z))
      /\ X \in Nat /\ base \in Nat /\ base + X \in DOMAIN registers
  BY <1>1, Reads
<1>3. AllPlain
  BY <1>1, PlainBefore DEF Steps, Executes
<1> DEFINE set == <<Reg(Y), Reg(Z)>>
           new == Len(heap) + 1
<1>4. Allocate("ConsCell", nilValue, 2, set)
  BY DEF MkCons
<1>5. /\ IsSeq(heap') /\ Extends(heap, heap')
      /\ Len(heap) \in Nat /\ DOMAIN heap = 1..Len(heap)
      /\ DOMAIN heap' = 1..Len(heap) + 1
      /\ \A p \in DOMAIN heap : heap'[p] = heap[p]
      /\ heap'[new].tag = "ConsCell"
      /\ heap'[new] = [tag |-> heap'[new].tag, f |-> heap'[new].f, slots |-> heap'[new].slots]
      /\ IsSeq(heap'[new].slots) /\ Len(heap'[new].slots) = 2 /\ DOMAIN heap'[new].slots = 1..2
      /\ \A i \in 1..2 : heap'[new].slots[i] = IF i \in DOMAIN set THEN set[i] ELSE Garbage
  <2> HIDE DEF set
  <2> QED
    BY <1>3, <1>4, Allocation DEF AllPlain
<1>6. heap'[new].slots[1] = Reg(Y) /\ heap'[new].slots[2] = Reg(Z)
  <2>1. DOMAIN set = 1..2 /\ set[1] = Reg(Y) /\ set[2] = Reg(Z)
    OBVIOUS
  <2> HIDE DEF set
  <2> QED
    BY <1>5, <2>1
<1> HIDE DEF set
<1>7. IsObject(heap'[new])
  BY <1>5 DEF IsObject, ObjectTags
<1>8. \A v : IsPlain(heap, v) => IsPlain(heap', v)
  BY <1>5, PlainInMore
<1>9. GoesOn /\ base' = base /\ globals' = globals /\ awaiting' = awaiting
      /\ outcome' = outcome
  BY <1>1, <1>4, NextIsSuccessor DEF GoesOn, Allocate, Jumps, Ends, tests
<1>10. registers' = [registers EXCEPT ![base + X] = mkPointerValue("ConsCell", new)]
  BY <1>4 DEF Allocate, WithRegister
<1>11. IsPlain(heap', mkPointerValue("ConsCell", new))
  BY <1>5 DEF IsPlain, mkPointerValue, ObjectTags
<1>12. Local
  <2>1. Overwrites(Instr) \/ X # 0
    BY <1>1 DEF Overwrites, X, HasResult
  <2>2. \A r \in DOMAIN registers : r \in Int
    BY <1>3 DEF AllPlain
  <2> QED
    BY <1>2, <1>10, <2>1, <2>2 DEF Local
<1>13. \A r \in DOMAIN registers' : IsPlain(heap', registers'[r])
  BY <1>3, <1>8, <1>10, <1>11 DEF AllPlain
<1>14. \A p \in DOMAIN heap' : IsObject(heap'[p])
  BY <1>3, <1>5, <1>7 DEF AllPlain
<1>15. \A p \in DOMAIN heap' : \A i \in DOMAIN heap'[p].slots : IsPlain(heap', heap'[p].slots[i])
  BY <1>2, <1>3, <1>5, <1>6, <1>8 DEF AllPlain
<1>16. GlobalsInv' /\ AwaitingInv'
  BY <1>3, <1>8, <1>9 DEF AllPlain, GlobalsInv, AwaitingInv
<1>17. AllPlain'
  BY <1>3, <1>5, <1>10, <1>13, <1>14, <1>15, <1>16 DEF AllPlain
<1>18. MachineInv'
  BY <1>1, <1>5, <1>9, <1>12, <1>17, OrdinaryStep DEF Steps
<1> QED
  BY <1>9, <1>18 DEF Safely, OutcomeInv, Steps, Executes

-----------------------------------------------------------------------------
(* Calls and returns *)

\* What is called needs no closure, or is in one.
LEMMA Callees ==
  ASSUME AllPlain, NEW v, IsPlain(heap, v), IsFunction(v)
  PROVE  /\ Callee(v) \in Function
         /\ Captured(Callee(v)) # {} => v.tag = "VMClosure" /\ heap[v.p].f.f = Callee(v)
<1>1. CASE v.tag = "VMFunction"
  BY <1>1 DEF IsPlain, Callee
<1>2. CASE v.tag = "VMClosure"
  <2>1. v.p \in DOMAIN heap /\ heap[v.p].tag = "VMClosure"
    BY <1>2 DEF IsPlain, ObjectTags
  <2>2. heap[v.p].f.f \in Function
    BY <2>1 DEF AllPlain, IsObject
  <2> QED
    BY <1>2, <2>2 DEF Callee
<1> QED
  BY <1>1, <1>2, TagTests DEF IsFunction

\* Control enters the function g.
LEMMA Entered ==
  ASSUME Trusted, NEW n \in Nat \ {0}, NEW g \in Function
  PROVE  /\ IsAbove(n, g) /\ 1 \in Places(n, g)
         /\ At(n, g, 1).unset = {} /\ At(n, g, 1).loaded = {}
<1>1. IsAbove(n, g)
  BY DEF IsAbove
<1>2. 1 \in Places(n, g) /\ Leads(g.code, AtStart, At(n, g, 1))
  BY <1>1, Certified
<1> QED
  BY <1>1, <1>2 DEF Leads, AtStart

\* A call, or a test, of the function g, whose window begins at the register b.
LEMMA CallingStep ==
  ASSUME Trusted, MachineInv, AllPlain, outcome = "running",
         NEW g \in Function, NEW test \in BOOLEAN, NEW b \in DOMAIN registers,
         Instr.op = IF test THEN "check-error" ELSE "call",
         test => stack = <<>>,
         b = base + (IF test THEN 0 ELSE Y), base <= b,
         HasClosure(registers, heap, g, b),
         stack' = Append(stack, Activation(X, test)),
         fun' = g, pc' = 1, base' = b, UNCHANGED <<data, tests, outcome>>
  PROVE  Safely
<1> DEFINE n == Len(stack)
           a == Activation(X, test)
<1>1. ControlInv /\ WindowsInv /\ ClosureInv /\ TestsInv /\ IsSeq(stack)
  BY DEF MachineInv, ControlInv
<1>2. n \in Nat /\ IsAbove(n, fun) /\ pc \in Places(n, fun) /\ (stack = <<>> <=> n = 0)
  BY <1>1, Depth DEF ControlInv
<1>3. UNCHANGED <<registers, heap, globals, awaiting, out, outcome>>
  BY DEF data, tests
<1>4. a.fun = fun /\ a.pc = pc /\ a.base = base /\ a.dest = X /\ a.test = test
  BY DEF Activation
<1> HIDE DEF a
<1>5. /\ IsSeq(stack') /\ Len(stack') = n + 1 /\ stack' # <<>>
      /\ DOMAIN stack = 1..n /\ DOMAIN stack' = 1..n + 1
      /\ \A i \in 1..n : stack'[i] = stack[i]
      /\ stack'[n + 1] = a
  BY <1>1, Pushed DEF a
<1>6. /\ IsAbove(n + 1, g) /\ 1 \in Places(n + 1, g)
      /\ At(n + 1, g, 1).unset = {} /\ At(n + 1, g, 1).loaded = {}
  BY <1>2, Entered
<1>7. Here' = At(n + 1, g, 1)
  BY <1>5 DEF Here
<1>8. ControlInv'
  <2>1. IsAbove(Len(stack'), fun') /\ pc' \in Places(Len(stack'), fun')
    BY <1>5, <1>6
  <2>2. ASSUME NEW i \in 1..n
        PROVE  /\ IsAbove(i - 1, stack'[i].fun) /\ stack'[i].pc \in Places(i - 1, stack'[i].fun)
               /\ stack'[i].fun.code[stack'[i].pc].op =
                    IF stack'[i].test THEN "check-error" ELSE "call"
               /\ stack'[i].test \in BOOLEAN
               /\ stack'[i].test => i = 1
               /\ stack'[i].dest = stack'[i].fun.code[stack'[i].pc].r[1]
    BY <1>1, <1>5 DEF ControlInv
  <2>3. /\ IsAbove(n + 1 - 1, a.fun) /\ a.pc \in Places(n + 1 - 1, a.fun)
        /\ a.fun.code[a.pc].op = IF a.test THEN "check-error" ELSE "call"
        /\ a.test \in BOOLEAN
        /\ a.test => n + 1 = 1
        /\ a.dest = a.fun.code[a.pc].r[1]
    <3>1. n + 1 - 1 = n
      BY <1>2
    <3> QED
      BY <1>2, <1>4, <3>1 DEF Instr, X
  <2> QED
    BY <1>2, <1>5, <2>1, <2>2, <2>3 DEF ControlInv
<1>9. WindowsInv'
  <2>1. WindowAbove(a) = b
    BY <1>4 DEF WindowAbove, Y, Instr
  <2>2. base \in DOMAIN registers /\ base \in Int /\ b \in Int
    BY <1>1, VMDataAssumption DEF WindowsInv
  <2>3. ASSUME NEW i \in 1..n PROVE WindowAbove(stack[i]) <= base
    BY <1>1, <1>5 DEF WindowsInv
  <2>4. ASSUME NEW i \in 1..n PROVE WindowAbove(stack[i]) <= b
    <3>1. WindowAbove(stack[i]) \in Int
      BY <1>1, <1>5, WindowsAreNumbers
    <3> QED
      BY <2>2, <2>3, <3>1
  <2> QED
    BY <1>1, <1>2, <1>3, <1>4, <1>5, <2>1, <2>2, <2>3, <2>4 DEF WindowsInv
<1>10. ClosureInv'
  <2>1. HasClosure(registers', heap', fun', base')
    BY <1>3
  <2>2. ASSUME NEW i \in 1..n, i > 1, KeepsClosure(i - 1, stack'[i])
        PROVE  HasClosure(registers', heap', stack'[i].fun, stack'[i].base)
    BY <1>1, <1>3, <1>5, <2>2 DEF ClosureInv
  <2>3. ASSUME n + 1 > 1, KeepsClosure(n, a)
        PROVE  HasClosure(registers', heap', a.fun, a.base)
    <3>1. "own closure" \in At(n, fun, pc + 1).facts
      BY <1>4, <2>3 DEF KeepsClosure
    <3>2. pc + 1 \in Successors(fun.code, pc)
      BY NextIsSuccessor DEF Jumps, Ends
    <3>3. "own closure" \in Here.facts
      BY <1>2, <3>1, <3>2, FactsAfter DEF Here
    <3>4. stack # <<>>
      BY <1>2, <2>3
    <3>5. HasClosure(registers, heap, fun, base)
      BY <1>1, <3>3, <3>4 DEF ClosureInv
    <3> QED
      BY <1>3, <1>4, <3>5
  <2>4. ASSUME NEW i \in DOMAIN stack', i > 1, KeepsClosure(i - 1, stack'[i])
        PROVE  HasClosure(registers', heap', stack'[i].fun, stack'[i].base)
    <3>1. CASE i = n + 1
      <4>1. i - 1 = n /\ n + 1 > 1
        BY <1>2, <2>4, <3>1
      <4>2. KeepsClosure(n, a)
        BY <1>5, <2>4, <3>1, <4>1
      <4>3. HasClosure(registers', heap', a.fun, a.base)
        BY <2>3, <4>1, <4>2
      <4> QED
        BY <1>5, <3>1, <4>3
    <3>2. CASE i # n + 1
      <4>1. i \in 1..n
        BY <1>2, <1>5, <3>2
      <4> QED
        BY <2>2, <2>4, <4>1
    <3> QED
      BY <3>1, <3>2
  <2> QED
    BY <2>1, <2>4 DEF ClosureInv
<1>11. TestsInv'
  <2>1. CASE n = 0
    <3>1. pc + 1 \in Successors(fun.code, pc)
      BY NextIsSuccessor DEF Jumps, Ends
    <3>2. "awaits" \in At(n, fun, pc + 1).facts <=> "awaits" \in At(n, fun, pc).facts
      BY <1>2, <3>1, FactsAfter DEF Instr
    <3>3. At(n, fun, pc + 1) = ModuleCertificate[pc + 1] /\ At(n, fun, pc) = ModuleCertificate[pc]
      BY <2>1 DEF At
    <3>4. stack'[1].pc = pc
      BY <1>4, <1>5, <2>1
    <3> QED
      BY <1>1, <1>2, <1>3, <1>5, <2>1, <3>2, <3>3, <3>4 DEF TestsInv
  <2>2. CASE n # 0
    <3>1. stack'[1] = stack[1]
      BY <1>2, <1>5, <2>2
    <3> QED
      BY <1>1, <1>2, <1>3, <1>5, <2>2, <3>1 DEF TestsInv
  <2> QED
    BY <2>1, <2>2
<1>12. AllPlain'
  BY <1>3 DEF AllPlain, GlobalsInv, AwaitingInv
<1>13. DataInv'
  BY <1>6, <1>7, <1>12, PlainAfter
<1> QED
  BY <1>3, <1>8, <1>9, <1>10, <1>11, <1>13 DEF Safely, OutcomeInv, MachineInv, DataInv

\* Call: to a function with the closure that it needs, if it needs one.
LEMMA CallStep == ASSUME Steps({"call"}), Call PROVE Safely
<1>1. /\ {"call"} \cap Special = {} /\ {"call"} \subseteq Three /\ Instr.op = "call"
      /\ Trusted /\ MachineInv /\ outcome = "running"
  BY DEF Special, Making, Filling, Three, Steps, Executes
<1>2. IsPlain(heap, Reg(Y)) /\ Y \in Nat /\ base \in Nat /\ base + Y \in DOMAIN registers
  BY <1>1, Reads
<1>3. AllPlain
  BY <1>1, PlainBefore
<1>4. CASE ~IsFunction(Reg(Y)) \/ Callee(Reg(Y)).arity # Z - Y
  BY <1>1, <1>4, Failing DEF Call
<1>5. CASE ~(~IsFunction(Reg(Y)) \/ Callee(Reg(Y)).arity # Z - Y)
  <2> DEFINE g == Callee(Reg(Y))
             b == base + Y
  <2>1. /\ g \in Function
        /\ Captured(g) # {} => Reg(Y).tag = "VMClosure" /\ heap[Reg(Y).p].f.f = g
    BY <1>2, <1>3, <1>5, Callees
  <2>2. HasClosure(registers, heap, g, b)
    BY <2>1 DEF HasClosure, Reg
  <2>3. /\ stack' = Append(stack, Activation(X, FALSE)) /\ fun' = g /\ pc' = 1 /\ base' = b
        /\ UNCHANGED <<data, tests, outcome>>
    BY <1>5 DEF Call
  <2>4. b = base + (IF FALSE THEN 0 ELSE Y) /\ base <= b /\ b \in DOMAIN registers
    BY <1>2
  <2>5. FALSE \in BOOLEAN /\ Instr.op = IF FALSE THEN "check-error" ELSE "call"
    BY <1>1
  <2> HIDE DEF g, b
  <2> QED
    BY <1>1, <1>3, <2>1, <2>2, <2>3, <2>4, <2>5, CallingStep
<1> QED
  BY <1>4, <1>5

\* CheckError: a function without parameters, called from the module only.
LEMMA CheckErrorStep == ASSUME Steps({"check-error"}), CheckError PROVE Safely
<1>1. /\ {"check-error"} \cap Special = {} /\ Instr.op = "check-error"
      /\ Trusted /\ MachineInv /\ ControlInv /\ RegistersInv /\ WindowsInv /\ outcome = "running"
  BY DEF Special, Making, Filling, Steps, Executes, MachineInv
<1>2. AllPlain
  BY <1>1, PlainBefore
<1>3. stack = <<>> /\ TestFrames = {}
  <2>1. stack = <<>>
    BY <1>1, TestPlaces
  <2> QED
    BY <2>1, EmptyIsSeq DEF TestFrames
<1>4. PICK p \in Here.loaded : fun.code[p].r[1] = Instr.r[1] /\ fun.code[p].k.f.arity = 0
  BY <1>1, Executing DEF Allowed, KeepsToItsPlace
<1>5. Reg(X) = fun.code[p].k
  BY <1>1, <1>4 DEF RegistersInv, JustLoaded, Reg, X
<1>6. Reg(X).tag = "VMFunction" /\ Reg(X).f \in Function /\ Reg(X).f.arity = 0
  BY <1>1, <1>4, <1>5, Executing
<1>7. Captured(Reg(X).f) = {}
  <2>1. \A q \in Here.loaded : Captured(fun.code[q].k.f) = {}
    BY <1>1, Depth, Ordinary DEF ControlInv, Here, Instr
  <2> QED
    BY <1>4, <1>5, <2>1
<1>8. /\ stack' = Append(stack, Activation(X, TRUE)) /\ fun' = Reg(X).f /\ pc' = 1
      /\ UNCHANGED <<base, data, tests, outcome>>
  BY <1>3, <1>6 DEF CheckError
<1>9. HasClosure(registers, heap, Reg(X).f, base)
  BY <1>7 DEF HasClosure
<1>10. base \in DOMAIN registers /\ base \in Int
  BY <1>1, VMDataAssumption DEF WindowsInv
<1>11. base = base + (IF TRUE THEN 0 ELSE Y) /\ base <= base
  BY <1>10
<1>12. TRUE \in BOOLEAN /\ Instr.op = IF TRUE THEN "check-error" ELSE "call"
  BY <1>1
<1>13. base' = base /\ UNCHANGED <<data, tests, outcome>>
  BY <1>8
<1>14. PICK g : g = Reg(X).f
  OBVIOUS
<1> QED
  BY <1>1, <1>2, <1>3, <1>6, <1>8, <1>9, <1>10, <1>11, <1>12, <1>13, <1>14, CallingStep

\* The window of the function that is called takes the place of the caller's.
LEMMA TailcallStep == ASSUME Steps({"tailcall"}), Tailcall PROVE Safely
<1> DEFINE moved == [i \in DOMAIN registers |->
                       IF i \in base..base + (Y - X) THEN registers[i + X] ELSE registers[i]]
           v == Reg(X)
<1>1. /\ {"tailcall"} \cap Special = {} /\ {"tailcall"} \subseteq Two /\ Instr.op = "tailcall"
      /\ Trusted /\ MachineInv /\ outcome = "running"
      /\ ControlInv /\ WindowsInv /\ ClosureInv /\ TestsInv
  BY DEF Special, Making, Filling, Two, Steps, Executes, MachineInv
<1>2. /\ IsPlain(heap, v) /\ X \in Nat /\ Y \in Nat /\ base \in Nat
      /\ base + X \in DOMAIN registers /\ base + Y \in DOMAIN registers
  BY <1>1, Reads
<1>3. AllPlain /\ DOMAIN registers = 0..NumRegisters - 1 /\ NumRegisters \in Nat
  BY <1>1, PlainBefore, VMDataAssumption DEF AllPlain
<1>4. DOMAIN moved = DOMAIN registers
      /\ \A r \in DOMAIN moved : IsPlain(heap, moved[r])
  <2>1. ASSUME NEW r \in DOMAIN registers PROVE IsPlain(heap, moved[r])
    <3>1. CASE r \in base..base + (Y - X)
      <4>1. r + X \in DOMAIN registers
        BY <1>2, <1>3, <3>1
      <4> QED
        BY <1>3, <3>1, <4>1 DEF AllPlain
    <3>2. CASE r \notin base..base + (Y - X)
      BY <1>3, <3>2 DEF AllPlain
    <3> QED
      BY <3>1, <3>2
  <2> QED
    BY <2>1
<1>5. CASE ~IsFunction(v)
  BY <1>1, <1>5, Failing DEF Tailcall
<1>6. CASE IsFunction(v) /\ Callee(v).arity # Y - X
  <2>1. RunErrorWith(moved)
    BY <1>6 DEF Tailcall
  <2> HIDE DEF moved
  <2> QED
    BY <1>1, <1>4, <2>1, RunErrorStep DEF Safely
<1>7. CASE IsFunction(v) /\ Callee(v).arity = Y - X
  <2> DEFINE g == Callee(v)
             n == Len(stack)
  <2>1. /\ g \in Function
        /\ Captured(g) # {} => v.tag = "VMClosure" /\ heap[v.p].f.f = g
    BY <1>2, <1>3, <1>7, Callees
  <2>2. /\ fun' = g /\ pc' = 1 /\ registers' = moved
        /\ UNCHANGED <<base, stack, heap, globals, tests, outcome>>
    BY <1>7 DEF Tailcall
  <2>3. Y - X \in Nat
    <3>1. IsAbove(1, g)
      BY <2>1 DEF IsAbove
    <3>2. g.arity \in 0..255
      BY <1>1, <3>1, Certified
    <3> QED
      BY <1>7, <3>2
  <2>4. moved[base] = v
    <3>1. base \in base..base + (Y - X) /\ base \in DOMAIN registers
      BY <1>1, <1>2, <2>3 DEF WindowsInv
    <3> QED
      BY <3>1 DEF Reg
  <2>5. stack # <<>> /\ n \in Nat \ {0} /\ DOMAIN stack = 1..n
    BY <1>1, Depth, Executing DEF Allowed, KeepsToItsPlace
  <2>6. /\ IsAbove(n, g) /\ 1 \in Places(n, g)
        /\ At(n, g, 1).unset = {} /\ At(n, g, 1).loaded = {}
    BY <1>1, <2>1, <2>5, Entered
  <2>7. ControlInv'
    BY <1>1, <2>2, <2>6 DEF ControlInv
  <2>8. WindowsInv'
    BY <1>1, <1>4, <2>2 DEF WindowsInv
  <2>9. LeavesBelow(base)
    <3>1. \A r \in DOMAIN registers : r < base => r \notin base..base + (Y - X)
      BY <1>2, <1>3
    <3> QED
      BY <1>4, <2>2, <3>1 DEF LeavesBelow
  <2> HIDE DEF moved, g
  <2>10. ClosureInv'
    <3>1. HasClosure(registers', heap', fun', base')
      BY <2>1, <2>2, <2>4 DEF HasClosure
    <3>2. ASSUME NEW i \in DOMAIN stack, i > 1, KeepsClosure(i - 1, stack[i])
          PROVE  HasClosure(registers', heap', stack[i].fun, stack[i].base)
      <4>1. WindowAbove(stack[i]) <= base /\ base \in DOMAIN registers
        BY <1>1 DEF WindowsInv
      <4>2. Extends(heap, heap')
        BY <2>2, Unchanged
      <4> QED
        BY <1>1, <2>9, <3>2, <4>1, <4>2, ClosuresKept
    <3>3. stack' = stack
      BY <2>2
    <3> QED
      BY <3>1, <3>2, <3>3 DEF ClosureInv
  <2>11. TestsInv'
    BY <1>1, <2>2, <2>5 DEF TestsInv, tests
  <2>12. AllPlain'
    BY <1>3, <1>4, <2>2 DEF AllPlain, GlobalsInv, AwaitingInv, tests
  <2>13. Here' = At(n, g, 1)
    BY <2>2 DEF Here
  <2>14. DataInv'
    BY <2>6, <2>12, <2>13, PlainAfter
  <2> QED
    BY <1>1, <2>2, <2>7, <2>8, <2>10, <2>11, <2>14 DEF Safely, OutcomeInv, MachineInv, DataInv
<1> QED
  BY <1>5, <1>6, <1>7

\* Return: to the instruction after the call, which finds its closure again.
LEMMA ReturnStep == ASSUME Steps({"return"}), Return PROVE Safely
<1>1. /\ {"return"} \cap Special = {} /\ {"return"} \subseteq One /\ Instr.op = "return"
      /\ Trusted /\ MachineInv /\ outcome = "running"
      /\ ControlInv /\ WindowsInv /\ ClosureInv /\ TestsInv /\ IsSeq(stack)
  BY DEF Special, Making, Filling, One, Steps, Executes, MachineInv, ControlInv
<1>2. IsPlain(heap, Reg(X)) /\ AllPlain
  BY <1>1, Reads, PlainBefore
<1>3. CASE stack = <<>>
  BY <1>1, <1>3, Failing DEF Return
<1>4. CASE stack # <<>>
  <2> DEFINE n == Len(stack)
             m == n - 1
  <2>1. PICK a : a = Last(stack)
    OBVIOUS
  <2>2. n \in Nat \ {0} /\ DOMAIN stack = 1..n /\ m \in Nat /\ m \in 0..n /\ n \in DOMAIN stack
    BY <1>1, <1>4, Depth
  <2>3. a = stack[n]
    BY <2>1 DEF Last
  <2>4. /\ IsSeq(stack') /\ Len(stack') = m /\ DOMAIN stack' = 1..m
        /\ \A i \in 1..m : stack'[i] = stack[i]
        /\ stack' = <<>> <=> m = 0
    <3>1. stack' = SubSeq(stack, 1, m)
      BY <1>4 DEF Return, Front
    <3> HIDE DEF m, n
    <3> QED
      BY <1>1, <2>2, <3>1, Popped DEF n
  <2>5. /\ fun' = a.fun /\ pc' = a.pc + 1 /\ base' = a.base
        /\ heap' = heap /\ globals' = globals /\ awaiting' = awaiting /\ outcome' = outcome
        /\ registers' = IF a.test THEN registers
                        ELSE [registers EXCEPT ![a.base + a.dest] = Reg(X)]
    BY <1>4, <2>1 DEF Return
  <2>6. /\ IsAbove(m, a.fun) /\ a.pc \in Places(m, a.fun)
        /\ a.fun.code[a.pc].op = IF a.test THEN "check-error" ELSE "call"
        /\ a.test \in BOOLEAN
        /\ a.test => n = 1
        /\ a.pc + 1 \in Successors(a.fun.code, a.pc)
        /\ ~a.test => a.fun.code[a.pc].r[1] \in Nat /\ a.fun.code[a.pc].r[2] \in Nat
    BY <1>1, <2>2, <2>3, Waiting
  <2>7. a.dest = a.fun.code[a.pc].r[1]
    BY <1>1, <2>2, <2>3 DEF ControlInv
  <2>8. PICK j : j = a.pc + 1
    OBVIOUS
  <2> HIDE DEF m, n
  <2>9. j \in Places(m, a.fun) /\ Here' = At(m, a.fun, j)
    BY <1>1, <2>2, <2>4, <2>5, <2>6, <2>8, Certified DEF Here
  <2>10. Here'.unset = {} /\ Here'.loaded = {}
    <3>1. a.fun.code[a.pc].op \notin Special
      BY <2>6 DEF Special, Making, Filling
    <3> QED
      BY <1>1, <2>2, <2>6, <2>8, <2>9, <3>1, Ordinary
  <2>11. ControlInv'
    BY <1>1, <2>2, <2>4, <2>5, <2>6, <2>8, <2>9 DEF ControlInv
  <2>12. DOMAIN registers' = DOMAIN registers
    BY <2>5, <2>6
  <2>13. a.base \in DOMAIN registers /\ a.base \in Int
    BY <1>1, <2>2, <2>3, WindowsAreNumbers DEF WindowsInv
  <2>14. \A i \in 1..m : WindowAbove(stack[i]) <= a.base
    <3>1. \A i \in 1..m : i \in DOMAIN stack /\ i < n
      BY <2>2 DEF m
    <3> QED
      BY <1>1, <2>2, <2>3, <3>1 DEF WindowsInv
  <2>15. WindowsInv'
    <3>1. \A i \in 1..m : i \in DOMAIN stack
      BY <2>2
    <3> QED
      BY <1>1, <2>4, <2>5, <2>12, <2>13, <2>14, <3>1 DEF WindowsInv
  <2>16. \A r \in DOMAIN registers :
           r < a.base \/ (r = a.base /\ a.dest # 0) => registers'[r] = registers[r]
    <3>1. CASE a.test
      BY <2>5, <3>1
    <3>2. CASE ~a.test
      <4>1. a.dest \in Nat
        BY <2>6, <2>7, <3>2
      <4>2. \A r \in DOMAIN registers : r \in Int
        BY <1>2 DEF AllPlain
      <4> QED
        BY <2>5, <2>13, <3>2, <4>1, <4>2
    <3> QED
      BY <3>1, <3>2
  <2>17. ClosureInv'
    <3>1. ASSUME stack' # <<>>, "own closure" \in Here'.facts
          PROVE  HasClosure(registers', heap', a.fun, a.base)
      <4>1. n > 1 /\ a.test = FALSE
        <5>1. m # 0
          BY <2>4, <3>1
        <5>2. n > 1
          BY <2>2, <5>1 DEF m
        <5> QED
          BY <2>6, <5>2
      <4>2. KeepsClosure(m, a) /\ ~Overwrites(a.fun.code[a.pc])
        <5>1. "own closure" \in At(m, a.fun, j).facts
          BY <2>9, <3>1
        <5>2. KeepsClosure(m, a)
          BY <2>8, <5>1 DEF KeepsClosure
        <5>3. j \in Successors(a.fun.code, a.pc)
          BY <2>6, <2>8
        <5> QED
          BY <1>1, <2>2, <2>6, <5>1, <5>2, <5>3, FactsAfter
      <4>3. HasClosure(registers, heap, a.fun, a.base)
        BY <1>1, <2>2, <2>3, <4>1, <4>2 DEF ClosureInv, m
      <4>4. a.dest # 0
        BY <2>6, <2>7, <4>1, <4>2 DEF Overwrites, HasResult
      <4>5. registers'[a.base] = registers[a.base]
        BY <2>13, <2>16, <4>4
      <4> QED
        BY <2>5, <4>3, <4>5 DEF HasClosure
    <3>2. ASSUME NEW i \in 1..m, i > 1, KeepsClosure(i - 1, stack[i])
          PROVE  HasClosure(registers', heap', stack[i].fun, stack[i].base)
      <4>1. LeavesBelow(a.base)
        BY <2>12, <2>16 DEF LeavesBelow
      <4>2. WindowAbove(stack[i]) <= a.base /\ i \in DOMAIN stack
        BY <2>2, <2>14
      <4>3. Extends(heap, heap')
        BY <2>5, Unchanged
      <4> QED
        BY <1>1, <2>13, <3>2, <4>1, <4>2, <4>3, ClosuresKept
    <3>3. fun' = a.fun /\ base' = a.base
      BY <2>5
    <3> QED
      BY <2>4, <3>1, <3>2, <3>3 DEF ClosureInv
  <2>18. TestsInv'
    <3>1. CASE m = 0
      <4>1. a = stack[1] /\ stack' = <<>>
        BY <2>2, <2>3, <2>4, <3>1 DEF m
      <4> QED
        BY <1>1, <1>4, <2>5, <4>1 DEF TestsInv
    <3>2. CASE m # 0
      <4>1. stack' # <<>> /\ stack'[1] = stack[1]
        BY <2>2, <2>4, <3>2
      <4> QED
        BY <1>1, <1>4, <2>5, <4>1 DEF TestsInv
    <3> QED
      BY <3>1, <3>2
  <2>19. AllPlain'
    <3>1. \A r \in DOMAIN registers : IsPlain(heap, registers'[r])
      BY <1>2, <2>5, <2>6 DEF AllPlain
    <3> QED
      BY <1>2, <2>5, <2>12, <3>1 DEF AllPlain, GlobalsInv, AwaitingInv
  <2>20. DataInv'
    BY <2>10, <2>19, PlainAfter
  <2> QED
    BY <1>1, <2>5, <2>11, <2>15, <2>17, <2>18, <2>20 DEF Safely, OutcomeInv, MachineInv, DataInv
<1> QED
  BY <1>3, <1>4

-----------------------------------------------------------------------------
(* Literals, and new objects that are being filled *)

\* Only mkclosure finds a function that needs a closure.
LEMMA PlainRegisters ==
  ASSUME Trusted, ControlInv, RegistersInv, NEW r \in DOMAIN registers,
         Instr.op = "mkclosure" => r # base + Instr.r[1]
  PROVE  IsPlain(heap, registers[r])
<1>1. CASE IsPlain(heap, registers[r])
  BY <1>1
<1>2. ASSUME NEW p \in Here.loaded, r = base + fun.code[p].r[1]
      PROVE  IsPlain(heap, registers[r])
  <2>1. registers[r] = fun.code[p].k
    BY <1>2 DEF RegistersInv, JustLoaded
  <2>2. fun.code[p].k.tag = "VMFunction" /\ fun.code[p].k.f \in Function
    BY Executing
  <2>3. Captured(fun.code[p].k.f) # {} => Instr.op = "mkclosure" /\ Instr.r[1] = fun.code[p].r[1]
    BY Executing DEF Allowed, MakesClosures
  <2>4. Captured(fun.code[p].k.f) = {}
    BY <1>2, <2>3
  <2> QED
    BY <2>1, <2>2, <2>4 DEF IsPlain, ObjectTags
<1> QED
  BY <1>1, <1>2 DEF RegistersInv

\* What the certificate says after an instruction that is special.
LEMMA SpecialAfter ==
  ASSUME Trusted, ControlInv, GoesOn
  PROVE  /\ Here'.unset = (Here.unset \ Fills(Instr)) \cup Leaves(Instr)
         /\ ~LoadsFunction(Instr) => Here'.loaded = {}
         /\ LoadsFunction(Instr) =>
              Here'.loaded = {pc} \/ (Here'.loaded = {} /\ Captured(Instr.k.f) = {})
<1>1. Leads(fun.code, After(fun.code, pc, Here), Here')
  BY GoingOn
<1>2. /\ After(fun.code, pc, Here).unset = (Here.unset \ Fills(Instr)) \cup Leaves(Instr)
      /\ After(fun.code, pc, Here).loaded = IF LoadsFunction(Instr) THEN {pc} ELSE {}
  BY DEF After, Instr
<1>3. CASE LoadsFunction(Instr)
  BY <1>1, <1>2, <1>3 DEF Leads, Instr
<1>4. CASE ~LoadsFunction(Instr)
  BY <1>1, <1>2, <1>4 DEF Leads
<1> QED
  BY <1>1, <1>2, <1>3, <1>4 DEF Leads

\* They keep the invariant if they keep what it says of values.
LEMMA SpecialStep ==
  ASSUME NEW ops, Steps(ops), ops \subseteq Special, GoesOn, base' = base, Local,
         Extends(heap, heap'), awaiting' = awaiting, outcome' = outcome, DataInv'
  PROVE  Safely
<1>1. Instr.op \notin {"check", "expect"}
  BY DEF Steps, Executes, Special, Making, Filling
<1>2. ControlInv' /\ WindowsInv' /\ ClosureInv' /\ TestsInv'
  BY <1>1, Proceeds DEF Steps
<1> QED
  BY <1>2 DEF Safely, OutcomeInv, MachineInv, DataInv, Steps, Executes

\* LoadLiteral: a function that needs a closure is loaded for the mkclosure that follows.
LEMMA LoadLiteralStep == ASSUME Steps({"loadliteral"}), LoadLiteral PROVE Safely
<1>1. /\ {"loadliteral"} \subseteq Special /\ Instr.op = "loadliteral"
      /\ Trusted /\ MachineInv /\ outcome = "running"
      /\ ControlInv /\ WindowsInv /\ RegistersInv /\ ObjectsInv /\ GlobalsInv /\ AwaitingInv
  BY DEF Special, Steps, Executes, MachineInv
<1>2. X \in Nat /\ base \in Nat /\ base + X \in DOMAIN registers
  <2>1. 1 \in Uses(Instr)
    BY <1>1 DEF Uses, One, Two, Three, BinaryOps, Divisions
  <2> QED
    BY <1>1, <2>1, OperandsAre DEF X, Steps
<1>3. GoesOn /\ base' = base
  BY <1>1, NextIsSuccessor DEF GoesOn, LoadLiteral, Yields, Jumps, Ends
<1>4. /\ registers' = [registers EXCEPT ![base + X] = Instr.k]
      /\ heap' = heap /\ globals' = globals /\ awaiting' = awaiting /\ outcome' = outcome
  BY DEF LoadLiteral, Yields, WithRegister, tests
<1>5. \A r \in DOMAIN registers : r \in Int
  BY <1>1 DEF WindowsInv
<1>6. Local
  <2>1. Overwrites(Instr) \/ X # 0
    BY <1>1 DEF Overwrites, X, HasResult
  <2> QED
    BY <1>2, <1>4, <1>5, <2>1 DEF Local
<1>7. \A r \in DOMAIN registers : IsPlain(heap, registers[r])
  BY <1>1, PlainRegisters
<1>8. Fills(Instr) = {} /\ Leaves(Instr) = {}
  BY <1>1 DEF Fills, Leaves, Making, Filling
<1>9. Here'.unset = Here.unset
  BY <1>1, <1>3, <1>8, SpecialAfter
<1>10. /\ Instr.k.tag \in {"Nil", "Emptylist", "String", "Boolean", "Number", "VMFunction"}
       /\ Instr.k.tag = "Boolean" => Instr.k.b \in BOOLEAN
       /\ Instr.k.tag = "Number" => Instr.k.n \in Int
  BY <1>1, Executing DEF Allowed, HasOperands
<1>11. Instr.k.tag = "VMFunction" => Instr.k.f \in Function
  <2>1. Len(stack) \in Nat /\ IsAbove(Len(stack), fun) /\ pc \in DOMAIN fun.code
    BY <1>1, Depth, Executing DEF ControlInv
  <2> QED
    BY <1>1, <2>1, Certified DEF LoadsFunction, Instr
<1>12. Captured(Instr.k.f) = {} \/ Instr.k.tag # "VMFunction" => IsPlain(heap, Instr.k)
  BY <1>10, <1>11 DEF IsPlain, ObjectTags
<1>13. LoadsFunction(Instr) <=> Instr.k.tag = "VMFunction"
  BY <1>1 DEF LoadsFunction
<1>14. /\ Here'.loaded \subseteq {pc}
       /\ Here'.loaded = {pc} \/ IsPlain(heap, Instr.k)
  BY <1>1, <1>3, <1>12, <1>13, SpecialAfter
<1>15. RegistersInv'
  <2>1. fun'.code[pc].r[1] = X /\ fun'.code[pc].k = Instr.k /\ registers'[base + X] = Instr.k
    BY <1>2, <1>3, <1>4 DEF GoesOn, Instr, X
  <2>2. \A p \in Here'.loaded : JustLoaded(p)'
    BY <1>2, <1>3, <1>4, <1>14, <2>1 DEF JustLoaded
  <2>3. ASSUME NEW r \in DOMAIN registers'
        PROVE  IsPlain(heap', registers'[r]) \/ \E p \in Here'.loaded : r = base' + fun'.code[p].r[1]
    <3>1. CASE r = base + X
      BY <1>3, <1>4, <1>14, <2>1, <3>1
    <3>2. CASE r # base + X
      BY <1>4, <1>7, <3>2
    <3> QED
      BY <3>1, <3>2
  <2> QED
    BY <2>2, <2>3 DEF RegistersInv
<1>16. \A u \in Here.unset : \A p, i : IsUnset(u, p, i) => IsUnset(u, p, i)'
  <2>1. \A u \in Here.unset : u[2] # X
    BY <1>1, Executing DEF Allowed, FillsObjects, X
  <2>2. \A u \in Here.unset : u[2] \in Nat => base + u[2] # base + X
    BY <1>2, <2>1
  <2> QED
    BY <1>3, <1>4, <2>2 DEF IsUnset
<1>17. ObjectsInv'
  BY <1>1, <1>4, <1>9, <1>16 DEF ObjectsInv
<1>18. DataInv'
  BY <1>1, <1>4, <1>15, <1>17 DEF DataInv, GlobalsInv, AwaitingInv
<1>19. Extends(heap, heap')
  BY <1>4, Unchanged
<1> QED
  BY <1>1, <1>3, <1>4, <1>6, <1>18, <1>19, SpecialStep

\* A new object, some of whose slots are to be set by the instructions that follow: u
\* names the slot i of one with that tag.
SlotOf(u, tag, i) == u[1] = tag /\ u[2] = X /\ u[3] + 1 = i
SlotsToSet(tag, n, set) ==
  /\ \A i \in 1..n : IF i \in DOMAIN set THEN IsPlain(heap, set[i])
                                         ELSE \E u \in Leaves(Instr) : SlotOf(u, tag, i)
  /\ \A u \in Leaves(Instr) : \E i \in 1..n : SlotOf(u, tag, i)

\* As many slots as an object of its kind needs.
IsMade(tag, f, n) ==
  /\ tag \in {"Block", "VMClosure"}
  /\ tag = "Block" => n # 0
  /\ tag = "VMClosure" => f.f \in Function /\ Captured(f.f) \subseteq 0..n - 1

\* The new object is what the certificate says: its slots are set, or yet to be set.
LEMMA MakingStep ==
  ASSUME NEW ops, Steps(ops), ops \subseteq Making,
         NEW tag, NEW f, NEW n \in Nat, NEW set, Allocate(tag, f, n, set),
         IsMade(tag, f, n), SlotsToSet(tag, n, set)
  PROVE  Safely
<1>1. /\ ops \subseteq Special /\ Instr.op \in Making
      /\ Trusted /\ MachineInv /\ outcome = "running"
      /\ ControlInv /\ WindowsInv /\ RegistersInv /\ ObjectsInv /\ GlobalsInv /\ AwaitingInv
  BY DEF Special, Steps, Executes, MachineInv
<1>2. X \in Nat /\ base \in Nat /\ base + X \in DOMAIN registers
  <2>1. 1 \in Uses(Instr)
    BY <1>1 DEF Uses, Two, Making
  <2> QED
    BY <1>1, <2>1, OperandsAre DEF X, Steps
<1>3. GoesOn /\ base' = base
  BY <1>1, NextIsSuccessor DEF GoesOn, Allocate, Jumps, Ends, Making
<1>4. PICK new : new = Len(heap) + 1
  OBVIOUS
<1>5. /\ registers' = [registers EXCEPT ![base + X] = mkPointerValue(tag, new)]
      /\ globals' = globals /\ awaiting' = awaiting /\ outcome' = outcome
  BY <1>4 DEF Allocate, WithRegister, tests
<1>6. /\ IsSeq(heap') /\ Extends(heap, heap')
      /\ new \in DOMAIN heap' /\ new \notin DOMAIN heap
      /\ \A p \in DOMAIN heap' : p = new \/ p \in DOMAIN heap
      /\ \A p \in DOMAIN heap : p \in DOMAIN heap' /\ heap'[p] = heap[p]
  <2>1. IsSeq(heap)
    BY <1>1 DEF ObjectsInv
  <2>2. /\ IsSeq(heap') /\ Extends(heap, heap')
        /\ Len(heap) \in Nat /\ DOMAIN heap = 1..Len(heap)
        /\ DOMAIN heap' = 1..Len(heap) + 1
        /\ \A p \in DOMAIN heap : heap'[p] = heap[p]
    BY <2>1, Allocation
  <2> QED
    BY <1>4, <2>2 DEF Extends
<1>7. PICK o : o = heap'[new]
  OBVIOUS
<1>8. /\ o.tag = tag /\ o.f = f /\ o = [tag |-> o.tag, f |-> o.f, slots |-> o.slots]
      /\ IsSeq(o.slots) /\ Len(o.slots) = n /\ DOMAIN o.slots = 1..n
      /\ \A i \in 1..n : o.slots[i] = IF i \in DOMAIN set THEN set[i] ELSE Garbage
  <2>1. IsSeq(heap)
    BY <1>1 DEF ObjectsInv
  <2> DEFINE q == heap'[Len(heap) + 1]
  <2>2. /\ q.tag = tag /\ q.f = f /\ q = [tag |-> q.tag, f |-> q.f, slots |-> q.slots]
        /\ IsSeq(q.slots) /\ Len(q.slots) = n /\ DOMAIN q.slots = 1..n
        /\ \A i \in 1..n : q.slots[i] = IF i \in DOMAIN set THEN set[i] ELSE Garbage
    BY <2>1, Allocation
  <2>3. q = o
    BY <1>4, <1>7
  <2> HIDE DEF q
  <2> QED
    BY <2>2, <2>3
<1>9. IsObject(o)
  BY <1>8 DEF IsObject, IsMade, ObjectTags
<1>10. \A r \in DOMAIN registers : r \in Int
  BY <1>1 DEF WindowsInv
<1>11. Local
  <2>1. Overwrites(Instr) \/ X # 0
    BY <1>1 DEF Overwrites, X, HasResult, Making
  <2> QED
    BY <1>2, <1>5, <1>10, <2>1 DEF Local
<1>12. Fills(Instr) = {} /\ ~LoadsFunction(Instr)
  BY <1>1 DEF Fills, Making, Filling, LoadsFunction
<1>13. Here'.unset = Here.unset \cup Leaves(Instr) /\ Here'.loaded = {}
  BY <1>1, <1>3, <1>12, SpecialAfter
<1>14. \A v : IsPlain(heap, v) => IsPlain(heap', v)
  BY <1>6, PlainInMore
<1>15. IsPlain(heap', mkPointerValue(tag, new))
  BY <1>6, <1>7, <1>8 DEF IsPlain, mkPointerValue, ObjectTags, IsMade
<1>16. RegistersInv'
  <2>1. ASSUME NEW r \in DOMAIN registers, r # base + X PROVE IsPlain(heap, registers[r])
    BY <1>1, <2>1, PlainRegisters DEF X
  <2>2. \A r \in DOMAIN registers' : IsPlain(heap', registers'[r])
    BY <1>5, <1>14, <1>15, <2>1
  <2> QED
    BY <1>13, <2>2 DEF RegistersInv
<1>17. \A u \in Here.unset : \A p \in DOMAIN heap : \A i : IsUnset(u, p, i) => IsUnset(u, p, i)'
  <2>1. \A u \in Here.unset : u[2] # X
    BY <1>1, Executing DEF Allowed, FillsObjects, X
  <2>2. \A u \in Here.unset : u[2] \in Nat => base + u[2] # base + X
    BY <1>2, <2>1
  <2> QED
    BY <1>3, <1>5, <1>6, <2>2 DEF IsUnset
<1>18. ASSUME NEW u, NEW i \in 1..n, SlotOf(u, tag, i) PROVE IsUnset(u, new, i)'
  <2>1. registers'[base + X] = mkPointerValue(tag, new) /\ base + X \in DOMAIN registers'
    BY <1>2, <1>5
  <2>2. u[1] = tag /\ u[2] = X /\ i = u[3] + 1
    BY <1>18 DEF SlotOf
  <2> QED
    BY <1>2, <1>3, <1>7, <1>8, <2>1, <2>2 DEF IsUnset
<1>19. ObjectsInv'
  <2>1. \A p \in DOMAIN heap' : IsObject(heap'[p])
    BY <1>1, <1>6, <1>7, <1>9 DEF ObjectsInv
  <2>2. ASSUME NEW p \in DOMAIN heap, NEW i \in DOMAIN heap[p].slots
        PROVE  \/ IsPlain(heap', heap[p].slots[i])
               \/ heap[p].slots[i] = Garbage /\ \E u \in Here'.unset : IsUnset(u, p, i)'
    BY <1>1, <1>13, <1>14, <1>17 DEF ObjectsInv
  <2>3. ASSUME NEW i \in 1..n
        PROVE  \/ IsPlain(heap', o.slots[i])
               \/ o.slots[i] = Garbage /\ \E u \in Here'.unset : IsUnset(u, new, i)'
    <3>1. CASE i \in DOMAIN set
      BY <1>8, <1>14, <3>1 DEF SlotsToSet
    <3>2. CASE i \notin DOMAIN set
      <4>1. o.slots[i] = Garbage
        BY <1>8, <3>2
      <4>2. PICK u \in Leaves(Instr) : SlotOf(u, tag, i)
        BY <3>2 DEF SlotsToSet
      <4>3. IsUnset(u, new, i)'
        BY <1>18, <4>2
      <4> QED
        BY <1>13, <4>1, <4>2, <4>3
    <3> QED
      BY <3>1, <3>2
  <2>4. ASSUME NEW p \in DOMAIN heap', NEW i \in DOMAIN heap'[p].slots
        PROVE  \/ IsPlain(heap', heap'[p].slots[i])
               \/ heap'[p].slots[i] = Garbage /\ \E u \in Here'.unset : IsUnset(u, p, i)'
    <3>1. CASE p = new
      <4>1. heap'[p] = o /\ i \in 1..n
        BY <1>7, <1>8, <3>1
      <4>2. \/ IsPlain(heap', o.slots[i])
            \/ o.slots[i] = Garbage /\ \E u \in Here'.unset : IsUnset(u, new, i)'
        BY <2>3, <4>1
      <4> QED
        BY <3>1, <4>1, <4>2 DEF IsUnset
    <3>2. CASE p \in DOMAIN heap
      BY <1>6, <2>2, <3>2
    <3> QED
      BY <1>6, <3>1, <3>2
  <2>5. ASSUME NEW u \in Here.unset
        PROVE  \E p \in DOMAIN heap' : \E i \in DOMAIN heap'[p].slots : IsUnset(u, p, i)'
    <3>1. PICK p \in DOMAIN heap : \E i \in DOMAIN heap[p].slots : IsUnset(u, p, i)
      BY <1>1 DEF ObjectsInv
    <3>2. PICK i \in DOMAIN heap[p].slots : IsUnset(u, p, i)
      BY <3>1
    <3>3. p \in DOMAIN heap' /\ heap'[p] = heap[p]
      BY <1>6
    <3> QED
      BY <1>17, <3>2, <3>3
  <2>6. ASSUME NEW u \in Leaves(Instr)
        PROVE  \E p \in DOMAIN heap' : \E i \in DOMAIN heap'[p].slots : IsUnset(u, p, i)'
    <3>1. PICK i \in 1..n : SlotOf(u, tag, i)
      BY DEF SlotsToSet
    <3>2. IsUnset(u, new, i)'
      BY <1>18, <3>1
    <3>3. new \in DOMAIN heap' /\ i \in DOMAIN heap'[new].slots
      BY <1>6, <1>7, <1>8
    <3> QED
      BY <3>2, <3>3
  <2> QED
    BY <1>6, <1>13, <2>1, <2>4, <2>5, <2>6 DEF ObjectsInv
<1>20. DataInv'
  BY <1>1, <1>5, <1>14, <1>16, <1>19 DEF DataInv, GlobalsInv, AwaitingInv
<1> QED
  BY <1>1, <1>3, <1>5, <1>6, <1>11, <1>20, SpecialStep

\* MkBlock sets the first slot and leaves the others.
LEMMA MkBlockStep == ASSUME Steps({"mkblock"}), MkBlock PROVE Safely
<1>1. /\ {"mkblock"} \subseteq Making /\ Instr.op = "mkblock"
      /\ Trusted /\ MachineInv /\ ControlInv /\ RegistersInv /\ outcome = "running"
  BY DEF Making, Steps, Executes, MachineInv
<1>2. IsPlain(heap, Reg(Y))
  <2>1. 2 \in Uses(Instr)
    BY <1>1 DEF Uses, Two
  <2>2. base + Y \in DOMAIN registers
    BY <1>1, <2>1, OperandsAre DEF Y, Steps
  <2> QED
    BY <1>1, <2>2, PlainRegisters DEF Reg
<1>3. PICK n, set : n = Instr.k /\ set = <<Reg(Y)>>
  OBVIOUS
<1>4. n \in Nat /\ n # 0
  BY <1>1, <1>3, Executing DEF Allowed, HasOperands, FillsObjects, Making
<1>5. Leaves(Instr) = {<<"Block", X, j>> : j \in 1..n - 1}
  BY <1>1, <1>3 DEF Leaves, Making, TagMade, X
<1>6. DOMAIN set = {1} /\ set[1] = Reg(Y)
  BY <1>3
<1>7. Allocate("Block", nilValue, n, set)
  BY <1>3 DEF MkBlock
<1>8. ASSUME NEW i \in 1..n, i \notin DOMAIN set
      PROVE  \E u \in Leaves(Instr) : SlotOf(u, "Block", i)
  <2>1. PICK j : j = i - 1
    OBVIOUS
  <2>2. j \in 1..n - 1 /\ j + 1 = i
    BY <1>4, <1>6, <1>8, <2>1
  <2>3. <<"Block", X, j>> \in Leaves(Instr)
    BY <1>5, <2>2
  <2> QED
    BY <2>2, <2>3 DEF SlotOf
<1>9. ASSUME NEW u \in Leaves(Instr) PROVE \E i \in 1..n : SlotOf(u, "Block", i)
  <2>1. PICK j \in 1..n - 1 : u = <<"Block", X, j>>
    BY <1>5
  <2>2. PICK i : i = j + 1
    OBVIOUS
  <2>3. i \in 1..n
    BY <1>4, <2>1, <2>2
  <2> QED
    BY <2>1, <2>2, <2>3 DEF SlotOf
<1>10. SlotsToSet("Block", n, set)
  BY <1>2, <1>6, <1>8, <1>9 DEF SlotsToSet
<1>11. IsMade("Block", nilValue, n)
  BY <1>4 DEF IsMade
<1> QED
  BY <1>1, <1>4, <1>7, <1>10, <1>11, MakingStep

\* MkClosure finds the function just loaded, and makes slots for all that it reads.
LEMMA MkClosureStep == ASSUME Steps({"mkclosure"}), MkClosure PROVE Safely
<1>1. /\ {"mkclosure"} \subseteq Making /\ Instr.op = "mkclosure"
      /\ Trusted /\ MachineInv /\ ControlInv /\ RegistersInv /\ outcome = "running"
  BY DEF Making, Steps, Executes, MachineInv
<1>2. PICK n, set : n = Instr.k /\ set = <<>>
  OBVIOUS
<1>3. Instr.r[1] = Instr.r[2] /\ n \in Nat
  BY <1>1, <1>2, Executing DEF Allowed, HasOperands, MakesClosures, Making
<1>4. PICK p \in Here.loaded :
        fun.code[p].r[1] = Instr.r[1] /\ Captured(fun.code[p].k.f) \subseteq 0..n - 1
  BY <1>1, <1>2, Executing DEF Allowed, MakesClosures
<1>5. Reg(Y) = fun.code[p].k
  BY <1>1, <1>3, <1>4 DEF RegistersInv, JustLoaded, Reg, Y
<1>6. /\ Reg(Y).tag = "VMFunction" /\ Reg(Y).f \in Function
      /\ Captured(Reg(Y).f) \subseteq 0..n - 1
  BY <1>1, <1>4, <1>5, Executing
<1>7. Leaves(Instr) = {<<"VMClosure", X, j>> : j \in 0..n - 1}
  BY <1>1, <1>2 DEF Leaves, Making, TagMade, X
<1>8. Allocate("VMClosure", Reg(Y), n, set)
  BY <1>1, <1>2, <1>6 DEF MkClosure
<1>9. ASSUME NEW i \in 1..n PROVE \E u \in Leaves(Instr) : SlotOf(u, "VMClosure", i)
  <2>1. PICK j : j = i - 1
    OBVIOUS
  <2>2. j \in 0..n - 1 /\ j + 1 = i
    BY <1>3, <2>1
  <2>3. <<"VMClosure", X, j>> \in Leaves(Instr)
    BY <1>7, <2>2
  <2> QED
    BY <2>2, <2>3 DEF SlotOf
<1>10. ASSUME NEW u \in Leaves(Instr) PROVE \E i \in 1..n : SlotOf(u, "VMClosure", i)
  <2>1. PICK j \in 0..n - 1 : u = <<"VMClosure", X, j>>
    BY <1>7
  <2>2. PICK i : i = j + 1
    OBVIOUS
  <2>3. i \in 1..n
    BY <1>3, <2>1, <2>2
  <2> QED
    BY <2>1, <2>2, <2>3 DEF SlotOf
<1>11. DOMAIN set = {}
  BY <1>2, EmptyIsSeq
<1>12. SlotsToSet("VMClosure", n, set)
  BY <1>9, <1>10, <1>11 DEF SlotsToSet
<1>13. IsMade("VMClosure", Reg(Y), n)
  BY <1>6 DEF IsMade
<1> QED
  BY <1>1, <1>3, <1>8, <1>12, <1>13, MakingStep

\* The slot that an instruction fills is there, and is to be set.
LEMMA ToFill ==
  ASSUME NEW ops, Steps(ops), ops \subseteq Filling
  PROVE  \E u \in Here.unset : \E p \in DOMAIN heap : \E i \in DOMAIN heap[p].slots :
           /\ Fills(Instr) = {u} /\ IsUnset(u, p, i)
           /\ Reg(X) = mkPointerValue(TagMade(Instr.op), p) /\ heap[p].tag = TagMade(Instr.op)
           /\ Instr.k \in Nat /\ i = Instr.k + 1 /\ Instr.k < Len(heap[p].slots)
<1>1. /\ Instr.op \in Filling /\ Trusted /\ ControlInv /\ ObjectsInv
  BY DEF Steps, Executes, MachineInv
<1>2. PICK t, k : t = TagMade(Instr.op) /\ k = Instr.k
  OBVIOUS
<1>3. PICK u : u = <<t, X, k>>
  OBVIOUS
<1>4. Fills(Instr) = {u}
  BY <1>1, <1>2, <1>3 DEF Fills, X
<1>5. u \in Here.unset /\ k \in Nat
  BY <1>1, <1>2, <1>4, Executing DEF Allowed, FillsObjects, HasOperands
<1>6. PICK p \in DOMAIN heap : \E i \in DOMAIN heap[p].slots : IsUnset(u, p, i)
  BY <1>1, <1>5 DEF ObjectsInv
<1>7. PICK i \in DOMAIN heap[p].slots : IsUnset(u, p, i)
  BY <1>6
<1>8. u[1] = t /\ u[2] = X /\ u[3] = k
  BY <1>3
<1>9. Reg(X) = mkPointerValue(t, p) /\ heap[p].tag = t /\ i = k + 1
  BY <1>7, <1>8 DEF IsUnset, Reg
<1>10. k < Len(heap[p].slots)
  <2>1. IsSeq(heap[p].slots)
    BY <1>1 DEF ObjectsInv, IsObject
  <2>2. Len(heap[p].slots) \in Nat /\ DOMAIN heap[p].slots = 1..Len(heap[p].slots)
    BY <2>1, SeqIs
  <2> QED
    BY <1>5, <1>9, <2>2
<1> QED
  BY <1>2, <1>4, <1>5, <1>7, <1>9, <1>10

\* Once the slot is set, one slot fewer is yet to be set.
LEMMA FillingStep ==
  ASSUME NEW ops, Steps(ops), ops \subseteq Filling, SetSlot(Reg(X), Instr.k + 1, Reg(Y))
  PROVE  Safely
<1>1. /\ ops \subseteq Special /\ Instr.op \in Filling
      /\ Trusted /\ MachineInv /\ outcome = "running"
      /\ ControlInv /\ WindowsInv /\ RegistersInv /\ ObjectsInv /\ GlobalsInv /\ AwaitingInv
  BY DEF Special, Steps, Executes, MachineInv
<1>2. PICK u \in Here.unset : \E p \in DOMAIN heap : \E i \in DOMAIN heap[p].slots :
        /\ Fills(Instr) = {u} /\ IsUnset(u, p, i)
        /\ Reg(X) = mkPointerValue(TagMade(Instr.op), p)
        /\ i = Instr.k + 1
  BY ToFill
<1>3. PICK p \in DOMAIN heap : \E i \in DOMAIN heap[p].slots :
        /\ Fills(Instr) = {u} /\ IsUnset(u, p, i)
        /\ Reg(X) = mkPointerValue(TagMade(Instr.op), p)
        /\ i = Instr.k + 1
  BY <1>2
<1>4. PICK i \in DOMAIN heap[p].slots :
        /\ Fills(Instr) = {u} /\ IsUnset(u, p, i)
        /\ Reg(X) = mkPointerValue(TagMade(Instr.op), p)
        /\ i = Instr.k + 1
  BY <1>3
<1>5. PICK w : w = Reg(Y)
  OBVIOUS
<1>6. IsPlain(heap, w)
  <2>1. 2 \in Uses(Instr) /\ Instr.op # "mkclosure"
    BY <1>1 DEF Uses, Two, Three, BinaryOps, Divisions, Filling
  <2>2. base + Y \in DOMAIN registers
    BY <1>1, <2>1, OperandsAre DEF Y, Steps
  <2> QED
    BY <1>1, <1>5, <2>1, <2>2, PlainRegisters DEF Reg
<1>7. GoesOn /\ base' = base
  BY <1>1, NextIsSuccessor DEF GoesOn, SetSlot, Jumps, Ends, Filling
<1>8. registers' = registers /\ globals' = globals /\ awaiting' = awaiting /\ outcome' = outcome
  BY DEF SetSlot, tests
<1>9. PICK s : s = [heap[p].slots EXCEPT ![i] = w]
  OBVIOUS
<1>10. PICK o : o = [heap[p] EXCEPT !.slots = s]
  OBVIOUS
<1>11. heap' = [heap EXCEPT ![p] = o]
  <2>1. Reg(X).p = p
    BY <1>4 DEF mkPointerValue
  <2>2. heap' = [heap EXCEPT ![p].slots[i] = w]
    BY <1>4, <1>5, <2>1 DEF SetSlot
  <2> QED
    BY <1>9, <1>10, <2>2
<1>12. /\ IsSeq(s) /\ Len(s) = Len(heap[p].slots) /\ DOMAIN s = DOMAIN heap[p].slots
       /\ \A j \in DOMAIN s : s[j] = IF j = i THEN w ELSE heap[p].slots[j]
  <2>1. IsSeq(heap[p].slots)
    BY <1>1 DEF ObjectsInv, IsObject
  <2> QED
    BY <1>9, <2>1, Changed
<1>13. o.tag = heap[p].tag /\ o.f = heap[p].f /\ o.slots = s
       /\ o = [tag |-> o.tag, f |-> o.f, slots |-> o.slots]
  <2>1. heap[p] = [tag |-> heap[p].tag, f |-> heap[p].f, slots |-> heap[p].slots]
    BY <1>1 DEF ObjectsInv, IsObject
  <2>2. PICK t, f, old : heap[p] = [tag |-> t, f |-> f, slots |-> old]
    BY <2>1
  <2>3. o = [tag |-> t, f |-> f, slots |-> s]
    BY <1>10, <2>2
  <2> QED
    BY <2>2, <2>3
<1>14. IsObject(o)
  <2>1. IsObject(heap[p])
    BY <1>1 DEF ObjectsInv
  <2> QED
    BY <1>12, <1>13, <2>1 DEF IsObject
<1>15. /\ IsSeq(heap') /\ DOMAIN heap' = DOMAIN heap
       /\ \A q \in DOMAIN heap : heap'[q] = IF q = p THEN o ELSE heap[q]
  <2>1. IsSeq(heap)
    BY <1>1 DEF ObjectsInv
  <2> QED
    BY <1>11, <2>1, Changed
<1>16. /\ Extends(heap, heap')
       /\ \A q \in DOMAIN heap : /\ heap'[q].tag = heap[q].tag /\ IsObject(heap'[q])
                                 /\ DOMAIN heap'[q].slots = DOMAIN heap[q].slots
  BY <1>1, <1>12, <1>13, <1>14, <1>15 DEF Extends, ObjectsInv
<1>17. \A v : IsPlain(heap, v) => IsPlain(heap', v)
  BY <1>16, PlainInMore
<1>18. Local
  BY <1>8 DEF Local
<1>19. Leaves(Instr) = {} /\ ~LoadsFunction(Instr)
  BY <1>1 DEF Leaves, Making, Filling, LoadsFunction
<1>20. Here'.unset = Here.unset \ {u} /\ Here'.loaded = {}
  BY <1>1, <1>4, <1>7, <1>19, SpecialAfter
<1>21. RegistersInv'
  <2>1. \A r \in DOMAIN registers : IsPlain(heap, registers[r])
    BY <1>1, PlainRegisters DEF Filling
  <2> QED
    BY <1>8, <1>17, <1>20, <2>1 DEF RegistersInv
<1>22. ASSUME NEW q \in DOMAIN heap, NEW j, NEW v, IsUnset(v, q, j)
       PROVE  IsUnset(v, q, j)'
  BY <1>7, <1>8, <1>16, <1>22 DEF IsUnset
<1>23. ASSUME NEW q, NEW j, IsUnset(u, q, j)
       PROVE  q = p /\ j = i
  BY <1>4, <1>23 DEF IsUnset, mkPointerValue
<1>24. ASSUME NEW q \in DOMAIN heap', NEW j \in DOMAIN heap'[q].slots
       PROVE  \/ IsPlain(heap', heap'[q].slots[j])
              \/ heap'[q].slots[j] = Garbage /\ \E v \in Here'.unset : IsUnset(v, q, j)'
  <2>1. CASE q = p /\ j = i
    <3>1. heap'[q].slots[j] = w
      BY <1>12, <1>13, <1>15, <2>1
    <3> QED
      BY <1>6, <1>17, <3>1
  <2>2. CASE ~(q = p /\ j = i)
    <3>1. q \in DOMAIN heap /\ j \in DOMAIN heap[q].slots
      BY <1>15, <1>16
    <3>2. heap'[q].slots[j] = heap[q].slots[j]
      BY <1>12, <1>13, <1>15, <2>2, <3>1
    <3>3. CASE IsPlain(heap, heap[q].slots[j])
      BY <1>17, <3>2, <3>3
    <3>4. CASE heap[q].slots[j] = Garbage /\ \E v \in Here.unset : IsUnset(v, q, j)
      <4>1. PICK v \in Here.unset : IsUnset(v, q, j)
        BY <3>4
      <4>2. v # u
        BY <1>23, <2>2, <4>1
      <4>3. v \in Here'.unset /\ IsUnset(v, q, j)'
        BY <1>20, <1>22, <3>1, <4>1, <4>2
      <4> QED
        BY <3>2, <3>4, <4>3
    <3> QED
      BY <1>1, <3>1, <3>3, <3>4 DEF ObjectsInv
  <2> QED
    BY <2>1, <2>2
<1>25. ASSUME NEW v \in Here'.unset
       PROVE  \E q \in DOMAIN heap' : \E j \in DOMAIN heap'[q].slots : IsUnset(v, q, j)'
  <2>1. v \in Here.unset
    BY <1>20
  <2>2. PICK q \in DOMAIN heap : \E j \in DOMAIN heap[q].slots : IsUnset(v, q, j)
    BY <1>1, <2>1 DEF ObjectsInv
  <2>3. PICK j \in DOMAIN heap[q].slots : IsUnset(v, q, j)
    BY <2>2
  <2>4. q \in DOMAIN heap' /\ j \in DOMAIN heap'[q].slots /\ IsUnset(v, q, j)'
    BY <1>15, <1>16, <1>22, <2>3
  <2> QED
    BY <2>4
<1>26. ObjectsInv'
  BY <1>15, <1>16, <1>24, <1>25 DEF ObjectsInv
<1>27. DataInv'
  BY <1>1, <1>8, <1>17, <1>21, <1>26 DEF DataInv, GlobalsInv, AwaitingInv
<1> QED
  BY <1>1, <1>7, <1>8, <1>16, <1>18, <1>27, SpecialStep

\* SetBlockSlot cannot fail, since it fills a new block.
LEMMA SetBlockSlotStep == ASSUME Steps({"setblockslot"}), SetBlockSlot PROVE Safely
<1>1. {"setblockslot"} \subseteq Filling /\ Instr.op = "setblockslot"
  BY DEF Filling, Steps, Executes
<1>2. PICK p \in DOMAIN heap :
        /\ Reg(X) = mkPointerValue("Block", p)
        /\ Instr.k \in Nat /\ Instr.k < Len(heap[p].slots) /\ IsSeq(heap[p].slots)
  <2>1. \A q \in DOMAIN heap : IsSeq(heap[q].slots)
    BY DEF Steps, MachineInv, ObjectsInv, IsObject
  <2> QED
    BY <1>1, <2>1, ToFill DEF TagMade
<1>3. Reg(X).tag = "Block" /\ Slots(Reg(X)) = heap[p].slots
  BY <1>2 DEF mkPointerValue, Slots
<1>4. ~(Instr.k >= Len(Slots(Reg(X))))
  BY <1>2, <1>3, SeqIs
<1>5. SetSlot(Reg(X), Instr.k + 1, Reg(Y))
  BY <1>3, <1>4 DEF SetBlockSlot
<1> QED
  BY <1>1, <1>5, FillingStep

\* SetClSlot cannot fail, since it fills a new closure.
LEMMA SetClSlotStep == ASSUME Steps({"setclslot"}), SetClSlot PROVE Safely
<1>1. {"setclslot"} \subseteq Filling /\ Instr.op = "setclslot"
  BY DEF Filling, Steps, Executes
<1>2. PICK p \in DOMAIN heap :
        /\ Reg(X) = mkPointerValue("VMClosure", p)
        /\ Instr.k \in Nat /\ Instr.k < Len(heap[p].slots) /\ IsSeq(heap[p].slots)
  <2>1. \A q \in DOMAIN heap : IsSeq(heap[q].slots)
    BY DEF Steps, MachineInv, ObjectsInv, IsObject
  <2> QED
    BY <1>1, <2>1, ToFill DEF TagMade
<1>3. Reg(X).tag = "VMClosure" /\ Slots(Reg(X)) = heap[p].slots
  BY <1>2 DEF mkPointerValue, Slots
<1>4. ~(Instr.k >= Len(Slots(Reg(X))))
  BY <1>2, <1>3, SeqIs
<1>5. SetSlot(Reg(X), Instr.k + 1, Reg(Y))
  BY <1>3, <1>4 DEF SetClSlot
<1> QED
  BY <1>1, <1>5, FillingStep

-----------------------------------------------------------------------------
(* The machine runs certified code *)

\* A module starts with the invariant.
LEMMA StartKeeps == ASSUME Trusted, Start PROVE IInv
<1>1. /\ fun = Module /\ outcome = "running" /\ pc = 1 /\ base = 0 /\ stack = <<>>
      /\ registers = [r \in 0..NumRegisters - 1 |-> nilValue]
      /\ heap = <<>> /\ globals = [g \in Global |-> nilValue] /\ awaiting = <<>>
  BY DEF Start, Loaded
<1>2. IsSeq(stack) /\ DOMAIN stack = {} /\ Len(stack) = 0 /\ IsSeq(heap) /\ DOMAIN heap = {}
  BY <1>1, EmptyIsSeq, SeqIs
<1>3. IsAbove(0, fun)
  BY <1>1 DEF IsAbove
<1>4. 1 \in Places(0, fun) /\ Leads(fun.code, AtStart, At(0, fun, 1))
  BY <1>3, Certified
<1>5. Here = ModuleCertificate[1] /\ Here = At(0, fun, 1)
  BY <1>1, <1>2 DEF Here, At
<1>6. Here.unset = {} /\ Here.loaded = {} /\ "awaits" \notin Here.facts
  BY <1>4, <1>5 DEF Leads, AtStart
<1>7. ControlInv
  BY <1>1, <1>2, <1>3, <1>4 DEF ControlInv
<1>8. WindowsInv
  BY <1>1, <1>2, VMDataAssumption DEF WindowsInv
<1>9. \A h : IsPlain(h, nilValue)
  BY DEF IsPlain, nilValue, ObjectTags
<1>10. RegistersInv
  BY <1>1, <1>6, <1>9 DEF RegistersInv
<1>11. ObjectsInv
  BY <1>2, <1>6 DEF ObjectsInv
<1>12. GlobalsInv /\ AwaitingInv
  BY <1>1, <1>9 DEF GlobalsInv, AwaitingInv
<1>13. ClosureInv
  BY <1>1, <1>2 DEF ClosureInv
<1>14. TestsInv
  BY <1>1, <1>5, <1>6 DEF TestsInv
<1>15. OutcomeInv
  BY <1>1 DEF OutcomeInv
<1> QED
  BY <1>7, <1>8, <1>10, <1>11, <1>12, <1>13, <1>14, <1>15 DEF IInv, MachineInv

\* Every instruction keeps it.
LEMMA NextKeeps == ASSUME Trusted, IInv, InFile, [Next]_vars PROVE IInv'
<1> SUFFICES Safely
  BY DEF Safely, IInv
<1>1. MachineInv /\ OutcomeInv
  BY DEF IInv
<1>2. \A ops : Executes(ops) => Steps(ops)
  BY <1>1 DEF Steps
<1>3. CASE Binary
  BY <1>2, <1>3, BinaryStep DEF Binary
<1>4. CASE Unary
  BY <1>2, <1>4, UnaryStep DEF Unary
<1>5. CASE TypeTest
  <2>1. Steps(DOMAIN TagsOf)
    BY <1>2, <1>5 DEF TypeTest
  <2> QED
    BY <1>5, <2>1, ValueStep
<1>6. CASE Copy
  <2>1. Steps({"copy"})
    BY <1>2, <1>6 DEF Copy
  <2> QED
    BY <1>6, <2>1, ValueStep
<1>7. CASE Not
  <2>1. Steps({"not"})
    BY <1>2, <1>7 DEF Not
  <2> QED
    BY <1>7, <2>1, ValueStep
<1>8. CASE BoolOf
  <2>1. Steps({"boolOf"})
    BY <1>2, <1>8 DEF BoolOf
  <2> QED
    BY <1>8, <2>1, ValueStep
<1>9. CASE Eq
  <2>1. Steps({"="})
    BY <1>2, <1>9 DEF Eq
  <2> QED
    BY <1>9, <2>1, ValueStep
<1>10. CASE Swap
  BY <1>2, <1>10, SwapStep DEF Swap
<1>11. CASE LoadLiteral
  BY <1>2, <1>11, LoadLiteralStep DEF LoadLiteral
<1>12. CASE GetGlobal
  <2>1. Steps({"getglobal"})
    BY <1>2, <1>12 DEF GetGlobal
  <2> QED
    BY <1>12, <2>1, ValueStep
<1>13. CASE SetGlobal
  BY <1>2, <1>13, SetGlobalStep DEF SetGlobal
<1>14. CASE MkCons
  BY <1>2, <1>14, MkConsStep DEF MkCons
<1>15. CASE CarCdr
  BY <1>2, <1>15, CarCdrStep DEF CarCdr
<1>16. CASE MkBlock
  BY <1>2, <1>16, MkBlockStep DEF MkBlock
<1>17. CASE SetBlockSlot
  BY <1>2, <1>17, SetBlockSlotStep DEF SetBlockSlot
<1>18. CASE GetBlockSlot
  BY <1>2, <1>18, GetBlockSlotStep DEF GetBlockSlot
<1>19. CASE MkClosure
  BY <1>2, <1>19, MkClosureStep DEF MkClosure
<1>20. CASE SetClSlot
  BY <1>2, <1>20, SetClSlotStep DEF SetClSlot
<1>21. CASE GetClSlot
  BY <1>2, <1>21, GetClSlotStep DEF GetClSlot
<1>22. CASE If
  <2>1. Steps({"if"})
    BY <1>2, <1>22 DEF If
  <2> QED
    BY <1>22, <2>1, SimpleJumpStep
<1>23. CASE Goto
  <2>1. Steps({"goto"})
    BY <1>2, <1>23 DEF Goto
  <2> QED
    BY <1>23, <2>1, SimpleJumpStep
<1>24. CASE Gc
  <2>1. Steps({"gc"})
    BY <1>2, <1>24 DEF Gc
  <2> QED
    BY <1>24, <2>1, SimpleJumpStep
<1>25. CASE GotoVcon
  BY <1>2, <1>25, GotoVconStep DEF GotoVcon
<1>26. CASE Call
  BY <1>2, <1>26, CallStep DEF Call
<1>27. CASE Tailcall
  BY <1>2, <1>27, TailcallStep DEF Tailcall
<1>28. CASE Return
  BY <1>2, <1>28, ReturnStep DEF Return
<1>29. CASE Halt
  BY <1>2, <1>29, HaltStep DEF Halt
<1>30. CASE Output
  BY <1>2, <1>30, OutputStep DEF Output
<1>31. CASE Printu
  BY <1>2, <1>31, PrintuStep DEF Printu
<1>32. CASE Error
  BY <1>2, <1>32, ErrorStep DEF Error
<1>33. CASE Check
  BY <1>2, <1>33, CheckStep DEF Check
<1>34. CASE Expect
  BY <1>2, <1>34, ExpectStep DEF Expect
<1>35. CASE CheckAssert
  BY <1>2, <1>35, CheckAssertStep DEF CheckAssert
<1>36. CASE CheckError
  BY <1>2, <1>36, CheckErrorStep DEF CheckError
<1>37. CASE UNCHANGED vars
  <2>1. UNCHANGED <<control, data, tests>> /\ outcome' = outcome /\ stack' = stack
    BY <1>37 DEF vars, control
  <2>2. MachineInv'
    BY <1>1, <2>1, Stopping
  <2>3. FaultsInPrintu => FaultsInPrintu'
    BY <1>37 DEF vars, control, data, FaultsInPrintu, IsNumber, Reg, X, Instr
  <2> QED
    BY <1>1, <2>1, <2>2, <2>3 DEF Safely, OutcomeInv
<1> QED
  BY <1>3, <1>4, <1>5, <1>6, <1>7, <1>8, <1>9, <1>10, <1>11, <1>12, <1>13, <1>14, <1>15, <1>16,
     <1>17, <1>18, <1>19, <1>20, <1>21, <1>22, <1>23, <1>24, <1>25, <1>26, <1>27, <1>28, <1>29,
     <1>30, <1>31, <1>32, <1>33, <1>34, <1>35, <1>36, <1>37
  DEF Next

\* A value that is safe to use is one, and so is a function that needs a closure.
LEMMA PlainIsWellFormed ==
  ASSUME Trusted, NEW v, IsPlain(heap, v) \/ (v.tag = "VMFunction" /\ v.f \in Function)
  PROVE  WellFormed(v)
<1>1. CASE v.tag = "VMFunction"
  <2>1. v.f \in Function
    BY <1>1 DEF IsPlain
  <2>2. v.f.arity \in 0..255 /\ v.f.code # <<>>
    BY <2>1, FunctionsAreFunctions
  <2> QED
    BY <1>1, <2>2 DEF WellFormed, ObjectTags
<1>2. CASE v.tag # "VMFunction"
  BY <1>2 DEF WellFormed, IsPlain
<1> QED
  BY <1>1, <1>2

\* The invariant gives vmrun's variables their types.
LEMMA IInvTypeOK == ASSUME Trusted, IInv PROVE TypeOK
<1>1. /\ ControlInv /\ WindowsInv /\ RegistersInv /\ ObjectsInv /\ GlobalsInv /\ AwaitingInv
      /\ OutcomeInv
  BY DEF IInv, MachineInv
<1>2. pc \in DOMAIN fun.code /\ base \in DOMAIN registers
  BY <1>1, Executing DEF WindowsInv
<1>3. ASSUME NEW i \in DOMAIN stack
      PROVE  /\ stack[i].pc \in DOMAIN stack[i].fun.code
             /\ stack[i].base <= IF i = Len(stack) THEN base ELSE stack[i + 1].base
             /\ stack[i].fun.code[stack[i].pc].op = IF stack[i].test THEN "check-error" ELSE "call"
  <2>1. PICK a : a = stack[i]
    OBVIOUS
  <2>2. PICK n : n = i - 1
    OBVIOUS
  <2>3. /\ n \in Nat /\ IsAbove(n, a.fun) /\ a.pc \in Places(n, a.fun)
        /\ a.fun.code[a.pc].op = IF a.test THEN "check-error" ELSE "call"
        /\ a.test \in BOOLEAN
        /\ ~a.test => a.fun.code[a.pc].r[2] \in Nat
    <3>1. /\ i - 1 \in Nat /\ IsAbove(i - 1, a.fun) /\ a.pc \in Places(i - 1, a.fun)
          /\ a.fun.code[a.pc].op = IF a.test THEN "check-error" ELSE "call"
          /\ a.test \in BOOLEAN
          /\ ~a.test => a.fun.code[a.pc].r[2] \in Nat
      BY <1>1, <2>1, Waiting
    <3> QED
      BY <2>2, <3>1
  <2>4. a.pc \in DOMAIN a.fun.code
    BY <2>3, Certified
  <2>5. a.base \in Int /\ WindowAbove(a) \in Int
    BY <1>1, <2>1, WindowsAreNumbers
  <2>6. a.base <= WindowAbove(a)
    BY <2>3, <2>5 DEF WindowAbove
  <2>7. WindowAbove(a) <= base /\ \A j \in DOMAIN stack : i < j => WindowAbove(a) <= stack[j].base
    BY <1>1, <2>1 DEF WindowsInv
  <2>8. base \in Int /\ \A j \in DOMAIN stack : stack[j].base \in Int
    BY <1>1, VMDataAssumption DEF WindowsInv
  <2>9. CASE i = Len(stack)
    <3>1. a.base <= base
      BY <2>5, <2>6, <2>7, <2>8
    <3> QED
      BY <2>1, <2>3, <2>4, <2>9, <3>1
  <2>10. CASE i # Len(stack)
    <3>1. PICK j : j = i + 1
      OBVIOUS
    <3>2. j \in DOMAIN stack /\ i < j
      BY <1>1, <2>10, <3>1, Depth
    <3>3. a.base <= stack[j].base
      BY <2>5, <2>6, <2>7, <2>8, <3>2
    <3> QED
      BY <2>1, <2>3, <2>4, <2>10, <3>1, <3>3
  <2> QED
    BY <2>9, <2>10
<1>4. ASSUME NEW r \in DOMAIN registers PROVE WellFormed(registers[r])
  <2>1. CASE IsPlain(heap, registers[r])
    BY <2>1, PlainIsWellFormed
  <2>2. ASSUME NEW p \in Here.loaded, r = base + fun.code[p].r[1]
        PROVE  WellFormed(registers[r])
    <3>1. registers[r] = fun.code[p].k
      BY <1>1, <2>2 DEF RegistersInv, JustLoaded
    <3>2. registers[r].tag = "VMFunction" /\ registers[r].f \in Function
      BY <1>1, <3>1, Executing
    <3> QED
      BY <3>2, PlainIsWellFormed
  <2> QED
    BY <1>1, <2>1, <2>2 DEF RegistersInv
<1>5. \A g \in Global : WellFormed(globals[g])
  BY <1>1, PlainIsWellFormed DEF GlobalsInv
<1>6. \A p \in DOMAIN heap : \A i \in DOMAIN heap[p].slots :
        heap[p].slots[i] = Garbage \/ WellFormed(heap[p].slots[i])
  BY <1>1, PlainIsWellFormed DEF ObjectsInv
<1>7. ASSUME NEW i \in DOMAIN awaiting PROVE WellFormed(awaiting[i])
  <2>1. awaiting # <<>>
    BY EmptyIsSeq
  <2>2. PICK v : awaiting = <<v>> /\ IsPlain(heap, v)
    BY <1>1, <2>1 DEF AwaitingInv
  <2>3. awaiting[i] = v
    BY <2>2
  <2> QED
    BY <2>2, <2>3, PlainIsWellFormed
<1>8. outcome \in {"translating", "rejected", "running", "halted", "error", "undefined"}
  BY <1>1 DEF OutcomeInv, FaultsInPrintu
<1> QED
  BY <1>2, <1>3, <1>4, <1>5, <1>6, <1>7, <1>8 DEF TypeOK

\* A collection may only come where nothing is new.
LEMMA IInvCollections == ASSUME Trusted, IInv PROVE CollectionsFindValues
<1> SUFFICES ASSUME MayCollect, NEW p \in DOMAIN heap PROVE Garbage \notin Range(heap[p].slots)
  BY DEF CollectionsFindValues
<1>1. Instr.op \notin Special
  BY DEF MayCollect, Executes, Special, Making, Filling
<1>2. AllPlain
  BY <1>1, PlainBefore DEF IInv
<1>3. ~IsPlain(heap, Garbage)
  BY DEF IsPlain, Garbage, ObjectTags
<1> QED
  BY <1>2, <1>3 DEF AllPlain, Range

\* What is certified is no entry of a jump table; and nothing but printu has a fault.
LEMMA IInvNoFault == ASSUME Trusted, IInv PROVE NoFault \/ FaultsInPrintu
<1>1. HasOperands(Instr)
  BY Executing DEF IInv, MachineInv, Allowed
<1>2. Instr.op # "if-vcon-match"
  BY <1>1, TagTests DEF HasOperands, Three, Two, One, None, BinaryOps, Divisions
<1> QED
  BY <1>2 DEF IInv, OutcomeInv, NoFault, Executes

\* Where all of the code has certificates and the windows are in the register file, the
\* machine is in the invariant for ever.
THEOREM Invariance == ASSUME Trusted PROVE Spec /\ []InFile => []IInv
<1>1. Start => IInv
  BY StartKeeps
<1>2. IInv /\ InFile /\ [Next]_vars => IInv'
  BY NextKeeps
<1> QED
  BY <1>1, <1>2, PTL DEF Spec

\* vmrun's variables are of their types: control stays in the code, activations are those
\* of calls, and every register, global and set slot holds a value.
THEOREM TypeCorrect == ASSUME Trusted PROVE Spec /\ []InFile => []TypeOK
<1>1. IInv => TypeOK
  BY IInvTypeOK
<1> QED
  BY <1>1, Invariance, PTL

\* No collection comes while an object has slots that are not set.
THEOREM CollectionsAreSafe == ASSUME Trusted PROVE Spec /\ []InFile => []CollectionsFindValues
<1>1. IInv => CollectionsFindValues
  BY IInvCollections
<1> QED
  BY <1>1, Invariance, PTL

\* No assertion of vmrun fails, nothing outside of an object is read or written, no jump
\* table is run into, and the machine halts in the module only; unless it executes
\* printu with a number that is not a code point.  No certificate can rule that out,
\* because it depends on the number.
THEOREM Faultless == ASSUME Trusted PROVE Spec /\ []InFile => [](NoFault \/ FaultsInPrintu)
<1>1. IInv => NoFault \/ FaultsInPrintu
  BY IInvNoFault
<1> QED
  BY <1>1, Invariance, PTL

=============================================================================
