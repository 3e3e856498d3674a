---------------------------- MODULE LoaderProofs ----------------------------
(***************************************************************************)
(* Theorems about the loader, for every choice of lines, byte size and      *)
(* number of globals: however modules and functions are nested, a value has *)
(* one index in the literal pool and a name one slot among the globals,     *)
(* every instruction is a word and the one that its own line shows, and a   *)
(* function has the registers that its own instructions mention.            *)
(***************************************************************************)
EXTENDS Loader, FiniteSetTheorems, WellFoundedInduction, TLAPS

\* What SlotsAreUnique needs to know of the two pools.
IInv ==
  /\ literals \in Seq(Range(literals)) /\ globals \in Seq(Range(globals))
  /\ SlotsAreUnique

\* What the functions and the frames of loadfun are made of.
Opcode == {instructions[i][2] : i \in 1..64}
Instruction == [opcode : Opcode, xyz : 0..I24 - 1]
Function == [arity : 0..Word \div 2 - 1, size : Nat, nregs : 0..ByteSize,
             instructions : Seq(Instruction)]
Frame == [fun : DOMAIN functions, maxreg : 0..ByteSize - 1, reg : Nat]

\* The values of the variables.
PoolsOK ==
  /\ literals \in Seq(Range(literals)) /\ Fits(literals)
  /\ globals \in Seq(Range(globals)) /\ Len(globals) <= MAX_GLOBALS

FunctionsOK == functions \in Seq(Function) /\ frames \in Seq(Frame)

TextOK ==
  /\ text \in Seq(Line) /\ Len(text) <= MaxLines
  /\ outcome \in {"loading", "done", "aborted"}

\* An instruction that loads a literal has the index of one in the pool.
HasLiteral(pool, inst) == inst.opcode = "LoadLiteral" => uYZ(inst) + 1 \in DOMAIN pool

\* With this pool, the instruction loads a function.
LoadsFunction(pool, inst) ==
  inst.opcode = "LoadLiteral" /\ pool[uYZ(inst) + 1].tag = "VMFunction"

\* The registers that the other instructions mention, and 0, which is always one.
MentionedBy(pool, insts) ==
  {0} \cup UNION {Mentioned(inst) : inst \in {i \in Range(insts) : ~LoadsFunction(pool, i)}}

\* m is the largest of them.
Covers(pool, m, insts) ==
  m \in MentionedBy(pool, insts) /\ MentionedBy(pool, insts) \subseteq 0..m

\* The instructions of a function have their literals.
Holds(pool, f) == \A inst \in Range(f.instructions) : HasLiteral(pool, inst)

\* A function that is being loaded lacks an instruction while one nested in it
\* is loaded, and m is the largest register that it mentions so far.
BeingLoaded(pool, f, m, waiting) ==
  /\ Len(f.instructions) <= f.size
  /\ waiting => Len(f.instructions) < f.size
  /\ Covers(pool, m, f.instructions)

\* A function that has been loaded is complete, and covered.
IsWhole(pool, f) ==
  /\ Len(f.instructions) = f.size + 1
  /\ f.nregs \in 1..ByteSize /\ Covers(pool, f.nregs - 1, f.instructions)

LiteralsHeld == \A k \in DOMAIN functions : Holds(literals, functions[k])
FramesDiffer == \A i, j \in DOMAIN frames : frames[i].fun = frames[j].fun => i = j
AllLoading ==
  \A i \in DOMAIN frames :
    BeingLoaded(literals, functions[frames[i].fun], frames[i].maxreg, i < Len(frames))
OthersWhole ==
  \A k \in DOMAIN functions :
    IsWhole(literals, functions[k]) \/ \E i \in DOMAIN frames : frames[i].fun = k

\* What OwnRegistersCovered needs to know of the functions and their frames.
RInv ==
  /\ PoolsOK /\ FunctionsOK
  /\ LiteralsHeld /\ FramesDiffer /\ AllLoading /\ OthersWhole

-----------------------------------------------------------------------------

\* The order in which two values are compared does not matter.
LEMMA IdenticalIsSymmetric ==
  ASSUME NEW v1, NEW v2, identical(v1, v2)
  PROVE  identical(v2, v1)
<1>1. ASSUME NEW m, NEW n, NumberEq(m, n) PROVE NumberEq(n, m)
  BY <1>1 DEF NumberEq
<1> QED
  BY <1>1 DEF identical

\* A sequence is one of its own members, and with one more it still is.
LEMMA AppendIsSeq ==
  ASSUME NEW s, s \in Seq(Range(s)), NEW e
  PROVE  /\ Append(s, e) \in Seq(Range(Append(s, e)))
         /\ DOMAIN s = 1..Len(s) /\ Len(s) \in Nat
         /\ DOMAIN Append(s, e) = 1..Len(s) + 1
         /\ \A i \in 1..Len(s) : Append(s, e)[i] = s[i]
         /\ Append(s, e)[Len(s) + 1] = e
<1> DEFINE S == Range(s) \cup {e}
           t == Append(s, e)
<1>1. s \in Seq(S)
  OBVIOUS
<1>2. t \in Seq(S) /\ Len(t) = Len(s) + 1 /\ Len(s) \in Nat
      /\ DOMAIN s = 1..Len(s) /\ DOMAIN t = 1..Len(s) + 1
      /\ \A i \in 1..Len(s) : t[i] = s[i]
      /\ t[Len(s) + 1] = e
  BY <1>1
<1>3. t \in Seq(Range(t))
  BY <1>2 DEF Range
<1> QED
  BY <1>2, <1>3

\* literal_slot adds a value only if no literal is identical to it.
LEMMA WithLiteralIsUnique ==
  ASSUME IInv, NEW v, literals' = WithLiteral(v)
  PROVE  /\ literals' \in Seq(Range(literals'))
         /\ \A i, j \in DOMAIN literals' : i # j => ~identical(literals'[i], literals'[j])
<1>1. CASE \E i \in DOMAIN literals : identical(literals[i], v)
  BY <1>1 DEF WithLiteral, IInv, SlotsAreUnique
<1>2. CASE ~\E i \in DOMAIN literals : identical(literals[i], v)
  <2>1. literals' = Append(literals, v)
    BY <1>2 DEF WithLiteral
  <2>2. /\ literals' \in Seq(Range(literals'))
        /\ DOMAIN literals = 1..Len(literals) /\ Len(literals) \in Nat
        /\ DOMAIN literals' = 1..Len(literals) + 1
        /\ \A i \in 1..Len(literals) : literals'[i] = literals[i]
        /\ literals'[Len(literals) + 1] = v
    BY <2>1, AppendIsSeq DEF IInv
  <2>3. ASSUME NEW i \in DOMAIN literals', NEW j \in DOMAIN literals', i # j,
               identical(literals'[i], literals'[j])
        PROVE  FALSE
    <3>1. CASE i \in DOMAIN literals /\ j \in DOMAIN literals
      BY <2>2, <2>3, <3>1 DEF IInv, SlotsAreUnique
    <3>2. CASE i \in DOMAIN literals /\ j = Len(literals) + 1
      BY <1>2, <2>2, <2>3, <3>2
    <3>3. CASE i = Len(literals) + 1 /\ j \in DOMAIN literals
      BY <1>2, <2>2, <2>3, <3>3, IdenticalIsSymmetric
    <3> QED
      BY <2>2, <2>3, <3>1, <3>2, <3>3
  <2> QED
    BY <2>2, <2>3
<1> QED
  BY <1>1, <1>2

\* global_slot adds a name only if no global has it.
LEMMA WithGlobalIsUnique ==
  ASSUME IInv, NEW name, globals' = WithGlobal(name)
  PROVE  globals' \in Seq(Range(globals')) /\ IsInjective(globals')
<1>1. /\ DOMAIN globals = 1..Len(globals) /\ Len(globals) \in Nat
      /\ Contains(globals, name) <=> \E i \in DOMAIN globals : globals[i] = name
  BY AppendIsSeq DEF IInv, Contains
<1>2. CASE Contains(globals, name)
  BY <1>2 DEF WithGlobal, IInv, SlotsAreUnique
<1>3. CASE ~Contains(globals, name)
  <2>1. globals' = Append(globals, name)
    BY <1>3 DEF WithGlobal
  <2>2. /\ globals' \in Seq(Range(globals'))
        /\ DOMAIN globals' = 1..Len(globals) + 1
        /\ \A i \in 1..Len(globals) : globals'[i] = globals[i]
        /\ globals'[Len(globals) + 1] = name
    BY <2>1, AppendIsSeq DEF IInv
  <2>3. IsInjective(globals')
    BY <1>1, <1>3, <2>2 DEF IInv, SlotsAreUnique, IsInjective
  <2> QED
    BY <2>2, <2>3
<1> QED
  BY <1>2, <1>3

\* All that a step does to the pools is to look up a literal and a global.
LEMMA PoolsOnlyGrow ==
  ASSUME [Next]_vars
  PROVE  /\ literals' = literals \/ \E v : literals' = WithLiteral(v)
         /\ globals' = globals \/ \E name : globals' = WithGlobal(name)
<1> DEFINE Grow == /\ literals' = literals \/ \E v : literals' = WithLiteral(v)
                   /\ globals' = globals \/ \E name : globals' = WithGlobal(name)
<1>1. ASSUME NEW name, NEW ts, ParseLine(name, ts) PROVE Grow
  <2>1. CASE ~HasEntry(name)
    BY <1>1, <2>1 DEF ParseLine
  <2>2. CASE HasEntry(name)
    <3> DEFINE entry == itable_entry(name)
               f == Format[entry[3]]
               parsed == Parse(entry[2], f, ts)
    <3>1. \/ literals' = literals /\ globals' = globals
          \/ literals' = parsed.literals /\ globals' = parsed.globals
      BY <1>1, <2>2 DEF ParseLine, Abort
    <3>2. /\ parsed.literals = literals \/ \E v : parsed.literals = WithLiteral(v)
          /\ parsed.globals = globals \/ \E g : parsed.globals = WithGlobal(g)
      BY DEF Parse
    <3> QED
      BY <3>1, <3>2
  <2> QED
    BY <2>1, <2>2
<1>2. ASSUME NEW ts, GetInstruction(ts) PROVE Grow
  BY <1>1, <1>2 DEF GetInstruction, LoadNested, BeginFunction, Abort
<1>3. ASSUME NEW line, ReadLine(line) PROVE Grow
  BY <1>2, <1>3 DEF ReadLine, LoadModule, BeginFunction, Abort
<1>4. CASE EndOfFile \/ EndModule \/ Ended \/ UNCHANGED vars
  BY <1>4 DEF EndOfFile, EndModule, Ended, vars
<1>5. CASE EndNested
  BY <1>5 DEF EndNested, Abort
<1> QED
  BY <1>3, <1>4, <1>5 DEF Next

-----------------------------------------------------------------------------

\* One value has one index in the literal pool, and one name one global slot,
\* in every state of every loading.
THEOREM UniqueSlots == Spec => []SlotsAreUnique
<1>1. Init => IInv
  BY DEF Init, IInv, SlotsAreUnique, IsInjective, Range
<1>2. IInv /\ [Next]_vars => IInv'
  <2> SUFFICES ASSUME IInv, [Next]_vars PROVE IInv'
    OBVIOUS
  <2>1. /\ literals' = literals \/ \E v : literals' = WithLiteral(v)
        /\ globals' = globals \/ \E name : globals' = WithGlobal(name)
    BY PoolsOnlyGrow
  <2>2. /\ literals' \in Seq(Range(literals'))
        /\ \A i, j \in DOMAIN literals' : i # j => ~identical(literals'[i], literals'[j])
    BY <2>1, WithLiteralIsUnique DEF IInv, SlotsAreUnique
  <2>3. globals' \in Seq(Range(globals')) /\ IsInjective(globals')
    BY <2>1, WithGlobalIsUnique DEF IInv, SlotsAreUnique
  <2> QED
    BY <2>2, <2>3 DEF IInv, SlotsAreUnique
<1>3. IInv => SlotsAreUnique
  BY DEF IInv
<1> QED
  BY <1>1, <1>2, <1>3, PTL DEF Spec

-----------------------------------------------------------------------------
(* Arithmetic of instruction words *)

\* Division of q * n + r.
LEMMA Division ==
  ASSUME NEW n \in Nat \ {0}, NEW q \in Nat, NEW r \in 0..n - 1
  PROVE  (q * n + r) \div n = q /\ (q * n + r) % n = r
<1> DEFINE a == q * n + r
           p == a \div n
           s == a % n
<1>1. q * n \in Nat /\ a \in Nat
  OBVIOUS
<1>2. p \in Int /\ s \in 0..n - 1 /\ a = n * p + s
  BY <1>1
<1> HIDE DEF a, p, s
<1>3. a = q * n + r
  BY DEF a
<1>4. ~(p > q)
  <2> SUFFICES ASSUME p > q PROVE FALSE
    OBVIOUS
  <2>1. PICK d \in Nat : p = q + 1 + d
    BY <1>2, p - q - 1 \in Nat
  <2>2. n * p = q * n + n + n * d
    BY <2>1
  <2>3. n * d \in Nat
    BY <2>1
  <2> QED
    BY <1>1, <1>2, <1>3, <2>2, <2>3
<1>5. ~(q > p)
  <2> SUFFICES ASSUME q > p PROVE FALSE
    OBVIOUS
  <2>1. PICK d \in Nat : q = p + 1 + d
    BY <1>2, q - p - 1 \in Nat
  <2>2. q * n = n * p + n + n * d
    BY <1>2, <2>1
  <2>3. n * d \in Nat
    BY <2>1
  <2>4. n * p \in Int
    BY <1>2
  <2> QED
    BY <1>1, <1>2, <1>3, <2>2, <2>3, <2>4
<1>6. p = q
  BY <1>2, <1>4, <1>5
<1>7. s = r
  BY <1>1, <1>2, <1>3, <1>6
<1> QED
  BY <1>6, <1>7 DEF a, p, s

\* A number that fits a signed field is read back from it.
LEMMA SignedRemainder ==
  ASSUME NEW w \in Nat, w > 1, NEW n \in -(w \div 2)..w - 1
  PROVE  (IF n % w >= w \div 2 THEN (n % w) - w ELSE n % w)
           = IF n >= w \div 2 THEN n - w ELSE n
<1>1. PICK h \in Nat : h = w \div 2 /\ 2 * h <= w /\ w <= 2 * h + 1
  <2>1. w \div 2 \in Nat /\ w = 2 * (w \div 2) + (w % 2) /\ (w % 2) \in 0..1
    OBVIOUS
  <2> QED
    BY <2>1
<1>2. CASE n < 0
  <2>1. n + w \in 0..w - 1 /\ (n % w) = n + w
    BY <1>1, <1>2
  <2>2. n + w >= h
    BY <1>1, <1>2
  <2> QED
    BY <1>1, <1>2, <2>1, <2>2
<1>3. CASE n >= 0
  BY <1>1, <1>3
<1> QED
  BY <1>2, <1>3

\* The sizes of the fields.
LEMMA Sizes ==
  /\ ByteSize \in Nat /\ ByteSize > 1 /\ MAX_GLOBALS \in Nat /\ MaxLines \in Nat
  /\ ByteSize * ByteSize \in Nat /\ ByteSize * ByteSize > ByteSize
  /\ I24 \in Nat /\ I24 = ByteSize * ByteSize * ByteSize /\ I24 > ByteSize * ByteSize
  /\ Word \in Nat /\ Word > I24 /\ Word \div 2 \in Nat /\ Word \div 2 > 1
<1>1. ByteSize \in Nat /\ ByteSize > 1 /\ MAX_GLOBALS \in Nat /\ MaxLines \in Nat
  BY SizeAssumption
<1>2. ASSUME NEW k \in Nat, k > 1 PROVE ByteSize * k \in Nat /\ ByteSize * k > k
  <2>1. PICK d \in Nat : ByteSize = 2 + d
    BY <1>1, ByteSize - 2 \in Nat
  <2>2. ByteSize * k = k + k + d * k /\ d * k \in Nat
    BY <2>1, <1>2
  <2> QED
    BY <2>2, <1>2
<1>3. ByteSize * ByteSize \in Nat /\ ByteSize * ByteSize > ByteSize
  BY <1>1, <1>2
<1>4. I24 = ByteSize * (ByteSize * ByteSize) /\ I24 = ByteSize * ByteSize * ByteSize
  BY <1>1 DEF I24
<1>5. I24 \in Nat /\ I24 > ByteSize * ByteSize
  <2> DEFINE k == ByteSize * ByteSize
  <2>1. k \in Nat /\ k > 1
    BY <1>1, <1>3
  <2> HIDE DEF k
  <2>2. ByteSize * k \in Nat /\ ByteSize * k > k
    BY <2>1, <1>2
  <2> QED
    BY <1>4, <2>2 DEF k
<1>6. Word \in Nat /\ Word > I24
  BY <1>1, <1>2, <1>3, <1>5 DEF Word
<1>7. Word > 3
  BY <1>1, <1>3, <1>5, <1>6
<1>8. Word \div 2 \in Nat /\ Word \div 2 > 1
  BY <1>6, <1>7
<1> QED
  BY <1>1, <1>3, <1>4, <1>5, <1>6, <1>8

\* Three bytes, one after the other, are an operand of 24 bits.
LEMMA Operands ==
  ASSUME NEW x \in 0..ByteSize - 1, NEW y \in 0..ByteSize - 1, NEW z \in 0..ByteSize - 1,
         NEW op
  PROVE  /\ eR3(op, x, y, z).xyz \in 0..I24 - 1
         /\ eR3(op, x, y, z).opcode = op
         /\ uX(eR3(op, x, y, z)) = x
         /\ uY(eR3(op, x, y, z)) = y
         /\ uZ(eR3(op, x, y, z)) = z
<1> DEFINE b == ByteSize
           xy == x * b + y
           xyz == xy * b + z
<1>1. b \in Nat \ {0} /\ b > 1 /\ x \in Nat /\ y \in Nat /\ z \in Nat
  BY Sizes
<1>2. xy \in Nat /\ xyz \in Nat
  BY <1>1
<1>3. xyz \div b = xy /\ (xyz % b) = z
  <2> HIDE DEF xy
  <2> QED
    BY <1>1, <1>2, Division
<1>4. xy \div b = x /\ (xy % b) = y
  BY <1>1, Division
<1>5. xyz = x * (b * b) + (y * b + z)
  BY <1>1
<1>6. y * b + z \in 0..b * b - 1
  <2>1. PICK d \in Nat : b = y + 1 + d
    BY <1>1, b - y - 1 \in Nat
  <2>2. b * b = y * b + b + d * b /\ d * b \in Nat /\ y * b \in Nat
    BY <1>1, <2>1
  <2>3. b * b \in Nat /\ z < b
    BY <1>1
  <2> QED
    BY <1>1, <2>2, <2>3
<1>7. xyz \div (b * b) = x
  <2> DEFINE n == b * b
             r == y * b + z
  <2>1. n \in Nat \ {0} /\ r \in 0..n - 1
    BY <1>6, Sizes
  <2> HIDE DEF n, r
  <2>2. (x * n + r) \div n = x
    BY <1>1, <2>1, Division
  <2> QED
    BY <1>5, <2>2 DEF n, r
<1>8. xyz < I24
  <2>1. PICK d \in Nat : b = x + 1 + d
    BY <1>1, b - x - 1 \in Nat
  <2> DEFINE n == b * b
  <2>2. n \in Nat
    BY Sizes
  <2>3. b * n = x * n + n + d * n /\ d * n \in Nat /\ x * n \in Nat
    <3> HIDE DEF n
    <3> QED
      BY <1>1, <2>1, <2>2
  <2>4. I24 = b * n
    BY <1>1 DEF I24
  <2>5. y * b + z < n
    BY <1>1, <1>6
  <2>6. xyz = x * n + (y * b + z)
    BY <1>5
  <2>7. y * b + z \in Nat
    BY <1>1
  <2> HIDE DEF n
  <2> QED
    BY <2>2, <2>3, <2>4, <2>5, <2>6, <2>7
<1>9. eR3(op, x, y, z) = [opcode |-> op, xyz |-> xyz]
  BY DEF eR3
<1>10. xyz \in 0..I24 - 1
  BY <1>2, <1>8, Sizes
<1> HIDE DEF xyz, b
<1> QED
  BY <1>3, <1>4, <1>7, <1>9, <1>10 DEF uX, uY, uZ, b

\* A byte and an index of two bytes are too.
LEMMA IndexOperands ==
  ASSUME NEW x \in 0..ByteSize - 1, NEW yz \in 0..ByteSize * ByteSize - 1, NEW op
  PROVE  /\ eR1U16(op, x, yz).xyz \in 0..I24 - 1
         /\ eR1U16(op, x, yz).opcode = op
         /\ uX(eR1U16(op, x, yz)) = x
         /\ uYZ(eR1U16(op, x, yz)) = yz
<1> DEFINE n == ByteSize * ByteSize
           xyz == x * n + yz
<1>1. n \in Nat \ {0} /\ x \in Nat /\ yz \in 0..n - 1 /\ ByteSize \in Nat
  BY Sizes
<1>2. eR1U16(op, x, yz) = [opcode |-> op, xyz |-> xyz]
  BY <1>1 DEF eR1U16
<1>3. xyz \div n = x /\ (xyz % n) = yz
  <2> HIDE DEF n
  <2> QED
    BY <1>1, Division
<1>4. xyz \in 0..I24 - 1
  <2>1. PICK d \in Nat : ByteSize = x + 1 + d
    BY <1>1, ByteSize - x - 1 \in Nat, Sizes
  <2>2. I24 = ByteSize * n
    BY Sizes DEF I24
  <2> HIDE DEF n
  <2>3. ByteSize * n = x * n + n + d * n /\ d * n \in Nat /\ x * n \in Nat
    BY <1>1, <2>1
  <2> QED
    BY <1>1, <2>2, <2>3
<1> HIDE DEF n
<1>5. uX([opcode |-> op, xyz |-> xyz]) = xyz \div n
  BY DEF uX, n
<1>6. uYZ([opcode |-> op, xyz |-> xyz]) = xyz % n
  BY DEF uYZ, n
<1> QED
  BY <1>2, <1>3, <1>4, <1>5, <1>6

-----------------------------------------------------------------------------
(* Least and largest numbers *)

LEMMA LeastIs ==
  ASSUME NEW S \in SUBSET Nat, S # {}
  PROVE  Min(S) \in S /\ \A n \in S : Min(S) <= n
<1>1. PICK m \in S : \A n \in S : ~(<<n, m>> \in OpToRel(<, Nat))
  BY NatLessThanWellFounded, WFMin
<1>2. \A n \in S : ~(n < m)
  BY <1>1 DEF OpToRel
<1>3. \A n \in S : m <= n
  BY <1>2
<1> QED
  BY <1>3 DEF Min

LEMMA LargestIs ==
  ASSUME NEW S \in SUBSET Int, NEW m \in S, \A n \in S : n <= m
  PROVE  Max(S) = m
<1>1. \A x \in S : (\A n \in S : x >= n) => x = m
  OBVIOUS
<1>2. \A n \in S : m >= n
  OBVIOUS
<1> QED
  BY <1>1, <1>2 DEF Max

\* A set of natural numbers below a bound has a largest.
LEMMA LargestExists ==
  ASSUME NEW S \in SUBSET Nat, S # {}, NEW b \in Nat, \A n \in S : n <= b
  PROVE  Max(S) \in S /\ \A n \in S : n <= Max(S)
<1> DEFINE T == {k \in Nat : \A n \in S : n <= k}
<1>1. T \in SUBSET Nat /\ T # {}
  OBVIOUS
<1>2. Min(T) \in T /\ \A k \in T : Min(T) <= k
  BY <1>1, LeastIs
<1>3. PICK t \in T : t = Min(T)
  BY <1>2
<1>4. \A n \in S : n <= t
  BY <1>3
<1>5. t \in S
  <2> SUFFICES ASSUME t \notin S PROVE FALSE
    OBVIOUS
  <2>1. \A n \in S : n <= t - 1
    BY <1>4
  <2>2. t - 1 \in T
    <3>1. PICK n \in S : n <= t - 1
      BY <2>1
    <3> QED
      BY <2>1, <3>1
  <2> QED
    BY <1>2, <1>3, <2>2
<1>6. Max(S) = t
  BY <1>4, <1>5, LargestIs
<1> QED
  BY <1>4, <1>5, <1>6

-----------------------------------------------------------------------------
(* The instruction table *)

\* The parser of an opcode.
ParserOf(opcode) ==
  IF opcode \in {"Halt", "Gc"} THEN "R0"
  ELSE IF opcode \in {"Print", "Println", "Printu", "Error", "Inc", "Dec", "Return", "If"}
  THEN "R1"
  ELSE IF opcode \in {"Printl", "Printlnl"} THEN "LIT"
  ELSE IF opcode \in {"LoadLiteral", "Check", "Expect", "CheckAssert", "CheckError"}
  THEN "R1LIT"
  ELSE IF opcode \in {"GetGlobal", "SetGlobal"} THEN "R1GLO"
  ELSE IF opcode \in {"Add", "Sub", "Mult", "Div", "IDiv", "Mod", "Gt", "Lt", "Ge", "Le",
                      "Cons", "Eq", "Call"}
  THEN "R3"
  ELSE IF opcode \in {"PlusImm", "MkClosure", "SetClSlot", "GetClSlot", "MkBlock",
                      "GetBlockSlot", "SetBlockSlot"}
  THEN "R2U8"
  ELSE IF opcode = "GotoVcon" THEN "R1U8"
  ELSE IF opcode = "IfVconMatch" THEN "U8LIT"
  ELSE IF opcode = "Goto" THEN "R0I24"
  ELSE "R2"

\* Every entry of the table has the parser of its opcode.
LEMMA TableParsers ==
  /\ DOMAIN instructions = 1..64
  /\ \A i \in 1..64 : instructions[i][3] = ParserOf(instructions[i][2])
<1>1. DOMAIN instructions = 1..64
  BY DEF instructions
<1>2. \A i \in 1..16 : instructions[i][3] = ParserOf(instructions[i][2])
  BY DEF instructions, ParserOf
<1>3. \A i \in 17..32 : instructions[i][3] = ParserOf(instructions[i][2])
  BY DEF instructions, ParserOf
<1>4. \A i \in 33..48 : instructions[i][3] = ParserOf(instructions[i][2])
  BY DEF instructions, ParserOf
<1>5. \A i \in 49..64 : instructions[i][3] = ParserOf(instructions[i][2])
  BY DEF instructions, ParserOf
<1> QED
  BY <1>1, <1>2, <1>3, <1>4, <1>5

\* The parsers are those that Format describes.
LEMMA ParserIsKnown ==
  ASSUME NEW opcode PROVE ParserOf(opcode) \in DOMAIN Format
  BY DEF ParserOf, Format

\* Whichever entry a name finds, the entry that its opcode finds has the same
\* parser.
LEMMA EntriesAgree ==
  ASSUME NEW name, HasEntry(name)
  PROVE  /\ itable_entry(name)[3] = ParserOf(itable_entry(name)[2])
         /\ itable_entry_by_code(itable_entry(name)[2])[3] = ParserOf(itable_entry(name)[2])
<1> DEFINE N == {i \in DOMAIN instructions : instructions[i][1] = name}
           i == Min(N)
           op == instructions[i][2]
           C == {j \in DOMAIN instructions : instructions[j][2] = op}
           j == Min(C)
<1>1. N \in SUBSET Nat /\ N # {}
  BY TableParsers DEF HasEntry
<1>2. i \in N
  BY <1>1, LeastIs
<1>3. i \in 1..64 /\ C \in SUBSET Nat /\ C # {}
  <2> HIDE DEF i
  <2>1. i \in 1..64
    BY <1>2, TableParsers
  <2>2. i \in C
    BY <2>1, TableParsers
  <2> QED
    BY <2>1, <2>2, TableParsers
<1>4. j \in C
  BY <1>3, LeastIs
<1>5. j \in 1..64 /\ instructions[j][2] = op
  BY <1>4, TableParsers
<1>6. instructions[i][3] = ParserOf(op) /\ instructions[j][3] = ParserOf(op)
  BY <1>3, <1>5, TableParsers
<1>7. itable_entry(name) = instructions[i]
  BY DEF itable_entry, FirstEntry
<1>8. itable_entry_by_code(op) = instructions[j]
  BY DEF itable_entry_by_code, FirstEntry
<1> HIDE DEF i, j
<1> QED
  BY <1>6, <1>7, <1>8

\* An opcode of the table has its own parser.
LEMMA OpcodeEntry ==
  ASSUME NEW k \in 1..64
  PROVE  itable_entry_by_code(instructions[k][2])[3] = ParserOf(instructions[k][2])
<1> DEFINE op == instructions[k][2]
           C == {j \in DOMAIN instructions : instructions[j][2] = op}
           j == Min(C)
<1>1. C \in SUBSET Nat /\ C # {}
  BY TableParsers
<1>2. j \in C
  BY <1>1, LeastIs
<1>3. instructions[j][3] = ParserOf(op)
  BY <1>2, TableParsers
<1>4. itable_entry_by_code(op) = instructions[j]
  BY DEF itable_entry_by_code, FirstEntry
<1> HIDE DEF j
<1> QED
  BY <1>3, <1>4

-----------------------------------------------------------------------------
(* Operands and registers of an instruction *)

\* What a parser takes.
IsFormat(f) ==
  /\ f.bytes \in 0..3 /\ f.seen \in 0..3 /\ f.seen <= f.bytes
  /\ f.rest \in {"none", "integer", "literal", "global"}
  /\ f.rest = "integer" => f.bytes = 0
  /\ f.rest \in {"literal", "global"} => f.bytes <= 1

LEMMA Formats == ASSUME NEW p \in DOMAIN Format PROVE IsFormat(Format[p])
  BY DEF Format, F, IsFormat

\* The first n of three operands.
FirstOf(x, y, z, n) == {<<x, y, z>>[i] : i \in 1..n}

LEMMA FirstOperands ==
  ASSUME NEW x, NEW y, NEW z, NEW b \in 0..3, NEW n \in 0..3, n <= b
  PROVE  Range(SubSeq(SubSeq(<<x, y, z>>, 1, b), 1, n)) = FirstOf(x, y, z, n)
<1> DEFINE s == <<x, y, z>>
           t == SubSeq(s, 1, b)
           u == SubSeq(t, 1, n)
<1>1. s \in Seq({x, y, z}) /\ Len(s) = 3
  OBVIOUS
<1> HIDE DEF s
<1>2. t \in Seq({x, y, z}) /\ Len(t) = b /\ \A i \in 1..b : t[i] = s[i]
  BY <1>1
<1> HIDE DEF t
<1>3. u \in Seq({x, y, z}) /\ Len(u) = n /\ \A i \in 1..n : u[i] = t[i]
  BY <1>2
<1> HIDE DEF u
<1>4. Range(u) = {s[i] : i \in 1..n}
  BY <1>2, <1>3 DEF Range
<1> QED
  BY <1>4 DEF FirstOf, s, t, u

\* The registers that an instruction of an opcode of the table mentions.
LEMMA MentionedIs ==
  ASSUME NEW inst, inst.opcode \in Opcode
  PROVE  Mentioned(inst) =
           FirstOf(uX(inst), uY(inst), uZ(inst), Format[ParserOf(inst.opcode)].seen)
<1>1. PICK k \in 1..64 : inst.opcode = instructions[k][2]
  BY DEF Opcode
<1>2. itable_entry_by_code(inst.opcode)[3] = ParserOf(inst.opcode)
  BY <1>1, OpcodeEntry
<1> DEFINE f == Format[ParserOf(inst.opcode)]
<1>3. IsFormat(f)
  BY ParserIsKnown, Formats
<1>4. Mentioned(inst) = Range(SubSeq(Bytes(f, inst), 1, f.seen))
  BY <1>2 DEF Mentioned
<1> HIDE DEF f
<1>5. Bytes(f, inst) = SubSeq(<<uX(inst), uY(inst), uZ(inst)>>, 1, f.bytes)
  BY DEF Bytes
<1>6. Range(SubSeq(Bytes(f, inst), 1, f.seen))
        = FirstOf(uX(inst), uY(inst), uZ(inst), f.seen)
  BY <1>3, <1>5, FirstOperands DEF IsFormat
<1> QED
  BY <1>4, <1>6 DEF f

\* The name of an entry gives an opcode of the table, and a parser of that
\* opcode.
LEMMA EntryIs ==
  ASSUME NEW name, HasEntry(name)
  PROVE  /\ itable_entry(name)[2] \in Opcode
         /\ itable_entry(name)[3] = ParserOf(itable_entry(name)[2])
<1> DEFINE N == {i \in DOMAIN instructions : instructions[i][1] = name}
<1>1. N \in SUBSET Nat /\ N # {}
  BY TableParsers DEF HasEntry
<1>2. Min(N) \in N
  BY <1>1, LeastIs
<1>3. PICK i \in 1..64 : i = Min(N)
  BY <1>2, TableParsers
<1>4. itable_entry(name) = instructions[i]
  BY <1>3 DEF itable_entry, FirstEntry
<1> QED
  BY <1>3, <1>4, TableParsers DEF Opcode

LEMMA HaltIs ==
  /\ "Halt" \in Opcode /\ ParserOf("Halt") = "R0" /\ Format["R0"].seen = 0
  /\ "LoadLiteral" \in Opcode /\ ParserOf("LoadLiteral") = "R1LIT"
  /\ Format["R1LIT"].seen = 1
<1>1. instructions[1][2] = "Halt" /\ instructions[8][2] = "LoadLiteral"
  BY DEF instructions
<1>2. "Halt" \in Opcode /\ "LoadLiteral" \in Opcode
  BY <1>1 DEF Opcode
<1> QED
  BY <1>2 DEF ParserOf, Format, F

-----------------------------------------------------------------------------
(* Tokens *)

IsToken(t) ==
  /\ t.type \in {"TNAME", "TU32", "TDOUBLE"}
  /\ t.type = "TU32" => t.n \in 0..Word - 1

AreTokens(ts) == ts \in Seq(Range(ts)) /\ \A i \in DOMAIN ts : IsToken(ts[i])

LEMMA TokenIs ==
  ASSUME NEW w, w.kind \in {"sym", "int", "real"}, w.kind = "int" => w.l \in Int
  PROVE  /\ IsToken(Token(w))
         /\ IsInt(Token(w)) => w.kind = "int" /\ Token(w).n = w.l % Word
<1>1. Word \in Nat /\ Word > 0
  BY Sizes
<1>2. CASE w.kind = "sym"
  BY <1>2 DEF Token, IsToken, IsInt
<1>3. CASE w.kind = "real"
  BY <1>3 DEF Token, IsToken, IsInt
<1>4. CASE w.kind = "int"
  <2>1. (w.l % Word) \in 0..Word - 1
    BY <1>1, <1>4
  <2>2. Token(w) = IF w.l \in -(Word \div 2)..Word - 1
                   THEN [type |-> "TU32", n |-> w.l % Word]
                   ELSE [type |-> "TDOUBLE", x |-> w.l]
    BY <1>4 DEF Token
  <2> QED
    BY <1>4, <2>1, <2>2 DEF IsToken, IsInt
<1> QED
  BY <1>2, <1>3, <1>4

LEMMA SeqOfItsRange == ASSUME NEW S, NEW s \in Seq(S) PROVE s \in Seq(Range(s))
<1>1. PICK n \in Nat : n = Len(s)
  OBVIOUS
<1>2. DOMAIN s = 1..n /\ s = [i \in 1..n |-> s[i]]
  BY <1>1
<1>3. \A i \in 1..n : s[i] \in Range(s)
  BY <1>2 DEF Range
<1> QED
  BY <1>2, <1>3

\* The tokens of a line.
LEMMA TokensOfLine ==
  ASSUME NEW line \in Line
  PROVE  /\ AreTokens(tokens(line))
         /\ tokens(line) # <<>> /\ IsName(tokens(line)[1], ".load") =>
              \A i \in DOMAIN tokens(line) :
                IsInt(tokens(line)[i]) => tokens(line)[i].n \in 0..Word \div 2 - 1
<1> DEFINE ts == tokens(line)
<1>1. PICK n \in Nat : n = Len(line)
  BY LineAssumption
<1>2. /\ line \in Seq(Range(line)) /\ DOMAIN line = 1..n
      /\ \A i \in 1..n :
           /\ line[i] \in Range(line) /\ line[i].kind \in {"sym", "int", "real"}
           /\ line[i].kind = "int" => line[i].l \in Int
  <2>1. line \in Seq(Range(line)) /\ DOMAIN line = 1..n
    BY <1>1, LineAssumption
  <2>2. \A i \in 1..n : line[i] \in Range(line)
    BY <2>1 DEF Range
  <2>3. \A w \in Range(line) :
          w.kind \in {"sym", "int", "real"} /\ (w.kind = "int" => w.l \in Int)
    BY LineAssumption
  <2> QED
    BY <2>1, <2>2, <2>3
<1>3. ts = [i \in 1..n |-> Token(line[i])]
  BY <1>2 DEF tokens
<1>4. \A i \in 1..n :
        /\ ts[i] = Token(line[i]) /\ IsToken(ts[i])
        /\ IsInt(ts[i]) => line[i].kind = "int" /\ ts[i].n = line[i].l % Word
  BY <1>2, <1>3, TokenIs
<1>5. DOMAIN ts = 1..n /\ ts \in Seq(Range(ts)) /\ Len(ts) = n
  BY <1>3 DEF Range
<1>6. AreTokens(ts)
  BY <1>4, <1>5 DEF AreTokens
<1>7. ASSUME ts # <<>>, IsName(ts[1], ".load"), NEW i \in DOMAIN ts, IsInt(ts[i])
      PROVE  ts[i].n \in 0..Word \div 2 - 1
  <2>1. n # 0 /\ 1 \in 1..n
    BY <1>5, <1>7
  <2>2. line # <<>> /\ IsName(Token(line[1]), ".load")
    BY <1>1, <1>2, <1>4, <1>7, <2>1
  <2>3. line[i].kind = "int" /\ ts[i].n = line[i].l % Word /\ line[i] \in Range(line)
    BY <1>2, <1>4, <1>5, <1>7
  <2>4. line[i].l \in 0..Word \div 2 - 1
    BY <2>2, <2>3, LineAssumption
  <2>5. Word \in Nat /\ Word > 0 /\ Word \div 2 \in Nat /\ Word \div 2 <= Word
    BY Sizes
  <2>6. (line[i].l % Word) = line[i].l
    BY <2>4, <2>5
  <2> QED
    BY <2>3, <2>4, <2>6
<1> HIDE DEF ts
<1> QED
  BY <1>6, <1>7 DEF ts

\* Of the tokens of a line, those after the first are tokens.
LEMMA TailTokens ==
  ASSUME NEW ts, AreTokens(ts), ts # <<>>
  PROVE  AreTokens(Tail(ts))
<1>1. PICK n \in Nat : n = Len(ts)
  BY DEF AreTokens
<1>2. DOMAIN ts = 1..n /\ n # 0 /\ ts \in Seq(Range(ts))
  BY <1>1 DEF AreTokens
<1>3. /\ Tail(ts) \in Seq(Range(ts)) /\ Len(Tail(ts)) = n - 1 /\ DOMAIN Tail(ts) = 1..n - 1
      /\ \A i \in 1..n - 1 : Tail(ts)[i] = ts[i + 1]
  BY <1>1, <1>2
<1>4. Tail(ts) \in Seq(Range(Tail(ts)))
  BY <1>3, SeqOfItsRange
<1>5. \A i \in 1..n - 1 : IsToken(Tail(ts)[i])
  BY <1>2, <1>3 DEF AreTokens
<1> QED
  BY <1>3, <1>4, <1>5 DEF AreTokens

\* The bytes that a parser accepts.
LEMMA AcceptedBytes ==
  ASSUME NEW ts, AreTokens(ts), NEW f, IsFormat(f), Accepts(f, ts)
  PROVE  \A i \in 1..f.bytes : i \in DOMAIN ts /\ ts[i].n \in 0..ByteSize - 1
<1>1. PICK n \in Nat : n = Len(ts)
  BY DEF AreTokens
<1>2. DOMAIN ts = 1..n /\ ts \in Seq(Range(ts)) /\ f.bytes \in Nat /\ f.bytes <= n
  BY <1>1 DEF AreTokens, Accepts, IsFormat
<1>3. AreBytes(SubSeq(ts, 1, f.bytes))
  BY DEF Accepts
<1>4. ASSUME NEW i \in 1..f.bytes PROVE i \in 1..n /\ ts[i].n \in 0..ByteSize - 1
  <2>1. i \in 1..n /\ i \in DOMAIN SubSeq(ts, 1, f.bytes) /\ SubSeq(ts, 1, f.bytes)[i] = ts[i]
    BY <1>1, <1>2
  <2>2. IsByte(ts[i])
    BY <1>3, <2>1 DEF AreBytes
  <2>3. IsToken(ts[i])
    BY <1>2, <2>1 DEF AreTokens
  <2> QED
    BY <2>1, <2>2, <2>3, Sizes DEF IsByte, IsInt, IsToken
<1> QED
  BY <1>2, <1>4

-----------------------------------------------------------------------------
(* What a lookup finds in the two pools *)

Extends(p, q) == \A i \in DOMAIN p : i \in DOMAIN q /\ q[i] = p[i]

\* literal_slot gives the index of the value, or of an identical one, which has
\* the same tag, and moves no literal.
LEMMA LiteralIsFound ==
  ASSUME literals \in Seq(Range(literals)), NEW v
  PROVE  /\ WithLiteral(v) \in Seq(Range(WithLiteral(v)))
         /\ Extends(literals, WithLiteral(v))
         /\ literal_slot(v) \in 0..Len(WithLiteral(v)) - 1
         /\ literal_slot(v) + 1 \in DOMAIN WithLiteral(v)
         /\ WithLiteral(v)[literal_slot(v) + 1].tag = v.tag
         /\ \/ WithLiteral(v)[literal_slot(v) + 1] = v
            \/ identical(WithLiteral(v)[literal_slot(v) + 1], v)
<1> DEFINE same == {i \in DOMAIN literals : identical(literals[i], v)}
<1>1. PICK n \in Nat : n = Len(literals)
  OBVIOUS
<1>2. DOMAIN literals = 1..n
  BY <1>1
<1>3. CASE same = {}
  <2>1. WithLiteral(v) = Append(literals, v) /\ literal_slot(v) = n
    BY <1>1, <1>3 DEF WithLiteral, literal_slot
  <2> DEFINE q == Append(literals, v)
  <2>2. /\ q \in Seq(Range(q)) /\ DOMAIN q = 1..n + 1
        /\ \A i \in 1..n : q[i] = literals[i]
        /\ q[n + 1] = v
    BY <1>1, AppendIsSeq
  <2> HIDE DEF q
  <2>3. Extends(literals, q) /\ Len(q) = n + 1
    BY <1>2, <2>2 DEF Extends
  <2> QED
    BY <2>1, <2>2, <2>3 DEF q
<1>4. CASE same # {}
  <2>1. WithLiteral(v) = literals /\ literal_slot(v) = Min(same) - 1
    BY <1>4 DEF WithLiteral, literal_slot
  <2>2. same \in SUBSET Nat
    BY <1>2
  <2>3. Min(same) \in same
    BY <1>4, <2>2, LeastIs
  <2>4. PICK m \in same : m = Min(same)
    BY <2>3
  <2>5. m \in 1..n /\ identical(literals[m], v)
    BY <1>2, <2>4
  <2>6. literals[m].tag = v.tag
    BY <2>5 DEF identical
  <2>7. Extends(literals, literals)
    BY DEF Extends
  <2>8. literal_slot(v) = m - 1 /\ m - 1 + 1 = m
    BY <2>1, <2>4, <2>5
  <2> QED
    BY <1>1, <1>2, <2>1, <2>5, <2>6, <2>7, <2>8
<1> QED
  BY <1>3, <1>4

LEMMA GlobalIsFound ==
  ASSUME globals \in Seq(Range(globals)), NEW name
  PROVE  /\ WithGlobal(name) \in Seq(Range(WithGlobal(name)))
         /\ Extends(globals, WithGlobal(name))
         /\ global_slot(name) \in 0..Len(WithGlobal(name)) - 1
         /\ global_slot(name) + 1 \in DOMAIN WithGlobal(name)
         /\ WithGlobal(name)[global_slot(name) + 1] = name
<1>1. PICK n \in Nat : n = Len(globals)
  OBVIOUS
<1>2. CASE ~Contains(globals, name)
  <2>1. WithGlobal(name) = Append(globals, name) /\ global_slot(name) = n
    BY <1>1, <1>2 DEF WithGlobal, global_slot
  <2> DEFINE q == Append(globals, name)
  <2>2. /\ q \in Seq(Range(q)) /\ DOMAIN q = 1..n + 1
        /\ \A i \in 1..n : q[i] = globals[i]
        /\ q[n + 1] = name
    BY <1>1, AppendIsSeq
  <2> HIDE DEF q
  <2>3. Extends(globals, q) /\ Len(q) = n + 1
    BY <1>1, <2>2 DEF Extends
  <2> QED
    BY <2>1, <2>2, <2>3 DEF q
<1>3. CASE Contains(globals, name)
  <2> DEFINE I == {i \in 1..Len(globals) : globals[i] = name}
  <2>1. I # {} /\ I \in SUBSET Nat
    BY <1>3 DEF Contains
  <2>2. Min(I) \in I
    BY <2>1, LeastIs
  <2>3. WithGlobal(name) = globals /\ global_slot(name) = Min(I) - 1
    BY <1>3, <2>1 DEF WithGlobal, global_slot, SelectInSeq
  <2>4. PICK m \in 1..n : m = Min(I) /\ globals[m] = name
    BY <1>1, <2>2
  <2>5. global_slot(name) = m - 1 /\ m - 1 + 1 = m
    BY <2>3, <2>4
  <2>6. Extends(globals, globals)
    BY DEF Extends
  <2> QED
    BY <1>1, <2>3, <2>4, <2>5, <2>6
<1> QED
  BY <1>2, <1>3

\* A literal that a line shows is not a function.
LEMMA ShownLiteralTag ==
  ASSUME NEW ts, AreTokens(ts), IsLiteral(ts)
  PROVE  get_literal(ts).tag # "VMFunction"
<1>1. PICK n \in Nat : n = Len(ts) /\ DOMAIN ts = 1..n
  BY DEF AreTokens
<1>2. CASE n > 1
  <2> DEFINE s == [i \in 1..Len(ts) - 2 |-> ts[i + 2].n]
  <2>1. get_literal(ts) = mkStringValue(s)
    BY <1>1, <1>2 DEF get_literal
  <2> HIDE DEF s
  <2> QED
    BY <2>1 DEF mkStringValue
<1>3. CASE ~(n > 1)
  <2>1. n = 1 /\ (ts[1].type = "TNAME" => ts[1].name \in DOMAIN NamedLiteral)
    BY <1>1, <1>3 DEF IsLiteral
  <2>2. IsToken(ts[1])
    BY <1>1, <2>1 DEF AreTokens
  <2>3. CASE ts[1].type = "TNAME"
    <3>1. get_literal(ts) = NamedLiteral[ts[1].name]
      BY <1>1, <2>1, <2>3 DEF get_literal
    <3>2. ts[1].name \in {"true", "false", "nil", "emptylist"}
      BY <2>1, <2>3 DEF NamedLiteral
    <3> QED
      BY <3>1, <3>2 DEF NamedLiteral, mkBooleanValue, nilValue, emptylistValue
  <2>4. CASE ts[1].type = "TU32"
    BY <1>1, <2>1, <2>4 DEF get_literal, mkNumberValue
  <2>5. CASE ts[1].type = "TDOUBLE"
    BY <1>1, <2>1, <2>5 DEF get_literal, mkNumberValue
  <2> QED
    BY <2>2, <2>3, <2>4, <2>5 DEF IsToken
<1> QED
  BY <1>2, <1>3

\* The tokens after the bytes that a parser accepts.
LEMMA RestTokens ==
  ASSUME NEW ts, AreTokens(ts), NEW b \in Nat, b <= Len(ts)
  PROVE  AreTokens(SubSeq(ts, b + 1, Len(ts)))
<1>1. PICK n \in Nat : n = Len(ts) /\ DOMAIN ts = 1..n
  BY DEF AreTokens
<1> DEFINE r == SubSeq(ts, b + 1, n)
<1>2. /\ r \in Seq(Range(ts)) /\ DOMAIN r = 1..n - b
      /\ \A i \in 1..n - b : r[i] = ts[b + i]
  BY <1>1 DEF AreTokens
<1> HIDE DEF r
<1>3. r \in Seq(Range(r))
  BY <1>2, SeqOfItsRange
<1>4. \A i \in 1..n - b : b + i \in 1..n
  BY <1>1
<1>5. \A i \in 1..n - b : IsToken(r[i])
  BY <1>1, <1>2, <1>4 DEF AreTokens
<1>6. AreTokens(r)
  BY <1>2, <1>3, <1>5 DEF AreTokens
<1> QED
  BY <1>1, <1>6 DEF r

-----------------------------------------------------------------------------
(* What a parser makes of the tokens that it accepts *)

\* The operands of an instruction, with the pools it refers to, are the bytes of
\* the tokens and what the rest of them are.
HasOperands(p, f, ts) ==
  LET rest == SubSeq(ts, f.bytes + 1, Len(ts))
      index == uYZ(p.inst) + 1
  IN
  /\ \A i \in 1..f.bytes : <<uX(p.inst), uY(p.inst), uZ(p.inst)>>[i] = ts[i].n
  /\ f.rest = "none" => rest = <<>>
  /\ f.rest = "integer" => iXYZ(p.inst) = Signed(rest[1].n)
  /\ f.rest = "literal" =>
       /\ index \in DOMAIN p.literals
       /\ \/ p.literals[index] = get_literal(rest)
          \/ identical(p.literals[index], get_literal(rest))
  /\ f.rest = "global" =>
       index \in DOMAIN p.globals /\ p.globals[index] = CString(get_literal(rest))

\* The state that a parsed instruction leaves the pools in is one where it has
\* its operands, and its literal, if it loads one, is not a function.
Parsed(p, op, f, ts) ==
  /\ p.inst = [opcode |-> op, xyz |-> p.inst.xyz] /\ p.inst.xyz \in 0..I24 - 1
  /\ HasOperands(p, f, ts)
  /\ FirstOf(uX(p.inst), uY(p.inst), uZ(p.inst), f.seen) = {ts[i].n : i \in 1..f.seen}
  /\ p.literals \in Seq(Range(p.literals)) /\ Extends(literals, p.literals)
  /\ p.globals \in Seq(Range(p.globals)) /\ Extends(globals, p.globals)
  /\ f.rest = "literal" => /\ uYZ(p.inst) + 1 \in DOMAIN p.literals
                           /\ p.literals[uYZ(p.inst) + 1].tag # "VMFunction"

LEMMA ParseMakes ==
  ASSUME literals \in Seq(Range(literals)), globals \in Seq(Range(globals)),
         NEW op, NEW f, IsFormat(f), NEW ts, AreTokens(ts), Accepts(f, ts),
         Fits(Parse(op, f, ts).literals), Len(Parse(op, f, ts).globals) <= MAX_GLOBALS
  PROVE  Parsed(Parse(op, f, ts), op, f, ts)
<1> DEFINE byte(i) == IF i <= f.bytes THEN ts[i].n ELSE 0
           rest == SubSeq(ts, f.bytes + 1, Len(ts))
           p == Parse(op, f, ts)
<1>1. \A i \in 1..3 : byte(i) \in 0..ByteSize - 1
  BY AcceptedBytes, Sizes DEF IsFormat
<1>2. /\ \A i \in 1..f.seen : byte(i) = ts[i].n
      /\ \A i \in 1..f.bytes : byte(i) = ts[i].n
  BY DEF IsFormat
<1>3. Extends(literals, literals) /\ Extends(globals, globals)
  BY DEF Extends
<1>4. f.bytes \in Nat /\ f.bytes <= Len(ts)
  BY DEF Accepts, IsFormat
<1>5. AreTokens(rest)
  BY <1>4, RestTokens
<1>6. ASSUME f.rest = "none" PROVE Parsed(p, op, f, ts)
  <2> DEFINE inst == eR3(op, byte(1), byte(2), byte(3))
  <2>1. p = [inst |-> inst, literals |-> literals, globals |-> globals]
    BY <1>6 DEF Parse
  <2>2. /\ inst = [opcode |-> op, xyz |-> inst.xyz] /\ inst.xyz \in 0..I24 - 1
        /\ uX(inst) = byte(1) /\ uY(inst) = byte(2) /\ uZ(inst) = byte(3)
    <3> HIDE DEF byte
    <3>1. inst = [opcode |-> op, xyz |-> inst.xyz]
      BY DEF eR3
    <3> QED
      BY <1>1, <3>1, Operands
  <2> HIDE DEF inst, p
  <2>3. FirstOf(uX(inst), uY(inst), uZ(inst), f.seen) = {byte(i) : i \in 1..f.seen}
    <3> HIDE DEF byte
    <3>1. \A i \in 1..3 : <<uX(inst), uY(inst), uZ(inst)>>[i] = byte(i)
      BY <2>2
    <3>2. f.seen \in 0..3
      BY DEF IsFormat
    <3>3. \A i \in 1..f.seen : i \in 1..3
      BY <3>2
    <3> QED
      BY <3>1, <3>3 DEF FirstOf
  <2>4. {byte(i) : i \in 1..f.seen} = {ts[i].n : i \in 1..f.seen}
    <3> HIDE DEF byte
    <3> QED
      BY <1>2
  <2>5. \A i \in 1..f.bytes : <<uX(inst), uY(inst), uZ(inst)>>[i] = ts[i].n
    <3> HIDE DEF byte
    <3>1. \A i \in 1..3 : <<uX(inst), uY(inst), uZ(inst)>>[i] = byte(i)
      BY <2>2
    <3>2. \A i \in 1..f.bytes : i \in 1..3
      BY DEF IsFormat
    <3> QED
      BY <1>2, <3>1, <3>2
  <2>6. rest = <<>>
    BY <1>6 DEF Accepts
  <2> HIDE DEF byte
  <2>7. HasOperands(p, f, ts)
    BY <1>6, <2>1, <2>5, <2>6 DEF HasOperands
  <2> QED
    BY <1>3, <1>6, <2>1, <2>2, <2>3, <2>4, <2>7 DEF Parsed
<1>7. ASSUME f.rest = "integer" PROVE Parsed(p, op, f, ts)
  <2> DEFINE n == Signed(rest[1].n)
             inst == eR0I24(op, n)
  <2>1. p = [inst |-> inst, literals |-> literals, globals |-> globals]
    BY <1>7 DEF Parse
  <2>2. n \in -(I24 \div 2)..(I24 \div 2) - 1
    BY <1>7 DEF Accepts
  <2> HIDE DEF n, p
  <2>3. inst = [opcode |-> op, xyz |-> inst.xyz] /\ inst.xyz \in 0..I24 - 1
    <3>1. n \in Int /\ I24 \in Nat /\ I24 > 0
      BY <2>2, Sizes
    <3>2. (n % I24) \in 0..I24 - 1
      BY <3>1
    <3> QED
      BY <3>2 DEF eR0I24
  <2>6. iXYZ(inst) = n
    <3>1. inst.xyz = n % I24
      BY DEF eR0I24
    <3> HIDE DEF inst
    <3>2. iXYZ(inst) = IF n % I24 >= I24 \div 2 THEN (n % I24) - I24 ELSE n % I24
      BY <3>1 DEF iXYZ
    <3>3. I24 \in Nat /\ I24 > 1
      BY Sizes
    <3>4. I24 \div 2 \in Nat /\ I24 \div 2 <= I24
      BY <3>3
    <3>5. n \in -(I24 \div 2)..I24 - 1 /\ ~(n >= I24 \div 2)
      BY <2>2, <3>3, <3>4
    <3>6. (IF n % I24 >= I24 \div 2 THEN (n % I24) - I24 ELSE n % I24) = n
      BY <3>3, <3>5, SignedRemainder
    <3> QED
      BY <3>2, <3>6
  <2> HIDE DEF inst
  <2>7. HasOperands(p, f, ts)
    <3>1. f.bytes = 0
      BY <1>7 DEF IsFormat
    <3>2. 1..f.bytes = {}
      BY <3>1
    <3> QED
      BY <1>7, <2>1, <2>6, <3>2 DEF HasOperands, n
  <2>4. f.seen = 0
    BY <1>7 DEF IsFormat
  <2>5. FirstOf(uX(inst), uY(inst), uZ(inst), f.seen) = {ts[i].n : i \in 1..f.seen}
    BY <2>4 DEF FirstOf
  <2> QED
    BY <1>3, <1>7, <2>1, <2>3, <2>5, <2>7 DEF Parsed
<1>8. ASSUME NEW yz \in 0..ByteSize * ByteSize - 1, f.bytes <= 1
      PROVE  LET inst == eR1U16(op, byte(1), yz)
             IN /\ inst = [opcode |-> op, xyz |-> inst.xyz]
                /\ inst.xyz \in 0..I24 - 1 /\ uYZ(inst) = yz
                /\ FirstOf(uX(inst), uY(inst), uZ(inst), f.seen) = {ts[i].n : i \in 1..f.seen}
                /\ \A i \in 1..f.bytes : <<uX(inst), uY(inst), uZ(inst)>>[i] = ts[i].n
  <2> DEFINE inst == eR1U16(op, byte(1), yz)
  <2>1. /\ inst = [opcode |-> op, xyz |-> inst.xyz] /\ inst.xyz \in 0..I24 - 1
        /\ uYZ(inst) = yz /\ uX(inst) = byte(1)
    <3> HIDE DEF byte
    <3>1. inst = [opcode |-> op, xyz |-> inst.xyz]
      BY DEF eR1U16
    <3> QED
      BY <1>1, <3>1, IndexOperands
  <2> HIDE DEF inst, byte
  <2>2. f.seen \in 0..1
    BY <1>8 DEF IsFormat
  <2>3. FirstOf(uX(inst), uY(inst), uZ(inst), f.seen) = {ts[i].n : i \in 1..f.seen}
    <3>1. <<uX(inst), uY(inst), uZ(inst)>>[1] = byte(1)
      BY <2>1
    <3>2. \A i \in 1..f.seen : i = 1
      BY <2>2
    <3>3. \A i \in 1..f.seen : <<uX(inst), uY(inst), uZ(inst)>>[i] = ts[i].n
      BY <1>2, <3>1, <3>2
    <3> QED
      BY <3>3 DEF FirstOf
  <2>4. \A i \in 1..f.bytes : <<uX(inst), uY(inst), uZ(inst)>>[i] = ts[i].n
    <3>1. <<uX(inst), uY(inst), uZ(inst)>>[1] = byte(1)
      BY <2>1
    <3>2. \A i \in 1..f.bytes : i = 1
      BY <1>8 DEF IsFormat
    <3> QED
      BY <1>2, <3>1, <3>2
  <2> QED
    BY <2>1, <2>3, <2>4 DEF inst
<1>9. ASSUME f.rest = "literal" PROVE Parsed(p, op, f, ts)
  <2> DEFINE v == get_literal(rest)
             inst == eR1U16(op, byte(1), literal_slot(v))
  <2>1. p = [inst |-> inst, literals |-> WithLiteral(v), globals |-> globals]
    BY <1>9 DEF Parse
  <2>2. v.tag # "VMFunction"
    BY <1>5, <1>9, ShownLiteralTag DEF Accepts
  <2> HIDE DEF v, p
  <2>3. /\ WithLiteral(v) \in Seq(Range(WithLiteral(v)))
        /\ Extends(literals, WithLiteral(v))
        /\ literal_slot(v) \in 0..Len(WithLiteral(v)) - 1
        /\ literal_slot(v) + 1 \in DOMAIN WithLiteral(v)
        /\ WithLiteral(v)[literal_slot(v) + 1].tag = v.tag
        /\ \/ WithLiteral(v)[literal_slot(v) + 1] = v
           \/ identical(WithLiteral(v)[literal_slot(v) + 1], v)
    BY LiteralIsFound
  <2>4. Fits(WithLiteral(v))
    BY <2>1 DEF p
  <2>5. literal_slot(v) \in 0..ByteSize * ByteSize - 1
    BY <2>3, <2>4, Sizes DEF Fits
  <2>6. f.bytes <= 1
    BY <1>9 DEF IsFormat
  <2>7. /\ inst = [opcode |-> op, xyz |-> inst.xyz] /\ inst.xyz \in 0..I24 - 1
        /\ uYZ(inst) = literal_slot(v)
        /\ FirstOf(uX(inst), uY(inst), uZ(inst), f.seen) = {ts[i].n : i \in 1..f.seen}
        /\ \A i \in 1..f.bytes : <<uX(inst), uY(inst), uZ(inst)>>[i] = ts[i].n
    <3> HIDE DEF byte
    <3> QED
      BY <1>8, <2>5, <2>6
  <2> HIDE DEF inst, byte
  <2>8. HasOperands(p, f, ts)
    BY <1>9, <2>1, <2>3, <2>7 DEF HasOperands, v
  <2> QED
    BY <1>3, <1>9, <2>1, <2>2, <2>3, <2>7, <2>8 DEF Parsed
<1>10. ASSUME f.rest = "global" PROVE Parsed(p, op, f, ts)
  <2> DEFINE name == CString(get_literal(rest))
             inst == eR1U16(op, byte(1), global_slot(name))
  <2>1. p = [inst |-> inst, literals |-> literals, globals |-> WithGlobal(name)]
    BY <1>10 DEF Parse
  <2> HIDE DEF name, p
  <2>2. /\ WithGlobal(name) \in Seq(Range(WithGlobal(name)))
        /\ Extends(globals, WithGlobal(name))
        /\ global_slot(name) \in 0..Len(WithGlobal(name)) - 1
        /\ global_slot(name) + 1 \in DOMAIN WithGlobal(name)
        /\ WithGlobal(name)[global_slot(name) + 1] = name
    BY GlobalIsFound
  <2>3. Len(WithGlobal(name)) <= MAX_GLOBALS /\ Len(WithGlobal(name)) \in Nat
    <3>1. Len(WithGlobal(name)) <= MAX_GLOBALS
      BY <2>1 DEF p
    <3>2. Len(WithGlobal(name)) \in Nat
      BY <2>2
    <3> QED
      BY <3>1, <3>2
  <2>4. global_slot(name) \in 0..ByteSize * ByteSize - 1
    BY <2>2, <2>3, Sizes, SizeAssumption
  <2>5. f.bytes <= 1
    BY <1>10 DEF IsFormat
  <2>6. /\ inst = [opcode |-> op, xyz |-> inst.xyz] /\ inst.xyz \in 0..I24 - 1
        /\ uYZ(inst) = global_slot(name)
        /\ FirstOf(uX(inst), uY(inst), uZ(inst), f.seen) = {ts[i].n : i \in 1..f.seen}
        /\ \A i \in 1..f.bytes : <<uX(inst), uY(inst), uZ(inst)>>[i] = ts[i].n
    <3> HIDE DEF byte
    <3> QED
      BY <1>8, <2>4, <2>5
  <2> HIDE DEF inst, byte
  <2>7. HasOperands(p, f, ts)
    BY <1>10, <2>1, <2>2, <2>6 DEF HasOperands, name
  <2> QED
    BY <1>3, <1>10, <2>1, <2>2, <2>6, <2>7 DEF Parsed
<1> QED
  BY <1>6, <1>7, <1>9, <1>10 DEF IsFormat

\* See keeps the largest register.
LEMMA SeeIs ==
  ASSUME NEW m \in 0..ByteSize - 1, NEW f, IsFormat(f), NEW ts, AreTokens(ts),
         Accepts(f, ts)
  PROVE  /\ See(m, f, ts) \in {m} \cup {ts[i].n : i \in 1..f.seen}
         /\ {m} \cup {ts[i].n : i \in 1..f.seen} \subseteq 0..See(m, f, ts)
         /\ See(m, f, ts) \in 0..ByteSize - 1
<1> DEFINE S == {m} \cup {ts[i].n : i \in 1..f.seen}
<1>1. \A i \in 1..f.seen : ts[i].n \in 0..ByteSize - 1
  BY AcceptedBytes DEF IsFormat
<1>2. S \subseteq 0..ByteSize - 1
  BY <1>1
<1>3. S # {} /\ ByteSize \in Nat
  BY Sizes
<1>4. See(m, f, ts) = Max(S)
  BY DEF See
<1> HIDE DEF S
<1>5. S \in SUBSET Nat /\ \A n \in S : n <= ByteSize
  BY <1>2, <1>3
<1>6. Max(S) \in S /\ \A n \in S : n <= Max(S)
  BY <1>3, <1>5, LargestExists
<1>7. PICK k \in S : k = Max(S)
  BY <1>6
<1>8. S \subseteq 0..k /\ k \in 0..ByteSize - 1
  BY <1>2, <1>5, <1>6, <1>7
<1> QED
  BY <1>4, <1>6, <1>7, <1>8 DEF S

-----------------------------------------------------------------------------
(* The registers that a sequence of instructions mentions *)

\* Literals that are added change nothing that an instruction says.
LEMMA LiteralsStay ==
  ASSUME NEW p, NEW q, Extends(p, q), NEW inst, HasLiteral(p, inst)
  PROVE  HasLiteral(q, inst) /\ (LoadsFunction(q, inst) <=> LoadsFunction(p, inst))
<1>1. CASE inst.opcode # "LoadLiteral"
  BY <1>1 DEF HasLiteral, LoadsFunction
<1>2. CASE inst.opcode = "LoadLiteral"
  <2>1. uYZ(inst) + 1 \in DOMAIN q /\ q[uYZ(inst) + 1] = p[uYZ(inst) + 1]
    BY <1>2 DEF HasLiteral, Extends
  <2> QED
    BY <1>2, <2>1 DEF HasLiteral, LoadsFunction
<1> QED
  BY <1>1, <1>2

LEMMA CoversStays ==
  ASSUME NEW p, NEW q, Extends(p, q), NEW m, NEW s, Covers(p, m, s),
         \A inst \in Range(s) : HasLiteral(p, inst)
  PROVE  Covers(q, m, s)
<1>1. \A inst \in Range(s) : LoadsFunction(q, inst) <=> LoadsFunction(p, inst)
  BY LiteralsStay
<1>2. {i \in Range(s) : ~LoadsFunction(q, i)} = {i \in Range(s) : ~LoadsFunction(p, i)}
  BY <1>1
<1>3. MentionedBy(q, s) = MentionedBy(p, s)
  BY <1>2 DEF MentionedBy
<1> QED
  BY <1>3 DEF Covers

LEMMA RangeOfAppend ==
  ASSUME NEW S, NEW s \in Seq(S), NEW e
  PROVE  Range(Append(s, e)) = Range(s) \cup {e}
<1>1. PICK n \in Nat : n = Len(s) /\ DOMAIN s = 1..n
  OBVIOUS
<1>2. s \in Seq(S \cup {e})
  OBVIOUS
<1>3. /\ DOMAIN Append(s, e) = 1..n + 1 /\ Append(s, e)[n + 1] = e
      /\ \A i \in 1..n : Append(s, e)[i] = s[i]
  BY <1>1, <1>2
<1>4. ASSUME NEW x \in Range(Append(s, e)) PROVE x \in Range(s) \cup {e}
  <2>1. PICK i \in 1..n + 1 : x = Append(s, e)[i]
    BY <1>3, <1>4 DEF Range
  <2>2. CASE i = n + 1
    BY <1>3, <2>1, <2>2
  <2>3. CASE i \in 1..n
    BY <1>1, <1>3, <2>1, <2>3 DEF Range
  <2> QED
    BY <1>1, <2>1, <2>2, <2>3
<1>5. ASSUME NEW x \in Range(s) PROVE x \in Range(Append(s, e))
  <2>1. PICK i \in 1..n : x = s[i]
    BY <1>1, <1>5 DEF Range
  <2>2. i \in 1..n + 1
    BY <2>1
  <2> QED
    BY <1>3, <2>1, <2>2 DEF Range
<1>6. e \in Range(Append(s, e))
  <2>1. n + 1 \in 1..n + 1
    BY <1>1
  <2> QED
    BY <1>3, <2>1 DEF Range
<1> QED
  BY <1>4, <1>5, <1>6

LEMMA UnionOfMore ==
  ASSUME NEW C, NEW D PROVE UNION (C \cup {D}) = (UNION C) \cup D
<1>1. ASSUME NEW x, x \in UNION (C \cup {D}) PROVE x \in (UNION C) \cup D
  <2>1. PICK E \in C \cup {D} : x \in E
    BY <1>1, Zenon
  <2>2. CASE E \in C
    <3>1. x \in UNION C
      BY <2>1, <2>2, Zenon
    <3> QED
      BY <3>1
  <2>3. CASE E = D
    BY <2>1, <2>3, Zenon
  <2> QED
    BY <2>1, <2>2, <2>3, Zenon
<1>2. ASSUME NEW x, x \in (UNION C) \cup D PROVE x \in UNION (C \cup {D})
  <2>1. CASE x \in D
    <3>1. D \in C \cup {D}
      OBVIOUS
    <3> QED
      BY <2>1, <3>1, Zenon
  <2>2. CASE x \in UNION C
    <3>1. PICK E \in C : x \in E
      BY <2>2, Zenon
    <3>2. E \in C \cup {D}
      OBVIOUS
    <3> QED
      BY <3>1, <3>2, Zenon
  <2> QED
    BY <1>2, <2>1, <2>2, Zenon
<1> QED
  BY <1>1, <1>2, Zenon

\* One more instruction, and what it adds.
LEMMA MentionedByAppend ==
  ASSUME NEW p, NEW S, NEW s \in Seq(S), NEW inst
  PROVE  /\ LoadsFunction(p, inst) => MentionedBy(p, Append(s, inst)) = MentionedBy(p, s)
         /\ ~LoadsFunction(p, inst) =>
              MentionedBy(p, Append(s, inst)) = MentionedBy(p, s) \cup Mentioned(inst)
<1> DEFINE A == {i \in Range(s) : ~LoadsFunction(p, i)}
           B == {i \in Range(Append(s, inst)) : ~LoadsFunction(p, i)}
<1>1. Range(Append(s, inst)) = Range(s) \cup {inst}
  BY RangeOfAppend
<1>2. MentionedBy(p, s) = {0} \cup UNION {Mentioned(i) : i \in A}
  BY DEF MentionedBy
<1>3. MentionedBy(p, Append(s, inst)) = {0} \cup UNION {Mentioned(i) : i \in B}
  BY DEF MentionedBy
<1>4. LoadsFunction(p, inst) => B = A
  BY <1>1
<1>5. ~LoadsFunction(p, inst) => B = A \cup {inst}
  BY <1>1
<1> HIDE DEF A, B
<1>6. ASSUME B = A \cup {inst}
      PROVE  UNION {Mentioned(i) : i \in B} = (UNION {Mentioned(i) : i \in A}) \cup Mentioned(inst)
  <2>1. {Mentioned(i) : i \in B} = {Mentioned(i) : i \in A} \cup {Mentioned(inst)}
    BY <1>6
  <2> DEFINE C == {Mentioned(i) : i \in A}
  <2> HIDE DEF C
  <2>2. UNION (C \cup {Mentioned(inst)}) = (UNION C) \cup Mentioned(inst)
    BY UnionOfMore
  <2> QED
    BY <2>1, <2>2 DEF C
<1>7. CASE LoadsFunction(p, inst)
  BY <1>2, <1>3, <1>4, <1>7
<1>8. CASE ~LoadsFunction(p, inst)
  BY <1>2, <1>3, <1>5, <1>6, <1>8
<1> QED
  BY <1>7, <1>8

\* An instruction of the function's own.
LEMMA CoversOwn ==
  ASSUME NEW p, NEW S, NEW s \in Seq(S), NEW inst, ~LoadsFunction(p, inst),
         NEW m \in Nat, NEW m2 \in Nat, Covers(p, m, s),
         m2 \in {m} \cup Mentioned(inst), {m} \cup Mentioned(inst) \subseteq 0..m2
  PROVE  Covers(p, m2, Append(s, inst))
<1>1. MentionedBy(p, Append(s, inst)) = MentionedBy(p, s) \cup Mentioned(inst)
  BY MentionedByAppend
<1>2. m \in MentionedBy(p, s) /\ MentionedBy(p, s) \subseteq 0..m
  BY DEF Covers
<1>3. m <= m2
  <2>1. m \in 0..m2
    OBVIOUS
  <2> QED
    BY <2>1
<1>4. 0..m \subseteq 0..m2
  BY <1>3
<1> QED
  BY <1>1, <1>2, <1>4 DEF Covers

\* The instruction that loads a nested function.
LEMMA CoversNested ==
  ASSUME NEW p, NEW S, NEW s \in Seq(S), NEW inst, LoadsFunction(p, inst), NEW m, Covers(p, m, s)
  PROVE  Covers(p, m, Append(s, inst))
  BY MentionedByAppend DEF Covers

\* The last instruction.
LEMMA HaltMentions ==
  /\ Halt \in Instruction /\ Mentioned(Halt) = {}
  /\ \A p : ~LoadsFunction(p, Halt) /\ HasLiteral(p, Halt)
<1>1. 0 \in 0..ByteSize - 1
  BY Sizes
<1>2. Halt.opcode = "Halt" /\ Halt.xyz \in 0..I24 - 1
  BY <1>1, Operands DEF Halt
<1>3. Halt = [opcode |-> Halt.opcode, xyz |-> Halt.xyz]
  BY DEF Halt, eR3
<1>4. Halt \in Instruction
  BY <1>2, <1>3, HaltIs DEF Instruction
<1>5. Mentioned(Halt) = FirstOf(uX(Halt), uY(Halt), uZ(Halt), 0)
  BY <1>2, MentionedIs, HaltIs
<1>6. Mentioned(Halt) = {}
  BY <1>5 DEF FirstOf
<1>7. \A p : ~LoadsFunction(p, Halt) /\ HasLiteral(p, Halt)
  BY <1>2 DEF LoadsFunction, HasLiteral
<1> QED
  BY <1>4, <1>6, <1>7

LEMMA CoversHalt ==
  ASSUME NEW p, NEW S, NEW s \in Seq(S), NEW m \in Nat, Covers(p, m, s)
  PROVE  Covers(p, m, Append(s, Halt))
<1>1. m \in {m} \cup Mentioned(Halt) /\ {m} \cup Mentioned(Halt) \subseteq 0..m
  BY HaltMentions
<1> QED
  BY <1>1, CoversOwn, HaltMentions

-----------------------------------------------------------------------------
(* Each kind of change keeps the invariant *)

LEMMA Replaced ==
  ASSUME NEW S, NEW s \in Seq(S), NEW t \in DOMAIN s, NEW e \in S
  PROVE  LET r == [s EXCEPT ![t] = e]
         IN /\ r \in Seq(S) /\ DOMAIN r = DOMAIN s /\ Len(r) = Len(s)
            /\ r[t] = e /\ \A i \in DOMAIN s : i # t => r[i] = s[i]
  OBVIOUS

\* The function and the frame of a call of loadfun.
LEMMA TopIs ==
  ASSUME RInv, frames # <<>>
  PROVE  \E t \in Nat \ {0} :
           /\ t = Len(frames) /\ DOMAIN frames = 1..t /\ Top = frames[t]
           /\ Top \in Frame /\ Top.fun \in DOMAIN functions
           /\ functions[Top.fun] \in Function
<1>1. PICK t \in Nat : t = Len(frames) /\ DOMAIN frames = 1..t
  BY DEF RInv, FunctionsOK
<1>2. t # 0 /\ t \in 1..t
  BY <1>1 DEF RInv, FunctionsOK
<1>3. frames[t] \in Frame
  BY <1>1, <1>2 DEF RInv, FunctionsOK
<1>4. Top = frames[t] /\ Top.fun \in DOMAIN functions
  BY <1>1, <1>3 DEF Top, Frame
<1>5. functions[Top.fun] \in Function
  BY <1>4 DEF RInv, FunctionsOK
<1> QED
  BY <1>1, <1>2, <1>3, <1>4, <1>5

\* Literals that are added change nothing in a function.
LEMMA FunctionStays ==
  ASSUME NEW p, NEW q, Extends(p, q), NEW f, Holds(p, f)
  PROVE  /\ Holds(q, f)
         /\ IsWhole(p, f) => IsWhole(q, f)
         /\ \A m, w : BeingLoaded(p, f, m, w) => BeingLoaded(q, f, m, w)
<1>1. Holds(q, f)
  BY LiteralsStay DEF Holds
<1>2. \A m : Covers(p, m, f.instructions) => Covers(q, m, f.instructions)
  BY CoversStays DEF Holds
<1> QED
  BY <1>1, <1>2 DEF IsWhole, BeingLoaded

\* A function with one more instruction, and one that is finished.
LEMMA MoreInstructions ==
  ASSUME NEW f \in Function, NEW inst \in Instruction
  PROVE  LET g == [f EXCEPT !.instructions = Append(@, inst)]
         IN /\ g \in Function /\ g.size = f.size /\ g.nregs = f.nregs
            /\ g.instructions = Append(f.instructions, inst)
            /\ f.instructions \in Seq(Instruction)
            /\ Len(f.instructions) \in Nat /\ f.size \in Nat
            /\ Len(g.instructions) = Len(f.instructions) + 1
            /\ Range(g.instructions) = Range(f.instructions) \cup {inst}
<1> DEFINE g == [f EXCEPT !.instructions = Append(@, inst)]
<1>1. f.instructions \in Seq(Instruction) /\ f.size \in Nat
  BY DEF Function
<1>2. /\ Append(f.instructions, inst) \in Seq(Instruction)
      /\ Len(Append(f.instructions, inst)) = Len(f.instructions) + 1
      /\ Len(f.instructions) \in Nat
  BY <1>1
<1>3. g \in Function /\ g.size = f.size /\ g.nregs = f.nregs
      /\ g.instructions = Append(f.instructions, inst)
  BY <1>2 DEF Function
<1>4. Range(Append(f.instructions, inst)) = Range(f.instructions) \cup {inst}
  BY <1>1, RangeOfAppend
<1> QED
  BY <1>1, <1>2, <1>3, <1>4

LEMMA FinishedIs ==
  ASSUME NEW f \in Function, NEW m \in 0..ByteSize - 1
  PROVE  LET g == Finished(f, m)
         IN /\ g \in Function /\ g.size = f.size /\ g.nregs = m + 1
            /\ m + 1 \in 1..ByteSize /\ g.nregs - 1 = m
            /\ g.instructions = Append(f.instructions, Halt)
            /\ f.instructions \in Seq(Instruction)
            /\ Len(f.instructions) \in Nat /\ f.size \in Nat
            /\ Len(g.instructions) = Len(f.instructions) + 1
            /\ Range(g.instructions) = Range(f.instructions) \cup {Halt}
<1> DEFINE g == Finished(f, m)
<1>1. f.instructions \in Seq(Instruction) /\ f.size \in Nat
  BY DEF Function
<1>2. /\ Append(f.instructions, Halt) \in Seq(Instruction)
      /\ Len(Append(f.instructions, Halt)) = Len(f.instructions) + 1
      /\ Len(f.instructions) \in Nat
  BY <1>1, HaltMentions
<1>3. m + 1 \in 0..ByteSize /\ m + 1 \in 1..ByteSize /\ m + 1 - 1 = m
  BY Sizes
<1>4. g \in Function /\ g.size = f.size /\ g.nregs = m + 1
      /\ g.instructions = Append(f.instructions, Halt)
  BY <1>2, <1>3 DEF Function, Finished
<1>5. Range(Append(f.instructions, Halt)) = Range(f.instructions) \cup {Halt}
  BY <1>1, RangeOfAppend
<1> QED
  BY <1>1, <1>2, <1>3, <1>4, <1>5

\* The function of the innermost call gets an instruction.
LEMMA AddingKeeps ==
  ASSUME RInv, frames # <<>>, ~Complete, PoolsOK', Extends(literals, literals'),
         NEW inst \in Instruction, HasLiteral(literals', inst),
         ~LoadsFunction(literals', inst),
         NEW m \in 0..ByteSize - 1,
         m \in {Top.maxreg} \cup Mentioned(inst),
         {Top.maxreg} \cup Mentioned(inst) \subseteq 0..m,
         functions' = [functions EXCEPT ![Top.fun].instructions = Append(@, inst)],
         frames' = [frames EXCEPT ![Len(frames)].maxreg = m]
  PROVE  RInv'
<1>1. PICK t \in Nat \ {0} :
         /\ t = Len(frames) /\ DOMAIN frames = 1..t /\ Top = frames[t]
         /\ Top \in Frame /\ Top.fun \in DOMAIN functions
         /\ functions[Top.fun] \in Function
  BY TopIs
<1>2. PICK k \in DOMAIN functions : k = Top.fun /\ k = frames[t].fun
  BY <1>1
<1>3. PICK f \in Function : f = functions[k]
  BY <1>1, <1>2
<1>4. PICK g \in Function :
         /\ g = [f EXCEPT !.instructions = Append(@, inst)]
         /\ g.size = f.size /\ g.instructions = Append(f.instructions, inst)
         /\ f.instructions \in Seq(Instruction)
         /\ Len(f.instructions) \in Nat /\ f.size \in Nat
         /\ Len(g.instructions) = Len(f.instructions) + 1
         /\ Range(g.instructions) = Range(f.instructions) \cup {inst}
  BY MoreInstructions
<1>5. functions' = [functions EXCEPT ![k] = g]
  BY <1>2, <1>3, <1>4
<1>6. Len(f.instructions) < f.size
  BY <1>2, <1>3, <1>4 DEF Complete
<1>7. functions \in Seq(Function) /\ frames \in Seq(Frame)
  BY DEF RInv, FunctionsOK
<1>8. /\ functions' \in Seq(Function) /\ DOMAIN functions' = DOMAIN functions
      /\ functions'[k] = g
      /\ \A j \in DOMAIN functions : j # k => functions'[j] = functions[j]
  BY <1>2, <1>4, <1>5, <1>7
<1>9. PICK fr \in Frame : /\ fr = [frames[t] EXCEPT !.maxreg = m]
                          /\ fr.fun = frames[t].fun /\ fr.maxreg = m
  <2> DEFINE r == [frames[t] EXCEPT !.maxreg = m]
  <2>1. r \in Frame /\ r.fun = frames[t].fun /\ r.maxreg = m
    BY <1>1 DEF Frame
  <2> HIDE DEF r
  <2> QED
    BY <2>1 DEF r
<1>10. frames' = [frames EXCEPT ![t] = fr]
  BY <1>1, <1>9
<1>11. Frame' = Frame
  BY <1>8 DEF Frame
<1>12. /\ frames' \in Seq(Frame) /\ DOMAIN frames' = 1..t /\ Len(frames') = t
       /\ frames'[t] = fr /\ \A i \in 1..t : i # t => frames'[i] = frames[i]
  <2>1. fr \in Frame
    BY <1>9
  <2>2. t \in DOMAIN frames
    BY <1>1
  <2>3. LET s == [frames EXCEPT ![t] = fr]
        IN /\ s \in Seq(Frame) /\ DOMAIN s = DOMAIN frames /\ Len(s) = Len(frames)
           /\ s[t] = fr /\ \A i \in DOMAIN frames : i # t => s[i] = frames[i]
    BY <1>7, <2>1, <2>2, Replaced
  <2> QED
    BY <1>1, <1>10, <2>3
<1>13. FunctionsOK'
  BY <1>8, <1>11, <1>12 DEF FunctionsOK
<1>14. \A i \in 1..t : frames'[i].fun = frames[i].fun
  BY <1>9, <1>12
<1>15. \A j \in DOMAIN functions : Holds(literals, functions[j])
  BY DEF RInv, LiteralsHeld
<1>16. Holds(literals', f) /\ Holds(literals', g)
  BY <1>3, <1>4, <1>15, FunctionStays DEF Holds
<1>17. LiteralsHeld'
  BY <1>8, <1>15, <1>16, FunctionStays DEF LiteralsHeld
<1>18. FramesDiffer'
  BY <1>1, <1>12, <1>14 DEF RInv, FramesDiffer
<1>19. BeingLoaded(literals', g, m, FALSE)
  <2>1. BeingLoaded(literals, f, Top.maxreg, t < Len(frames))
    BY <1>1, <1>2, <1>3 DEF RInv, AllLoading
  <2>2. Covers(literals', Top.maxreg, f.instructions)
    BY <1>3, <1>15, <2>1, FunctionStays DEF BeingLoaded
  <2>3. Top.maxreg \in Nat /\ m \in Nat
    BY <1>1, Sizes DEF Frame
  <2>4. Covers(literals', m, g.instructions)
    BY <1>4, <2>2, <2>3, CoversOwn
  <2> QED
    BY <1>4, <1>6, <2>4 DEF BeingLoaded
<1>20. ASSUME NEW i \in 1..t
       PROVE  BeingLoaded(literals', functions'[frames'[i].fun], frames'[i].maxreg, i < t)
  <2>1. CASE i = t
    <3>1. functions'[frames'[i].fun] = g /\ frames'[i].maxreg = m /\ ~(i < t)
      BY <1>2, <1>8, <1>9, <1>12, <1>14, <2>1
    <3> QED
      BY <1>19, <3>1 DEF BeingLoaded
  <2>2. CASE i # t
    <3>1. frames[i].fun # k /\ frames[i].fun \in DOMAIN functions
      <4>1. i \in DOMAIN frames /\ t \in DOMAIN frames
        BY <1>1
      <4>2. frames[i] \in Frame
        BY <1>7, <4>1
      <4>3. frames[i].fun # frames[t].fun
        BY <2>2, <4>1 DEF RInv, FramesDiffer
      <4> QED
        BY <1>2, <4>2, <4>3 DEF Frame
    <3>2. /\ functions'[frames'[i].fun] = functions[frames[i].fun]
          /\ frames'[i].maxreg = frames[i].maxreg
      BY <1>8, <1>12, <2>2, <3>1
    <3>3. BeingLoaded(literals, functions[frames[i].fun], frames[i].maxreg, i < t)
      BY <1>1 DEF RInv, AllLoading
    <3> QED
      BY <1>15, <3>1, <3>2, <3>3, FunctionStays
  <2> QED
    BY <2>1, <2>2
<1>21. AllLoading'
  BY <1>12, <1>20 DEF AllLoading
<1>22. OthersWhole'
  <2> SUFFICES ASSUME NEW j \in DOMAIN functions
               PROVE  \/ IsWhole(literals', functions'[j])
                      \/ \E i \in 1..t : frames'[i].fun = j
    BY <1>8, <1>12 DEF OthersWhole
  <2>1. CASE \E i \in 1..t : frames[i].fun = j
    BY <1>14, <2>1
  <2>2. CASE ~\E i \in 1..t : frames[i].fun = j
    <3>1. IsWhole(literals, functions[j])
      BY <1>1, <2>2 DEF RInv, OthersWhole
    <3>2. j # k
      BY <1>2, <2>2
    <3> QED
      BY <1>8, <1>15, <3>1, <3>2, FunctionStays
  <2> QED
    BY <2>1, <2>2
<1> QED
  BY <1>13, <1>17, <1>18, <1>21, <1>22 DEF RInv

\* A call of loadfun ends, and no other is waiting for it.
LEMMA EndModuleKeeps == ASSUME RInv, EndModule PROVE RInv'
<1>1. PICK t \in Nat \ {0} :
         /\ t = Len(frames) /\ DOMAIN frames = 1..t /\ Top = frames[t]
         /\ Top \in Frame /\ Top.fun \in DOMAIN functions
         /\ functions[Top.fun] \in Function
  <2>1. frames # <<>>
    BY DEF EndModule
  <2> QED
    BY <2>1, TopIs
<1>2. t = 1 /\ frames' = <<>> /\ Complete /\ literals' = literals /\ globals' = globals
  BY <1>1 DEF EndModule
<1>3. PICK k \in DOMAIN functions : k = Top.fun /\ k = frames[1].fun
  BY <1>1, <1>2
<1>4. PICK m \in 0..ByteSize - 1 : m = Top.maxreg
  BY <1>1 DEF Frame
<1>5. PICK f \in Function : f = functions[k]
  BY <1>1, <1>3
<1>6. PICK g \in Function :
         /\ g = Finished(f, m)
         /\ g.size = f.size /\ g.nregs = m + 1
         /\ m + 1 \in 1..ByteSize /\ g.nregs - 1 = m
         /\ g.instructions = Append(f.instructions, Halt)
         /\ f.instructions \in Seq(Instruction)
         /\ Len(f.instructions) \in Nat /\ f.size \in Nat
         /\ Len(g.instructions) = Len(f.instructions) + 1
         /\ Range(g.instructions) = Range(f.instructions) \cup {Halt}
  BY FinishedIs
<1>7. functions' = [functions EXCEPT ![k] = g]
  BY <1>3, <1>4, <1>5, <1>6 DEF EndModule
<1>8. functions \in Seq(Function)
  BY DEF RInv, FunctionsOK
<1>9. /\ functions' \in Seq(Function) /\ DOMAIN functions' = DOMAIN functions
      /\ functions'[k] = g
      /\ \A j \in DOMAIN functions : j # k => functions'[j] = functions[j]
  BY <1>6, <1>7, <1>8
<1>10. FunctionsOK'
  BY <1>2, <1>9 DEF FunctionsOK
<1>11. BeingLoaded(literals, f, m, 1 < Len(frames))
  <2>1. 1 \in DOMAIN frames
    BY <1>1, <1>2
  <2>2. BeingLoaded(literals, functions[frames[1].fun], frames[1].maxreg, 1 < Len(frames))
    BY <2>1 DEF RInv, AllLoading
  <2>3. f = functions[frames[1].fun] /\ m = frames[1].maxreg
    BY <1>1, <1>2, <1>3, <1>4, <1>5
  <2> QED
    BY <2>2, <2>3
<1>12. IsWhole(literals, g)
  <2>1. Covers(literals, m, g.instructions)
    BY <1>6, <1>11, CoversHalt, Sizes DEF BeingLoaded
  <2>2. Len(f.instructions) = f.size
    BY <1>2, <1>3, <1>5, <1>6, <1>11 DEF BeingLoaded, Complete
  <2> QED
    BY <1>6, <2>1, <2>2 DEF IsWhole
<1>13. Holds(literals, g)
  <2>1. Holds(literals, f)
    BY <1>5 DEF RInv, LiteralsHeld
  <2> QED
    BY <1>6, <2>1, HaltMentions DEF Holds
<1>14. LiteralsHeld'
  BY <1>2, <1>9, <1>13 DEF RInv, LiteralsHeld
<1>15. OthersWhole'
  <2> SUFFICES ASSUME NEW j \in DOMAIN functions PROVE IsWhole(literals, functions'[j])
    BY <1>2, <1>9 DEF OthersWhole
  <2>1. CASE j = k
    BY <1>9, <1>12, <2>1
  <2>2. CASE j # k
    <3>1. ~\E i \in DOMAIN frames : frames[i].fun = j
      BY <1>1, <1>2, <1>3, <2>2
    <3> QED
      BY <1>9, <2>2, <3>1 DEF RInv, OthersWhole
  <2> QED
    BY <2>1, <2>2
<1>16. FramesDiffer' /\ AllLoading'
  BY <1>2 DEF FramesDiffer, AllLoading
<1>17. PoolsOK'
  BY <1>2 DEF RInv, PoolsOK
<1> QED
  BY <1>10, <1>14, <1>15, <1>16, <1>17 DEF RInv

\* A call of loadfun begins.
LEMMA BeginKeeps ==
  ASSUME RInv, frames = <<>> \/ ~Complete,
         NEW arity \in 0..Word \div 2 - 1, NEW count \in Nat, NEW reg \in Nat,
         BeginFunction(arity, count, reg)
  PROVE  RInv'
<1> DEFINE g == [arity |-> arity, size |-> count, nregs |-> 0, instructions |-> <<>>]
<1>1. PICK n \in Nat : n = Len(functions) /\ DOMAIN functions = 1..n
  BY DEF RInv, FunctionsOK
<1>2. PICK t \in Nat : t = Len(frames) /\ DOMAIN frames = 1..t
  BY DEF RInv, FunctionsOK
<1>3. g \in Function /\ Len(g.instructions) = 0 /\ g.size \in Nat /\ Range(g.instructions) = {}
  <2>1. 0 \in 0..ByteSize
    BY Sizes
  <2>2. <<>> \in Seq(Instruction)
    OBVIOUS
  <2>3. g \in Function
    BY <2>1, <2>2 DEF Function
  <2> QED
    BY <2>3 DEF Range
<1>4. functions' = Append(functions, g) /\ literals' = literals /\ globals' = globals
  BY DEF BeginFunction
<1> DEFINE fr == [fun |-> n + 1, maxreg |-> 0, reg |-> reg]
<1>5. frames' = Append(frames, fr)
  BY <1>1 DEF BeginFunction
<1>6. functions \in Seq(Function) /\ frames \in Seq(Frame)
  BY DEF RInv, FunctionsOK
<1>7. g.instructions = <<>>
  OBVIOUS
<1> HIDE DEF g
<1>8. /\ functions' \in Seq(Function) /\ DOMAIN functions' = 1..n + 1
      /\ functions'[n + 1] = g
      /\ \A j \in 1..n : functions'[j] = functions[j]
  BY <1>1, <1>3, <1>4, <1>6
<1>9. fr \in Frame' /\ Frame \subseteq Frame'
  <2>1. 0 \in 0..ByteSize - 1
    BY Sizes
  <2>2. n + 1 \in 1..n + 1 /\ 1..n \subseteq 1..n + 1
    OBVIOUS
  <2> QED
    BY <1>1, <1>8, <2>1, <2>2 DEF Frame
<1>10. frames \in Seq(Frame')
  BY <1>6, <1>9
<1>11. fr.fun = n + 1 /\ fr.maxreg = 0
  OBVIOUS
<1> HIDE DEF fr
<1>12. /\ frames' \in Seq(Frame') /\ DOMAIN frames' = 1..t + 1 /\ Len(frames') = t + 1
       /\ frames'[t + 1] = fr /\ \A i \in 1..t : frames'[i] = frames[i]
  BY <1>2, <1>5, <1>9, <1>10
<1>13. FunctionsOK'
  BY <1>8, <1>12 DEF FunctionsOK
<1>14. Holds(literals, g)
  BY <1>3 DEF Holds
<1>15. LiteralsHeld'
  BY <1>1, <1>4, <1>8, <1>14 DEF RInv, LiteralsHeld
<1>16. \A i \in 1..t : frames[i].fun \in 1..n /\ frames[i].fun # n + 1
  <2> SUFFICES ASSUME NEW i \in 1..t PROVE frames[i].fun \in 1..n /\ frames[i].fun # n + 1
    OBVIOUS
  <2>1. frames[i] \in Frame
    BY <1>2, <1>6
  <2> QED
    BY <1>1, <2>1 DEF Frame
<1>17. FramesDiffer'
  BY <1>2, <1>11, <1>12, <1>16 DEF RInv, FramesDiffer
<1>18. BeingLoaded(literals, g, 0, FALSE)
  <2>1. {i \in Range(g.instructions) : ~LoadsFunction(literals, i)} = {}
    BY <1>3
  <2>2. MentionedBy(literals, g.instructions) = {0}
    BY <2>1 DEF MentionedBy
  <2> QED
    BY <1>3, <2>2 DEF BeingLoaded, Covers
<1>19. ASSUME NEW i \in 1..t + 1
       PROVE  BeingLoaded(literals', functions'[frames'[i].fun], frames'[i].maxreg, i < t + 1)
  <2>1. CASE i = t + 1
    BY <1>4, <1>8, <1>11, <1>12, <1>18, <2>1 DEF BeingLoaded
  <2>2. CASE i # t + 1
    <3>1. i \in 1..t /\ t # 0
      BY <2>2
    <3>2. /\ functions'[frames'[i].fun] = functions[frames[i].fun]
          /\ frames'[i].maxreg = frames[i].maxreg
      BY <1>8, <1>12, <1>16, <3>1
    <3>3. BeingLoaded(literals, functions[frames[i].fun], frames[i].maxreg, i < t)
      BY <1>2, <3>1 DEF RInv, AllLoading
    <3>4. Len(functions[frames[i].fun].instructions) < functions[frames[i].fun].size
      <4>1. CASE i < t
        BY <3>3, <4>1 DEF BeingLoaded
      <4>2. CASE i = t
        <5>1. frames # <<>>
          BY <1>2, <3>1
        <5>2. ~(Len(functions[frames[t].fun].instructions) >= functions[frames[t].fun].size)
          BY <1>2, <5>1 DEF Complete, Top
        <5>3. functions[frames[t].fun] \in Function
          BY <1>1, <1>6, <1>16, <3>1, <4>2
        <5>4. /\ Len(functions[frames[t].fun].instructions) \in Nat
              /\ functions[frames[t].fun].size \in Nat
          BY <5>3 DEF Function
        <5> QED
          BY <4>2, <5>2, <5>4
      <4> QED
        BY <3>1, <4>1, <4>2
    <3> QED
      BY <1>4, <3>2, <3>3, <3>4 DEF BeingLoaded
  <2> QED
    BY <2>1, <2>2
<1>20. AllLoading'
  BY <1>12, <1>19 DEF AllLoading
<1>21. OthersWhole'
  <2> SUFFICES ASSUME NEW j \in 1..n + 1
               PROVE  \/ IsWhole(literals, functions'[j])
                      \/ \E i \in 1..t + 1 : frames'[i].fun = j
    BY <1>4, <1>8, <1>12 DEF OthersWhole
  <2>1. CASE j = n + 1
    <3>1. t + 1 \in 1..t + 1 /\ frames'[t + 1].fun = j
      BY <1>11, <1>12, <2>1
    <3> QED
      BY <3>1
  <2>2. CASE j \in 1..n
    <3>1. IsWhole(literals, functions[j]) \/ \E i \in 1..t : frames[i].fun = j
      BY <1>1, <1>2, <2>2 DEF RInv, OthersWhole
    <3>2. CASE IsWhole(literals, functions[j])
      BY <1>8, <2>2, <3>2
    <3>3. CASE \E i \in 1..t : frames[i].fun = j
      <4>1. PICK i \in 1..t : frames[i].fun = j
        BY <3>3
      <4>2. i \in 1..t + 1 /\ frames'[i].fun = j
        BY <1>12, <4>1
      <4> QED
        BY <4>2
    <3> QED
      BY <3>1, <3>2, <3>3
  <2> QED
    BY <2>1, <2>2
<1>22. PoolsOK'
  BY <1>4 DEF RInv, PoolsOK
<1> QED
  BY <1>13, <1>15, <1>17, <1>20, <1>21, <1>22 DEF RInv

\* A call of loadfun ends, and the function becomes a literal that the one
\* around it loads.
LEMMA EndNestedKeeps == ASSUME RInv, EndNested PROVE RInv'
<1>1. PICK t \in Nat \ {0} :
         /\ t = Len(frames) /\ DOMAIN frames = 1..t /\ Top = frames[t]
         /\ Top \in Frame /\ Top.fun \in DOMAIN functions
         /\ functions[Top.fun] \in Function
  <2>1. frames # <<>>
    BY DEF EndNested
  <2> QED
    BY <2>1, TopIs
<1>2. PICK d \in Nat \ {0} : t = d + 1
  <2>1. t > 1
    BY <1>1 DEF EndNested
  <2> QED
    BY <2>1, t - 1 \in Nat \ {0}
<1>3. functions \in Seq(Function) /\ frames \in Seq(Frame)
  BY DEF RInv, FunctionsOK
<1>4. PICK k \in DOMAIN functions : k = Top.fun /\ k = frames[t].fun
  BY <1>1
<1>5. d \in DOMAIN frames /\ t \in DOMAIN frames /\ frames[d] \in Frame /\ d # t
  BY <1>1, <1>2, <1>3
<1>6. PICK q \in DOMAIN functions : q = frames[d].fun /\ q = frames[Len(frames) - 1].fun
  <2>1. Len(frames) - 1 = d
    BY <1>1, <1>2
  <2> QED
    BY <1>5, <2>1 DEF Frame
<1>7. k # q
  BY <1>4, <1>5, <1>6 DEF RInv, FramesDiffer
<1>8. PICK m \in 0..ByteSize - 1 : m = Top.maxreg
  BY <1>1 DEF Frame
<1>9. PICK f \in Function : f = functions[k]
  BY <1>1, <1>4
<1>10. PICK h \in Function : h = functions[q]
  BY <1>3, <1>6
<1> DEFINE v == mkVMFunctionValue(Top.fun)
           inst == eR1U16("LoadLiteral", Top.reg, literal_slot(v))
<1>11. CASE Top.reg >= ByteSize \/ ~Fits(WithLiteral(v))
  <2>1. UNCHANGED <<literals, globals, functions, frames>>
    BY <1>11 DEF EndNested, Abort
  <2> QED
    BY <2>1 DEF RInv, PoolsOK, FunctionsOK, LiteralsHeld, FramesDiffer, AllLoading,
                OthersWhole, Frame
<1>12. CASE ~(Top.reg >= ByteSize \/ ~Fits(WithLiteral(v)))
  <2>1. /\ literals' = WithLiteral(v) /\ globals' = globals /\ frames' = Front(frames)
        /\ functions' = [functions EXCEPT ![Top.fun] = Finished(@, Top.maxreg),
                                          ![q].instructions = Append(@, inst)]
        /\ Complete
    BY <1>6, <1>12 DEF EndNested
  <2>2. v.tag = "VMFunction"
    BY DEF mkVMFunctionValue
  <2> HIDE DEF v
  <2>3. /\ WithLiteral(v) \in Seq(Range(WithLiteral(v)))
        /\ Extends(literals, WithLiteral(v))
        /\ literal_slot(v) \in 0..Len(WithLiteral(v)) - 1
        /\ literal_slot(v) + 1 \in DOMAIN WithLiteral(v)
        /\ WithLiteral(v)[literal_slot(v) + 1].tag = v.tag
    <3>1. literals \in Seq(Range(literals))
      BY DEF RInv, PoolsOK
    <3> QED
      BY <3>1, LiteralIsFound
  <2>4. literal_slot(v) \in 0..ByteSize * ByteSize - 1
    BY <1>12, <2>3, Sizes DEF Fits
  <2>5. Top.reg \in 0..ByteSize - 1
    BY <1>1, <1>12, Sizes DEF Frame
  <2>6. inst.opcode = "LoadLiteral" /\ inst.xyz \in 0..I24 - 1 /\ uYZ(inst) = literal_slot(v)
    BY <2>4, <2>5, IndexOperands
  <2>7. inst = [opcode |-> inst.opcode, xyz |-> inst.xyz]
    BY DEF eR1U16
  <2> HIDE DEF inst
  <2>8. inst \in Instruction
    BY <2>6, <2>7, HaltIs DEF Instruction
  <2>9. LoadsFunction(literals', inst) /\ HasLiteral(literals', inst)
    BY <2>1, <2>2, <2>3, <2>6 DEF LoadsFunction, HasLiteral
  <2>10. Extends(literals, literals')
    BY <2>1, <2>3
  <2>11. PoolsOK'
    BY <1>12, <2>1, <2>3 DEF RInv, PoolsOK
  <2>12. PICK g \in Function :
           /\ g = Finished(f, m)
           /\ g.size = f.size /\ g.nregs = m + 1
           /\ m + 1 \in 1..ByteSize /\ g.nregs - 1 = m
           /\ g.instructions = Append(f.instructions, Halt)
           /\ f.instructions \in Seq(Instruction)
           /\ Len(f.instructions) \in Nat /\ f.size \in Nat
           /\ Len(g.instructions) = Len(f.instructions) + 1
           /\ Range(g.instructions) = Range(f.instructions) \cup {Halt}
    BY FinishedIs
  <2>13. PICK h2 \in Function :
           /\ h2 = [h EXCEPT !.instructions = Append(@, inst)]
           /\ h2.size = h.size /\ h2.instructions = Append(h.instructions, inst)
           /\ h.instructions \in Seq(Instruction)
           /\ Len(h.instructions) \in Nat /\ h.size \in Nat
           /\ Len(h2.instructions) = Len(h.instructions) + 1
           /\ Range(h2.instructions) = Range(h.instructions) \cup {inst}
    BY <2>8, MoreInstructions
  <2>14. functions' = [functions EXCEPT ![k] = g, ![q] = h2]
    BY <1>4, <1>6, <1>7, <1>8, <1>9, <1>10, <2>1, <2>12, <2>13
  <2>15. /\ functions' \in Seq(Function) /\ DOMAIN functions' = DOMAIN functions
         /\ functions'[k] = g /\ functions'[q] = h2
         /\ \A j \in DOMAIN functions : j \notin {k, q} => functions'[j] = functions[j]
    <3> DEFINE s == [functions EXCEPT ![k] = g]
    <3>1. g \in Function /\ h2 \in Function
      BY <2>12, <2>13
    <3>2. /\ s \in Seq(Function) /\ DOMAIN s = DOMAIN functions
          /\ s[k] = g /\ \A j \in DOMAIN functions : j # k => s[j] = functions[j]
      BY <1>3, <3>1, Replaced
    <3>3. functions' = [s EXCEPT ![q] = h2]
      BY <2>14
    <3> HIDE DEF s
    <3>4. q \in DOMAIN s
      BY <3>2
    <3>5. /\ functions' \in Seq(Function) /\ DOMAIN functions' = DOMAIN s
          /\ functions'[q] = h2 /\ \A j \in DOMAIN s : j # q => functions'[j] = s[j]
      BY <3>1, <3>2, <3>3, <3>4, Replaced
    <3> QED
      BY <1>7, <3>2, <3>5
  <2>16. /\ frames' \in Seq(Frame) /\ DOMAIN frames' = 1..d /\ Len(frames') = d
         /\ \A i \in 1..d : frames'[i] = frames[i]
    <3>1. frames' = SubSeq(frames, 1, d)
      BY <1>1, <1>2, <2>1 DEF Front
    <3> QED
      BY <1>1, <1>2, <1>3, <3>1
  <2>17. Frame' = Frame
    BY <2>15 DEF Frame
  <2>18. FunctionsOK'
    BY <2>15, <2>16, <2>17 DEF FunctionsOK
  <2>19. \A j \in DOMAIN functions : Holds(literals, functions[j])
    BY DEF RInv, LiteralsHeld
  <2>20. Holds(literals', g) /\ Holds(literals', h2)
    <3>1. Holds(literals', f) /\ Holds(literals', h)
      BY <1>9, <1>10, <2>10, <2>19, FunctionStays
    <3> QED
      BY <2>9, <2>12, <2>13, <3>1, HaltMentions DEF Holds
  <2>21. LiteralsHeld'
    <3> SUFFICES ASSUME NEW j \in DOMAIN functions PROVE Holds(literals', functions'[j])
      BY <2>15 DEF LiteralsHeld
    <3>1. CASE j \in {k, q}
      BY <2>15, <2>20, <3>1
    <3>2. CASE j \notin {k, q}
      BY <2>10, <2>15, <2>19, <3>2, FunctionStays
    <3> QED
      BY <3>1, <3>2
  <2>22. FramesDiffer'
    BY <1>1, <1>2, <2>16 DEF RInv, FramesDiffer
  <2>23. ASSUME NEW i \in 1..d
         PROVE  /\ BeingLoaded(literals, functions[frames[i].fun], frames[i].maxreg, TRUE)
                /\ frames[i].fun \in DOMAIN functions /\ frames[i].fun # k
    <3>1. i \in DOMAIN frames /\ i < Len(frames) /\ i # t
      BY <1>1, <1>2
    <3>2. BeingLoaded(literals, functions[frames[i].fun], frames[i].maxreg, i < Len(frames))
      BY <3>1 DEF RInv, AllLoading
    <3>3. frames[i] \in Frame
      BY <1>3, <3>1
    <3>4. frames[i].fun # frames[t].fun
      BY <1>5, <3>1 DEF RInv, FramesDiffer
    <3> QED
      BY <1>4, <3>1, <3>2, <3>3, <3>4 DEF Frame, BeingLoaded
  <2>24. BeingLoaded(literals', h2, frames[d].maxreg, FALSE)
    <3>1. BeingLoaded(literals, h, frames[d].maxreg, TRUE)
      <4>1. d \in 1..d
        BY <1>2
      <4> QED
        BY <1>6, <1>10, <2>23, <4>1
    <3>2. Covers(literals', frames[d].maxreg, h.instructions)
      BY <1>10, <2>10, <2>19, <3>1, FunctionStays DEF BeingLoaded
    <3>3. Covers(literals', frames[d].maxreg, h2.instructions)
      BY <2>9, <2>13, <3>2, CoversNested
    <3> QED
      BY <2>13, <3>1, <3>3 DEF BeingLoaded
  <2>25. ASSUME NEW i \in 1..d
         PROVE  BeingLoaded(literals', functions'[frames'[i].fun], frames'[i].maxreg, i < d)
    <3>1. CASE i = d
      <4>1. frames'[i] = frames[d] /\ ~(i < d)
        BY <2>16, <3>1
      <4>2. functions'[frames'[i].fun] = h2
        BY <1>6, <2>15, <4>1
      <4> QED
        BY <2>24, <4>1, <4>2 DEF BeingLoaded
    <3>2. CASE i # d
      <4>1. frames[i].fun # q
        <5>1. i \in DOMAIN frames
          BY <1>1, <1>2
        <5> QED
          BY <1>5, <1>6, <3>2, <5>1 DEF RInv, FramesDiffer
      <4>2. /\ functions'[frames'[i].fun] = functions[frames[i].fun]
            /\ frames'[i].maxreg = frames[i].maxreg
        BY <2>15, <2>16, <2>23, <4>1
      <4>3. BeingLoaded(literals', functions[frames[i].fun], frames[i].maxreg, TRUE)
        BY <2>10, <2>19, <2>23, FunctionStays
      <4> QED
        BY <4>2, <4>3 DEF BeingLoaded
    <3> QED
      BY <3>1, <3>2
  <2>26. AllLoading'
    BY <2>16, <2>25 DEF AllLoading
  <2>27. IsWhole(literals', g)
    <3>1. BeingLoaded(literals, f, m, t < Len(frames))
      <4>1. BeingLoaded(literals, functions[frames[t].fun], frames[t].maxreg, t < Len(frames))
        BY <1>5 DEF RInv, AllLoading
      <4>2. f = functions[frames[t].fun] /\ m = frames[t].maxreg
        BY <1>1, <1>4, <1>8, <1>9
      <4> QED
        BY <4>1, <4>2
    <3>2. Covers(literals', m, f.instructions)
      BY <1>9, <2>10, <2>19, <3>1, FunctionStays DEF BeingLoaded
    <3>3. Covers(literals', m, g.instructions)
      BY <2>12, <3>2, CoversHalt, Sizes
    <3>4. Len(f.instructions) = f.size
      BY <1>4, <1>9, <2>1, <2>12, <3>1 DEF BeingLoaded, Complete
    <3> QED
      BY <2>12, <3>3, <3>4 DEF IsWhole
  <2>28. OthersWhole'
    <3> SUFFICES ASSUME NEW j \in DOMAIN functions
                 PROVE  \/ IsWhole(literals', functions'[j])
                        \/ \E i \in 1..d : frames'[i].fun = j
      BY <2>15, <2>16 DEF OthersWhole
    <3>1. CASE j = k
      BY <2>15, <2>27, <3>1
    <3>2. CASE j = q
      <4>1. d \in 1..d /\ frames'[d].fun = j
        <5>1. d \in 1..d
          BY <1>2
        <5>2. frames'[d] = frames[d]
          BY <2>16, <5>1
        <5> QED
          BY <1>6, <3>2, <5>1, <5>2
      <4> QED
        BY <4>1
    <3>3. CASE j \notin {k, q}
      <4>1. CASE IsWhole(literals, functions[j])
        BY <2>10, <2>15, <2>19, <3>3, <4>1, FunctionStays
      <4>2. CASE \E i \in DOMAIN frames : frames[i].fun = j
        <5>1. PICK i \in DOMAIN frames : frames[i].fun = j
          BY <4>2
        <5>2. i # t
          BY <1>4, <3>3, <5>1
        <5>3. i \in 1..d /\ frames'[i].fun = j
          BY <1>1, <1>2, <2>16, <5>1, <5>2
        <5> QED
          BY <5>3
      <4> QED
        BY <4>1, <4>2 DEF RInv, OthersWhole
    <3> QED
      BY <3>1, <3>2, <3>3
  <2> QED
    BY <2>11, <2>18, <2>21, <2>22, <2>26, <2>28 DEF RInv
<1> QED
  BY <1>11, <1>12

\* A line that is not a .load line is parsed.
LEMMA ParseLineKeeps ==
  ASSUME RInv, frames # <<>>, ~Complete, NEW name, NEW ts, AreTokens(ts),
         ParseLine(name, ts)
  PROVE  RInv'
<1>1. PICK t \in Nat \ {0} :
         /\ t = Len(frames) /\ DOMAIN frames = 1..t /\ Top = frames[t]
         /\ Top \in Frame /\ Top.fun \in DOMAIN functions
         /\ functions[Top.fun] \in Function
  BY TopIs
<1>2. Top.maxreg \in 0..ByteSize - 1
  BY <1>1 DEF Frame
<1>3. Extends(literals, literals)
  BY DEF Extends
<1>4. literals \in Seq(Range(literals)) /\ globals \in Seq(Range(globals))
  BY DEF RInv, PoolsOK
<1>5. CASE ~HasEntry(name)
  <2>1. /\ functions' = [functions EXCEPT ![Top.fun].instructions = Append(@, Halt)]
        /\ literals' = literals /\ globals' = globals /\ frames' = frames
    BY <1>5 DEF ParseLine
  <2>2. frames' = [frames EXCEPT ![Len(frames)].maxreg = Top.maxreg]
    <3>1. [frames[t] EXCEPT !.maxreg = frames[t].maxreg] = frames[t]
      BY <1>1 DEF Frame
    <3>2. [frames EXCEPT ![t] = frames[t]] = frames
      BY <1>1 DEF RInv, FunctionsOK
    <3> QED
      BY <1>1, <2>1, <3>1, <3>2
  <2>3. PoolsOK'
    BY <2>1 DEF RInv, PoolsOK
  <2>4. /\ Halt \in Instruction /\ HasLiteral(literals', Halt)
        /\ ~LoadsFunction(literals', Halt)
        /\ Top.maxreg \in {Top.maxreg} \cup Mentioned(Halt)
        /\ {Top.maxreg} \cup Mentioned(Halt) \subseteq 0..Top.maxreg
    BY <1>2, HaltMentions
  <2>5. Extends(literals, literals')
    BY <1>3, <2>1
  <2> QED
    BY <1>2, <2>1, <2>2, <2>3, <2>4, <2>5, AddingKeeps
<1>6. CASE HasEntry(name)
  <2> DEFINE entry == itable_entry(name)
             f == Format[entry[3]]
             p == Parse(entry[2], f, ts)
  <2>1. CASE ~Accepts(f, ts) \/ ~Fits(p.literals) \/ Len(p.globals) > MAX_GLOBALS
    <3>1. UNCHANGED <<literals, globals, functions, frames>>
      BY <1>6, <2>1 DEF ParseLine, Abort
    <3> QED
      BY <3>1 DEF RInv, PoolsOK, FunctionsOK, LiteralsHeld, FramesDiffer, AllLoading,
                  OthersWhole, Frame
  <2>2. CASE ~(~Accepts(f, ts) \/ ~Fits(p.literals) \/ Len(p.globals) > MAX_GLOBALS)
    <3> DEFINE m == See(Top.maxreg, f, ts)
               op == entry[2]
    <3>1. /\ functions' = [functions EXCEPT ![Top.fun].instructions = Append(@, p.inst)]
          /\ frames' = [frames EXCEPT ![Len(frames)].maxreg = See(@, f, ts)]
          /\ literals' = p.literals /\ globals' = p.globals
      BY <1>6, <2>2 DEF ParseLine
    <3>2. frames' = [frames EXCEPT ![Len(frames)].maxreg = m]
      BY <1>1, <3>1
    <3>3. op \in Opcode /\ entry[3] = ParserOf(op)
      BY <1>6, EntryIs
    <3>4. IsFormat(f) /\ f = Format[ParserOf(op)]
      BY <3>3, ParserIsKnown, Formats
    <3> HIDE DEF entry, f, op
    <3>5. Accepts(f, ts) /\ Fits(p.literals) /\ ~(Len(p.globals) > MAX_GLOBALS)
      BY <2>2
    <3>6. Len(p.globals) <= MAX_GLOBALS
      <4>1. p.globals = globals \/ \E g : p.globals = WithGlobal(g)
        BY DEF Parse
      <4>2. p.globals \in Seq(Range(p.globals))
        BY <1>4, <4>1, GlobalIsFound
      <4>3. Len(p.globals) \in Nat
        BY <4>2
      <4> QED
        BY <3>5, <4>3, Sizes
    <3>7. Parsed(p, op, f, ts)
      <4>1. p = Parse(op, f, ts)
        BY DEF op
      <4> HIDE DEF p
      <4>2. Fits(Parse(op, f, ts).literals) /\ Len(Parse(op, f, ts).globals) <= MAX_GLOBALS
        BY <3>5, <3>6, <4>1
      <4>3. Parsed(Parse(op, f, ts), op, f, ts)
        BY <1>4, <3>4, <3>5, <4>2, ParseMakes
      <4> QED
        BY <4>1, <4>3
    <3>8. PICK inst : inst = p.inst
      OBVIOUS
    <3> HIDE DEF p
    <3>9. inst = [opcode |-> op, xyz |-> inst.xyz] /\ inst.xyz \in 0..I24 - 1
      BY <3>7, <3>8 DEF Parsed
    <3>10. inst \in Instruction /\ inst.opcode = op
      BY <3>3, <3>9 DEF Instruction
    <3>11. Mentioned(inst) = {ts[i].n : i \in 1..f.seen}
      BY <3>3, <3>4, <3>7, <3>8, <3>10, MentionedIs DEF Parsed
    <3>12. HasLiteral(literals', inst) /\ ~LoadsFunction(literals', inst)
      <4>1. CASE op = "LoadLiteral"
        <5>1. f.rest = "literal"
          BY <3>4, <4>1, HaltIs DEF Format, F
        <5> QED
          BY <3>1, <3>7, <3>8, <5>1 DEF Parsed, HasLiteral, LoadsFunction
      <4>2. CASE op # "LoadLiteral"
        BY <3>10, <4>2 DEF HasLiteral, LoadsFunction
      <4> QED
        BY <4>1, <4>2
    <3>13. /\ m \in {Top.maxreg} \cup Mentioned(inst)
           /\ {Top.maxreg} \cup Mentioned(inst) \subseteq 0..m
           /\ m \in 0..ByteSize - 1
      BY <1>2, <3>4, <3>5, <3>11, SeeIs
    <3>14. PoolsOK' /\ Extends(literals, literals')
      BY <3>1, <3>5, <3>6, <3>7 DEF Parsed, PoolsOK
    <3> HIDE DEF m
    <3>15. functions' = [functions EXCEPT ![Top.fun].instructions = Append(@, inst)]
      BY <3>1, <3>8
    <3> QED
      BY <3>2, <3>10, <3>12, <3>13, <3>14, <3>15, AddingKeeps
  <2> QED
    BY <2>1, <2>2
<1> QED
  BY <1>5, <1>6

\* A line that is read.
LEMMA ReadLineKeeps == ASSUME RInv, NEW line \in Line, ReadLine(line) PROVE RInv'
<1> DEFINE ts == tokens(line)
<1>1. AreTokens(ts)
  BY TokensOfLine
<1>2. ts # <<>> /\ IsName(ts[1], ".load") =>
        \A i \in DOMAIN ts : IsInt(ts[i]) => ts[i].n \in 0..Word \div 2 - 1
  BY TokensOfLine
<1>3. \/ Abort
      \/ frames = <<>> /\ LoadModule(ts)
      \/ frames # <<>> /\ ~Complete /\ GetInstruction(ts)
  BY DEF ReadLine
<1> HIDE DEF ts
<1>4. PICK n \in Nat : n = Len(ts) /\ DOMAIN ts = 1..n
  BY <1>1 DEF AreTokens
<1>5. ASSUME UNCHANGED <<literals, globals, functions, frames>> PROVE RInv'
  BY <1>5 DEF RInv, PoolsOK, FunctionsOK, LiteralsHeld, FramesDiffer, AllLoading,
              OthersWhole, Frame
<1>6. \A x \in 0..Word \div 2 - 1 : Signed(x) = x /\ x \in Nat
  BY Sizes DEF Signed
<1>7. CASE frames = <<>> /\ LoadModule(ts)
  <2>1. CASE Len(ts) = 3 /\ IsName(ts[1], ".load") /\ IsName(ts[2], "module") /\ IsInt(ts[3])
    <3>1. 3 \in DOMAIN ts /\ ts # <<>>
      BY <1>1, <1>4, <2>1
    <3>2. ts[3].n \in 0..Word \div 2 - 1
      BY <1>2, <2>1, <3>1
    <3>3. BeginFunction(0, Signed(ts[3].n), 0)
      BY <1>7, <2>1 DEF LoadModule
    <3>4. 0 \in 0..Word \div 2 - 1 /\ Signed(ts[3].n) \in Nat
      BY <1>6, <3>2, Sizes
    <3> QED
      BY <1>7, <3>3, <3>4, BeginKeeps
  <2>2. CASE ~(Len(ts) = 3 /\ IsName(ts[1], ".load") /\ IsName(ts[2], "module") /\ IsInt(ts[3]))
    BY <1>5, <1>7, <2>2 DEF LoadModule, Abort
  <2> QED
    BY <2>1, <2>2
<1>8. CASE frames # <<>> /\ ~Complete /\ GetInstruction(ts)
  <2>1. CASE ts = <<>> \/ ts[1].type # "TNAME"
    BY <1>5, <1>8, <2>1 DEF GetInstruction, Abort
  <2>2. CASE ~(ts = <<>> \/ ts[1].type # "TNAME") /\ ts[1].name = ".load"
    <3>1. LoadNested(ts)
      BY <1>8, <2>2 DEF GetInstruction
    <3>2. CASE Len(ts) >= 5 /\ IsInt(ts[2]) /\ IsName(ts[3], "function")
               /\ IsInt(ts[4]) /\ IsInt(ts[5])
      <4>1. {2, 4, 5} \subseteq DOMAIN ts
        BY <1>4, <3>2
      <4>2. ts # <<>> /\ IsName(ts[1], ".load")
        BY <2>2 DEF IsName
      <4>3. \A i \in {2, 4, 5} : ts[i].n \in 0..Word \div 2 - 1
        BY <1>2, <3>2, <4>1, <4>2
      <4>4. BeginFunction(Signed(ts[4].n), Signed(ts[5].n), ts[2].n)
        BY <3>1, <3>2 DEF LoadNested
      <4>5. /\ Signed(ts[4].n) \in 0..Word \div 2 - 1
            /\ Signed(ts[5].n) \in Nat /\ ts[2].n \in Nat
        BY <1>6, <4>3
      <4> QED
        BY <1>8, <4>4, <4>5, BeginKeeps
    <3>3. CASE ~(Len(ts) >= 5 /\ IsInt(ts[2]) /\ IsName(ts[3], "function")
                 /\ IsInt(ts[4]) /\ IsInt(ts[5]))
      BY <1>5, <3>1, <3>3 DEF LoadNested, Abort
    <3> QED
      BY <3>2, <3>3
  <2>3. CASE ~(ts = <<>> \/ ts[1].type # "TNAME") /\ ts[1].name # ".load"
    <3>1. ParseLine(ts[1].name, Tail(ts))
      BY <1>8, <2>3 DEF GetInstruction
    <3>2. AreTokens(Tail(ts))
      BY <1>1, <2>3, TailTokens
    <3> QED
      BY <1>8, <3>1, <3>2, ParseLineKeeps
  <2> QED
    BY <2>1, <2>2, <2>3
<1>9. CASE Abort
  BY <1>5, <1>9 DEF Abort
<1> QED
  BY <1>3, <1>7, <1>8, <1>9

LEMMA RInvInit == Init => RInv
<1> SUFFICES ASSUME Init PROVE RInv
  OBVIOUS
<1>1. /\ literals \in Seq(Range(literals)) /\ Len(literals) = 1
      /\ globals \in Seq(Range(globals)) /\ Len(globals) = 1
  BY DEF Init, Range
<1>2. PoolsOK
  BY <1>1, Sizes, SizeAssumption DEF PoolsOK, Fits
<1>3. functions = <<>> /\ frames = <<>>
  BY DEF Init
<1> QED
  BY <1>2, <1>3 DEF RInv, FunctionsOK, LiteralsHeld, FramesDiffer, AllLoading, OthersWhole

LEMMA RInvNext == RInv /\ [Next]_vars => RInv'
<1> SUFFICES ASSUME RInv, [Next]_vars PROVE RInv'
  OBVIOUS
<1>1. CASE \E line \in Line : ReadLine(line)
  BY <1>1, ReadLineKeeps
<1>2. CASE EndOfFile \/ Ended \/ UNCHANGED vars
  <2>1. UNCHANGED <<literals, globals, functions, frames>>
    BY <1>2 DEF EndOfFile, Ended, vars
  <2> QED
    BY <2>1 DEF RInv, PoolsOK, FunctionsOK, LiteralsHeld, FramesDiffer, AllLoading,
                OthersWhole, Frame
<1> QED
  BY <1>1, <1>2, EndModuleKeeps, EndNestedKeeps DEF Next

LEMMA TextInvariant == TextOK /\ [Next]_vars => TextOK'
<1> SUFFICES ASSUME TextOK, [Next]_vars PROVE TextOK'
  OBVIOUS
<1>1. CASE \E line \in Line : ReadLine(line)
  <2>1. PICK line \in Line : ReadLine(line)
    BY <1>1
  <2>2. text' = Append(text, line) /\ Len(text) < MaxLines
    BY <2>1 DEF ReadLine
  <2>3. text' \in Seq(Line) /\ Len(text') <= MaxLines
    BY <2>2, Sizes DEF TextOK
  <2>4. outcome' \in {outcome, "aborted"}
    BY <2>1 DEF ReadLine, LoadModule, GetInstruction, LoadNested, ParseLine, BeginFunction, Abort
  <2> QED
    BY <2>3, <2>4 DEF TextOK
<1>2. CASE EndOfFile \/ EndModule \/ EndNested \/ Ended \/ UNCHANGED vars
  <2>1. text' = text /\ outcome' \in {outcome, "aborted", "done"}
    BY <1>2 DEF EndOfFile, EndModule, EndNested, Ended, Abort, vars
  <2> QED
    BY <2>1 DEF TextOK
<1> QED
  BY <1>1, <1>2 DEF Next

-----------------------------------------------------------------------------

\* In every state of every loading.
THEOREM Invariance == Spec => [](RInv /\ TextOK)
<1>1. Init => TextOK
  BY Sizes DEF Init, TextOK
<1> QED
  BY <1>1, RInvInit, RInvNext, TextInvariant, PTL DEF Spec

\* Every instruction is a word whose operand has 24 bits, a function counts no
\* more registers than a byte does, and no function gets more instructions than
\* its line says, and a halt.
THEOREM TypeCorrectness == Spec => []TypeOK
<1>1. RInv /\ TextOK => TypeOK
  <2> SUFFICES ASSUME RInv, TextOK PROVE TypeOK
    OBVIOUS
  <2>1. functions \in Seq(Function) /\ frames \in Seq(Frame)
    BY DEF RInv, FunctionsOK
  <2>2. ASSUME NEW f \in Range(functions)
        PROVE  /\ f.arity \in 0..Word \div 2 - 1 /\ f.nregs \in 0..ByteSize
               /\ Len(f.instructions) \in 0..f.size + 1
               /\ \A inst \in Range(f.instructions) : inst.xyz \in 0..I24 - 1
    <3>1. PICK k \in DOMAIN functions : f = functions[k]
      BY <2>2 DEF Range
    <3>2. f \in Function
      BY <2>1, <3>1
    <3>3. /\ f.arity \in 0..Word \div 2 - 1 /\ f.nregs \in 0..ByteSize
          /\ f.instructions \in Seq(Instruction) /\ f.size \in Nat
      BY <3>2 DEF Function
    <3>4. Len(f.instructions) \in Nat
      BY <3>3
    <3>5. Len(f.instructions) <= f.size + 1
      <4>1. CASE IsWhole(literals, f)
        BY <3>3, <4>1 DEF IsWhole
      <4>2. CASE \E i \in DOMAIN frames : frames[i].fun = k
        <5>1. Len(f.instructions) <= f.size
          BY <3>1, <4>2 DEF RInv, AllLoading, BeingLoaded
        <5> QED
          BY <3>3, <3>4, <5>1
      <4> QED
        BY <3>1, <4>1, <4>2 DEF RInv, OthersWhole
    <3>6. ASSUME NEW inst \in Range(f.instructions) PROVE inst.xyz \in 0..I24 - 1
      <4>1. inst \in Instruction
        BY <3>3, <3>6 DEF Range
      <4> QED
        BY <4>1 DEF Instruction
    <3> QED
      BY <3>3, <3>4, <3>5, <3>6
  <2>3. ASSUME NEW fr \in Range(frames)
        PROVE  fr.fun \in DOMAIN functions /\ fr.maxreg < ByteSize
    <3>1. fr \in Frame
      BY <2>1, <2>3 DEF Range
    <3> QED
      BY <3>1, Sizes DEF Frame
  <2> QED
    BY <2>2, <2>3 DEF TypeOK, TextOK
<1> QED
  BY <1>1, Invariance, PTL

\* However functions and modules are nested, a loaded function has every register that
\* its lines mention, those of .load lines apart, and the last it has is mentioned.
THEOREM RegistersCorrectness == Spec => []OwnRegistersCovered
<1>1. RInv => OwnRegistersCovered
  <2> DEFINE Own(f) == {0} \cup UNION {Mentioned(inst) :
                         inst \in {i \in Range(f.instructions) : ~FromNested(i)}}
  <2> SUFFICES ASSUME RInv, NEW f \in Loaded
               PROVE  /\ \A inst \in Range(f.instructions) :
                           ~FromNested(inst) => \A r \in Mentioned(inst) : r < f.nregs
                      /\ f.nregs - 1 \in
                           {0} \cup UNION {Mentioned(inst) : inst \in Range(f.instructions)}
    BY DEF OwnRegistersCovered
  <2>1. PICK k \in DOMAIN functions : f = functions[k]
    BY DEF Loaded, Range
  <2>2. f \in Function
    BY <2>1 DEF RInv, FunctionsOK
  <2>3. f.size \in Nat /\ Len(f.instructions) = f.size + 1
    BY <2>2 DEF Function, Loaded
  <2>4. IsWhole(literals, f)
    <3>1. CASE \E i \in DOMAIN frames : frames[i].fun = k
      <4>1. Len(f.instructions) <= f.size
        BY <2>1, <3>1 DEF RInv, AllLoading, BeingLoaded
      <4> QED
        BY <2>3, <4>1
    <3> QED
      BY <2>1, <3>1 DEF RInv, OthersWhole
  <2>5. MentionedBy(literals, f.instructions) = Own(f)
    BY DEF MentionedBy, LoadsFunction, FromNested
  <2>6. f.nregs \in Nat /\ f.nregs - 1 \in Own(f) /\ Own(f) \subseteq 0..f.nregs - 1
    BY <2>4, <2>5, Sizes DEF IsWhole, Covers
  <2>7. ASSUME NEW inst \in Range(f.instructions), ~FromNested(inst), NEW r \in Mentioned(inst)
        PROVE  r < f.nregs
    <3>1. r \in Own(f)
      BY <2>7
    <3>2. r \in 0..f.nregs - 1
      BY <2>6, <3>1
    <3> QED
      BY <2>6, <3>2
  <2>8. Own(f) \subseteq {0} \cup UNION {Mentioned(inst) : inst \in Range(f.instructions)}
    OBVIOUS
  <2> QED
    BY <2>6, <2>7, <2>8
<1> QED
  BY <1>1, Invariance, PTL

-----------------------------------------------------------------------------
(* The lines of the file *)

\* Line l is the one that begins the k-th function.
Begins(t, l, k) ==
  l \in DOMAIN t /\ IsHeader(t[l]) /\ Cardinality(Headers(t, l)) = k

\* The n instructions that follow line h end at line l, and not before.
Reaches(t, h, n, l) ==
  /\ h \in 0..l /\ \A j \in h..l : Owed(t, j) \in Int
  /\ Owed(t, l) = Owed(t, h) - n
  /\ \A j \in h..l - 1 : Owed(t, j) > Owed(t, h) - n

\* The instruction is the one that line l shows.
Shows(inst, l) ==
  IF IsHeader(text[l])
  THEN /\ LoadsFunction(literals, inst) /\ uX(inst) = text[l][2].l
       /\ uYZ(inst) + 1 \in DOMAIN literals
       /\ literals[uYZ(inst) + 1].f \in DOMAIN functions
       /\ Begins(text, l, literals[uYZ(inst) + 1].f)
  ELSE IF HasEntry(text[l][1].name) THEN Says(inst, text[l]) ELSE inst = Halt

\* The instructions of the function that line h begins are those its lines show.
ReadFrom(h, f) ==
  /\ f.size = Count(text[h])
  /\ \A i \in DOMAIN f.instructions :
       IF i > f.size THEN f.instructions[i] = Halt
       ELSE \E l \in h + 1..Len(text) :
              Reaches(text, h, i - 1, l - 1) /\ Shows(f.instructions[i], l)

\* Line h begins the function of frame j, of which the lines up to the last one,
\* or up to the one that begins the function nested in it, have been read.
FrameAt(j, h) ==
  LET n == Len(functions[frames[j].fun].instructions) IN
  /\ Begins(text, h, frames[j].fun)
  /\ j > 1 => frames[j].reg = text[h][2].l
  /\ j = Len(frames) => Reaches(text, h, n, Len(text))
  /\ j < Len(frames) => \E g \in h + 1..Len(text) :
       Begins(text, g, frames[j + 1].fun) /\ Reaches(text, h, n, g - 1)

\* The k-th function is being read, or has been.
FunctionRead(k) ==
  \E h \in DOMAIN text, f \in Range(functions) :
    f = functions[k] /\ Begins(text, h, k) /\ ReadFrom(h, f)

\* What LoadedAsWritten needs to know.
EveryFunctionRead == \A k \in DOMAIN functions : FunctionRead(k)
FramesAtLines == \A j \in DOMAIN frames : \E h \in DOMAIN text : FrameAt(j, h)
LInv ==
  /\ EveryFunctionRead
  /\ outcome = "loading" =>
       /\ FramesAtLines
       /\ Cardinality(Headers(text, Len(text))) = Len(functions)
       /\ IsFiniteSet(Announced(text, Len(text)))

-----------------------------------------------------------------------------

\* What the first lines say depends on no later line.
LEMMA FirstLines ==
  ASSUME NEW t, NEW u, NEW n \in Nat, \A i \in 1..n : u[i] = t[i], NEW l \in 0..n
  PROVE  /\ Headers(u, l) = Headers(t, l)
         /\ Announced(u, l) = Announced(t, l) /\ Owed(u, l) = Owed(t, l)
<1>1. \A i \in 1..l : u[i] = t[i]
  OBVIOUS
<1>2. Headers(u, l) = Headers(t, l)
  BY <1>1 DEF Headers
<1>3. \A h \in Headers(t, l) : u[h] = t[h]
  BY <1>1 DEF Headers
<1>4. Announced(u, l) = Announced(t, l)
  BY <1>2, <1>3 DEF Announced
<1> QED
  BY <1>2, <1>4 DEF Owed

LEMMA HeadersFinite ==
  ASSUME NEW t, NEW l \in Nat
  PROVE  /\ IsFiniteSet(Headers(t, l)) /\ Cardinality(Headers(t, l)) \in Nat
         /\ Headers(t, l) \subseteq 1..l
<1>1. Headers(t, l) \subseteq 1..l
  BY DEF Headers
<1>2. IsFiniteSet(1..l)
  BY FS_Interval
<1> QED
  BY <1>1, <1>2, FS_Subset, FS_CardinalityType

\* One more line.
LEMMA NextHeaders ==
  ASSUME NEW t, NEW l \in Nat
  PROVE  Headers(t, l + 1) = IF IsHeader(t[l + 1]) THEN Headers(t, l) \cup {l + 1}
                             ELSE Headers(t, l)
BY DEF Headers

LEMMA NextCount ==
  ASSUME NEW t, NEW l \in Nat
  PROVE  Cardinality(Headers(t, l + 1)) =
           IF IsHeader(t[l + 1]) THEN Cardinality(Headers(t, l)) + 1
           ELSE Cardinality(Headers(t, l))
<1>1. l + 1 \notin Headers(t, l) /\ IsFiniteSet(Headers(t, l))
      /\ Cardinality(Headers(t, l)) \in Nat
  BY HeadersFinite
<1>2. CASE IsHeader(t[l + 1])
  <2>1. Cardinality(Headers(t, l) \cup {l + 1}) = Cardinality(Headers(t, l)) + 1
    BY <1>1, FS_AddElement
  <2> QED
    BY <1>2, <2>1, NextHeaders
<1>3. CASE ~IsHeader(t[l + 1])
  BY <1>1, <1>3, NextHeaders
<1> QED
  BY <1>2, <1>3

\* A function begins at one line.
LEMMA BeginsOnce ==
  ASSUME NEW t, NEW k, NEW l \in Nat, NEW m \in Nat, Begins(t, l, k), Begins(t, m, k)
  PROVE  l = m
<1>1. ASSUME NEW i \in Nat, NEW j \in Nat, Begins(t, i, k), Begins(t, j, k), i < j
      PROVE  FALSE
  <2>1. Headers(t, i) \in SUBSET Headers(t, j)
    BY <1>1 DEF Headers
  <2>2. IsFiniteSet(Headers(t, j)) /\ Cardinality(Headers(t, j)) = Cardinality(Headers(t, i))
    BY <1>1, HeadersFinite DEF Begins
  <2>3. Headers(t, i) = Headers(t, j)
    BY <2>1, <2>2, FS_Subset
  <2>4. CASE j = 0
    BY <1>1, <2>4
  <2>5. CASE j # 0
    BY <1>1, <2>3, <2>5 DEF Headers, Begins
  <2> QED
    BY <2>4, <2>5
<1> QED
  BY <1>1

LEMMA BeginsStays ==
  ASSUME NEW t \in Seq(Line), NEW u \in Seq(Line), Extends(t, u), NEW l, NEW k, Begins(t, l, k)
  PROVE  Begins(u, l, k)
<1>1. l \in 1..Len(t) /\ Len(t) \in Nat /\ \A i \in 1..Len(t) : i \in DOMAIN u /\ u[i] = t[i]
  BY DEF Begins, Extends
<1>2. Headers(u, l) = Headers(t, l)
  BY <1>1, FirstLines
<1> QED
  BY <1>1, <1>2 DEF Begins

LEMMA CountOfCopies ==
  ASSUME NEW x, NEW c \in Nat
  PROVE  IsFiniteSet({x} \X (1..c)) /\ Cardinality({x} \X (1..c)) = c
<1>1. IsFiniteSet({x}) /\ Cardinality({x}) = 1
  BY FS_Singleton
<1>2. IsFiniteSet(1..c) /\ Cardinality(1..c) = c
  BY FS_Interval
<1> DEFINE S == {x}
           T == 1..c
<1> HIDE DEF S, T
<1>3. ASSUME IsFiniteSet(S), IsFiniteSet(T)
      PROVE  IsFiniteSet(S \X T) /\ Cardinality(S \X T) = Cardinality(S) * Cardinality(T)
  BY <1>3, FS_Product, Zenon
<1> QED
  BY <1>1, <1>2, <1>3 DEF S, T

\* A line that begins no function stands for one instruction, and one that does
\* for one, and for as many more as it announces.
LEMMA OwedNext ==
  ASSUME NEW t, NEW l \in Nat, IsFiniteSet(Announced(t, l)),
         IsHeader(t[l + 1]) => Count(t[l + 1]) \in Nat
  PROVE  /\ IsFiniteSet(Announced(t, l + 1)) /\ Owed(t, l) \in Int
         /\ Owed(t, l + 1) =
              IF IsHeader(t[l + 1]) THEN Owed(t, l) - 1 + Count(t[l + 1]) ELSE Owed(t, l) - 1
<1>1. Cardinality(Announced(t, l)) \in Nat
  BY FS_CardinalityType
<1>2. CASE ~IsHeader(t[l + 1])
  <2>1. Announced(t, l + 1) = Announced(t, l)
    BY <1>2, NextHeaders DEF Announced
  <2>2. Owed(t, l) \in Int /\ Owed(t, l + 1) = Owed(t, l) - 1
    BY <1>1, <2>1 DEF Owed
  <2> QED
    BY <1>2, <2>1, <2>2
<1>3. CASE IsHeader(t[l + 1])
  <2> DEFINE c == Count(t[l + 1])
             N == {l + 1} \X (1..c)
             A == Announced(t, l)
  <2>1. c \in Nat
    BY <1>3
  <2>2. Headers(t, l + 1) = Headers(t, l) \cup {l + 1}
    BY <1>3, NextHeaders
  <2>3. Announced(t, l + 1) = A \cup N
    BY <2>2 DEF Announced
  <2>4. A \cap N = {}
    <3>1. \A p \in A : p[1] \in Headers(t, l)
      BY DEF Announced
    <3>2. \A p \in N : p[1] = l + 1
      OBVIOUS
    <3> HIDE DEF A, N
    <3> QED
      BY <3>1, <3>2, HeadersFinite
  <2>5. IsFiniteSet(N) /\ Cardinality(N) = c
    <3> HIDE DEF c
    <3> QED
      BY <2>1, CountOfCopies
  <2> HIDE DEF A, N, c
  <2>8. IsFiniteSet(A \cup N) /\ Cardinality(A \cup N) = Cardinality(A) + c
    <3>1. /\ IsFiniteSet(A \cup N)
          /\ Cardinality(A \cup N) = Cardinality(A) + Cardinality(N) - Cardinality(A \cap N)
      BY <2>5, FS_Union DEF A
    <3>2. Cardinality(A \cap N) = 0
      BY <2>4, FS_EmptySet
    <3> QED
      BY <1>1, <2>1, <2>5, <3>1, <3>2 DEF A
  <2>9. Owed(t, l) \in Int /\ Owed(t, l + 1) = Owed(t, l) - 1 + c
    <3>1. /\ Owed(t, l) = Cardinality(A) - l
          /\ Owed(t, l + 1) = Cardinality(A \cup N) - (l + 1)
      BY <2>3 DEF Owed, A
    <3>2. Cardinality(A) \in Nat
      BY <1>1 DEF A
    <3> QED
      BY <2>1, <2>8, <3>1, <3>2
  <2> QED
    BY <1>3, <2>3, <2>8, <2>9 DEF c
<1> QED
  BY <1>2, <1>3

-----------------------------------------------------------------------------
(* How far the instructions of a function reach *)

LEMMA ReachesStays ==
  ASSUME NEW t, NEW u, NEW b \in Nat, \A i \in 1..b : u[i] = t[i],
         NEW h, NEW n, NEW l \in 0..b, Reaches(t, h, n, l)
  PROVE  Reaches(u, h, n, l)
<1>1. h \in 0..l /\ \A j \in 0..l : Owed(u, j) = Owed(t, j)
  BY FirstLines DEF Reaches
<1> QED
  BY <1>1 DEF Reaches

\* No instruction ends at the line that begins the function.
LEMMA ReachesItself ==
  ASSUME NEW t, NEW h \in Nat, Owed(t, h) \in Int
  PROVE  Reaches(t, h, 0, h)
BY DEF Reaches

\* A line stands for one instruction more.
LEMMA ReachesNext ==
  ASSUME NEW t, NEW h, NEW n \in Nat, NEW l \in Nat, Reaches(t, h, n, l),
         Owed(t, l + 1) = Owed(t, l) - 1
  PROVE  Reaches(t, h, n + 1, l + 1)
<1> DEFINE W(m) == Owed(t, m)
<1>1. /\ h \in 0..l /\ W(l) = W(h) - n /\ \A j \in h..l : W(j) \in Int
      /\ \A j \in h..l - 1 : W(j) > W(h) - n
  BY DEF Reaches
<1>2. W(h) \in Int /\ W(l) \in Int /\ W(l + 1) = W(h) - (n + 1)
  BY <1>1
<1>3. \A j \in h..l + 1 : W(j) \in Int
  BY <1>1, <1>2
<1>4. \A j \in h..l : W(j) > W(h) - (n + 1)
  BY <1>1, <1>2
<1> HIDE DEF W
<1>5. (l + 1) - 1 = l /\ h \in 0..l + 1
  BY <1>1
<1> QED
  BY <1>2, <1>3, <1>4, <1>5 DEF Reaches, W

\* So do the lines of a nested function, all together.
LEMMA ReachesOver ==
  ASSUME NEW t, NEW h, NEW n \in Nat, NEW g \in Nat, h < g, NEW c \in Nat, NEW l \in Nat,
         Reaches(t, h, n, g - 1), Owed(t, g) = Owed(t, g - 1) - 1 + c, Reaches(t, g, c, l)
  PROVE  Reaches(t, h, n + 1, l)
<1> DEFINE W(m) == Owed(t, m)
<1>1. /\ h \in 0..g - 1 /\ W(g - 1) = W(h) - n /\ \A j \in h..g - 1 : W(j) \in Int
      /\ \A j \in h..(g - 1) - 1 : W(j) > W(h) - n
  BY DEF Reaches
<1>2. /\ g \in 0..l /\ W(l) = W(g) - c /\ \A j \in g..l : W(j) \in Int
      /\ \A j \in g..l - 1 : W(j) > W(g) - c
  BY DEF Reaches
<1>3. W(h) \in Int /\ W(g) \in Int /\ W(g - 1) \in Int
  BY <1>1, <1>2
<1>4. W(g) - c = W(h) - (n + 1) /\ W(l) = W(h) - (n + 1)
  BY <1>1, <1>2, <1>3
<1>5. \A j \in h..l : W(j) \in Int
  BY <1>1, <1>2
<1>6. \A j \in h..g - 1 : W(j) > W(h) - (n + 1)
  BY <1>1, <1>3
<1> HIDE DEF W
<1>7. \A j \in h..l - 1 : W(j) > W(h) - (n + 1)
  BY <1>1, <1>2, <1>4, <1>6
<1> QED
  BY <1>1, <1>2, <1>4, <1>5, <1>7 DEF Reaches, W


-----------------------------------------------------------------------------
(* What has been read stays read *)

\* The file is read on, and what was found in the pools stays where it is.
Grows ==
  /\ text \in Seq(Line) /\ text' \in Seq(Line) /\ Extends(text, text')
  /\ Extends(literals, literals') /\ Extends(globals, globals')
  /\ DOMAIN functions \subseteq DOMAIN functions'

LEMMA SaysStays ==
  ASSUME Grows, NEW inst, NEW ws, Says(inst, ws)
  PROVE  Says(inst, ws)'
<1>1. /\ \A i \in DOMAIN literals : i \in DOMAIN literals' /\ literals'[i] = literals[i]
      /\ \A i \in DOMAIN globals : i \in DOMAIN globals' /\ globals'[i] = globals[i]
  BY DEF Grows, Extends
<1> QED
  BY <1>1 DEF Says

LEMMA LinesStay ==
  ASSUME Grows
  PROVE  /\ Len(text) \in Nat /\ Len(text') \in Nat /\ Len(text) <= Len(text')
         /\ DOMAIN text = 1..Len(text) /\ DOMAIN text' = 1..Len(text')
         /\ \A l \in 1..Len(text) : text'[l] = text[l]
<1>1. PICK n \in Nat : n = Len(text) /\ DOMAIN text = 1..n
  BY DEF Grows
<1>2. PICK m \in Nat : m = Len(text') /\ DOMAIN text' = 1..m
  BY DEF Grows
<1>3. \A l \in 1..n : l \in 1..m /\ text'[l] = text[l]
  BY <1>1, <1>2 DEF Grows, Extends
<1>4. n <= m
  BY <1>3
<1> QED
  BY <1>1, <1>2, <1>3, <1>4

LEMMA ShowsStays ==
  ASSUME Grows, NEW inst, NEW l \in DOMAIN text, Shows(inst, l)
  PROVE  Shows(inst, l)'
<1>1. text'[l] = text[l]
  BY LinesStay
<1>2. CASE IsHeader(text[l])
  <2>1. PICK i : i = uYZ(inst) + 1
    OBVIOUS
  <2>2. /\ inst.opcode = "LoadLiteral" /\ literals[i].tag = "VMFunction"
        /\ uX(inst) = text[l][2].l /\ i \in DOMAIN literals
        /\ literals[i].f \in DOMAIN functions /\ Begins(text, l, literals[i].f)
    BY <1>2, <2>1 DEF Shows, LoadsFunction
  <2>3. i \in DOMAIN literals' /\ literals'[i] = literals[i]
        /\ literals[i].f \in DOMAIN functions'
    BY <2>2 DEF Grows, Extends
  <2>4. PICK k : k = literals[i].f
    OBVIOUS
  <2>5. Begins(text', l, k)
    BY <2>2, <2>4, BeginsStays DEF Grows
  <2> QED
    BY <1>1, <1>2, <2>1, <2>2, <2>3, <2>4, <2>5 DEF Shows, LoadsFunction
<1>3. CASE ~IsHeader(text[l]) /\ HasEntry(text[l][1].name)
  <2>1. PICK ws : ws = text[l]
    OBVIOUS
  <2>2. Says(inst, ws)
    BY <1>3, <2>1 DEF Shows
  <2>3. Says(inst, ws)'
    BY <2>2, SaysStays
  <2> QED
    BY <1>1, <1>3, <2>1, <2>3 DEF Shows
<1>4. CASE ~IsHeader(text[l]) /\ ~HasEntry(text[l][1].name)
  BY <1>1, <1>4 DEF Shows
<1> QED
  BY <1>2, <1>3, <1>4

\* The line of one instruction.
ReadAt(inst, h, i) ==
  \E l \in h + 1..Len(text) : Reaches(text, h, i - 1, l - 1) /\ Shows(inst, l)

LEMMA ReadAtStays ==
  ASSUME Grows, NEW inst, NEW h \in Nat, NEW i, ReadAt(inst, h, i)
  PROVE  ReadAt(inst, h, i)'
<1>1. PICK l \in h + 1..Len(text) : Reaches(text, h, i - 1, l - 1) /\ Shows(inst, l)
  BY DEF ReadAt
<1>2. /\ Len(text) \in Nat /\ Len(text') \in Nat /\ Len(text) <= Len(text')
      /\ DOMAIN text = 1..Len(text) /\ \A m \in 1..Len(text) : text'[m] = text[m]
  BY LinesStay
<1>3. l \in h + 1..Len(text') /\ l \in DOMAIN text /\ l - 1 \in 0..Len(text)
  BY <1>1, <1>2
<1>4. Shows(inst, l)'
  BY <1>1, <1>3, ShowsStays
<1>5. Reaches(text', h, i - 1, l - 1)
  BY <1>1, <1>2, <1>3, ReachesStays
<1> QED
  BY <1>3, <1>4, <1>5 DEF ReadAt

\* A function of which no more is read.
LEMMA ReadFromStays ==
  ASSUME Grows, NEW h \in DOMAIN text, NEW f, ReadFrom(h, f)
  PROVE  ReadFrom(h, f)'
<1>1. text'[h] = text[h] /\ h \in Nat
  BY LinesStay
<1>2. ASSUME NEW i \in DOMAIN f.instructions
      PROVE  (IF i > f.size THEN f.instructions[i] = Halt
              ELSE ReadAt(f.instructions[i], h, i))'
  <2>1. IF i > f.size THEN f.instructions[i] = Halt ELSE ReadAt(f.instructions[i], h, i)
    BY DEF ReadFrom, ReadAt
  <2>2. PICK inst : inst = f.instructions[i]
    OBVIOUS
  <2> QED
    BY <1>1, <2>1, <2>2, ReadAtStays
<1> QED
  BY <1>1, <1>2 DEF ReadFrom, ReadAt

-----------------------------------------------------------------------------
(* An instruction says what its line does *)

IsWord(w) == w.kind \in {"sym", "int", "real"} /\ (w.kind = "int" => w.l \in Int)

\* The words of a line, and their tokens.
AreWords(ws) == ws \in Seq(Range(ws)) /\ \A i \in DOMAIN ws : IsWord(ws[i])

LEMMA WordsOfLine == ASSUME NEW line \in Line PROVE AreWords(line)
<1>1. line \in Seq(Range(line))
  BY LineAssumption
<1>2. \A i \in DOMAIN line : line[i] \in Range(line)
  BY DEF Range
<1>3. \A w \in Range(line) : IsWord(w)
  BY LineAssumption DEF IsWord
<1> QED
  BY <1>1, <1>2, <1>3 DEF AreWords

\* The number that a word shows is the one that its token has.
LEMMA NumberOfToken ==
  ASSUME NEW w, IsWord(w)
  PROVE  /\ IsInt(Token(w)) => ShownNumber(w) = Signed(Token(w).n)
         /\ IsByte(Token(w)) => w.l = Token(w).n
         /\ Token(w).type = "TDOUBLE" => ShownNumber(w) = Token(w).x
         /\ w.kind = "sym" <=> Token(w).type = "TNAME"
         /\ w.kind = "sym" => Token(w).name = w.name
<1>1. CASE w.kind = "sym"
  BY <1>1 DEF Token, IsInt, IsByte
<1>2. CASE w.kind = "real"
  BY <1>2 DEF Token, IsInt, IsByte, ShownNumber
<1>3. CASE w.kind = "int"
  <2>1. PICK l \in Int : l = w.l
    BY <1>3 DEF IsWord
  <2>2. /\ Word \in Nat /\ Word > 1 /\ Word \div 2 \in Nat /\ Word \div 2 <= Word
        /\ ByteSize \in Nat /\ ByteSize < Word \div 2
    <3>1. Word \in Nat /\ Word > 1 /\ ByteSize \in Nat /\ Word = ByteSize * I24 /\ ByteSize > 1
          /\ I24 \in Nat /\ I24 > ByteSize
      BY Sizes DEF Word
    <3>2. PICK d \in Nat : ByteSize = 2 + d
      BY <3>1, ByteSize - 2 \in Nat
    <3>3. ByteSize * I24 = 2 * I24 + d * I24 /\ d * I24 \in Nat
      BY <3>1, <3>2
    <3>4. Word >= 2 * I24
      BY <3>1, <3>3
    <3> QED
      BY <3>1, <3>4
  <2>3. CASE l \in -(Word \div 2)..Word - 1
    <3>1. Token(w) = [type |-> "TU32", n |-> l % Word]
      BY <1>3, <2>1, <2>3 DEF Token
    <3>2. Token(w).type = "TU32" /\ Token(w).n = l % Word
      BY <3>1
    <3>3. (IF l % Word >= Word \div 2 THEN (l % Word) - Word ELSE l % Word)
            = IF l >= Word \div 2 THEN l - Word ELSE l
      BY <2>2, <2>3, SignedRemainder
    <3>4. ShownNumber(w) = IF l >= Word \div 2 THEN l - Word ELSE l
      BY <1>3, <2>1, <2>2, <2>3 DEF ShownNumber
    <3>5. ShownNumber(w) = Signed(Token(w).n)
      BY <3>2, <3>3, <3>4 DEF Signed
    <3>6. ASSUME IsByte(Token(w)) PROVE l = Token(w).n
      <4>1. (l % Word) < ByteSize
        BY <3>2, <3>6 DEF IsByte
      <4>2. CASE l < 0
        <5>1. l + Word \in 0..Word - 1 /\ (l % Word) = l + Word
          BY <2>2, <2>3, <4>2
        <5> QED
          BY <2>2, <2>3, <4>1, <5>1
      <4>3. CASE l >= 0
        BY <2>2, <2>3, <3>2, <4>3
      <4> QED
        BY <4>2, <4>3
    <3> QED
      BY <1>3, <2>1, <3>2, <3>5, <3>6
  <2>4. CASE ~(l \in -(Word \div 2)..Word - 1)
    <3>1. Token(w) = [type |-> "TDOUBLE", x |-> w.l]
      BY <1>3, <2>1, <2>4 DEF Token
    <3>2. Token(w).type = "TDOUBLE" /\ Token(w).x = l
      BY <2>1, <3>1
    <3>3. ShownNumber(w) = l
      BY <1>3, <2>1, <2>2, <2>4 DEF ShownNumber
    <3> QED
      BY <1>3, <3>2, <3>3 DEF IsInt, IsByte
  <2> QED
    BY <2>3, <2>4
<1> QED
  BY <1>1, <1>2, <1>3 DEF IsWord

\* A literal is what the words that show it mean.
LEMMA LiteralShown ==
  ASSUME NEW ws, AreWords(ws), NEW ts, AreTokens(ts), Len(ts) = Len(ws),
         \A i \in 1..Len(ws) : ts[i] = Token(ws[i]), IsLiteral(ts)
  PROVE  get_literal(ts) = ShownLiteral(ws)
<1>1. PICK n \in Nat : n = Len(ts) /\ DOMAIN ts = 1..n /\ n = Len(ws) /\ DOMAIN ws = 1..n
  BY DEF AreTokens, AreWords
<1>2. \A i \in 1..n : IsWord(ws[i]) /\ ts[i] = Token(ws[i])
  BY <1>1 DEF AreWords
<1>3. CASE n > 1
  <2>1. AreBytes(SubSeq(ts, 3, n))
    BY <1>1, <1>3 DEF IsLiteral
  <2>2. ASSUME NEW i \in 1..n - 2 PROVE ts[i + 2].n = ws[i + 2].l
    <3>1. /\ i + 2 \in 1..n /\ i \in DOMAIN SubSeq(ts, 3, n)
          /\ SubSeq(ts, 3, n)[i] = ts[i + 2]
      BY <1>1 DEF AreTokens
    <3>2. IsByte(ts[i + 2])
      BY <2>1, <3>1 DEF AreBytes
    <3> QED
      BY <1>2, <3>1, <3>2, NumberOfToken
  <2>3. [i \in 1..n - 2 |-> ts[i + 2].n] = [i \in 1..n - 2 |-> ws[i + 2].l]
    BY <2>2
  <2> QED
    BY <1>1, <1>3, <2>3 DEF get_literal, ShownLiteral
<1>4. CASE ~(n > 1)
  <2>1. n = 1 /\ (ts[1].type = "TNAME" => ts[1].name \in DOMAIN NamedLiteral)
    BY <1>1, <1>4 DEF IsLiteral
  <2>2. IsWord(ws[1]) /\ ts[1] = Token(ws[1]) /\ IsToken(ts[1])
    BY <1>1, <1>2, <2>1 DEF AreTokens
  <2>3. CASE ts[1].type = "TNAME"
    <3>1. ws[1].kind = "sym" /\ ts[1].name = ws[1].name
      BY <2>2, <2>3, NumberOfToken
    <3> QED
      BY <1>1, <1>4, <2>3, <3>1 DEF get_literal, ShownLiteral
  <2>4. CASE ts[1].type # "TNAME"
    <3>1. ws[1].kind # "sym"
      BY <2>2, <2>4, NumberOfToken
    <3>2. ShownLiteral(ws) = mkNumberValue(ShownNumber(ws[1]))
      BY <1>1, <1>4, <3>1 DEF ShownLiteral
    <3>3. CASE ts[1].type = "TU32"
      <4>1. ShownNumber(ws[1]) = Signed(ts[1].n)
        BY <2>2, <3>3, NumberOfToken DEF IsInt
      <4>2. get_literal(ts) = mkNumberValue(Signed(ts[1].n))
        BY <1>1, <1>4, <3>3 DEF get_literal
      <4> QED
        BY <3>2, <4>1, <4>2
    <3>4. CASE ts[1].type = "TDOUBLE"
      <4>1. ShownNumber(ws[1]) = ts[1].x
        BY <2>2, <3>4, NumberOfToken
      <4>2. get_literal(ts) = mkNumberValue(ts[1].x)
        BY <1>1, <1>4, <3>4 DEF get_literal
      <4> QED
        BY <3>2, <4>1, <4>2
    <3> QED
      BY <2>2, <2>4, <3>3, <3>4 DEF IsToken
  <2> QED
    BY <2>3, <2>4
<1> QED
  BY <1>3, <1>4

\* The rest of a sequence of words, and of their tokens.
LEMMA RestOfWords ==
  ASSUME NEW ws, AreWords(ws), NEW b \in Nat, b < Len(ws)
  PROVE  LET rest == SubSeq(ws, b + 2, Len(ws))
         IN /\ AreWords(rest) /\ Len(rest) = Len(ws) - 1 - b
            /\ \A i \in 1..Len(ws) - 1 - b : rest[i] = ws[b + 1 + i]
<1> DEFINE rest == SubSeq(ws, b + 2, Len(ws))
<1>1. PICK n \in Nat : n = Len(ws) /\ DOMAIN ws = 1..n /\ b < n
  BY DEF AreWords
<1>2. PICK m \in Nat : m = n - 1 - b
  BY <1>1, n - 1 - b \in Nat
<1>3. /\ rest \in Seq(Range(ws)) /\ DOMAIN rest = 1..m /\ Len(rest) = m
      /\ \A i \in 1..m : rest[i] = ws[b + 1 + i]
  BY <1>1, <1>2 DEF AreWords
<1> HIDE DEF rest
<1>4. rest \in Seq(Range(rest))
  BY <1>3, SeqOfItsRange
<1>5. \A i \in 1..m : b + 1 + i \in 1..n
  BY <1>1, <1>2
<1>6. \A i \in 1..m : IsWord(rest[i])
  BY <1>1, <1>3, <1>5 DEF AreWords
<1>7. AreWords(rest)
  BY <1>3, <1>4, <1>6 DEF AreWords
<1> QED
  BY <1>1, <1>2, <1>3, <1>7 DEF rest

\* The tokens that the parser of a line sees.
LEMMA TokensAfterName ==
  ASSUME NEW line \in Line, line # <<>>
  PROVE  LET ts == Tail(tokens(line))
         IN /\ AreTokens(ts) /\ Len(ts) = Len(line) - 1 /\ Len(line) \in Nat \ {0}
            /\ \A i \in 1..Len(line) - 1 : ts[i] = Token(line[i + 1])
<1>1. PICK n \in Nat : n = Len(line) /\ DOMAIN line = 1..n
  BY LineAssumption
<1>2. n # 0
  BY <1>1, LineAssumption
<1> DEFINE u == tokens(line)
<1>3. AreTokens(u)
  BY TokensOfLine
<1>4. u = [i \in 1..n |-> Token(line[i])]
  BY <1>1 DEF tokens
<1> HIDE DEF u
<1>5. DOMAIN u = 1..n /\ u \in Seq(Range(u)) /\ Len(u) = n /\ u # <<>>
  BY <1>2, <1>3, <1>4 DEF AreTokens
<1>6. AreTokens(Tail(u))
  BY <1>3, <1>5, TailTokens
<1>7. Len(Tail(u)) = n - 1 /\ \A i \in 1..n - 1 : Tail(u)[i] = u[i + 1]
  BY <1>5
<1>8. \A i \in 1..n - 1 : Tail(u)[i] = Token(line[i + 1])
  BY <1>2, <1>4, <1>7
<1> QED
  BY <1>1, <1>2, <1>6, <1>7, <1>8 DEF u

LEMMA WordsAfter ==
  ASSUME NEW n \in Nat, n # 0, NEW b \in 0..3, b <= n - 1
  PROVE  /\ n - 1 - b \in Nat
         /\ \A i \in 1..n - 1 - b : b + i \in 1..n - 1 /\ b + i + 1 = b + 1 + i
  OBVIOUS

LEMMA FirstThree ==
  ASSUME NEW a, NEW b, NEW c, NEW k \in 0..3
  PROVE  SubSeq(<<a, b, c>>, 1, k) = [i \in 1..k |-> <<a, b, c>>[i]]
<1> DEFINE s == <<a, b, c>>
<1>1. s \in Seq({a, b, c}) /\ Len(s) = 3
  OBVIOUS
<1> HIDE DEF s
<1>2. SubSeq(s, 1, k) = [i \in 1..k |-> s[i]]
  BY <1>1
<1> QED
  BY <1>2 DEF s

LEMMA FirstTokens ==
  ASSUME NEW ts, AreTokens(ts), NEW k \in 0..3, k <= Len(ts), NEW i \in 1..k
  PROVE  i \in DOMAIN SubSeq(ts, 1, k) /\ SubSeq(ts, 1, k)[i] = ts[i]
  BY DEF AreTokens

\* What parse has made of the tokens of a line.
MadeFrom(line, op, f, p) ==
  /\ line \in Line /\ line # <<>> /\ HasEntry(line[1].name)
  /\ op = itable_entry(line[1].name)[2]
  /\ f = Format[ParserOf(op)] /\ IsFormat(f)
  /\ p.inst.opcode = op /\ literals' = p.literals /\ globals' = p.globals
  /\ Accepts(f, Tail(tokens(line))) /\ HasOperands(p, f, Tail(tokens(line)))

\* An instruction with the operands of the tokens of a line says what the line does.
LEMMA ParseSays ==
  ASSUME NEW line, NEW op, NEW f, NEW p, MadeFrom(line, op, f, p)
  PROVE  Says(p.inst, line)'
<1> DEFINE ts == Tail(tokens(line))
           rest == SubSeq(ts, f.bytes + 1, Len(ts))
           words == SubSeq(line, f.bytes + 2, Len(line))
<1>0. /\ line \in Line /\ line # <<>> /\ p.inst.opcode = op
      /\ op = itable_entry(line[1].name)[2] /\ f = Format[ParserOf(op)]
      /\ literals' = p.literals /\ globals' = p.globals
  BY DEF MadeFrom
<1>1. PICK n \in Nat : n = Len(line) /\ DOMAIN line = 1..n /\ n # 0
  BY <1>0, LineAssumption
<1>2. AreTokens(ts) /\ Len(ts) = n - 1 /\ \A i \in 1..n - 1 : ts[i] = Token(line[i + 1])
  BY <1>0, <1>1, TokensAfterName
<1>3. f.bytes \in 0..3 /\ f.bytes <= n - 1 /\ AreBytes(SubSeq(ts, 1, f.bytes))
  <2>1. Accepts(f, ts) /\ IsFormat(f)
    BY DEF MadeFrom
  <2> HIDE DEF ts
  <2> QED
    BY <1>2, <2>1 DEF Accepts, IsFormat
<1>4. AreWords(line)
  BY <1>0, WordsOfLine
<1>10. HasOperands(p, f, ts) /\ Accepts(f, ts)
  BY DEF MadeFrom
<1> HIDE DEF ts
<1>5. itable_entry_by_code(p.inst.opcode)[3] = ParserOf(op)
  BY EntriesAgree DEF MadeFrom
<1>6. Bytes(f, p.inst) = [i \in 1..f.bytes |-> line[i + 1].l]
  <2> DEFINE s == <<uX(p.inst), uY(p.inst), uZ(p.inst)>>
  <2>2. \A i \in 1..f.bytes : s[i] = ts[i].n
    BY <1>10 DEF HasOperands
  <2>3. Bytes(f, p.inst) = SubSeq(s, 1, f.bytes)
    BY DEF Bytes
  <2>4. SubSeq(s, 1, f.bytes) = [i \in 1..f.bytes |-> s[i]]
    BY <1>3, FirstThree
  <2> HIDE DEF s
  <2>5. ASSUME NEW i \in 1..f.bytes PROVE s[i] = line[i + 1].l
    <3>1. i \in 1..n - 1 /\ i + 1 \in 1..n
      BY <1>1, <1>3
    <3>2. i \in DOMAIN SubSeq(ts, 1, f.bytes) /\ SubSeq(ts, 1, f.bytes)[i] = ts[i]
      BY <1>2, <1>3, FirstTokens
    <3>3. IsByte(ts[i]) /\ ts[i] = Token(line[i + 1]) /\ IsWord(line[i + 1])
      BY <1>1, <1>2, <1>3, <1>4, <3>1, <3>2 DEF AreBytes, AreWords
    <3>4. line[i + 1].l = ts[i].n
      BY <3>3, NumberOfToken
    <3> QED
      BY <2>2, <3>4
  <2> QED
    BY <2>3, <2>4, <2>5
<1>7. PICK m \in Nat : m = n - 1 - f.bytes
  BY <1>1, <1>3, WordsAfter
<1>8. /\ AreTokens(rest) /\ Len(rest) = m
      /\ \A i \in 1..m : rest[i] = ts[f.bytes + i]
  <2>1. f.bytes \in Nat /\ f.bytes <= Len(ts)
    BY <1>2, <1>3
  <2>2. AreTokens(rest)
    BY <1>2, <2>1, RestTokens
  <2>3. PICK b \in Nat : b = f.bytes
    BY <2>1
  <2>4. PICK k \in Nat : k = Len(ts) /\ k = b + m
    BY <1>1, <1>2, <1>7, <2>3, n - 1 \in Nat
  <2>5. ts \in Seq(Range(ts))
    BY <1>2 DEF AreTokens
  <2>6. LET r == SubSeq(ts, b + 1, k) IN Len(r) = m /\ \A i \in 1..m : r[i] = ts[b + i]
    BY <2>4, <2>5
  <2>7. Len(rest) = m /\ \A i \in 1..m : rest[i] = ts[f.bytes + i]
    BY <2>3, <2>4, <2>6
  <2> QED
    BY <2>2, <2>7
<1>9. /\ AreWords(words) /\ Len(words) = m
      /\ \A i \in 1..m : words[i] = line[f.bytes + 1 + i]
  <2>1. PICK b \in Nat : b = f.bytes /\ b < Len(line)
    BY <1>1, <1>3
  <2>2. LET r == SubSeq(line, b + 2, Len(line))
        IN /\ AreWords(r) /\ Len(r) = Len(line) - 1 - b
           /\ \A i \in 1..Len(line) - 1 - b : r[i] = line[b + 1 + i]
    BY <1>4, <2>1, RestOfWords
  <2>3. Len(line) - 1 - b = m
    BY <1>1, <1>7, <2>1
  <2> QED
    BY <2>1, <2>2, <2>3
<1>11. /\ f.rest = "none" => rest = <<>>
       /\ f.rest = "integer" => iXYZ(p.inst) = Signed(rest[1].n) /\ Len(rest) = 1 /\ IsInt(rest[1])
       /\ f.rest \in {"literal", "global"} => IsLiteral(rest)
       /\ f.rest = "literal" =>
            /\ uYZ(p.inst) + 1 \in DOMAIN literals'
            /\ \/ literals'[uYZ(p.inst) + 1] = get_literal(rest)
               \/ identical(literals'[uYZ(p.inst) + 1], get_literal(rest))
       /\ f.rest = "global" =>
            /\ uYZ(p.inst) + 1 \in DOMAIN globals'
            /\ globals'[uYZ(p.inst) + 1] = CString(get_literal(rest))
  BY <1>0, <1>10 DEF HasOperands, Accepts
<1> HIDE DEF rest, words
<1>12. \A i \in 1..m : rest[i] = Token(words[i])
  <2> SUFFICES ASSUME NEW i \in 1..m PROVE rest[i] = Token(words[i])
    OBVIOUS
  <2>1. f.bytes + i \in 1..n - 1 /\ f.bytes + i + 1 = f.bytes + 1 + i
    BY <1>1, <1>3, <1>7, WordsAfter
  <2> QED
    BY <1>2, <1>8, <1>9, <2>1
<1>13. f.rest = "none" => words = <<>>
  <2> SUFFICES ASSUME rest = <<>> PROVE words = <<>>
    BY <1>11
  <2>1. Len(words) = 0
    BY <1>8, <1>9
  <2> QED
    BY <1>9, <2>1 DEF AreWords
<1>14. f.rest = "integer" => iXYZ(p.inst) = ShownNumber(words[1])
  <2> SUFFICES ASSUME f.rest = "integer" PROVE iXYZ(p.inst) = ShownNumber(words[1])
    OBVIOUS
  <2>1. m = 1 /\ IsInt(rest[1]) /\ rest[1] = Token(words[1]) /\ IsWord(words[1])
    <3>1. m = 1 /\ IsInt(rest[1])
      BY <1>8, <1>11
    <3>2. 1 \in DOMAIN words
      BY <1>9, <3>1 DEF AreWords
    <3>3. IsWord(words[1])
      BY <1>9, <3>2 DEF AreWords
    <3> QED
      BY <1>12, <3>1, <3>3
  <2> QED
    BY <1>11, <2>1, NumberOfToken
<1>15. f.rest \in {"literal", "global"} => get_literal(rest) = ShownLiteral(words)
  BY <1>8, <1>9, <1>11, <1>12, LiteralShown
<1>16. Says(p.inst, line)' <=>
         /\ p.inst.opcode = itable_entry(line[1].name)[2]
         /\ Bytes(f, p.inst) = [i \in 1..f.bytes |-> line[i + 1].l]
         /\ f.rest = "none" => words = <<>>
         /\ f.rest = "integer" => iXYZ(p.inst) = ShownNumber(words[1])
         /\ f.rest = "literal" =>
              /\ uYZ(p.inst) + 1 \in DOMAIN literals'
              /\ \/ literals'[uYZ(p.inst) + 1] = ShownLiteral(words)
                 \/ identical(literals'[uYZ(p.inst) + 1], ShownLiteral(words))
         /\ f.rest = "global" =>
              /\ uYZ(p.inst) + 1 \in DOMAIN globals'
              /\ globals'[uYZ(p.inst) + 1] = CString(ShownLiteral(words))
  BY <1>0, <1>5 DEF Says, words
<1> QED
  BY <1>0, <1>6, <1>11, <1>13, <1>14, <1>15, <1>16

-----------------------------------------------------------------------------
(* Each kind of change keeps to the lines *)

LEMMA OtherRead ==
  ASSUME Grows, EveryFunctionRead, NEW k \in DOMAIN functions, functions'[k] = functions[k]
  PROVE  FunctionRead(k)'
<1>1. PICK h \in DOMAIN text, f \in Range(functions) :
         f = functions[k] /\ Begins(text, h, k) /\ ReadFrom(h, f)
  BY DEF EveryFunctionRead, FunctionRead
<1>2. ReadFrom(h, f)'
  BY <1>1, ReadFromStays
<1>3. h \in DOMAIN text' /\ Begins(text', h, k)
  BY <1>1, BeginsStays, LinesStay DEF Grows
<1>4. k \in DOMAIN functions' /\ f = functions'[k] /\ f \in Range(functions')
  BY <1>1 DEF Grows, Range
<1> QED
  BY <1>2, <1>3, <1>4 DEF FunctionRead

\* A function that the lines so far begin is one with no instruction yet, one
\* with an instruction more, or a finished one.
LEMMA MoreRead ==
  ASSUME Grows, NEW h \in DOMAIN text, NEW f \in Function, ReadFrom(h, f),
         NEW inst \in Instruction, NEW g, g.size = f.size,
         g.instructions = Append(f.instructions, inst),
         NEW n, n = Len(f.instructions),
         n >= f.size => inst = Halt, n < f.size => ReadAt(inst, h, n + 1)'
  PROVE  ReadFrom(h, g)'
<1>1. f.size \in Nat /\ f.instructions \in Seq(Instruction) /\ n \in Nat
  BY DEF Function
<1>2. PICK s \in Seq(Instruction) : s = f.instructions
  BY <1>1
<1>3. /\ DOMAIN s = 1..n /\ DOMAIN Append(s, inst) = 1..n + 1
      /\ \A i \in 1..n : Append(s, inst)[i] = s[i]
      /\ Append(s, inst)[n + 1] = inst
  BY <1>1, <1>2
<1>4. ReadFrom(h, f)'
  BY ReadFromStays
<1>5. g.size = Count(text'[h])
  BY <1>4 DEF ReadFrom
<1>6. PICK u : u = g.instructions
  OBVIOUS
<1>7. ASSUME NEW i \in 1..n + 1
      PROVE  (IF i > g.size THEN u[i] = Halt ELSE ReadAt(u[i], h, i))'
  <2>1. CASE i \in 1..n
    <3>1. u[i] = f.instructions[i] /\ i \in DOMAIN f.instructions
      BY <1>2, <1>3, <1>6, <2>1
    <3>2. (IF i > f.size THEN f.instructions[i] = Halt ELSE ReadAt(f.instructions[i], h, i))'
      BY <1>4, <3>1 DEF ReadFrom, ReadAt
    <3> QED
      BY <3>1, <3>2
  <2>2. CASE i = n + 1
    <3>1. u[i] = inst
      BY <1>2, <1>3, <1>6, <2>2
    <3> QED
      BY <1>1, <2>2, <3>1
  <2> QED
    BY <1>1, <2>1, <2>2
<1>8. DOMAIN u = 1..n + 1
  BY <1>2, <1>3, <1>6
<1> QED
  BY <1>5, <1>6, <1>7, <1>8 DEF ReadFrom, ReadAt

\* The frames below the last are waiting at the same lines.
LEMMA WaitingStays ==
  ASSUME Grows, NEW j \in Nat, NEW h \in DOMAIN text, FrameAt(j, h),
         j < Len(frames), j < Len(frames'), Len(frames) \in Nat, Len(frames') \in Nat,
         frames'[j].fun = frames[j].fun, frames'[j].reg = frames[j].reg,
         frames'[j + 1].fun = frames[j + 1].fun,
         functions'[frames[j].fun] = functions[frames[j].fun]
  PROVE  h \in DOMAIN text' /\ FrameAt(j, h)'
<1>1. /\ Len(text) \in Nat /\ Len(text') \in Nat /\ Len(text) <= Len(text')
      /\ DOMAIN text = 1..Len(text) /\ DOMAIN text' = 1..Len(text')
      /\ \A l \in 1..Len(text) : text'[l] = text[l]
  BY LinesStay
<1>2. PICK n, k, m : /\ n = Len(functions[frames[j].fun].instructions)
                     /\ k = frames[j].fun /\ m = frames[j + 1].fun
  OBVIOUS
<1>3. PICK g \in h + 1..Len(text) : Begins(text, g, m) /\ Reaches(text, h, n, g - 1)
  BY <1>2 DEF FrameAt
<1>4. Begins(text, h, k) /\ (j > 1 => frames[j].reg = text[h][2].l)
  BY <1>2 DEF FrameAt
<1>5. Begins(text', h, k) /\ Begins(text', g, m)
  BY <1>3, <1>4, BeginsStays DEF Grows
<1>6. g - 1 \in 0..Len(text) /\ g \in h + 1..Len(text')
  BY <1>1, <1>3
<1>7. Reaches(text', h, n, g - 1)
  BY <1>1, <1>3, <1>6, ReachesStays
<1>8. j > 1 => frames'[j].reg = text'[h][2].l
  BY <1>1, <1>4
<1>9. frames'[j].fun = k /\ frames'[j + 1].fun = m /\ j # Len(frames')
      /\ Len(functions'[frames'[j].fun].instructions) = n
  BY <1>2
<1> QED
  BY <1>1, <1>5, <1>6, <1>7, <1>8, <1>9 DEF FrameAt

\* The file with one more line.
LEMMA MoreText ==
  ASSUME TextOK, NEW line \in Line, text' = Append(text, line)
  PROVE  /\ text' \in Seq(Line) /\ Extends(text, text')
         /\ Len(text) \in Nat /\ Len(text') = Len(text) + 1
         /\ DOMAIN text' = 1..Len(text) + 1 /\ text'[Len(text) + 1] = line
         /\ \A i \in 1..Len(text) : text'[i] = text[i]
<1>1. PICK n \in Nat : n = Len(text) /\ DOMAIN text = 1..n /\ text \in Seq(Line)
  BY DEF TextOK
<1>2. /\ text' \in Seq(Line) /\ Len(text') = n + 1 /\ DOMAIN text' = 1..n + 1
      /\ text'[n + 1] = line /\ \A i \in 1..n : text'[i] = text[i]
  BY <1>1
<1>3. Extends(text, text')
  BY <1>1, <1>2 DEF Extends
<1> QED
  BY <1>1, <1>2, <1>3

\* What that line announces, and how many functions the lines begin.
LEMMA MoreOwed ==
  ASSUME TextOK, NEW line \in Line, text' = Append(text, line),
         IsFiniteSet(Announced(text, Len(text))), IsHeader(line) => Count(line) \in Nat
  PROVE  /\ IsFiniteSet(Announced(text', Len(text')))
         /\ Owed(text', Len(text)) \in Int
         /\ Owed(text', Len(text) + 1) =
              IF IsHeader(line) THEN Owed(text', Len(text)) - 1 + Count(line)
              ELSE Owed(text', Len(text)) - 1
         /\ Cardinality(Headers(text', Len(text'))) =
              IF IsHeader(line) THEN Cardinality(Headers(text, Len(text))) + 1
              ELSE Cardinality(Headers(text, Len(text)))
<1>1. PICK n \in Nat : /\ n = Len(text) /\ Len(text') = n + 1 /\ text'[n + 1] = line
                       /\ \A i \in 1..n : text'[i] = text[i]
  BY MoreText
<1>2. Headers(text', n) = Headers(text, n) /\ Announced(text', n) = Announced(text, n)
  <2>1. n \in 0..n
    BY <1>1
  <2> QED
    BY <1>1, <2>1, FirstLines
<1>3. /\ IsFiniteSet(Announced(text', n + 1)) /\ Owed(text', n) \in Int
      /\ Owed(text', n + 1) =
           IF IsHeader(text'[n + 1]) THEN Owed(text', n) - 1 + Count(text'[n + 1])
           ELSE Owed(text', n) - 1
  BY <1>1, <1>2, OwedNext
<1>4. Cardinality(Headers(text', n + 1)) =
        IF IsHeader(text'[n + 1]) THEN Cardinality(Headers(text', n)) + 1
        ELSE Cardinality(Headers(text', n))
  BY <1>1, NextCount
<1> QED
  BY <1>1, <1>2, <1>3, <1>4

\* The loading stops.
LEMMA StopReads ==
  ASSUME LInv, Grows, functions' = functions, outcome' # "loading"
  PROVE  LInv'
<1>1. \A k \in DOMAIN functions' : FunctionRead(k)'
  BY OtherRead DEF LInv
<1> QED
  BY <1>1 DEF LInv, EveryFunctionRead

\* A call of loadfun begins.
LEMMA BeginReads ==
  ASSUME RInv, TextOK, LInv, outcome = "loading",
         NEW line \in Line, text' = Append(text, line), IsHeader(line), Count(line) \in Nat,
         NEW arity, NEW reg, BeginFunction(arity, Count(line), reg),
         frames # <<>> => reg = line[2].l
  PROVE  LInv'
<1>1. PICK n \in Nat : n = Len(functions) /\ DOMAIN functions = 1..n
  BY DEF RInv, FunctionsOK
<1>2. PICK t \in Nat : t = Len(frames) /\ DOMAIN frames = 1..t
  BY DEF RInv, FunctionsOK
<1>3. PICK m \in Nat : m = Len(text) /\ DOMAIN text = 1..m
  BY DEF TextOK
<1>4. PICK g : g = [arity |-> arity, size |-> Count(line), nregs |-> 0, instructions |-> <<>>]
  OBVIOUS
<1>5. PICK fr : fr = [fun |-> n + 1, maxreg |-> 0, reg |-> reg]
  OBVIOUS
<1>6. /\ functions' = Append(functions, g) /\ frames' = Append(frames, fr)
      /\ UNCHANGED <<literals, globals, outcome>>
  BY <1>1, <1>4, <1>5 DEF BeginFunction
<1>7. /\ DOMAIN functions' = 1..n + 1 /\ Len(functions') = n + 1
      /\ functions'[n + 1] = g /\ \A j \in 1..n : functions'[j] = functions[j]
  <2>1. functions \in Seq(Function)
    BY DEF RInv, FunctionsOK
  <2>2. functions \in Seq(Function \cup {g})
    BY <2>1
  <2> QED
    BY <1>1, <1>6, <2>2
<1>8. /\ DOMAIN frames' = 1..t + 1 /\ Len(frames') = t + 1
      /\ frames'[t + 1] = fr /\ \A j \in 1..t : frames'[j] = frames[j]
  <2>1. frames \in Seq(Frame)
    BY DEF RInv, FunctionsOK
  <2>2. frames \in Seq(Frame \cup {fr})
    BY <2>1
  <2> QED
    BY <1>2, <1>6, <2>2
<1>9. /\ text' \in Seq(Line) /\ Extends(text, text') /\ Len(text') = m + 1
      /\ DOMAIN text' = 1..m + 1 /\ text'[m + 1] = line
      /\ \A i \in 1..m : text'[i] = text[i]
  BY <1>3, MoreText
<1>10. Grows
  <2>1. Extends(literals, literals') /\ Extends(globals, globals')
    BY <1>6 DEF Extends
  <2>2. DOMAIN functions \subseteq DOMAIN functions'
    BY <1>1, <1>7
  <2> QED
    BY <1>9, <2>1, <2>2 DEF Grows, TextOK
<1>11. /\ IsFiniteSet(Announced(text', Len(text'))) /\ Owed(text', m) \in Int
       /\ Owed(text', m + 1) = Owed(text', m) - 1 + Count(line)
       /\ Cardinality(Headers(text', Len(text'))) = n + 1
  BY <1>1, <1>3, MoreOwed DEF LInv
<1>12. Begins(text', m + 1, n + 1)
  BY <1>9, <1>11 DEF Begins
<1>13. ASSUME NEW k \in DOMAIN functions' PROVE FunctionRead(k)'
  <2>1. CASE k \in 1..n
    <3>1. k \in DOMAIN functions /\ functions'[k] = functions[k]
      BY <1>1, <1>7, <2>1
    <3> QED
      BY <1>10, <3>1, OtherRead DEF LInv
  <2>2. CASE k = n + 1
    <3>1. ReadFrom(m + 1, g)'
      <4>1. g.size = Count(text'[m + 1]) /\ g.instructions = <<>>
        BY <1>4, <1>9
      <4> QED
        BY <4>1 DEF ReadFrom
    <3>2. g \in Range(functions') /\ g = functions'[k] /\ m + 1 \in DOMAIN text'
      BY <1>7, <1>9, <2>2 DEF Range
    <3> QED
      BY <1>12, <2>2, <3>1, <3>2 DEF FunctionRead
  <2> QED
    BY <1>7, <2>1, <2>2
<1>14. ASSUME NEW j \in 1..t + 1 PROVE \E h \in DOMAIN text' : FrameAt(j, h)'
  <2>1. CASE j = t + 1
    <3>1. frames'[j] = fr /\ fr.fun = n + 1 /\ (t > 0 => fr.reg = line[2].l)
      BY <1>2, <1>5, <1>8, <2>1
    <3>2. Len(functions'[n + 1].instructions) = 0
      BY <1>4, <1>7
    <3>3. Owed(text', m + 1) \in Int
      BY <1>11
    <3>4. Reaches(text', m + 1, 0, m + 1)
      BY <3>3, ReachesItself
    <3>5. j > 1 => frames'[j].reg = text'[m + 1][2].l
      BY <1>9, <2>1, <3>1
    <3>6. FrameAt(j, m + 1)'
      BY <1>8, <1>9, <1>12, <2>1, <3>1, <3>2, <3>4, <3>5 DEF FrameAt
    <3> QED
      BY <1>9, <3>6
  <2>2. CASE j \in 1..t
    <3>1. PICK h \in DOMAIN text : FrameAt(j, h)
      BY <1>2, <2>2 DEF LInv, FramesAtLines
    <3>2. frames[j] \in Frame /\ frames[j].fun \in 1..n
      <4>1. frames[j] \in Frame
        BY <1>2, <2>2 DEF RInv, FunctionsOK
      <4> QED
        BY <1>1, <4>1 DEF Frame
    <3>3. /\ frames'[j] = frames[j]
          /\ functions'[frames[j].fun] = functions[frames[j].fun]
      BY <1>7, <1>8, <2>2, <3>2
    <3>4. CASE j < t
      <4>1. frames'[j + 1] = frames[j + 1]
        BY <1>8, <3>4
      <4> QED
        BY <1>2, <1>8, <1>10, <3>1, <3>3, <3>4, <4>1, WaitingStays
    <3>5. CASE j = t
      <4>1. PICK b, k : b = Len(functions[frames[j].fun].instructions) /\ k = frames[j].fun
        OBVIOUS
      <4>2. /\ Begins(text, h, k) /\ Reaches(text, h, b, m)
            /\ j > 1 => frames[j].reg = text[h][2].l
        BY <1>2, <1>3, <3>1, <3>5, <4>1 DEF FrameAt
      <4>3. Begins(text', h, k)
        BY <1>10, <4>2, BeginsStays DEF Grows
      <4>4. Reaches(text', h, b, m)
        <5>1. m \in 0..m
          BY <1>3
        <5> QED
          BY <1>3, <1>9, <4>2, <5>1, ReachesStays
      <4>5. m + 1 \in h + 1..m + 1 /\ m + 1 - 1 = m
        BY <1>3, <3>1
      <4>6. frames'[j + 1].fun = n + 1
        BY <1>5, <1>8, <3>5
      <4>7. j > 1 => frames'[j].reg = text'[h][2].l
        BY <1>3, <1>9, <3>1, <3>3, <4>2
      <4>8. j # Len(frames')
        BY <1>8, <3>5
      <4>9. Len(functions'[frames'[j].fun].instructions) = b /\ frames'[j].fun = k
        BY <3>3, <4>1
      <4>10. \E l \in h + 1..Len(text') :
               Begins(text', l, frames'[j + 1].fun) /\ Reaches(text', h, b, l - 1)
        BY <1>9, <1>12, <4>4, <4>5, <4>6
      <4>11. FrameAt(j, h)'
        BY <4>3, <4>7, <4>8, <4>9, <4>10 DEF FrameAt
      <4> QED
        BY <1>3, <1>9, <3>1, <4>11
    <3> QED
      BY <2>2, <3>4, <3>5
  <2> QED
    BY <2>1, <2>2
<1> QED
  BY <1>7, <1>8, <1>11, <1>13, <1>14 DEF LInv, EveryFunctionRead, FramesAtLines

\* A line that begins no function is an instruction more of the function that is
\* being loaded.
LEMMA AddingReads ==
  ASSUME RInv, TextOK, LInv, outcome = "loading", frames # <<>>, ~Complete,
         NEW line \in Line, text' = Append(text, line), ~IsHeader(line),
         Extends(literals, literals'), Extends(globals, globals'),
         NEW inst \in Instruction, NEW reg,
         functions' = [functions EXCEPT ![Top.fun].instructions = Append(@, inst)],
         frames' = [frames EXCEPT ![Len(frames)].maxreg = reg],
         HasEntry(line[1].name) => Says(inst, line)',
         ~HasEntry(line[1].name) => inst = Halt
  PROVE  LInv'
<1>1. PICK t \in Nat \ {0} :
         /\ t = Len(frames) /\ DOMAIN frames = 1..t /\ Top = frames[t]
         /\ Top \in Frame /\ Top.fun \in DOMAIN functions
         /\ functions[Top.fun] \in Function
  BY TopIs
<1>2. PICK k \in DOMAIN functions : k = Top.fun /\ k = frames[t].fun
  BY <1>1
<1>3. PICK f \in Function : f = functions[k]
  BY <1>1, <1>2
<1>4. PICK g \in Function :
         /\ g = [f EXCEPT !.instructions = Append(@, inst)]
         /\ g.size = f.size /\ g.instructions = Append(f.instructions, inst)
         /\ f.instructions \in Seq(Instruction)
         /\ Len(f.instructions) \in Nat /\ f.size \in Nat
         /\ Len(g.instructions) = Len(f.instructions) + 1
  BY MoreInstructions
<1>5. functions' = [functions EXCEPT ![k] = g]
  BY <1>2, <1>3, <1>4
<1>6. PICK b \in Nat : b = Len(f.instructions) /\ b < f.size
  <2>1. Len(f.instructions) < f.size
    BY <1>2, <1>3, <1>4 DEF Complete
  <2> QED
    BY <1>4, <2>1
<1>7. functions \in Seq(Function) /\ frames \in Seq(Frame)
  BY DEF RInv, FunctionsOK
<1>8. /\ functions' \in Seq(Function) /\ DOMAIN functions' = DOMAIN functions
      /\ Len(functions') = Len(functions) /\ functions'[k] = g
      /\ \A j \in DOMAIN functions : j # k => functions'[j] = functions[j]
  <2>1. LET r == [functions EXCEPT ![k] = g]
        IN /\ r \in Seq(Function) /\ DOMAIN r = DOMAIN functions /\ Len(r) = Len(functions)
           /\ r[k] = g /\ \A i \in DOMAIN functions : i # k => r[i] = functions[i]
    BY <1>7, Replaced
  <2> QED
    BY <1>5, <2>1
<1>9. /\ DOMAIN frames' = 1..t /\ Len(frames') = t
      /\ \A i \in 1..t : frames'[i].fun = frames[i].fun /\ frames'[i].reg = frames[i].reg
  <2>1. PICK fr : /\ fr = [frames[t] EXCEPT !.maxreg = reg]
                  /\ fr.fun = frames[t].fun /\ fr.reg = frames[t].reg
    <3> DEFINE r == [frames[t] EXCEPT !.maxreg = reg]
    <3>1. r.fun = frames[t].fun /\ r.reg = frames[t].reg
      BY <1>1 DEF Frame
    <3> HIDE DEF r
    <3> QED
      BY <3>1 DEF r
  <2>2. frames' = [frames EXCEPT ![t] = fr]
    BY <1>1, <2>1
  <2>3. frames \in Seq(Frame \cup {fr}) /\ fr \in Frame \cup {fr} /\ t \in DOMAIN frames
    BY <1>1, <1>7
  <2>4. LET s == [frames EXCEPT ![t] = fr]
        IN /\ DOMAIN s = DOMAIN frames /\ Len(s) = Len(frames)
           /\ s[t] = fr /\ \A i \in DOMAIN frames : i # t => s[i] = frames[i]
    BY <2>3, Replaced
  <2> QED
    BY <1>1, <2>1, <2>2, <2>4
<1>10. PICK m \in Nat : m = Len(text) /\ DOMAIN text = 1..m
  <2>1. Len(text) \in Nat /\ DOMAIN text = 1..Len(text)
    BY DEF TextOK
  <2> QED
    BY <2>1
<1>11. /\ text' \in Seq(Line) /\ Extends(text, text') /\ Len(text') = m + 1
       /\ DOMAIN text' = 1..m + 1 /\ text'[m + 1] = line
       /\ \A i \in 1..m : text'[i] = text[i]
  BY <1>10, MoreText
<1>12. Grows
  BY <1>8, <1>11 DEF Grows, TextOK
<1>13. /\ IsFiniteSet(Announced(text', Len(text'))) /\ Owed(text', m) \in Int
       /\ Owed(text', m + 1) = Owed(text', m) - 1
       /\ Cardinality(Headers(text', Len(text'))) = Len(functions)
  BY <1>10, MoreOwed DEF LInv
<1>14. PICK h \in DOMAIN text : FrameAt(t, h)
  BY <1>1 DEF LInv, FramesAtLines
<1>15. /\ Begins(text, h, k) /\ Reaches(text, h, b, m)
       /\ t > 1 => frames[t].reg = text[h][2].l
  BY <1>1, <1>2, <1>3, <1>6, <1>10, <1>14 DEF FrameAt
<1>16. Reaches(text', h, b, m)
  <2>1. m \in 0..m
    BY <1>10
  <2> QED
    BY <1>11, <1>15, <2>1, ReachesStays
<1>17. FunctionRead(k)'
  <2>1. ReadFrom(h, f)
    <3>1. PICK i \in DOMAIN text, e \in Range(functions) :
             e = functions[k] /\ Begins(text, i, k) /\ ReadFrom(i, e)
      BY DEF LInv, EveryFunctionRead, FunctionRead
    <3>2. i = h
      BY <1>10, <1>15, <3>1, BeginsOnce
    <3> QED
      BY <1>3, <3>1, <3>2
  <2>2. ReadAt(inst, h, b + 1)'
    <3>1. Shows(inst, m + 1)'
      BY <1>11 DEF Shows
    <3>2. m + 1 \in h + 1..Len(text') /\ b + 1 - 1 = b /\ m + 1 - 1 = m
      BY <1>6, <1>10, <1>11
    <3> QED
      BY <1>16, <3>1, <3>2 DEF ReadAt
  <2>3. ReadFrom(h, g)'
    <3>1. ~(b >= f.size)
      BY <1>4, <1>6
    <3> QED
      BY <1>4, <1>6, <1>10, <1>12, <2>1, <2>2, <3>1, MoreRead
  <2>4. g \in Range(functions') /\ g = functions'[k] /\ h \in DOMAIN text'
    BY <1>8, <1>10, <1>11 DEF Range
  <2>5. Begins(text', h, k)
    BY <1>12, <1>15, BeginsStays DEF Grows
  <2> QED
    BY <2>3, <2>4, <2>5 DEF FunctionRead
<1>18. EveryFunctionRead'
  <2>1. ASSUME NEW j \in DOMAIN functions, j # k PROVE FunctionRead(j)'
    BY <1>8, <1>12, <2>1, OtherRead DEF LInv
  <2> QED
    BY <1>8, <1>17, <2>1 DEF EveryFunctionRead
<1>19. ASSUME NEW j \in 1..t PROVE \E l \in DOMAIN text' : FrameAt(j, l)'
  <2>1. CASE j = t
    <3>1. Reaches(text', h, b + 1, m + 1)
      BY <1>10, <1>13, <1>16, ReachesNext
    <3>2. Begins(text', h, k)
      BY <1>12, <1>15, BeginsStays DEF Grows
    <3>3. j > 1 => frames'[j].reg = text'[h][2].l
      BY <1>9, <1>10, <1>11, <1>15, <2>1
    <3>4. frames'[j].fun = k /\ ~(j < Len(frames'))
      BY <1>1, <1>2, <1>9, <2>1
    <3>5. Len(functions'[k].instructions) = b + 1
      BY <1>4, <1>6, <1>8
    <3>6. FrameAt(j, h)'
      BY <1>11, <3>1, <3>2, <3>3, <3>4, <3>5 DEF FrameAt
    <3> QED
      BY <1>10, <1>11, <3>6
  <2>2. CASE j # t
    <3>1. PICK l \in DOMAIN text : FrameAt(j, l)
      BY <1>1 DEF LInv, FramesAtLines
    <3>2. j \in Nat /\ j < t /\ j + 1 \in 1..t
      BY <2>2
    <3>3. frames[j] \in Frame /\ frames[j].fun # frames[t].fun
      BY <1>1, <1>7, <2>2 DEF RInv, FramesDiffer
    <3>4. functions'[frames[j].fun] = functions[frames[j].fun]
      BY <1>2, <1>8, <3>3 DEF Frame
    <3> QED
      BY <1>1, <1>9, <1>12, <3>1, <3>2, <3>4, WaitingStays
  <2> QED
    BY <2>1, <2>2
<1> QED
  BY <1>8, <1>9, <1>13, <1>18, <1>19 DEF LInv, FramesAtLines

\* A call of loadfun ends, and no other is waiting for it.
LEMMA EndModuleReads == ASSUME RInv, TextOK, LInv, EndModule PROVE LInv'
<1>1. PICK t \in Nat \ {0} :
         /\ t = Len(frames) /\ DOMAIN frames = 1..t /\ Top = frames[t]
         /\ Top \in Frame /\ Top.fun \in DOMAIN functions
         /\ functions[Top.fun] \in Function
  <2>1. frames # <<>>
    BY DEF EndModule
  <2> QED
    BY <2>1, TopIs
<1>2. /\ t = 1 /\ frames' = <<>> /\ Complete /\ outcome = "loading"
      /\ UNCHANGED <<literals, globals, text, outcome>>
      /\ functions' = [functions EXCEPT ![Top.fun] = Finished(@, Top.maxreg)]
  BY <1>1 DEF EndModule
<1>3. PICK k \in DOMAIN functions : k = Top.fun
  BY <1>1
<1>4. PICK f \in Function : f = functions[k]
  BY <1>1, <1>3
<1>5. PICK r \in 0..ByteSize - 1 : r = Top.maxreg
  BY <1>1 DEF Frame
<1>6. PICK g \in Function :
         /\ g = Finished(f, r) /\ g.size = f.size
         /\ g.instructions = Append(f.instructions, Halt)
         /\ Len(f.instructions) \in Nat /\ f.size \in Nat
  BY FinishedIs
<1>7. functions \in Seq(Function)
  BY DEF RInv, FunctionsOK
<1>8. functions' = [functions EXCEPT ![k] = g]
  BY <1>2, <1>3, <1>4, <1>5, <1>6
<1>9. /\ DOMAIN functions' = DOMAIN functions /\ Len(functions') = Len(functions)
      /\ functions'[k] = g /\ \A j \in DOMAIN functions : j # k => functions'[j] = functions[j]
  <2>1. LET s == [functions EXCEPT ![k] = g]
        IN /\ DOMAIN s = DOMAIN functions /\ Len(s) = Len(functions)
           /\ s[k] = g /\ \A i \in DOMAIN functions : i # k => s[i] = functions[i]
    BY <1>7, Replaced
  <2> QED
    BY <1>8, <2>1
<1>10. Grows
  BY <1>2, <1>9 DEF Grows, TextOK, Extends
<1>11. FunctionRead(k)'
  <2>1. PICK h \in DOMAIN text, e \in Range(functions) :
           e = functions[k] /\ Begins(text, h, k) /\ ReadFrom(h, e)
    BY DEF LInv, EveryFunctionRead, FunctionRead
  <2>2. ReadFrom(h, f)
    BY <1>4, <2>1
  <2>3. PICK n \in Nat : n = Len(f.instructions)
    BY <1>6
  <2>4. ~(n < f.size)
    BY <1>2, <1>3, <1>4, <1>6, <2>3 DEF Complete
  <2>5. ReadFrom(h, g)'
    BY <1>6, <1>10, <2>2, <2>3, <2>4, HaltMentions, MoreRead
  <2>6. g \in Range(functions')
    BY <1>9 DEF Range
  <2> QED
    BY <1>2, <1>9, <2>1, <2>5, <2>6 DEF FunctionRead
<1>12. EveryFunctionRead'
  <2>1. ASSUME NEW j \in DOMAIN functions, j # k PROVE FunctionRead(j)'
    BY <1>9, <1>10, <2>1, OtherRead DEF LInv
  <2> QED
    BY <1>9, <1>11, <2>1 DEF EveryFunctionRead
<1>13. FramesAtLines'
  BY <1>2 DEF FramesAtLines
<1> QED
  BY <1>2, <1>9, <1>12, <1>13 DEF LInv

\* The instruction for a line that begins a function.
LEMMA NestedShows ==
  ASSUME RInv, NEW h \in DOMAIN text, NEW k \in DOMAIN functions, Begins(text, h, k),
         NEW reg \in 0..ByteSize - 1, reg = text[h][2].l,
         Fits(WithLiteral(mkVMFunctionValue(k))),
         literals' = WithLiteral(mkVMFunctionValue(k)), text' = text,
         DOMAIN functions' = DOMAIN functions,
         NEW inst, inst = eR1U16("LoadLiteral", reg, literal_slot(mkVMFunctionValue(k)))
  PROVE  /\ inst \in Instruction /\ Extends(literals, literals') /\ Shows(inst, h)'
<1>1. PICK v : v = mkVMFunctionValue(k)
  OBVIOUS
<1>2. v.tag = "VMFunction" /\ v.f = k
  BY <1>1 DEF mkVMFunctionValue
<1>3. literals \in Seq(Range(literals))
  BY DEF RInv, PoolsOK
<1>4. PICK i : i = literal_slot(v)
  OBVIOUS
<1>5. /\ literals' = WithLiteral(v) /\ literals' \in Seq(Range(literals'))
      /\ Extends(literals, literals')
      /\ i \in 0..Len(literals') - 1
      /\ i + 1 \in DOMAIN literals'
      /\ literals'[i + 1] = v \/ identical(literals'[i + 1], v)
  BY <1>1, <1>3, <1>4, LiteralIsFound
<1>6. literals'[i + 1] = v
  BY <1>2, <1>5 DEF identical
<1>7. i \in 0..ByteSize * ByteSize - 1
  BY <1>1, <1>5, Sizes DEF Fits
<1>8. /\ inst.opcode = "LoadLiteral" /\ inst.xyz \in 0..I24 - 1
      /\ uX(inst) = reg /\ uYZ(inst) = i
  BY <1>1, <1>4, <1>7, IndexOperands
<1>9. inst = [opcode |-> inst.opcode, xyz |-> inst.xyz]
  BY DEF eR1U16
<1>10. inst \in Instruction
  BY <1>8, <1>9, HaltIs DEF Instruction
<1>11. IsHeader(text[h])
  BY DEF Begins
<1>12. Shows(inst, h)'
  BY <1>2, <1>5, <1>6, <1>8, <1>11 DEF Shows, LoadsFunction
<1> QED
  BY <1>5, <1>10, <1>12

\* The lines of a nested function, with the one that begins it, are one
\* instruction of the function around it.
LEMMA NestedReaches ==
  ASSUME TextOK, IsFiniteSet(Announced(text, Len(text))),
         NEW h \in DOMAIN text, NEW n \in Nat, NEW k, NEW g \in h + 1..Len(text),
         Begins(text, g, k), Reaches(text, h, n, g - 1),
         Count(text[g]) \in Nat, Reaches(text, g, Count(text[g]), Len(text))
  PROVE  Reaches(text, h, n + 1, Len(text))
<1>1. PICK m \in Nat : m = Len(text) /\ DOMAIN text = 1..m
  BY DEF TextOK
<1>2. PICK l \in Nat : l = g - 1 /\ l + 1 = g /\ l <= m
  BY <1>1, g - 1 \in Nat
<1>3. Announced(text, l) \in SUBSET Announced(text, m)
  <2>1. Headers(text, l) \subseteq Headers(text, m)
    BY <1>1, <1>2 DEF Headers
  <2> QED
    BY <2>1 DEF Announced
<1>4. IsFiniteSet(Announced(text, l))
  BY <1>1, <1>3, FS_Subset
<1>5. PICK c \in Nat : c = Count(text[g])
  OBVIOUS
<1>6. IsHeader(text[l + 1])
  BY <1>2 DEF Begins
<1>7. Owed(text, l) \in Int /\ Owed(text, l + 1) = Owed(text, l) - 1 + c
  BY <1>2, <1>4, <1>5, <1>6, OwedNext
<1>8. h \in Nat /\ g \in Nat /\ h < g
  BY <1>1
<1> QED
  BY <1>1, <1>2, <1>5, <1>7, <1>8, ReachesOver

\* A call of loadfun ends, and what the lines of its function stand for is one
\* instruction of the function around it.
LEMMA EndNestedReads == ASSUME RInv, TextOK, LInv, EndNested PROVE LInv'
<1>1. PICK t \in Nat \ {0} :
         /\ t = Len(frames) /\ DOMAIN frames = 1..t /\ Top = frames[t]
         /\ Top \in Frame /\ Top.fun \in DOMAIN functions
         /\ functions[Top.fun] \in Function
  <2>1. frames # <<>>
    BY DEF EndNested
  <2> QED
    BY <2>1, TopIs
<1>2. PICK d \in Nat \ {0} : t = d + 1
  <2>1. t > 1
    BY <1>1 DEF EndNested
  <2> QED
    BY <2>1, t - 1 \in Nat \ {0}
<1>3. functions \in Seq(Function) /\ frames \in Seq(Frame)
  BY DEF RInv, FunctionsOK
<1>4. PICK k \in DOMAIN functions : k = Top.fun /\ k = frames[t].fun
  BY <1>1
<1>5. d \in DOMAIN frames /\ t \in DOMAIN frames /\ frames[d] \in Frame /\ d # t
  BY <1>1, <1>2, <1>3
<1>6. PICK q \in DOMAIN functions : q = frames[d].fun /\ q = frames[Len(frames) - 1].fun
  <2>1. Len(frames) - 1 = d
    BY <1>1, <1>2
  <2> QED
    BY <1>5, <2>1 DEF Frame
<1>7. k # q
  BY <1>4, <1>5, <1>6 DEF RInv, FramesDiffer
<1>8. PICK r \in 0..ByteSize - 1 : r = Top.maxreg
  BY <1>1 DEF Frame
<1>9. PICK f \in Function : f = functions[k]
  BY <1>1, <1>4
<1>10. PICK e \in Function : e = functions[q]
  BY <1>3, <1>6
<1>11. PICK v, reg, inst : /\ v = mkVMFunctionValue(k) /\ reg = Top.reg
                           /\ inst = eR1U16("LoadLiteral", reg, literal_slot(v))
  OBVIOUS
<1>12. text' = text /\ globals' = globals /\ outcome = "loading" /\ Complete
  BY DEF EndNested
<1>13. CASE reg >= ByteSize \/ ~Fits(WithLiteral(v))
  <2>1. UNCHANGED <<literals, globals, functions, frames, text>> /\ outcome' = "aborted"
    BY <1>4, <1>11, <1>13 DEF EndNested, Abort
  <2>2. Grows
    BY <2>1 DEF Grows, TextOK, Extends
  <2> QED
    BY <2>1, <2>2, StopReads
<1>14. CASE ~(reg >= ByteSize \/ ~Fits(WithLiteral(v)))
  <2>1. /\ literals' = WithLiteral(v) /\ frames' = Front(frames) /\ outcome' = outcome
        /\ functions' = [functions EXCEPT ![Top.fun] = Finished(@, Top.maxreg),
                                          ![q].instructions = Append(@, inst)]
    BY <1>4, <1>6, <1>11, <1>14 DEF EndNested
  <2>2. reg \in 0..ByteSize - 1
    BY <1>1, <1>11, <1>14, Sizes DEF Frame
  <2>3. PICK g \in Function :
           /\ g = Finished(f, r) /\ g.size = f.size
           /\ g.instructions = Append(f.instructions, Halt)
           /\ Len(f.instructions) \in Nat /\ f.size \in Nat
    BY FinishedIs
  <2>4. PICK e2 : e2 = [e EXCEPT !.instructions = Append(@, inst)]
    OBVIOUS
  <2>5. /\ e2.size = e.size /\ e2.instructions = Append(e.instructions, inst)
        /\ e.instructions \in Seq(Instruction)
        /\ Len(e.instructions) \in Nat /\ e.size \in Nat
    BY <2>4 DEF Function
  <2>6. functions' = [functions EXCEPT ![k] = g, ![q] = e2]
    BY <1>4, <1>6, <1>7, <1>8, <1>9, <1>10, <2>1, <2>3, <2>4
  <2>7. /\ DOMAIN functions' = DOMAIN functions /\ Len(functions') = Len(functions)
        /\ functions'[k] = g /\ functions'[q] = e2
        /\ \A j \in DOMAIN functions : j \notin {k, q} => functions'[j] = functions[j]
    <3> DEFINE s == [functions EXCEPT ![k] = g]
               S == Function \cup {e2}
    <3>1. g \in S /\ e2 \in S /\ functions \in Seq(S)
      BY <1>3
    <3>2. /\ s \in Seq(S) /\ DOMAIN s = DOMAIN functions /\ Len(s) = Len(functions)
          /\ s[k] = g /\ \A j \in DOMAIN functions : j # k => s[j] = functions[j]
      BY <3>1, Replaced
    <3>3. functions' = [s EXCEPT ![q] = e2]
      BY <2>6
    <3> HIDE DEF s, S
    <3>4. q \in DOMAIN s
      BY <3>2
    <3>5. /\ DOMAIN functions' = DOMAIN s /\ Len(functions') = Len(s)
          /\ functions'[q] = e2 /\ \A j \in DOMAIN s : j # q => functions'[j] = s[j]
      BY <3>1, <3>2, <3>3, <3>4, Replaced
    <3> QED
      BY <1>7, <3>2, <3>5
  <2>8. /\ DOMAIN frames' = 1..d /\ Len(frames') = d
        /\ \A i \in 1..d : frames'[i] = frames[i]
    <3>1. frames' = SubSeq(frames, 1, d)
      BY <1>1, <1>2, <2>1 DEF Front
    <3> QED
      BY <1>1, <1>2, <1>3, <3>1
  <2>9. PICK h \in DOMAIN text : FrameAt(d, h)
    BY <1>5 DEF EndNested, LInv, FramesAtLines
  <2>10. PICK b \in Nat : b = Len(e.instructions)
    BY <2>5
  <2>11. PICK l \in h + 1..Len(text) : Begins(text, l, k) /\ Reaches(text, h, b, l - 1)
    BY <1>1, <1>2, <1>4, <1>6, <1>10, <2>9, <2>10 DEF FrameAt
  <2>12. Begins(text, h, q) /\ (d > 1 => frames[d].reg = text[h][2].l)
    BY <1>6, <2>9 DEF FrameAt
  <2>13. PICK m \in Nat : m = Len(text) /\ DOMAIN text = 1..m
    BY DEF TextOK
  <2>14. l \in DOMAIN text /\ l \in Nat /\ h \in Nat
    BY <2>13
  <2>15. PICK n \in Nat : n = Len(f.instructions) /\ n = f.size
    <3>1. BeingLoaded(literals, functions[frames[t].fun], frames[t].maxreg, t < Len(frames))
      BY <1>5 DEF RInv, AllLoading
    <3>2. Len(f.instructions) <= f.size
      BY <1>4, <1>9, <3>1 DEF BeingLoaded
    <3>3. Len(f.instructions) >= f.size
      BY <1>4, <1>9, <1>12 DEF Complete
    <3> QED
      BY <2>3, <3>2, <3>3
  <2>16. FrameAt(t, l)
    <3>1. PICK i \in DOMAIN text : FrameAt(t, i)
      BY <1>5, <1>12 DEF LInv, FramesAtLines
    <3>2. Begins(text, i, k)
      BY <1>4, <3>1 DEF FrameAt
    <3>3. i = l
      BY <2>11, <2>13, <2>14, <3>2, BeginsOnce
    <3> QED
      BY <3>1, <3>3
  <2>17. Reaches(text, l, n, m) /\ reg = text[l][2].l
    <3>1. t > 1
      BY <1>2
    <3> QED
      BY <1>1, <1>4, <1>9, <1>11, <2>13, <2>15, <2>16, <3>1 DEF FrameAt
  <2>18. ReadFrom(l, f) /\ f.size = Count(text[l])
    <3>1. PICK i \in DOMAIN text, x \in Range(functions) :
             x = functions[k] /\ Begins(text, i, k) /\ ReadFrom(i, x)
      BY DEF LInv, EveryFunctionRead, FunctionRead
    <3>2. i = l
      BY <2>11, <2>13, <2>14, <3>1, BeginsOnce
    <3> QED
      BY <1>9, <3>1, <3>2 DEF ReadFrom
  <2>19. Reaches(text, h, b + 1, m)
    BY <1>12, <2>11, <2>13, <2>15, <2>17, <2>18, NestedReaches DEF LInv
  <2>20. inst \in Instruction /\ Extends(literals, literals') /\ Shows(inst, l)'
    BY <1>11, <1>12, <1>14, <2>1, <2>2, <2>7, <2>11, <2>14, <2>17, NestedShows
  <2>21. Grows
    BY <1>12, <2>7, <2>20 DEF Grows, TextOK, Extends
  <2>22. FunctionRead(k)'
    <3>1. ~(n < f.size)
      BY <2>15
    <3>2. ReadFrom(l, g)'
      BY <2>3, <2>14, <2>15, <2>18, <2>21, <3>1, HaltMentions, MoreRead
    <3>3. g \in Range(functions')
      BY <2>7 DEF Range
    <3> QED
      BY <1>12, <2>7, <2>11, <2>14, <3>2, <3>3 DEF FunctionRead
  <2>23. FunctionRead(q)'
    <3>1. ReadFrom(h, e)
      <4>1. PICK i \in DOMAIN text, x \in Range(functions) :
               x = functions[q] /\ Begins(text, i, q) /\ ReadFrom(i, x)
        BY DEF LInv, EveryFunctionRead, FunctionRead
      <4>2. i = h
        BY <2>12, <2>13, <2>14, <4>1, BeginsOnce
      <4> QED
        BY <1>10, <4>1, <4>2
    <3>2. b < e.size
      <4>1. BeingLoaded(literals, functions[frames[d].fun], frames[d].maxreg, d < Len(frames))
        BY <1>5 DEF RInv, AllLoading
      <4> QED
        BY <1>1, <1>2, <1>6, <1>10, <2>10, <4>1 DEF BeingLoaded
    <3>3. ReadAt(inst, h, b + 1)'
      <4>1. Reaches(text', h, b, l - 1) /\ b + 1 - 1 = b /\ l \in h + 1..Len(text')
        BY <1>12, <2>10, <2>11
      <4> QED
        BY <2>20, <4>1 DEF ReadAt
    <3>4. ~(b >= e.size)
      BY <2>5, <2>10, <3>2
    <3>5. ReadFrom(h, e2)'
      BY <2>5, <2>10, <2>20, <2>21, <3>1, <3>3, <3>4, MoreRead
    <3>6. e2 \in Range(functions')
      BY <2>7 DEF Range
    <3> QED
      BY <1>12, <2>7, <2>12, <3>5, <3>6 DEF FunctionRead
  <2>24. EveryFunctionRead'
    <3>1. ASSUME NEW j \in DOMAIN functions, j \notin {k, q} PROVE FunctionRead(j)'
      BY <2>7, <2>21, <3>1, OtherRead DEF LInv
    <3> QED
      BY <2>7, <2>22, <2>23, <3>1 DEF EveryFunctionRead
  <2>25. ASSUME NEW j \in 1..d PROVE \E i \in DOMAIN text' : FrameAt(j, i)'
    <3>1. CASE j = d
      <4>1. frames'[d] = frames[d] /\ frames'[d].fun = q
        BY <1>2, <1>6, <2>8, <3>1
      <4>2. Len(functions'[q].instructions) = b + 1
        BY <2>5, <2>7, <2>10
      <4>3. d > 1 => frames'[d].reg = text'[h][2].l
        BY <1>12, <2>12, <4>1
      <4>4. FrameAt(d, h)'
        BY <1>12, <2>8, <2>12, <2>13, <2>19, <4>1, <4>2, <4>3 DEF FrameAt
      <4> QED
        BY <1>12, <3>1, <4>4
    <3>2. CASE j # d
      <4>1. j \in Nat /\ j < d /\ j + 1 \in 1..d /\ j \in DOMAIN frames /\ j # t
        BY <1>1, <1>2, <3>2
      <4>2. PICK i \in DOMAIN text : FrameAt(j, i)
        BY <1>12, <4>1 DEF LInv, FramesAtLines
      <4>3. frames[j] \in Frame /\ frames[j].fun \notin {k, q}
        <5>1. FramesDiffer
          BY DEF RInv
        <5>2. frames[j].fun # frames[t].fun /\ frames[j].fun # frames[d].fun
          BY <1>5, <3>2, <4>1, <5>1 DEF FramesDiffer
        <5>3. frames[j] \in Frame
          BY <1>3, <4>1
        <5> QED
          BY <1>4, <1>6, <5>2, <5>3
      <4>4. functions'[frames[j].fun] = functions[frames[j].fun]
        BY <2>7, <4>3 DEF Frame
      <4>5. frames'[j] = frames[j] /\ frames'[j + 1] = frames[j + 1]
        BY <2>8, <4>1
      <4>6. j < Len(frames) /\ j < Len(frames') /\ Len(frames) \in Nat /\ Len(frames') \in Nat
        BY <1>1, <1>2, <2>8, <4>1
      <4> QED
        BY <2>21, <4>1, <4>2, <4>4, <4>5, <4>6, WaitingStays
    <3> QED
      BY <3>1, <3>2
  <2> QED
    BY <1>12, <2>7, <2>8, <2>24, <2>25 DEF LInv, FramesAtLines
<1> QED
  BY <1>13, <1>14

\* The tokens of a line, one for each word.
LEMMA TokensOfWords ==
  ASSUME NEW line \in Line
  PROVE  /\ Len(line) \in Nat /\ Len(tokens(line)) = Len(line)
         /\ DOMAIN line = 1..Len(line)
         /\ \A i \in 1..Len(line) : tokens(line)[i] = Token(line[i]) /\ IsWord(line[i])
<1>1. PICK n \in Nat : n = Len(line) /\ DOMAIN line = 1..n
  BY LineAssumption
<1>2. \A i \in 1..n : IsWord(line[i])
  BY <1>1, WordsOfLine DEF AreWords
<1> DEFINE u == tokens(line)
<1>3. u = [i \in 1..n |-> Token(line[i])]
  BY <1>1 DEF tokens
<1> HIDE DEF u
<1>4. Len(u) = n /\ \A i \in 1..n : u[i] = Token(line[i])
  BY <1>3
<1> QED
  BY <1>1, <1>2, <1>4 DEF u

LEMMA NameOfToken ==
  ASSUME NEW w, IsWord(w), NEW name
  PROVE  /\ IsName(Token(w), name) <=> IsSym(w, name)
         /\ IsInt(Token(w)) => w.kind = "int"
<1>1. w.kind = "sym" <=> Token(w).type = "TNAME"
  BY NumberOfToken
<1>2. w.kind = "sym" => Token(w).name = w.name
  BY NumberOfToken
<1>3. IsInt(Token(w)) => w.kind = "int"
  BY TokenIs DEF IsWord
<1> QED
  BY <1>1, <1>2, <1>3 DEF IsName, IsSym

\* The integers of a line that begins a function are read as they are.
LEMMA HeaderNumber ==
  ASSUME NEW line \in Line, line # <<>>, IsHeader(line), NEW i \in DOMAIN line,
         IsInt(Token(line[i]))
  PROVE  /\ Token(line[i]).n = line[i].l /\ Signed(Token(line[i]).n) = line[i].l
         /\ line[i].l \in Nat
<1>1. IsWord(line[i]) /\ IsWord(line[1]) /\ i \in 1..Len(line) /\ Len(line) \in Nat
  BY TokensOfWords DEF IsHeader
<1>2. IsName(Token(line[1]), ".load")
  BY <1>1, NameOfToken DEF IsHeader
<1>3. line[i] \in Range(line)
  BY DEF Range
<1>4. line[i].kind = "int" /\ Token(line[i]).n = line[i].l % Word
  BY <1>1, TokenIs DEF IsWord
<1>5. line[i].l \in 0..Word \div 2 - 1
  BY <1>2, <1>3, <1>4, LineAssumption
<1>6. PICK l \in Nat : l = line[i].l /\ l < Word \div 2
  BY <1>5, Sizes
<1>7. Word \in Nat /\ Word > 0 /\ Word \div 2 \in Nat /\ Word \div 2 <= Word
  BY Sizes
<1>8. l % Word = l
  BY <1>6, <1>7, SMTT(30)
<1>9. Signed(l) = l
  BY <1>6, <1>7 DEF Signed
<1> QED
  BY <1>4, <1>6, <1>8, <1>9

\* A line that begins no function is parsed.
LEMMA ParseLineReads ==
  ASSUME RInv, TextOK, LInv, outcome = "loading", frames # <<>>, ~Complete,
         NEW line \in Line, text' = Append(text, line), line # <<>>, ~IsHeader(line),
         ParseLine(line[1].name, Tail(tokens(line)))
  PROVE  LInv'
<1>1. PICK t \in Nat \ {0} :
         /\ t = Len(frames) /\ DOMAIN frames = 1..t /\ Top = frames[t]
         /\ Top \in Frame /\ Top.fun \in DOMAIN functions
         /\ functions[Top.fun] \in Function
  BY TopIs
<1>2. PICK name, ts : name = line[1].name /\ ts = Tail(tokens(line))
  OBVIOUS
<1>3. AreTokens(ts) /\ ParseLine(name, ts)
  BY <1>2, TokensAfterName
<1>4. text' \in Seq(Line) /\ Extends(text, text')
  BY MoreText
<1>5. literals \in Seq(Range(literals)) /\ globals \in Seq(Range(globals))
  BY DEF RInv, PoolsOK
<1>6. CASE ~HasEntry(name)
  <2>1. /\ functions' = [functions EXCEPT ![Top.fun].instructions = Append(@, Halt)]
        /\ literals' = literals /\ globals' = globals /\ frames' = frames
    BY <1>3, <1>6 DEF ParseLine
  <2>2. frames' = [frames EXCEPT ![Len(frames)].maxreg = Top.maxreg]
    <3>1. [frames[t] EXCEPT !.maxreg = frames[t].maxreg] = frames[t]
      BY <1>1 DEF Frame
    <3>2. [frames EXCEPT ![t] = frames[t]] = frames
      BY <1>1 DEF RInv, FunctionsOK
    <3> QED
      BY <1>1, <2>1, <3>1, <3>2
  <2>3. Extends(literals, literals') /\ Extends(globals, globals')
    BY <2>1 DEF Extends
  <2>4. PICK reg : reg = Top.maxreg
    OBVIOUS
  <2> QED
    BY <1>2, <1>6, <2>1, <2>2, <2>3, <2>4, HaltMentions, AddingReads
<1>7. CASE HasEntry(name)
  <2>1. PICK op, f, p : /\ op = itable_entry(name)[2] /\ f = Format[itable_entry(name)[3]]
                        /\ p = Parse(op, f, ts)
    OBVIOUS
  <2>2. CASE ~Accepts(f, ts) \/ ~Fits(p.literals) \/ Len(p.globals) > MAX_GLOBALS
    <3>1. UNCHANGED <<literals, globals, functions, frames>> /\ outcome' = "aborted"
      BY <1>3, <1>7, <2>1, <2>2 DEF ParseLine, Abort
    <3>2. Grows
      BY <1>4, <3>1 DEF Grows, TextOK, Extends
    <3> QED
      BY <3>1, <3>2, StopReads
  <2>3. CASE ~(~Accepts(f, ts) \/ ~Fits(p.literals) \/ Len(p.globals) > MAX_GLOBALS)
    <3>1. /\ functions' = [functions EXCEPT ![Top.fun].instructions = Append(@, p.inst)]
          /\ frames' = [frames EXCEPT ![Len(frames)].maxreg = See(@, f, ts)]
          /\ literals' = p.literals /\ globals' = p.globals
      BY <1>3, <1>7, <2>1, <2>3 DEF ParseLine
    <3>2. PICK reg : reg = See(Top.maxreg, f, ts)
      OBVIOUS
    <3>3. frames' = [frames EXCEPT ![Len(frames)].maxreg = reg]
      BY <1>1, <3>1, <3>2
    <3>4. op \in Opcode /\ f = Format[ParserOf(op)]
      BY <1>7, <2>1, EntryIs
    <3>5. IsFormat(f)
      BY <3>4, ParserIsKnown, Formats
    <3>6. Accepts(f, ts) /\ Fits(p.literals) /\ ~(Len(p.globals) > MAX_GLOBALS)
      BY <2>3
    <3>7. Len(p.globals) <= MAX_GLOBALS
      <4>1. p.globals = globals \/ \E g : p.globals = WithGlobal(g)
        BY <2>1 DEF Parse
      <4>2. p.globals \in Seq(Range(p.globals))
        BY <1>5, <4>1, GlobalIsFound
      <4>3. Len(p.globals) \in Nat
        BY <4>2
      <4> QED
        BY <3>6, <4>3, Sizes
    <3>8. Parsed(p, op, f, ts)
      <4>1. Fits(Parse(op, f, ts).literals) /\ Len(Parse(op, f, ts).globals) <= MAX_GLOBALS
        BY <2>1, <3>6, <3>7
      <4>2. Parsed(Parse(op, f, ts), op, f, ts)
        BY <1>3, <1>5, <3>5, <3>6, <4>1, ParseMakes
      <4> QED
        BY <2>1, <4>2
    <3>9. PICK inst : inst = p.inst
      OBVIOUS
    <3>10. inst = [opcode |-> op, xyz |-> inst.xyz] /\ inst.xyz \in 0..I24 - 1
      BY <3>8, <3>9 DEF Parsed
    <3>11. inst \in Instruction /\ inst.opcode = op
      BY <3>4, <3>10 DEF Instruction
    <3>12. Extends(literals, literals') /\ Extends(globals, globals') /\ HasOperands(p, f, ts)
      BY <3>1, <3>8 DEF Parsed
    <3>13. Says(inst, line)'
      <4>1. p.inst.opcode = op
        BY <3>9, <3>11
      <4>2. Says(p.inst, line)'
        <5>1. MadeFrom(line, op, f, p)
          BY <1>2, <1>7, <2>1, <3>1, <3>4, <3>5, <3>6, <3>12, <4>1 DEF MadeFrom
        <5> QED
          BY <5>1, ParseSays
      <4> QED
        BY <3>9, <4>2
    <3>14. functions' = [functions EXCEPT ![Top.fun].instructions = Append(@, inst)]
      BY <3>1, <3>9
    <3>15. HasEntry(line[1].name)
      BY <1>2, <1>7
    <3> QED
      BY <3>3, <3>11, <3>12, <3>13, <3>14, <3>15, AddingReads
  <2> QED
    BY <2>2, <2>3
<1> QED
  BY <1>6, <1>7

\* A line that is read.
LEMMA ReadLineReads ==
  ASSUME RInv, TextOK, LInv, NEW line \in Line, ReadLine(line)
  PROVE  LInv'
<1>1. PICK ts : ts = tokens(line)
  OBVIOUS
<1>2. /\ outcome = "loading" /\ text' = Append(text, line)
      /\ \/ Abort
         \/ frames = <<>> /\ LoadModule(ts)
         \/ frames # <<>> /\ ~Complete /\ GetInstruction(ts)
  BY <1>1 DEF ReadLine
<1>3. PICK n \in Nat : n = Len(line) /\ DOMAIN line = 1..n
  BY TokensOfWords
<1>4. AreTokens(ts)
  BY <1>1, TokensOfLine
<1>5. Len(ts) = n /\ \A i \in 1..n : ts[i] = Token(line[i]) /\ IsWord(line[i])
  BY <1>1, <1>3, TokensOfWords
<1>6. ts = <<>> <=> n = 0
  BY <1>4, <1>5 DEF AreTokens
<1>7. ASSUME Abort PROVE LInv'
  <2>1. UNCHANGED <<literals, globals, functions, frames>> /\ outcome' = "aborted"
    BY <1>7 DEF Abort
  <2>2. text' \in Seq(Line) /\ Extends(text, text')
    BY <1>2, MoreText
  <2>3. Grows
    BY <2>1, <2>2 DEF Grows, TextOK, Extends
  <2> QED
    BY <2>1, <2>3, StopReads
<1>8. ASSUME n # 0, IsName(ts[1], ".load") PROVE line # <<>> /\ IsHeader(line)
  <2>1. line # <<>> /\ 1 \in 1..n
    BY <1>3, <1>8
  <2>2. IsSym(line[1], ".load")
    BY <1>5, <1>8, <2>1, NameOfToken
  <2> QED
    BY <2>1, <2>2 DEF IsHeader
<1>9. CASE frames = <<>> /\ LoadModule(ts)
  <2>1. CASE Len(ts) = 3 /\ IsName(ts[1], ".load") /\ IsName(ts[2], "module") /\ IsInt(ts[3])
    <3>1. n = 3 /\ {2, 3} \subseteq 1..n
      BY <1>5, <2>1
    <3>2. line # <<>> /\ IsHeader(line)
      BY <1>8, <2>1, <3>1
    <3>3. IsSym(line[2], "module") /\ IsInt(Token(line[3])) /\ ts[3] = Token(line[3])
      BY <1>5, <2>1, <3>1, NameOfToken
    <3>4. Signed(ts[3].n) = Count(line) /\ Count(line) \in Nat
      <4>1. 3 \in DOMAIN line
        BY <1>3, <3>1
      <4>2. Signed(Token(line[3]).n) = line[3].l /\ line[3].l \in Nat
        BY <3>2, <3>3, <4>1, HeaderNumber
      <4> QED
        BY <3>3, <4>2 DEF Count
    <3>5. BeginFunction(0, Signed(ts[3].n), 0)
      BY <1>9, <2>1 DEF LoadModule
    <3>6. BeginFunction(0, Count(line), 0)
      BY <3>4, <3>5
    <3> QED
      BY <1>2, <1>9, <3>2, <3>4, <3>6, BeginReads
  <2>2. CASE ~(Len(ts) = 3 /\ IsName(ts[1], ".load") /\ IsName(ts[2], "module") /\ IsInt(ts[3]))
    BY <1>7, <1>9, <2>2 DEF LoadModule
  <2> QED
    BY <2>1, <2>2
<1>10. CASE frames # <<>> /\ ~Complete /\ GetInstruction(ts)
  <2>1. CASE ts = <<>> \/ ts[1].type # "TNAME"
    BY <1>7, <1>10, <2>1 DEF GetInstruction
  <2>2. CASE ~(ts = <<>> \/ ts[1].type # "TNAME") /\ ts[1].name = ".load"
    <3>1. LoadNested(ts)
      BY <1>10, <2>2 DEF GetInstruction
    <3>2. CASE Len(ts) >= 5 /\ IsInt(ts[2]) /\ IsName(ts[3], "function")
               /\ IsInt(ts[4]) /\ IsInt(ts[5])
      <4>1. {2, 3, 4, 5} \subseteq 1..n /\ n # 0
        BY <1>5, <3>2
      <4>2. line # <<>> /\ IsHeader(line)
        BY <1>8, <2>2, <4>1 DEF IsName
      <4>3. /\ ts[2] = Token(line[2]) /\ ts[5] = Token(line[5])
            /\ IsInt(Token(line[2])) /\ IsInt(Token(line[5])) /\ IsWord(line[2])
        BY <1>5, <3>2, <4>1
      <4>4. ts[2].n = line[2].l /\ Signed(ts[5].n) = line[5].l /\ line[5].l \in Nat
        <5>1. 2 \in DOMAIN line /\ 5 \in DOMAIN line
          BY <1>3, <4>1
        <5>2. Token(line[2]).n = line[2].l
          BY <4>2, <4>3, <5>1, HeaderNumber
        <5>3. Signed(Token(line[5]).n) = line[5].l /\ line[5].l \in Nat
          BY <4>2, <4>3, <5>1, HeaderNumber
        <5> QED
          BY <4>3, <5>2, <5>3
      <4>5. ~IsSym(line[2], "module")
        <5>1. line[2].kind = "int"
          BY <4>3, NameOfToken
        <5> QED
          BY <5>1 DEF IsSym
      <4>6. Count(line) = line[5].l /\ Count(line) \in Nat
        BY <4>4, <4>5 DEF Count
      <4>7. BeginFunction(Signed(ts[4].n), Signed(ts[5].n), ts[2].n)
        BY <3>1, <3>2 DEF LoadNested
      <4>8. PICK arity, reg : arity = Signed(ts[4].n) /\ reg = ts[2].n /\ reg = line[2].l
        BY <4>4
      <4>9. BeginFunction(arity, Count(line), reg)
        BY <4>4, <4>6, <4>7, <4>8
      <4> QED
        BY <1>2, <4>2, <4>6, <4>8, <4>9, BeginReads
    <3>3. CASE ~(Len(ts) >= 5 /\ IsInt(ts[2]) /\ IsName(ts[3], "function")
                 /\ IsInt(ts[4]) /\ IsInt(ts[5]))
      BY <1>7, <3>1, <3>3 DEF LoadNested
    <3> QED
      BY <3>2, <3>3
  <2>3. CASE ~(ts = <<>> \/ ts[1].type # "TNAME") /\ ts[1].name # ".load"
    <3>1. ParseLine(ts[1].name, Tail(ts))
      BY <1>10, <2>3 DEF GetInstruction
    <3>2. n # 0 /\ 1 \in 1..n /\ line # <<>>
      BY <1>3, <1>6, <2>3
    <3>3. ts[1] = Token(line[1]) /\ IsWord(line[1])
      BY <1>5, <3>2
    <3>4. line[1].kind = "sym" /\ ts[1].name = line[1].name
      BY <2>3, <3>3, NumberOfToken
    <3>5. ~IsHeader(line)
      BY <2>3, <3>4 DEF IsHeader, IsSym
    <3>6. ParseLine(line[1].name, Tail(tokens(line)))
      BY <1>1, <3>1, <3>4
    <3> QED
      BY <1>2, <1>10, <3>2, <3>5, <3>6, ParseLineReads
  <2> QED
    BY <2>1, <2>2, <2>3
<1> QED
  BY <1>2, <1>7, <1>9, <1>10

LEMMA LInvInit == Init => LInv
<1> SUFFICES ASSUME Init PROVE LInv
  OBVIOUS
<1>1. functions = <<>> /\ frames = <<>> /\ text = <<>>
  BY DEF Init
<1>2. Len(text) = 0 /\ Headers(text, 0) = {}
  BY <1>1 DEF Headers
<1>3. Announced(text, 0) = {}
  BY <1>2 DEF Announced
<1>4. IsFiniteSet(Announced(text, Len(text))) /\ Cardinality(Headers(text, Len(text))) = 0
  BY <1>2, <1>3, FS_EmptySet
<1> QED
  BY <1>1, <1>4 DEF LInv, EveryFunctionRead, FramesAtLines

LEMMA LInvNext == RInv /\ TextOK /\ LInv /\ [Next]_vars => LInv'
<1> SUFFICES ASSUME RInv, TextOK, LInv, [Next]_vars PROVE LInv'
  OBVIOUS
<1>1. CASE \E line \in Line : ReadLine(line)
  BY <1>1, ReadLineReads
<1>2. CASE EndOfFile
  <2>1. UNCHANGED <<literals, globals, functions, frames, text>> /\ outcome' # "loading"
    BY <1>2 DEF EndOfFile
  <2>2. Grows
    BY <2>1 DEF Grows, TextOK, Extends
  <2> QED
    BY <2>1, <2>2, StopReads
<1>3. CASE Ended \/ UNCHANGED vars
  <2>1. UNCHANGED vars
    BY <1>3 DEF Ended
  <2>2. UNCHANGED <<literals, globals, functions, frames, text, outcome>>
    BY <2>1 DEF vars
  <2>3. Grows
    BY <2>2 DEF Grows, TextOK, Extends
  <2>4. EveryFunctionRead'
    BY <2>2, <2>3, OtherRead DEF LInv, EveryFunctionRead
  <2>5. FramesAtLines => FramesAtLines'
    BY <2>2 DEF FramesAtLines, FrameAt
  <2> QED
    BY <2>2, <2>4, <2>5 DEF LInv
<1> QED
  BY <1>1, <1>2, <1>3, EndModuleReads, EndNestedReads DEF Next

-----------------------------------------------------------------------------

\* In every state of every loading, each function has been read from its lines.
THEOREM LinesInvariance == Spec => [](RInv /\ TextOK /\ LInv)
<1>1. Init => LInv
  BY LInvInit
<1>2. RInv /\ TextOK /\ LInv /\ [Next]_vars => LInv'
  BY LInvNext
<1> QED
  BY <1>1, <1>2, Invariance, PTL DEF Spec

LEMMA HeaderLineIs ==
  ASSUME TextOK, NEW h, NEW k, Begins(text, h, k)
  PROVE  HeaderLine(k) = h
<1> DEFINE P(l) == IsHeader(text[l]) /\ Cardinality(Headers(text, l)) = k
<1>1. h \in DOMAIN text /\ P(h)
  BY DEF Begins
<1>2. PICK l : l = HeaderLine(k)
  OBVIOUS
<1>3. l \in DOMAIN text /\ P(l)
  BY <1>1, <1>2 DEF HeaderLine
<1>4. Begins(text, l, k) /\ l \in Nat /\ h \in Nat
  BY <1>1, <1>3 DEF Begins, TextOK
<1> QED
  BY <1>2, <1>4, BeginsOnce

\* The line after n instructions is the one that they reach.
LEMMA AfterIs ==
  ASSUME TextOK, NEW h \in Nat, NEW n \in Nat, NEW l \in h + 1..Len(text),
         Reaches(text, h, n, l - 1)
  PROVE  After(n, h) = l
<1> DEFINE S == {m \in h + 1..Len(text) : Owed(text, m - 1) = Owed(text, h) - n}
<1>1. l \in Nat /\ Len(text) \in Nat
  BY DEF TextOK
<1>2. S \in SUBSET Nat
  BY <1>1
<1>3. l \in S
  BY DEF Reaches
<1>4. ASSUME NEW m \in S PROVE m >= l
  <2> SUFFICES ASSUME m < l PROVE FALSE
    BY <1>1, <1>2
  <2>1. m - 1 \in h..(l - 1) - 1
    BY <1>1
  <2>2. /\ Owed(text, m - 1) > Owed(text, h) - n /\ Owed(text, m - 1) = Owed(text, h) - n
        /\ Owed(text, h) \in Int
    BY <1>1, <2>1 DEF Reaches
  <2>3. PICK a \in Int, b \in Int : a = Owed(text, m - 1) /\ b = Owed(text, h) - n
    BY <2>2
  <2> QED
    BY <2>2, <2>3
<1>5. Min(S) \in S /\ \A m \in S : Min(S) <= m
  BY <1>2, <1>3, LeastIs
<1>6. Min(S) = l
  <2>1. Min(S) \in Nat
    BY <1>2, <1>5
  <2> QED
    BY <1>1, <1>3, <1>4, <1>5, <2>1
<1> QED
  BY <1>6 DEF After

\* The instructions of a function that has been read, one by one.
LEMMA InstructionRead ==
  ASSUME NEW h, NEW f, ReadFrom(h, f), NEW i \in DOMAIN f.instructions
  PROVE  /\ f.size = Count(text[h])
         /\ i > f.size => f.instructions[i] = Halt
         /\ ~(i > f.size) => ReadAt(f.instructions[i], h, i)
BY DEF ReadFrom, ReadAt

\* However modules and functions are nested, and whatever is loaded afterwards,
\* each instruction of each function is the one that its own line shows.
THEOREM LoadingCorrectness == Spec => []LoadedAsWritten
<1>1. RInv /\ TextOK /\ LInv => LoadedAsWritten
  <2> SUFFICES ASSUME RInv, TextOK, LInv, NEW k \in DOMAIN functions
               PROVE  LET h == HeaderLine(k)
                          f == functions[k]
                      IN
                      /\ f.size = Count(text[h])
                      /\ \A i \in DOMAIN f.instructions :
                           LET inst == f.instructions[i]
                               l == After(i - 1, h)
                           IN IF i > f.size THEN inst = Halt
                              ELSE IF IsHeader(text[l]) THEN Loads(inst, l)
                              ELSE IF HasEntry(text[l][1].name) THEN Says(inst, text[l])
                              ELSE inst = Halt
    BY DEF LoadedAsWritten
  <2>1. PICK h \in DOMAIN text, f \in Range(functions) :
           f = functions[k] /\ Begins(text, h, k) /\ ReadFrom(h, f)
    BY DEF LInv, EveryFunctionRead, FunctionRead
  <2>2. HeaderLine(k) = h /\ h \in Nat
    BY <2>1, HeaderLineIs DEF TextOK
  <2>3. f \in Function
    BY <2>1 DEF RInv, FunctionsOK
  <2>4. f.size = Count(text[h])
    BY <2>1 DEF ReadFrom
  <2>5. ASSUME NEW i \in DOMAIN f.instructions, ~(i > f.size)
        PROVE  LET inst == f.instructions[i]
                   l == After(i - 1, h)
               IN IF IsHeader(text[l]) THEN Loads(inst, l)
                  ELSE IF HasEntry(text[l][1].name) THEN Says(inst, text[l])
                  ELSE inst = Halt
    <3>1. PICK l \in h + 1..Len(text) :
             Reaches(text, h, i - 1, l - 1) /\ Shows(f.instructions[i], l)
      <4>1. ReadAt(f.instructions[i], h, i)
        BY <2>1, <2>5, InstructionRead
      <4> QED
        BY <4>1 DEF ReadAt
    <3>2. PICK inst : inst = f.instructions[i]
      OBVIOUS
    <3>3. i - 1 \in Nat
      <4>1. f.instructions \in Seq(Instruction)
        BY <2>3 DEF Function
      <4>2. i \in Nat \ {0}
        BY <4>1
      <4> QED
        BY <4>2
    <3>4. After(i - 1, h) = l
      BY <2>2, <3>1, <3>3, AfterIs
    <3>5. CASE IsHeader(text[l])
      <4>1. /\ LoadsFunction(literals, inst) /\ uX(inst) = text[l][2].l
            /\ uYZ(inst) + 1 \in DOMAIN literals
            /\ Begins(text, l, literals[uYZ(inst) + 1].f)
        BY <3>1, <3>2, <3>5 DEF Shows
      <4>2. HeaderLine(literals[uYZ(inst) + 1].f) = l
        <5>1. PICK j : j = literals[uYZ(inst) + 1].f
          OBVIOUS
        <5> QED
          BY <4>1, <5>1, HeaderLineIs
      <4>3. Loads(inst, l)
        BY <4>1, <4>2 DEF Loads, LoadsFunction
      <4> QED
        BY <3>2, <3>4, <3>5, <4>3
    <3>6. CASE ~IsHeader(text[l])
      BY <3>1, <3>4, <3>6 DEF Shows
    <3> QED
      BY <3>5, <3>6
  <2>6. \A i \in DOMAIN f.instructions : i > f.size => f.instructions[i] = Halt
    BY <2>1, InstructionRead
  <2> QED
    BY <2>1, <2>2, <2>4, <2>5, <2>6
<1> QED
  BY <1>1, LinesInvariance, PTL

=============================================================================
