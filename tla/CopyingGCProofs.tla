--------------------------- MODULE CopyingGCProofs ---------------------------
(***************************************************************************)
(* Safety of the copying collector, and that it implements ObjectGraph, for *)
(* every number of registers, roots, slots, strings and objects and every   *)
(* policy of the page allocator.                                            *)
(***************************************************************************)
EXTENDS CopyingGC, TLAPS

\* The initial states satisfy the inductive invariant.
LEMMA InitIInv == Init => IInv
<1> SUFFICES ASSUME Init PROVE IInv
  OBVIOUS
<1> USE DEF Init
<1>1. TypeOK
  BY SizeAssumption DEF TypeOK, Root, Value, Kind, Slot, NoSlots
<1>2. FromSpace = {} /\ ToSpace = {}
  BY DEF FromSpace, ToSpace
<1>3. gray = <<>> /\ DOMAIN gray = {} /\ Range(gray) = {}
  BY DEF Range
<1>4. StageInv
  BY <1>2 DEF StageInv
<1>5. RootsInv
  BY DEF RootsInv, PointsInto
<1>6. FromSpaceInv /\ GrayPointsToFromSpace /\ BlackPointsToToSpace /\ GrayOnce
  BY <1>2, <1>3 DEF FromSpaceInv, GrayPointsToFromSpace, BlackPointsToToSpace, GrayOnce
<1>7. LeafInv
  BY DEF LeafInv
<1>8. ForwardingInv
  BY <1>2 DEF ForwardingInv, Collecting
<1>9. IdentityInv
  BY <1>2 DEF IdentityInv
<1>10. TableInv
  BY DEF TableInv
<1> QED
  BY <1>1, <1>4, <1>5, <1>6, <1>7, <1>8, <1>9, <1>10 DEF IInv

-----------------------------------------------------------------------------
(* The allocator and the stack of gray objects *)

\* The allocator takes free memory.
LEMMA FreshIsFree ==
  ASSUME NEW a \in Fresh(Free, ToSpace), TypeOK
  PROVE  a \in Addr /\ space[a] = "free" /\ a # Nil
BY FreshAssumption, NilAssumption DEF Free, ToSpace, TypeOK

\* Remembering an object puts it on top of the stack.
LEMMA PushGray ==
  ASSUME gray \in Seq(Addr), NEW a \in Addr
  PROVE  /\ Append(gray, a) \in Seq(Addr)
         /\ DOMAIN gray = 1..Len(gray) /\ Len(gray) \in Nat
         /\ DOMAIN Append(gray, a) = 1..Len(gray) + 1
         /\ \A i \in DOMAIN gray : Append(gray, a)[i] = gray[i]
         /\ Append(gray, a)[Len(gray) + 1] = a
         /\ Range(Append(gray, a)) = Range(gray) \cup {a}
<1>1. /\ Append(gray, a) \in Seq(Addr)
      /\ DOMAIN gray = 1..Len(gray) /\ Len(gray) \in Nat
      /\ DOMAIN Append(gray, a) = 1..Len(gray) + 1
      /\ \A i \in DOMAIN gray : Append(gray, a)[i] = gray[i]
      /\ Append(gray, a)[Len(gray) + 1] = a
  OBVIOUS
<1>2. Range(Append(gray, a)) = Range(gray) \cup {a}
  BY <1>1 DEF Range
<1> QED
  BY <1>1, <1>2

\* The object scanned next is the one on top of the stack.
LEMMA PopsTop ==
  ASSUME gray \in Seq(Addr), gray # <<>>, GrayOnce
  PROVE  LET top_ == gray[Len(gray)]
             rest == SubSeq(gray, 1, Len(gray) - 1)
         IN  /\ Len(gray) \in DOMAIN gray
             /\ top_ \in Range(gray) /\ top_ \in ToSpace /\ top_ # scanning
             /\ kind[top_] \notin Leaf
             /\ rest \in Seq(Addr)
             /\ DOMAIN rest \subseteq DOMAIN gray
             /\ \A i \in DOMAIN rest : rest[i] = gray[i]
             /\ Range(rest) = Range(gray) \ {top_}
<1> DEFINE top_ == gray[Len(gray)]
           rest == SubSeq(gray, 1, Len(gray) - 1)
<1>1. /\ DOMAIN gray = 1..Len(gray) /\ Len(gray) \in Nat \ {0}
      /\ rest \in Seq(Addr) /\ DOMAIN rest = 1..Len(gray) - 1
      /\ \A i \in DOMAIN rest : rest[i] = gray[i]
  OBVIOUS
<1>2. /\ Len(gray) \in DOMAIN gray
      /\ top_ \in Range(gray) /\ top_ \in ToSpace /\ top_ # scanning
      /\ kind[top_] \notin Leaf
  BY <1>1 DEF GrayOnce, Range
<1>3. \A i \in DOMAIN rest : i # Len(gray) /\ i \in DOMAIN gray
  BY <1>1
<1>4. \A i \in DOMAIN gray : i # Len(gray) => i \in DOMAIN rest
  BY <1>1
<1>5. Range(rest) = Range(gray) \ {top_}
  <2>1. ASSUME NEW x \in Range(rest) PROVE x \in Range(gray) \ {top_}
    <3>1. PICK i \in DOMAIN rest : x = rest[i]
      BY DEF Range
    <3>2. i \in DOMAIN gray /\ i # Len(gray) /\ x = gray[i]
      BY <1>1, <1>3, <3>1
    <3> QED
      BY <3>2, <1>2 DEF GrayOnce, Range
  <2>2. ASSUME NEW x \in Range(gray) \ {top_} PROVE x \in Range(rest)
    <3>1. PICK i \in DOMAIN gray : x = gray[i]
      BY DEF Range
    <3>2. i \in DOMAIN rest /\ x = rest[i]
      BY <1>1, <1>4, <3>1
    <3> QED
      BY <3>2 DEF Range
  <2> QED
    BY <2>1, <2>2
<1> QED
  BY <1>1, <1>2, <1>3, <1>5

-----------------------------------------------------------------------------
(* The mutator *)

\* A value an instruction gets hold of is nil or points to an object in use.
LEMMA InHandIsLive ==
  ASSUME IInv, pc = "mutator"
  PROVE  /\ Visible \subseteq Root
         /\ \A r \in Root : PointsInto(root[r], ToSpace)
         /\ \A v \in InHand : PointsInto(v, ToSpace)
         /\ \A a \in ToSpace, k \in Slot : PointsInto(slots[a][k], ToSpace)
         /\ gray = <<>> /\ Range(gray) = {} /\ scanning = Nil /\ FromSpace = {}
         /\ ToSpace \subseteq Addr
<1>1. Visible \subseteq Root
  BY SizeAssumption DEF Visible, Root, IInv, TypeOK
<1>2. \A r \in Root : PointsInto(root[r], ToSpace)
  BY DEF IInv, RootsInv
<1>3. \A v \in InHand : PointsInto(v, ToSpace)
  BY <1>1, <1>2 DEF InHand, PointsInto
<1>4. gray = <<>> /\ scanning = Nil /\ FromSpace = {}
  BY DEF IInv, StageInv
<1>5. Range(gray) = {}
  BY <1>4 DEF Range
<1>6. ToSpace \subseteq Addr
  BY DEF ToSpace
<1>7. \A a \in ToSpace : Black(a)
  BY <1>4, <1>5, <1>6, NilAssumption DEF Black, Gray
<1>8. \A a \in ToSpace, k \in Slot : PointsInto(slots[a][k], ToSpace)
  BY <1>7 DEF IInv, BlackPointsToToSpace
<1> QED
  BY <1>1, <1>2, <1>3, <1>4, <1>5, <1>6, <1>8

\* An instruction that changes a root, to a value that is nil or in use.
LEMMA RootChange ==
  ASSUME IInv, pc = "mutator",
         NEW r \in Root, NEW v, PointsInto(v, ToSpace),
         root' = [root EXCEPT ![r] = v],
         UNCHANGED <<top, space, object, fwd, interned, gray, scanning, next, pc>>
  PROVE  IInv'
<1> USE DEF object
<1>1. TypeOK'
  BY DEF IInv, TypeOK, PointsInto, Value, ToSpace
<1>2. FromSpace' = FromSpace /\ ToSpace' = ToSpace
  BY DEF FromSpace, ToSpace
<1>3. RootsInv'
  BY <1>2, InHandIsLive DEF RootsInv, PointsInto, IInv, TypeOK
<1>4. StageInv' /\ FromSpaceInv' /\ GrayOnce' /\ LeafInv'
  BY <1>2 DEF IInv, StageInv, FromSpaceInv, GrayOnce, LeafInv
<1>5. GrayPointsToFromSpace' /\ BlackPointsToToSpace'
  BY <1>2 DEF IInv, GrayPointsToFromSpace, BlackPointsToToSpace, Black, Gray
<1>6. ForwardingInv' /\ IdentityInv' /\ TableInv'
  BY <1>2 DEF IInv, ForwardingInv, IdentityInv, TableInv, Collecting
<1> QED
  BY <1>1, <1>3, <1>4, <1>5, <1>6 DEF IInv

\* A new object at a, with values in hand, to which root r is made to point.
LEMMA Allocation ==
  ASSUME IInv, pc = "mutator",
         NEW r \in Root, NEW a \in Fresh(Free, ToSpace),
         NEW knd \in Kind, NEW pay, NEW slts \in [Slot -> InHand],
         Allocate(a, knd, pay, slts),
         pay \in IF knd = "string" THEN Bytes ELSE Label,
         \A b \in ToSpace : payload[b] # pay,
         knd \in Leaf => slts = NoSlots,
         root' = [root EXCEPT ![r] = a],
         interned' = IF knd = "string" THEN interned \cup {a} ELSE interned,
         UNCHANGED <<top, gray, scanning, next, pc>>
  PROVE  IInv'
<1> USE InHandIsLive
<1>1. a \in Addr /\ space[a] = "free" /\ a # Nil /\ a \notin ToSpace /\ a \notin interned
  BY FreshIsFree DEF IInv, ToSpace, TableInv
<1>2. FromSpace' = FromSpace /\ ToSpace' = ToSpace \cup {a}
  BY <1>1 DEF FromSpace, ToSpace, Allocate, IInv, TypeOK
<1>3. \A v \in InHand : v \in Value
  BY DEF PointsInto, Value
<1>4. TypeOK'
  <2>1. slts \in [Slot -> Value]
    BY <1>3
  <2> QED
    BY <1>1, <2>1 DEF IInv, TypeOK, Allocate, Value
<1>5. StageInv'
  BY <1>2, <1>1 DEF IInv, StageInv
<1>6. RootsInv'
  BY <1>1, <1>2 DEF RootsInv, PointsInto, IInv, TypeOK
<1>7. FromSpaceInv' /\ GrayPointsToFromSpace' /\ GrayOnce'
  BY <1>2 DEF FromSpaceInv, GrayPointsToFromSpace, GrayOnce, IInv
<1>8. \A b \in ToSpace' , k \in Slot : PointsInto(slots'[b][k], ToSpace')
  BY <1>1, <1>2 DEF IInv, TypeOK, PointsInto, Allocate
<1>9. BlackPointsToToSpace'
  BY <1>8 DEF BlackPointsToToSpace
<1>10. LeafInv'
  BY <1>1 DEF LeafInv, IInv, TypeOK, Allocate
<1>11. fwd' = fwd
  BY <1>1 DEF IInv, TypeOK, ForwardingInv, FromSpace, Allocate
<1>12. ForwardingInv'
  BY <1>11, <1>2 DEF IInv, ForwardingInv, Collecting
<1>13. IdentityInv'
  BY <1>1, <1>2 DEF IInv, TypeOK, IdentityInv, Allocate
<1>14. TableInv'
  BY <1>1 DEF IInv, TypeOK, TableInv, Allocate
<1> QED
  BY <1>4, <1>5, <1>6, <1>7, <1>9, <1>10, <1>12, <1>13, <1>14 DEF IInv

\* SetBlockSlot and SetClSlot.
LEMMA StoreStep ==
  ASSUME IInv, NEW a \in InHand \ {Nil}, NEW k \in Slot, NEW v \in InHand, Store(a, k, v)
  PROVE  IInv'
<1> USE InHandIsLive DEF Store
<1>1. a \in ToSpace /\ a \in Addr /\ PointsInto(v, ToSpace)
  BY DEF PointsInto
<1>2. FromSpace' = FromSpace /\ ToSpace' = ToSpace
  BY DEF FromSpace, ToSpace
<1>3. TypeOK'
  BY <1>1 DEF IInv, TypeOK, Value, PointsInto
<1>4. StageInv' /\ RootsInv' /\ FromSpaceInv' /\ GrayPointsToFromSpace' /\ GrayOnce'
  BY <1>2 DEF IInv, StageInv, RootsInv, FromSpaceInv, GrayPointsToFromSpace, GrayOnce
<1>5. \A b \in ToSpace', j \in Slot : PointsInto(slots'[b][j], ToSpace')
  BY <1>1, <1>2 DEF IInv, TypeOK, PointsInto
<1>6. BlackPointsToToSpace'
  BY <1>5 DEF BlackPointsToToSpace
<1>7. LeafInv'
  BY <1>1 DEF IInv, TypeOK, LeafInv
<1>8. ForwardingInv' /\ IdentityInv' /\ TableInv'
  BY <1>2 DEF IInv, ForwardingInv, IdentityInv, TableInv, Collecting
<1> QED
  BY <1>3, <1>4, <1>6, <1>7, <1>8 DEF IInv

\* Call and Return.
LEMMA MoveWindowStep ==
  ASSUME IInv, NEW t \in 0..NRegs, MoveWindow(t)
  PROVE  IInv'
<1> USE DEF MoveWindow, object
<1>1. FromSpace' = FromSpace /\ ToSpace' = ToSpace
  BY DEF FromSpace, ToSpace
<1>2. TypeOK' /\ StageInv' /\ RootsInv' /\ FromSpaceInv' /\ LeafInv' /\ GrayOnce'
  BY <1>1 DEF IInv, TypeOK, StageInv, RootsInv, FromSpaceInv, LeafInv, GrayOnce
<1>3. GrayPointsToFromSpace' /\ BlackPointsToToSpace'
  BY <1>1 DEF IInv, GrayPointsToFromSpace, BlackPointsToToSpace, Black, Gray
<1>4. ForwardingInv' /\ IdentityInv' /\ TableInv'
  BY <1>1 DEF IInv, ForwardingInv, IdentityInv, TableInv, Collecting
<1> QED
  BY <1>2, <1>3, <1>4 DEF IInv

\* No instruction of the mutator breaks the invariant.
LEMMA MutatorPreservesIInv == IInv /\ MutatorStep => IInv'
<1> SUFFICES ASSUME IInv, MutatorStep PROVE IInv'
  OBVIOUS
<1>1. pc = "mutator"
  BY DEF MutatorStep, Assign, Load, Store, New, InternShort, MoveWindow
<1> USE <1>1, InHandIsLive
<1>2. ASSUME NEW r \in Visible, NEW v \in InHand, Assign(r, v) PROVE IInv'
  BY <1>2, RootChange DEF Assign
<1>3. ASSUME NEW r \in Visible, NEW a \in InHand \ {Nil}, NEW k \in Slot, Load(r, a, k)
      PROVE  IInv'
  <2>1. PointsInto(slots[a][k], ToSpace)
    BY DEF PointsInto
  <2> QED
    BY <1>3, <2>1, RootChange DEF Load
<1>4. ASSUME NEW r \in Visible, NEW a \in Fresh(Free, ToSpace), NEW l \in Label,
             NEW knd \in Kind, NEW slts \in [Slot -> InHand], New(r, a, l, knd, slts)
      PROVE  IInv'
  <2>1. /\ knd # "string" /\ knd \in Leaf => slts = NoSlots
        /\ \A b \in ToSpace : payload[b] # l
    BY <1>4 DEF New, Leaf
  <2> QED
    BY <1>4, <2>1, Allocation DEF New
<1>5. ASSUME NEW r \in Visible, NEW b \in Bytes, InternShort(r, b) PROVE IInv'
  <2> DEFINE found == {s \in interned : payload[s] = b}
  <2>1. CASE found # {}
    <3>1. PICK s \in found : root' = [root EXCEPT ![r] = s]
      BY <1>5, <2>1 DEF InternShort
    <3>2. s \in ToSpace
      BY DEF IInv, TypeOK, TableInv, ToSpace
    <3>3. UNCHANGED <<top, space, object, fwd, interned, gray, scanning, next, pc>>
      BY <1>5, <2>1 DEF InternShort
    <3> QED
      BY <3>1, <3>2, <3>3, RootChange DEF PointsInto
  <2>2. CASE found = {}
    <3>1. PICK a \in Fresh(Free, ToSpace) :
            /\ Allocate(a, "string", b, NoSlots)
            /\ root' = [root EXCEPT ![r] = a]
            /\ interned' = interned \cup {a}
      BY <1>5, <2>2 DEF InternShort
    <3>2. \A c \in ToSpace : payload[c] # b
      <4> SUFFICES ASSUME NEW c \in ToSpace, payload[c] = b PROVE FALSE
        OBVIOUS
      <4>1. kind[c] = "string"
        BY IdentityAssumption DEF IInv, IdentityInv
      <4>2. c \in interned
        BY <4>1 DEF IInv, TableInv, ToSpace
      <4> QED
        BY <4>2, <2>2
    <3>3. NoSlots \in [Slot -> InHand]
      BY DEF NoSlots, InHand
    <3>4. UNCHANGED <<top, gray, scanning, next, pc>>
      BY <1>5 DEF InternShort
    <3> HIDE DEF found
    <3> QED
      BY <3>1, <3>2, <3>3, <3>4, Allocation DEF Kind
  <2> QED
    BY <2>1, <2>2
<1> QED
  BY <1>2, <1>3, <1>4, <1>5, StoreStep, MoveWindowStep DEF MutatorStep

-----------------------------------------------------------------------------
(* The collector *)

\* Copying an object that is white keeps the two spaces in correspondence.
LEMMA Copying ==
  ASSUME IInv, pc \in {"registers", "roots", "scan"},
         NEW p \in FromSpace, fwd[p] = Nil,
         NEW a \in Fresh(Free, ToSpace), CopyTo(p, a),
         UNCHANGED <<top, interned, scanning, pc>>
  PROVE  /\ a \in Addr /\ a # Nil /\ a \notin FromSpace /\ a \notin ToSpace
         /\ FromSpace' = FromSpace /\ ToSpace' = ToSpace \cup {a}
         /\ fwd'[p] = a
         /\ gray' \in Seq(Addr)
         /\ Range(gray)' = IF kind[p] \in Leaf THEN Range(gray) ELSE Range(gray) \cup {a}
         /\ GrayOnce' /\ ForwardingInv' /\ IdentityInv' /\ TableInv'
<1> USE DEF CopyTo
<1>1. /\ a \in Addr /\ space[a] = "free" /\ a # Nil /\ p \in Addr /\ p # Nil /\ p # a
      /\ a \notin FromSpace /\ a \notin ToSpace
  BY FreshIsFree, NilAssumption DEF IInv, ToSpace, FromSpace
<1>2. FromSpace' = FromSpace /\ ToSpace' = ToSpace \cup {a}
  BY <1>1 DEF FromSpace, ToSpace, IInv, TypeOK
<1>3. gray \in Seq(Addr) /\ ToSpace \subseteq Addr /\ FromSpace \subseteq Addr
  BY DEF IInv, TypeOK, ToSpace, FromSpace
<1>4. /\ kind' = [kind EXCEPT ![a] = kind[p]] /\ kind \in [Addr -> Kind]
      /\ payload' = [payload EXCEPT ![a] = payload[p]]
      /\ payload \in [Addr -> Bytes \cup Label \cup {Nil}]
      /\ fwd[a] = Nil /\ fwd' = [fwd EXCEPT ![p] = a] /\ fwd \in [Addr -> Value]
  BY <1>1 DEF IInv, TypeOK, ForwardingInv
<1>5. GrayOnce' /\ gray' \in Seq(Addr)
      /\ Range(gray)' = IF kind[p] \in Leaf THEN Range(gray) ELSE Range(gray) \cup {a}
  <2>1. \A i \in DOMAIN gray : gray[i] \in ToSpace' \ {scanning'} /\ kind'[gray[i]] \notin Leaf
    BY <1>1, <1>2, <1>3, <1>4 DEF IInv, GrayOnce
  <2>2. CASE kind[p] \in Leaf
    BY <2>1, <2>2, <1>3 DEF IInv, GrayOnce
  <2>3. CASE kind[p] \notin Leaf
    <3>1. a # scanning
      BY <1>1 DEF IInv, StageInv
    <3>2. kind'[a] \notin Leaf /\ a \in ToSpace' \ {scanning'}
      BY <1>1, <1>2, <1>4, <2>3, <3>1
    <3>3. gray' = Append(gray, a)
      BY <2>3
    <3>4. \A i \in DOMAIN gray : gray[i] # a
      BY <1>1 DEF IInv, GrayOnce
    <3> QED
      BY <2>1, <2>3, <3>2, <3>3, <3>4, <1>1, <1>3, PushGray DEF IInv, GrayOnce
  <2> QED
    BY <2>2, <2>3
<1>6. ForwardingInv'
  <2>1. ASSUME NEW b \in Addr, fwd'[b] # Nil
        PROVE  /\ b \in FromSpace' /\ fwd'[b] \in ToSpace'
               /\ kind'[fwd'[b]] = kind'[b] /\ payload'[fwd'[b]] = payload'[b]
    <3>1. CASE b = p
      BY <1>1, <1>2, <1>4, <3>1
    <3>2. CASE b # p
      <4>1. /\ fwd'[b] = fwd[b] /\ b \in FromSpace /\ fwd[b] \in ToSpace
            /\ kind[fwd[b]] = kind[b] /\ payload[fwd[b]] = payload[b]
        BY <2>1, <3>2, <1>1, <1>4 DEF IInv, ForwardingInv
      <4>2. b # a /\ fwd[b] # a /\ fwd[b] \in Addr
        BY <4>1, <1>1, <1>3
      <4> QED
        BY <4>1, <4>2, <1>2, <1>4
    <3> QED
      BY <3>1, <3>2
  <2>2. \A b, c \in Addr : fwd'[b] = fwd'[c] /\ fwd'[b] # Nil => b = c
    BY <1>1, <1>4 DEF IInv, ForwardingInv
  <2>3. \A c \in ToSpace' : \E b \in FromSpace' : fwd'[b] = c
    <3>1. \A c \in ToSpace : \E b \in FromSpace : fwd[b] = c
      BY DEF IInv, ForwardingInv, Collecting
    <3>2. \A c \in ToSpace : c # Nil
      BY <1>3, NilAssumption
    <3> QED
      BY <1>1, <1>2, <1>3, <1>4, <3>1, <3>2
  <2> QED
    BY <2>1, <2>2, <2>3 DEF ForwardingInv
<1>7. IdentityInv'
  <2>1. \A c \in ToSpace : payload[c] # payload[p]
    BY <1>3, NilAssumption DEF IInv, ForwardingInv, IdentityInv, Collecting
  <2> QED
    BY <1>1, <1>2, <1>3, <1>4, <2>1 DEF IInv, IdentityInv
<1>8. TableInv'
  BY <1>1, <1>4 DEF IInv, TypeOK, TableInv
<1> QED
  BY <1>1, <1>2, <1>4, <1>5, <1>6, <1>7, <1>8

\* gc(), step 3.
LEMMA StartCollectionStep == IInv /\ StartCollection => IInv'
<1> SUFFICES ASSUME IInv, StartCollection PROVE IInv'
  OBVIOUS
<1> USE InHandIsLive DEF StartCollection, object
<1>1. FromSpace' = ToSpace /\ ToSpace' = {} /\ pc = "mutator"
  BY DEF FromSpace, ToSpace, IInv, TypeOK
<1>2. TypeOK'
  BY <1>1 DEF IInv, TypeOK
<1>3. StageInv'
  BY <1>1, SizeAssumption DEF IInv, TypeOK, StageInv
<1>4. RootsInv' /\ FromSpaceInv' /\ GrayOnce' /\ LeafInv'
  BY <1>1 DEF IInv, TypeOK, RootsInv, FromSpaceInv, GrayOnce, LeafInv, Root
<1>5. GrayPointsToFromSpace' /\ BlackPointsToToSpace'
  BY <1>1 DEF GrayPointsToFromSpace, BlackPointsToToSpace
<1>6. ForwardingInv' /\ IdentityInv'
  BY <1>1 DEF IInv, ForwardingInv, IdentityInv, Collecting
<1>7. TableInv'
  BY <1>1 DEF IInv, TypeOK, TableInv, FromSpace
<1> QED
  BY <1>2, <1>3, <1>4, <1>5, <1>6, <1>7 DEF IInv

\* The collector forwards a value from from-space: it is nil or to-space's.
LEMMA SettledTarget ==
  ASSUME IInv, NEW v, PointsInto(v, FromSpace), Settled(v)
  PROVE  PointsInto(Target(v), ToSpace)
BY DEF IInv, ForwardingInv, PointsInto, Settled, Target, FromSpace

\* scan_value of a root.
LEMMA ForwardRootStep ==
  ASSUME IInv, pc \in {"registers", "roots"}, next \in Root,
         pc = "registers" => next <= top,
         ForwardRoot, UNCHANGED pc
  PROVE  IInv'
<1> DEFINE v == root[next]
<1>1. PointsInto(v, FromSpace) /\ next \in Nat /\ next' = next + 1 /\ next' \in Nat
  BY DEF IInv, TypeOK, RootsInv, ForwardRoot, Root
<1>2. scanning = Nil /\ UNCHANGED <<top, interned, scanning, pc>>
  BY DEF IInv, StageInv, ForwardRoot
<1>5. /\ pc = "registers" => next' \in 1..top + 1
      /\ pc = "roots" => next' \in NRegs + 1..NRoots + 1
  BY <1>1, SizeAssumption DEF IInv, TypeOK, StageInv, Root
<1>3. CASE Settled(v)
  <2>1. /\ root' = [root EXCEPT ![next] = Target(v)]
        /\ UNCHANGED <<space, object, fwd, gray>>
    BY <1>3 DEF ForwardRoot
  <2>2. PointsInto(Target(v), ToSpace)
    BY <1>1, <1>3, SettledTarget
  <2>3. FromSpace' = FromSpace /\ ToSpace' = ToSpace
    BY <2>1 DEF FromSpace, ToSpace
  <2>4. TypeOK'
    BY <1>1, <1>2, <2>1, <2>2 DEF IInv, TypeOK, object, PointsInto, Value, ToSpace
  <2>5. RootsInv'
    BY <1>1, <1>2, <2>1, <2>2, <2>3 DEF IInv, TypeOK, RootsInv, PointsInto, Root
  <2>6. StageInv'
    BY <1>5, <1>1, <1>2 DEF StageInv
  <2>7. FromSpaceInv' /\ GrayOnce' /\ LeafInv'
    BY <1>2, <2>1, <2>3 DEF IInv, FromSpaceInv, GrayOnce, LeafInv, object
  <2>8. GrayPointsToFromSpace' /\ BlackPointsToToSpace'
    BY <1>2, <2>1, <2>3
       DEF IInv, GrayPointsToFromSpace, BlackPointsToToSpace, Black, Gray, object
  <2>9. ForwardingInv' /\ IdentityInv' /\ TableInv'
    BY <1>2, <2>1, <2>3 DEF IInv, ForwardingInv, IdentityInv, TableInv, Collecting, object
  <2> QED
    BY <2>4, <2>5, <2>6, <2>7, <2>8, <2>9 DEF IInv
<1>4. CASE ~Settled(v)
  <2>1. v \in FromSpace /\ fwd[v] = Nil /\ v \in Addr
    BY <1>1, <1>4 DEF Settled, PointsInto, FromSpace
  <2>2. PICK a \in Fresh(Free, ToSpace) :
          /\ CopyTo(v, a)
          /\ slots' = [slots EXCEPT ![a] = slots[v]]
          /\ root' = [root EXCEPT ![next] = a]
    BY <1>4 DEF ForwardRoot
  <2>3. /\ a \in Addr /\ a # Nil /\ a \notin FromSpace /\ a \notin ToSpace
        /\ FromSpace' = FromSpace /\ ToSpace' = ToSpace \cup {a}
        /\ gray' \in Seq(Addr)
        /\ Range(gray)' = IF kind[v] \in Leaf THEN Range(gray) ELSE Range(gray) \cup {a}
        /\ GrayOnce' /\ ForwardingInv' /\ IdentityInv' /\ TableInv'
    BY <1>2, <2>1, <2>2, Copying
  <2> HIDE DEF v
  <2>4. TypeOK'
    BY <1>1, <1>2, <2>1, <2>2, <2>3 DEF IInv, TypeOK, CopyTo, Value
  <2>5. RootsInv'
    BY <1>1, <1>2, <2>2, <2>3 DEF IInv, TypeOK, RootsInv, PointsInto, Root
  <2>6. StageInv'
    BY <1>5, <1>1, <1>2 DEF StageInv
  <2>7. slots'[a] = slots[v] /\ \A b \in Addr \ {a} : slots'[b] = slots[b]
    BY <2>2, <2>3 DEF IInv, TypeOK
  <2>8. FromSpaceInv'
    BY <2>3, <2>7 DEF IInv, FromSpaceInv, FromSpace
  <2>9. GrayPointsToFromSpace'
    BY <2>1, <2>3, <2>7 DEF IInv, GrayPointsToFromSpace, FromSpaceInv, GrayOnce, Range, ToSpace
  <2>10. kind[v] \in Leaf => slots[v] = NoSlots
    BY <2>1 DEF IInv, LeafInv
  <2>11. BlackPointsToToSpace'
    BY <1>2, <2>3, <2>7, <2>10
       DEF IInv, BlackPointsToToSpace, Black, Gray, PointsInto, NoSlots, ToSpace
  <2>12. LeafInv'
    BY <2>1, <2>2, <2>3, <2>7, <2>10 DEF IInv, TypeOK, LeafInv, CopyTo
  <2> QED
    BY <2>3, <2>4, <2>5, <2>6, <2>8, <2>9, <2>11, <2>12 DEF IInv
<1> QED
  BY <1>3, <1>4

\* scan_value of a slot of the object being scanned.
LEMMA ScanSlotStep == IInv /\ ScanSlot => IInv'
<1> SUFFICES ASSUME IInv, ScanSlot PROVE IInv'
  OBVIOUS
<1> DEFINE v == slots[scanning][next]
<1>1. /\ pc = "scan" /\ next \in Slot /\ next \in Nat /\ next' = next + 1
      /\ scanning \in ToSpace /\ scanning \in Addr /\ scanning # Nil
      /\ kind[scanning] \notin Leaf
      /\ UNCHANGED <<root, top, interned, scanning, pc>>
  BY DEF ScanSlot, IInv, TypeOK, StageInv, Slot, ToSpace
<1>2. PointsInto(v, FromSpace)
  BY <1>1 DEF IInv, BlackPointsToToSpace
<1>3. next' \in 1..NSlots + 1 /\ next' \in Nat
  BY <1>1, SizeAssumption DEF Slot
<1>4. scanning \notin Range(gray) /\ scanning \notin FromSpace
  BY <1>1 DEF IInv, GrayOnce, Range, FromSpace, ToSpace
<1>5. CASE Settled(v)
  <2>1. /\ slots' = [slots EXCEPT ![scanning][next] = Target(v)]
        /\ UNCHANGED <<space, kind, payload, fwd, gray>>
    BY <1>5 DEF ScanSlot
  <2>2. PointsInto(Target(v), ToSpace)
    BY <1>2, <1>5, SettledTarget
  <2>3. FromSpace' = FromSpace /\ ToSpace' = ToSpace
    BY <2>1 DEF FromSpace, ToSpace
  <2>4. /\ \A b \in Addr \ {scanning} : slots'[b] = slots[b]
        /\ \A k \in Slot : slots'[scanning][k] = IF k = next THEN Target(v) ELSE slots[scanning][k]
    BY <1>1, <2>1 DEF IInv, TypeOK
  <2> HIDE DEF v
  <2>5. TypeOK'
    BY <1>1, <1>3, <2>1, <2>2 DEF IInv, TypeOK, PointsInto, Value, ToSpace
  <2>6. StageInv' /\ RootsInv'
    BY <1>1, <1>3, <2>1, <2>3 DEF IInv, StageInv, RootsInv
  <2>7. FromSpaceInv' /\ GrayOnce'
    BY <1>1, <1>4, <2>1, <2>3, <2>4 DEF IInv, FromSpaceInv, GrayOnce, FromSpace
  <2>8. GrayPointsToFromSpace'
    BY <1>4, <2>1, <2>3, <2>4 DEF IInv, GrayPointsToFromSpace, GrayOnce, Range, ToSpace
  <2>9. BlackPointsToToSpace'
    <3>1. \A k \in Slot : PointsInto(slots'[scanning'][k], IF k < next' THEN ToSpace' ELSE FromSpace')
      BY <1>1, <2>2, <2>3, <2>4 DEF IInv, BlackPointsToToSpace, Slot
    <3>2. \A a \in ToSpace', k \in Slot : Black(a)' => PointsInto(slots'[a][k], ToSpace')
      BY <1>1, <2>1, <2>3, <2>4 DEF IInv, BlackPointsToToSpace, Black, Gray, ToSpace
    <3> QED
      BY <3>1, <3>2 DEF BlackPointsToToSpace
  <2>10. LeafInv'
    BY <1>1, <2>1, <2>4 DEF IInv, LeafInv
  <2>11. ForwardingInv' /\ IdentityInv' /\ TableInv'
    BY <1>1, <2>1, <2>3 DEF IInv, ForwardingInv, IdentityInv, TableInv, Collecting
  <2> QED
    BY <2>5, <2>6, <2>7, <2>8, <2>9, <2>10, <2>11 DEF IInv
<1>6. CASE ~Settled(v)
  <2>1. v \in FromSpace /\ fwd[v] = Nil /\ v \in Addr
    BY <1>2, <1>6 DEF Settled, PointsInto, FromSpace
  <2>2. PICK a \in Fresh(Free, ToSpace) :
          /\ CopyTo(v, a)
          /\ slots' = [slots EXCEPT ![a] = slots[v], ![scanning][next] = a]
    BY <1>6 DEF ScanSlot
  <2>3. /\ a \in Addr /\ a # Nil /\ a \notin FromSpace /\ a \notin ToSpace
        /\ FromSpace' = FromSpace /\ ToSpace' = ToSpace \cup {a}
        /\ gray' \in Seq(Addr)
        /\ Range(gray)' = IF kind[v] \in Leaf THEN Range(gray) ELSE Range(gray) \cup {a}
        /\ GrayOnce' /\ ForwardingInv' /\ IdentityInv' /\ TableInv'
    BY <1>1, <2>1, <2>2, Copying
  <2> HIDE DEF v
  <2>4. /\ slots'[a] = slots[v]
        /\ \A b \in Addr \ {a, scanning} : slots'[b] = slots[b]
        /\ \A k \in Slot : slots'[scanning][k] = IF k = next THEN a ELSE slots[scanning][k]
    BY <1>1, <2>2, <2>3 DEF IInv, TypeOK
  <2>5. TypeOK'
    <3>1. slots' \in [Addr -> [Slot -> Value]]
      BY <1>1, <2>1, <2>2, <2>3 DEF IInv, TypeOK, Value
    <3> QED
      BY <1>1, <1>3, <2>1, <2>2, <2>3, <3>1 DEF IInv, TypeOK, CopyTo, Value
  <2>6. StageInv' /\ RootsInv'
    <3>1. kind'[scanning] = kind[scanning]
      BY <1>1, <2>2, <2>3 DEF IInv, TypeOK, CopyTo
    <3> QED
      BY <1>1, <1>3, <2>3, <3>1 DEF IInv, StageInv, RootsInv, PointsInto
  <2>7. FromSpaceInv'
    BY <1>4, <2>3, <2>4 DEF IInv, FromSpaceInv, FromSpace
  <2>8. GrayPointsToFromSpace'
    <3>1. ASSUME NEW b \in Range(gray)', NEW k \in Slot
          PROVE  PointsInto(slots'[b][k], FromSpace)
      <4>1. CASE b = a
        BY <2>1, <2>4, <4>1 DEF IInv, FromSpaceInv
      <4>2. CASE b # a
        <5>1. b \in Range(gray) /\ b # scanning
          BY <1>4, <2>3, <4>2
        <5>2. b \in Addr
          BY <5>1 DEF IInv, GrayOnce, Range, ToSpace
        <5> QED
          BY <2>4, <4>2, <5>1, <5>2 DEF IInv, GrayPointsToFromSpace
      <4> QED
        BY <4>1, <4>2
    <3> QED
      BY <2>3, <3>1 DEF GrayPointsToFromSpace
  <2>9. kind[v] \in Leaf => slots[v] = NoSlots
    BY <2>1 DEF IInv, LeafInv
  <2>10. BlackPointsToToSpace'
    <3>1. \A k \in Slot : PointsInto(slots'[scanning'][k], IF k < next' THEN ToSpace' ELSE FromSpace')
      BY <1>1, <2>3, <2>4 DEF IInv, BlackPointsToToSpace, PointsInto, Slot
    <3>2. ASSUME NEW b \in ToSpace', NEW k \in Slot, Black(b)'
          PROVE  PointsInto(slots'[b][k], ToSpace')
      <4>1. b # scanning /\ b \notin Range(gray)' /\ b \in Addr
        BY <1>1, <3>2 DEF Black, Gray, ToSpace
      <4>2. CASE b = a
        BY <2>3, <2>4, <2>9, <4>1, <4>2 DEF PointsInto, NoSlots
      <4>3. CASE b # a
        <5>1. b \in ToSpace /\ Black(b) /\ slots'[b] = slots[b]
          BY <2>3, <2>4, <4>1, <4>3 DEF Black, Gray
        <5> QED
          BY <5>1, <2>3 DEF IInv, BlackPointsToToSpace, PointsInto
      <4> QED
        BY <4>2, <4>3
    <3> QED
      BY <3>1, <3>2 DEF BlackPointsToToSpace
  <2>11. LeafInv'
    <3>1. kind' = [kind EXCEPT ![a] = kind[v]] /\ kind \in [Addr -> Kind]
      BY <2>2 DEF CopyTo, IInv, TypeOK
    <3> QED
      BY <1>1, <2>3, <2>4, <2>9, <3>1 DEF IInv, LeafInv
  <2> QED
    BY <2>3, <2>5, <2>6, <2>7, <2>8, <2>10, <2>11 DEF IInv
<1> QED
  BY <1>5, <1>6

\* The steps of gc() that only go from one stage to the next.
LEMMA StageSteps ==
  ASSUME IInv, ClearStaleRegisters \/ EndRoots \/ EndScan
  PROVE  IInv'
<1> USE DEF object
<1>1. UNCHANGED <<top, space, object, fwd, interned, gray>>
  BY DEF ClearStaleRegisters, EndRoots, EndScan
<1>2. FromSpace' = FromSpace /\ ToSpace' = ToSpace
  BY <1>1 DEF FromSpace, ToSpace
<1>3. TypeOK'
  BY <1>1, SizeAssumption DEF IInv, TypeOK, ClearStaleRegisters, EndRoots, EndScan, Value
<1>4. RootsInv'
  <2>1. CASE ClearStaleRegisters
    BY <1>2, <2>1, SizeAssumption
       DEF IInv, TypeOK, StageInv, RootsInv, ClearStaleRegisters, PointsInto, Root
  <2>2. CASE EndRoots \/ EndScan
    BY <1>2, <2>2, SizeAssumption
       DEF IInv, TypeOK, StageInv, RootsInv, EndRoots, EndScan, Root
  <2> QED
    BY <2>1, <2>2
<1>5. StageInv'
  BY <1>1, <1>2, SizeAssumption DEF IInv, TypeOK, StageInv, ClearStaleRegisters, EndRoots, EndScan
<1>6. FromSpaceInv' /\ LeafInv' /\ GrayPointsToFromSpace'
  BY <1>1, <1>2 DEF IInv, FromSpaceInv, LeafInv, GrayPointsToFromSpace
<1>7. GrayOnce'
  BY <1>1, <1>2, NilAssumption
     DEF IInv, GrayOnce, ClearStaleRegisters, EndRoots, EndScan, ToSpace
<1>8. BlackPointsToToSpace'
  <2>1. CASE ClearStaleRegisters \/ EndRoots
    <3>1. scanning = Nil /\ scanning' = Nil
      BY <2>1 DEF IInv, StageInv, ClearStaleRegisters, EndRoots
    <3> QED
      BY <1>1, <1>2, <3>1 DEF IInv, BlackPointsToToSpace, Black, Gray
  <2>2. CASE EndScan
    <3>1. scanning # Nil /\ scanning' = Nil /\ \A k \in Slot : k < next
      BY <2>2, SizeAssumption DEF IInv, TypeOK, StageInv, EndScan, Slot
    <3>2. \A k \in Slot : PointsInto(slots[scanning][k], ToSpace)
      BY <3>1 DEF IInv, BlackPointsToToSpace
    <3> QED
      BY <1>1, <1>2, <3>1, <3>2 DEF IInv, BlackPointsToToSpace, Black, Gray
  <2> QED
    BY <2>1, <2>2
<1>9. ForwardingInv' /\ IdentityInv' /\ TableInv'
  <2>1. pc \notin {"mutator", "reclaim"} /\ pc' \notin {"mutator", "reclaim"}
    BY DEF ClearStaleRegisters, EndRoots, EndScan
  <2> QED
    BY <1>1, <1>2, <2>1 DEF IInv, ForwardingInv, IdentityInv, TableInv, Collecting
<1> QED
  BY <1>3, <1>4, <1>5, <1>6, <1>7, <1>8, <1>9 DEF IInv

\* gc(), step 5: an object comes off the stack.
LEMMA PopGrayStep == IInv /\ PopGray => IInv'
<1> SUFFICES ASSUME IInv, PopGray PROVE IInv'
  OBVIOUS
<1> USE DEF object
<1>1. /\ pc = "drain" /\ pc' = "scan" /\ next' = 1 /\ gray # <<>> /\ scanning = Nil
      /\ scanning' = gray[Len(gray)]
      /\ gray' = SubSeq(gray, 1, Len(gray) - 1)
      /\ UNCHANGED <<root, top, space, object, fwd, interned>>
  BY DEF PopGray, IInv, StageInv
<1>2. FromSpace' = FromSpace /\ ToSpace' = ToSpace
  BY <1>1 DEF FromSpace, ToSpace
<1>3. /\ scanning' \in Range(gray) /\ scanning' \in ToSpace /\ scanning' \in Addr
      /\ scanning' # Nil /\ kind[scanning'] \notin Leaf
      /\ gray' \in Seq(Addr) /\ DOMAIN gray' \subseteq DOMAIN gray
      /\ \A i \in DOMAIN gray' : gray'[i] = gray[i]
      /\ Range(gray)' = Range(gray) \ {scanning'}
  <2>1. gray \in Seq(Addr) /\ gray # <<>> /\ GrayOnce
    BY <1>1 DEF IInv, TypeOK
  <2>2. ToSpace \subseteq Addr
    BY DEF ToSpace
  <2> QED
    BY <1>1, <2>1, <2>2, PopsTop, NilAssumption
<1>4. TypeOK'
  BY <1>1, <1>3 DEF IInv, TypeOK, Value
<1>5. StageInv' /\ RootsInv' /\ FromSpaceInv' /\ LeafInv'
  BY <1>1, <1>2, <1>3, SizeAssumption DEF IInv, StageInv, RootsInv, FromSpaceInv, LeafInv
<1>6. GrayPointsToFromSpace'
  BY <1>1, <1>2, <1>3 DEF IInv, GrayPointsToFromSpace
<1>7. BlackPointsToToSpace'
  <2>1. \A k \in Slot : PointsInto(slots[scanning'][k], FromSpace) /\ ~(k < next')
    BY <1>1, <1>3 DEF IInv, GrayPointsToFromSpace, Slot
  <2>2. \A a \in ToSpace : Black(a)' => Black(a)
    BY <1>1, <1>2, <1>3, NilAssumption DEF Black, Gray, ToSpace
  <2> QED
    BY <1>1, <1>2, <2>1, <2>2 DEF IInv, BlackPointsToToSpace
<1>8. GrayOnce'
  <2>1. \A i \in DOMAIN gray' : gray'[i] \in Range(gray) \ {scanning'}
    BY <1>3 DEF Range
  <2> QED
    BY <1>1, <1>2, <1>3, <2>1 DEF IInv, GrayOnce
<1>9. ForwardingInv' /\ IdentityInv' /\ TableInv'
  BY <1>1, <1>2 DEF IInv, ForwardingInv, IdentityInv, TableInv, Collecting
<1> QED
  BY <1>4, <1>5, <1>6, <1>7, <1>8, <1>9 DEF IInv

\* gc(), step 6: the table is left with the copies of its strings.
LEMMA DropDeadStringsStep == IInv /\ DropDeadStrings => IInv'
<1> SUFFICES ASSUME IInv, DropDeadStrings PROVE IInv'
  OBVIOUS
<1> USE DEF object
<1>1. /\ pc = "drain" /\ pc' = "reclaim" /\ gray = <<>> /\ scanning = Nil
      /\ UNCHANGED <<root, top, space, object, fwd, gray, scanning, next>>
      /\ interned' = {fwd[s] : s \in {t \in interned : fwd[t] # Nil}}
  BY DEF DropDeadStrings, IInv, StageInv
<1>2. FromSpace' = FromSpace /\ ToSpace' = ToSpace
  BY <1>1 DEF FromSpace, ToSpace
<1>3. interned' \subseteq Addr
  BY <1>1 DEF IInv, ForwardingInv, ToSpace, TypeOK
<1>4. TypeOK' /\ StageInv' /\ RootsInv' /\ FromSpaceInv' /\ LeafInv'
  BY <1>1, <1>2, <1>3 DEF IInv, TypeOK, StageInv, RootsInv, FromSpaceInv, LeafInv
<1>5. GrayPointsToFromSpace' /\ BlackPointsToToSpace' /\ GrayOnce'
  BY <1>1, <1>2 DEF IInv, GrayPointsToFromSpace, BlackPointsToToSpace, Black, Gray, GrayOnce
<1>6. ForwardingInv' /\ IdentityInv'
  BY <1>1, <1>2 DEF IInv, ForwardingInv, IdentityInv, Collecting
<1>7. TableInv'
  <2>1. ASSUME NEW c \in interned' PROVE kind[c] = "string" /\ space[c] = "to"
    BY <1>1, <2>1 DEF IInv, TypeOK, ForwardingInv, TableInv, ToSpace
  <2>2. ASSUME NEW c \in Addr, kind[c] = "string", space[c] = "to" PROVE c \in interned'
    <3>1. c \in ToSpace /\ c # Nil
      BY <2>2, NilAssumption DEF ToSpace
    <3>2. PICK a \in FromSpace : fwd[a] = c
      BY <1>1, <3>1 DEF IInv, ForwardingInv, Collecting
    <3>3. a \in Addr /\ kind[a] = "string" /\ space[a] = "from"
      BY <2>2, <3>1, <3>2 DEF IInv, ForwardingInv, FromSpace
    <3>4. a \in interned
      BY <1>1, <3>3 DEF IInv, TableInv
    <3> QED
      BY <1>1, <3>1, <3>2, <3>4
  <2> QED
    BY <1>1, <2>1, <2>2 DEF TableInv
<1> QED
  BY <1>4, <1>5, <1>6, <1>7 DEF IInv

\* gc(), step 7: from-space is free memory again.
LEMMA ReclaimStep == IInv /\ Reclaim => IInv'
<1> SUFFICES ASSUME IInv, Reclaim PROVE IInv'
  OBVIOUS
<1>1. /\ pc = "reclaim" /\ pc' = "mutator" /\ gray = <<>> /\ scanning = Nil
      /\ UNCHANGED <<root, top, interned, gray, scanning, next>>
  BY DEF Reclaim, IInv, StageInv
<1>2. \A a \in Addr :
        /\ space[a] = "from" =>
             /\ space'[a] = "free" /\ kind'[a] = "string" /\ payload'[a] = Nil
             /\ slots'[a] = NoSlots /\ fwd'[a] = Nil
        /\ space[a] # "from" =>
             /\ space'[a] = space[a] /\ kind'[a] = kind[a] /\ payload'[a] = payload[a]
             /\ slots'[a] = slots[a] /\ fwd'[a] = fwd[a]
  BY DEF Reclaim
<1>3. FromSpace' = {} /\ ToSpace' = ToSpace
  BY <1>2 DEF FromSpace, ToSpace
<1>4. TypeOK'
  <2>1. NoSlots \in [Slot -> Value]
    BY DEF NoSlots, Value
  <2> QED
    BY <1>1, <2>1 DEF IInv, TypeOK, Reclaim, Kind, Value
<1>5. StageInv' /\ RootsInv' /\ FromSpaceInv'
  BY <1>1, <1>3 DEF IInv, StageInv, RootsInv, FromSpaceInv
<1>6. Range(gray) = {}
  BY <1>1 DEF Range
<1>7. GrayPointsToFromSpace' /\ GrayOnce'
  BY <1>1, <1>6 DEF GrayPointsToFromSpace, GrayOnce, Range
<1>8. BlackPointsToToSpace'
  BY <1>1, <1>2, <1>3, <1>6 DEF IInv, BlackPointsToToSpace, Black, Gray, ToSpace
<1>9. LeafInv'
  BY <1>2 DEF IInv, LeafInv
<1>10. fwd' = [a \in Addr |-> Nil]
  BY <1>2, <1>4 DEF IInv, TypeOK, ForwardingInv, FromSpace
<1>11. ForwardingInv'
  BY <1>1, <1>3, <1>10 DEF ForwardingInv, Collecting
<1>12. IdentityInv'
  BY <1>2, <1>3 DEF IInv, IdentityInv, ToSpace
<1>13. TableInv'
  BY <1>1, <1>2 DEF IInv, TypeOK, TableInv
<1> QED
  BY <1>4, <1>5, <1>7, <1>8, <1>9, <1>11, <1>12, <1>13 DEF IInv

\* No step of the collector breaks the invariant.
LEMMA CollectorPreservesIInv == IInv /\ CollectorStep => IInv'
<1> SUFFICES ASSUME IInv, CollectorStep PROVE IInv'
  OBVIOUS
<1>1. CASE ScanRegister
  <2>1. next \in Root
    BY <1>1, SizeAssumption DEF ScanRegister, IInv, TypeOK, StageInv, Root
  <2> QED
    BY <1>1, <2>1, ForwardRootStep DEF ScanRegister
<1>2. CASE ScanRoot
  <2>1. next \in Root
    BY <1>2, SizeAssumption DEF ScanRoot, IInv, TypeOK, StageInv, Root
  <2> QED
    BY <1>2, <2>1, ForwardRootStep DEF ScanRoot
<1> QED
  BY <1>1, <1>2, StageSteps, PopGrayStep, ScanSlotStep, DropDeadStringsStep, ReclaimStep
     DEF CollectorStep

-----------------------------------------------------------------------------
(* The theorems *)

\* Steps that change nothing.
LEMMA StutterPreservesIInv == IInv /\ UNCHANGED vars => IInv'
<1> SUFFICES ASSUME IInv, UNCHANGED vars PROVE IInv'
  OBVIOUS
<1> USE DEF vars, object, IInv
<1>1. FromSpace' = FromSpace /\ ToSpace' = ToSpace /\ Collecting' = Collecting
  BY DEF FromSpace, ToSpace, Collecting
<1>2. TypeOK' /\ StageInv' /\ RootsInv' /\ FromSpaceInv' /\ LeafInv' /\ GrayOnce'
  BY <1>1 DEF TypeOK, StageInv, RootsInv, FromSpaceInv, LeafInv, GrayOnce
<1>3. GrayPointsToFromSpace' /\ BlackPointsToToSpace'
  BY <1>1 DEF GrayPointsToFromSpace, BlackPointsToToSpace, Black, Gray
<1>4. ForwardingInv' /\ IdentityInv' /\ TableInv'
  BY <1>1 DEF ForwardingInv, IdentityInv, TableInv
<1> QED
  BY <1>2, <1>3, <1>4

\* Every state of every execution, during a collection or between two,
\* satisfies the inductive invariant.
THEOREM Invariance == Spec => []IInv
<1>1. IInv /\ [Next]_vars => IInv'
  BY MutatorPreservesIInv, StartCollectionStep, CollectorPreservesIInv, StutterPreservesIInv
     DEF Next
<1> QED
  BY InitIInv, <1>1, PTL DEF Spec

\* The variables always have their types.
THEOREM TypeCorrectness == Spec => []TypeOK
<1>1. IInv => TypeOK
  BY DEF IInv
<1> QED
  BY Invariance, <1>1, PTL

\* The color invariants that vmheap.c states hold between any two steps.
THEOREM ColorCorrectness == Spec => []ColorInvariants
<1>1. IInv => ColorInvariants
  <2> SUFFICES ASSUME IInv PROVE ColorInvariants
    OBVIOUS
  <2>1. WhitePointsToFromSpace
    BY DEF IInv, FromSpaceInv, WhitePointsToFromSpace
  <2>2. CopiesAreForwardedTo
    <3>1. FromSpace \subseteq Addr /\ ToSpace \subseteq Addr
      BY DEF FromSpace, ToSpace
    <3>2. \A a \in FromSpace : PointsInto(fwd[a], ToSpace)
      BY <3>1 DEF IInv, ForwardingInv, PointsInto
    <3>3. ASSUME Collecting, NEW c \in ToSpace
          PROVE  \E a \in FromSpace :
                   /\ fwd[a] = c /\ payload[a] = payload[c] /\ kind[a] = kind[c]
                   /\ \A b \in FromSpace : fwd[b] = c => b = a
      <4>1. PICK a \in FromSpace : fwd[a] = c
        BY <3>3 DEF IInv, ForwardingInv
      <4>2. c # Nil
        BY <3>1, NilAssumption
      <4> QED
        BY <3>1, <4>1, <4>2 DEF IInv, ForwardingInv
    <3> QED
      BY <3>2, <3>3 DEF CopiesAreForwardedTo
  <2> QED
    BY <2>1, <2>2 DEF IInv, ColorInvariants
<1> QED
  BY Invariance, <1>1, PTL

\* Between collections nothing in the machine or on the heap points to memory
\* that has been given back to the allocator.
THEOREM NoDangling == Spec => []NoDanglingPointer
<1>1. IInv => NoDanglingPointer
  <2> SUFFICES ASSUME IInv, pc = "mutator" PROVE NoDanglingPointer
    BY DEF NoDanglingPointer, Collecting
  <2>1. \A a \in ToSpace : fwd[a] = Nil
    BY DEF IInv, ForwardingInv, FromSpace, ToSpace
  <2>2. interned \subseteq ToSpace
    BY DEF IInv, TypeOK, TableInv, ToSpace
  <2> QED
    BY <2>1, <2>2, InHandIsLive DEF NoDanglingPointer
<1> QED
  BY Invariance, <1>1, PTL

\* Two objects never have one identity: copies replace their originals, and the
\* weak table keeps short strings unique across collections.
THEOREM PointerEquality == Spec => []PointerEqualityIsIdentity
<1>1. IInv => PointerEqualityIsIdentity
  BY DEF IInv, IdentityInv, PointerEqualityIsIdentity
<1> QED
  BY Invariance, <1>1, PTL

-----------------------------------------------------------------------------
(* The collector implements ObjectGraph: to the machine a collection is       *)
(* invisible but for the objects that no root reaches, which are gone, all of *)
(* them.                                                                     *)

\* The addresses of objects, in either space.
Used == FromSpace \cup ToSpace

\* The object at an address, and one with given slots, as the machine sees them.
ObjectAt(a) == [kind |-> kind[a], slots |-> [k \in Slot |-> Identity(slots[a][k])]]
ObjectOf(knd, slts) == [kind |-> knd, slots |-> [k \in Slot |-> Identity(slts[k])]]

\* The roots as the machine sees them.
View == [r \in Root |-> Identity(root[r])]

\* A step that assigns the root r.
SetsRoot(r, v) == root' = [root EXCEPT ![r] = v]

\* A copy shows the machine what its original does.
AgreeInv ==
  \A a \in Addr, k \in Slot :
    fwd[a] # Nil => Identity(slots[fwd[a]][k]) = Identity(slots[a][k])

\* A set of identities that holds what the roots in use refer to and what its
\* own members refer to.
Closed(S) ==
  /\ \A r \in Visible : Identity(root[r]) \in S \cup {Nil}
  /\ \A i \in S \cap DOMAIN Contents, k \in Slot : Contents[i].slots[k] \in S \cup {Nil}

\* Only what a root reaches is copied.
ReachInv ==
  Collecting =>
    \A S \in SUBSET (Bytes \cup Label) : Closed(S) => \A c \in ToSpace : payload[c] \in S

RInv == AgreeInv /\ ReachInv

-----------------------------------------------------------------------------
(* The graph that a state stands for *)

\* An object in use has an identity, which is not Nil, and fields.
LEMMA UsedAreObjects ==
  ASSUME IInv
  PROVE  /\ Used \subseteq Addr /\ FromSpace \subseteq Addr /\ ToSpace \subseteq Addr
         /\ Nil \notin Addr
         /\ \A a \in Used : payload[a] \in (Bytes \cup Label) /\ payload[a] # Nil
BY NilAssumption DEF Used, FromSpace, ToSpace, IInv, IdentityInv

\* Two addresses with one identity are an object and its copy, which agree.
LEMMA SameObject ==
  ASSUME IInv, AgreeInv, NEW a \in Used, NEW b \in Used, payload[a] = payload[b]
  PROVE  ObjectAt(a) = ObjectAt(b)
<1>1. ASSUME NEW x \in FromSpace, NEW c \in ToSpace, payload[x] = payload[c]
      PROVE  ObjectAt(x) = ObjectAt(c)
  <2>1. pc # "mutator"
    BY DEF IInv, StageInv
  <2>2. PICK d \in FromSpace : fwd[d] = c
    BY <2>1 DEF IInv, ForwardingInv, Collecting
  <2>3. fwd[d] # Nil /\ d \in Addr /\ c \in Addr
    BY <2>2, UsedAreObjects
  <2>4. payload[d] = payload[x] /\ kind[d] = kind[c]
    BY <1>1, <2>2, <2>3 DEF IInv, ForwardingInv
  <2>5. d = x
    BY <2>4 DEF IInv, IdentityInv
  <2>6. \A k \in Slot : Identity(slots[c][k]) = Identity(slots[x][k])
    BY <2>2, <2>3, <2>5 DEF AgreeInv
  <2> QED
    BY <2>4, <2>5, <2>6 DEF ObjectAt
<1>2. CASE a \in FromSpace /\ b \in FromSpace
  BY <1>2 DEF IInv, IdentityInv
<1>3. CASE a \in ToSpace /\ b \in ToSpace
  BY <1>3 DEF IInv, IdentityInv
<1> QED
  BY <1>1, <1>2, <1>3 DEF Used

\* The object with the identity of an address is the one that lies there.
ContentsShown ==
  /\ Contents = [i \in DOMAIN Contents |-> Contents[i]]
  /\ DOMAIN Contents = {payload[a] : a \in Used}
  /\ \A a \in Used : Contents[payload[a]] = ObjectAt(a)

\* So it is when a copy agrees with its original.
LEMMA ContentsAt == IInv /\ AgreeInv => ContentsShown
<1> SUFFICES ASSUME IInv, AgreeInv PROVE ContentsShown
  OBVIOUS
<1>1. Contents = [i \in {payload[a] : a \in Used} |-> ObjectAt(CHOOSE a \in Used : payload[a] = i)]
  BY DEF Contents, Used, ObjectAt
<1>2. ASSUME NEW a \in Used
      PROVE  ObjectAt(CHOOSE b \in Used : payload[b] = payload[a]) = ObjectAt(a)
  <2> DEFINE b == CHOOSE b \in Used : payload[b] = payload[a]
  <2>1. b \in Used /\ payload[b] = payload[a]
    OBVIOUS
  <2> HIDE DEF b
  <2>2. ObjectAt(b) = ObjectAt(a)
    BY <2>1, SameObject
  <2> QED
    BY <2>2 DEF b
<1> QED
  BY <1>1, <1>2 DEF ContentsShown

\* Two states stand for the same objects when each object of the one is an
\* object of the other.
LEMMA SameContents ==
  ASSUME IInv, IInv', AgreeInv, AgreeInv',
         \A a \in Used : \E b \in Used' :
           payload'[b] = payload[a] /\ ObjectAt(b)' = ObjectAt(a),
         \A b \in Used' : \E a \in Used : payload'[b] = payload[a]
  PROVE  Contents' = Contents
<1> USE DEF ContentsShown
<1>1. ContentsShown
  BY ContentsAt
<1>2. ContentsShown'
  BY ContentsAt, PTL
<1>3. DOMAIN Contents' = DOMAIN Contents
  BY <1>1, <1>2
<1>4. ASSUME NEW i \in DOMAIN Contents PROVE Contents'[i] = Contents[i]
  <2>1. PICK a \in Used : i = payload[a]
    BY <1>1
  <2>2. PICK b \in Used' : payload'[b] = payload[a] /\ ObjectAt(b)' = ObjectAt(a)
    OBVIOUS
  <2>3. Contents[i] = ObjectAt(a)
    BY <1>1, <2>1
  <2>4. Contents'[payload'[b]] = ObjectAt(b)'
    BY <1>2
  <2> QED
    BY <2>1, <2>2, <2>3, <2>4
<1> QED
  BY <1>1, <1>2, <1>3, <1>4

\* Whatever a root or an object in use refers to is in use.
LEMMA PointersIntoUsed ==
  ASSUME IInv
  PROVE  /\ \A r \in Root : PointsInto(root[r], Used)
         /\ \A a \in Used, k \in Slot : PointsInto(slots[a][k], Used)
<1>1. \A r \in Root : PointsInto(root[r], Used)
  BY DEF IInv, RootsInv, PointsInto, Used
<1>2. \A a \in FromSpace, k \in Slot : PointsInto(slots[a][k], Used)
  BY DEF IInv, FromSpaceInv, PointsInto, Used
<1>3. ASSUME NEW a \in ToSpace, NEW k \in Slot PROVE PointsInto(slots[a][k], Used)
  <2>1. CASE Black(a)
    BY <2>1 DEF IInv, BlackPointsToToSpace, PointsInto, Used
  <2>2. CASE Gray(a)
    BY <2>2 DEF IInv, GrayPointsToFromSpace, PointsInto, Used, Gray
  <2>3. CASE a = scanning
    <3>1. scanning # Nil
      BY <2>3, UsedAreObjects
    <3> QED
      BY <2>3, <3>1 DEF IInv, BlackPointsToToSpace, PointsInto, Used
  <2> QED
    BY <2>1, <2>2, <2>3 DEF Black
<1> QED
  BY <1>1, <1>2, <1>3 DEF Used

\* The roots of the running function and the others are roots.
LEMMA VisibleAreRoots == IInv => Visible \subseteq Root
BY SizeAssumption DEF Visible, Root, IInv, TypeOK

-----------------------------------------------------------------------------
(* The collector *)

\* A step that leaves the objects in from-space as they are changes nothing that
\* the machine can see of the objects.
LEMMA FromSpaceKept ==
  ASSUME IInv, IInv', AgreeInv, AgreeInv', Collecting, Collecting',
         FromSpace' = FromSpace,
         \A a \in FromSpace :
           kind'[a] = kind[a] /\ payload'[a] = payload[a] /\ slots'[a] = slots[a]
  PROVE  Contents' = Contents
<1>1. FromSpace \subseteq Used /\ FromSpace \subseteq Used'
  BY DEF Used
<1>2. ASSUME NEW a \in FromSpace PROVE ObjectAt(a)' = ObjectAt(a)
  <2>1. \A k \in Slot : PointsInto(slots[a][k], FromSpace)
    BY DEF IInv, FromSpaceInv
  <2>2. \A k \in Slot : Identity(slots[a][k])' = Identity(slots[a][k])
    BY <2>1 DEF Identity, PointsInto
  <2> QED
    BY <2>2 DEF ObjectAt
<1>3. ASSUME NEW a \in ToSpace
      PROVE  \E b \in FromSpace : payload[b] = payload[a]
  BY UsedAreObjects DEF IInv, ForwardingInv, Used
<1>4. ASSUME NEW a \in Used
      PROVE  \E b \in Used' : payload'[b] = payload[a] /\ ObjectAt(b)' = ObjectAt(a)
  <2>1. PICK b \in FromSpace : payload[b] = payload[a]
    BY <1>3 DEF Used
  <2>2. ObjectAt(b) = ObjectAt(a)
    BY <1>1, <2>1, SameObject
  <2> QED
    BY <1>1, <1>2, <2>1, <2>2
<1>5. ASSUME NEW b \in Used' PROVE \E a \in Used : payload'[b] = payload[a]
  <2>1. CASE b \in FromSpace
    BY <1>1, <2>1
  <2>2. CASE b \in ToSpace'
    <3>1. PICK a \in FromSpace' : fwd'[a] = b
      BY <2>2 DEF IInv, ForwardingInv
    <3>2. a \in Addr /\ b # Nil
      BY <2>2, <3>1, NilAssumption DEF FromSpace, ToSpace
    <3>3. payload'[b] = payload'[a]
      BY <3>1, <3>2 DEF IInv, ForwardingInv
    <3> QED
      BY <1>1, <3>1, <3>3
  <2> QED
    BY <2>1, <2>2 DEF Used
<1> QED
  BY <1>4, <1>5, SameContents

\* Sets that are closed after a step are closed before it when what the roots in
\* use and the objects show is the same.
LEMMA ClosedKept ==
  ASSUME UNCHANGED top, Contents' = Contents,
         \A r \in Visible : Identity(root[r])' = Identity(root[r])
  PROVE  \A S : Closed(S)' => Closed(S)
BY DEF Closed, Visible

\* scan_value of a root changes nothing that the machine can see.
LEMMA ForwardRootRefines ==
  ASSUME IInv, IInv', RInv, pc \in {"registers", "roots"}, next \in Root,
         pc = "registers" => next <= top,
         ForwardRoot, UNCHANGED pc
  PROVE  RInv' /\ View' = View /\ Contents' = Contents
<1> DEFINE v == root[next]
<1>1. /\ PointsInto(v, FromSpace) /\ next \in Visible
      /\ UNCHANGED <<top, interned, scanning, pc>> /\ Collecting /\ Collecting'
  BY SizeAssumption DEF IInv, TypeOK, RootsInv, StageInv, ForwardRoot, Root, Visible, Collecting
<1>2. /\ Used \subseteq Addr /\ FromSpace \subseteq Addr /\ ToSpace \subseteq Addr /\ Nil \notin Addr
      /\ FromSpace \subseteq Used /\ ToSpace \subseteq Used
      /\ \A r \in Root : PointsInto(root[r], Used)
      /\ \A b \in Used, k \in Slot : PointsInto(slots[b][k], Used)
      /\ root \in [Root -> Value] /\ AgreeInv /\ ReachInv
  BY PointersIntoUsed, UsedAreObjects DEF IInv, TypeOK, RInv, Used
<1>3. CASE Settled(v)
  <2>1. /\ root' = [root EXCEPT ![next] = Target(v)]
        /\ UNCHANGED <<space, object, fwd, gray>>
    BY <1>3 DEF ForwardRoot
  <2>2. FromSpace' = FromSpace /\ ToSpace' = ToSpace
    BY <2>1 DEF FromSpace, ToSpace
  <2>3. Identity(Target(v)) = Identity(v)
    BY <1>1, <1>2, <1>3 DEF IInv, ForwardingInv, PointsInto, Settled, Target, Identity
  <2> HIDE DEF v
  <2>4. \A r \in Root : Identity(root[r])' = Identity(root[r])
    BY <1>2, <2>1, <2>3 DEF Identity, object, v
  <2>5. AgreeInv'
    BY <1>2, <2>1 DEF AgreeInv, Identity, object
  <2>6. Contents' = Contents
    BY <1>1, <1>2, <2>1, <2>2, <2>5, FromSpaceKept DEF object
  <2>7. \A S : Closed(S)' => Closed(S)
    BY <1>1, <2>4, <2>6, VisibleAreRoots, ClosedKept
  <2>8. ReachInv'
    BY <1>1, <1>2, <2>1, <2>2, <2>7 DEF ReachInv, object
  <2> QED
    BY <2>4, <2>5, <2>6, <2>8 DEF RInv, View
<1>4. CASE ~Settled(v)
  <2>1. v \in FromSpace /\ fwd[v] = Nil /\ v \in Addr /\ v # Nil
    BY <1>1, <1>2, <1>4 DEF Settled, PointsInto
  <2>2. PICK a \in Fresh(Free, ToSpace) :
          /\ CopyTo(v, a)
          /\ slots' = [slots EXCEPT ![a] = slots[v]]
          /\ root' = [root EXCEPT ![next] = a]
    BY <1>4 DEF ForwardRoot
  <2>3. /\ a \in Addr /\ a # Nil /\ a \notin FromSpace /\ a \notin ToSpace
        /\ FromSpace' = FromSpace /\ ToSpace' = ToSpace \cup {a}
    BY <1>1, <2>1, <2>2, Copying
  <2> HIDE DEF v
  <2>4. /\ a \notin Used /\ slots'[a] = slots[v] /\ payload'[a] = payload[v] /\ fwd'[v] = a
        /\ \A b \in Addr \ {a} : /\ slots'[b] = slots[b] /\ payload'[b] = payload[b]
                                 /\ kind'[b] = kind[b]
        /\ \A b \in Addr \ {v} : fwd'[b] # Nil => fwd'[b] = fwd[b] /\ fwd[b] \in ToSpace
    BY <1>2, <2>1, <2>2, <2>3 DEF IInv, TypeOK, CopyTo, Used, ForwardingInv
  <2>5. \A x : PointsInto(x, Used) => Identity(x)' = Identity(x)
    BY <1>2, <2>3, <2>4 DEF Identity, PointsInto
  <2>6. \A r \in Root : Identity(root[r])' = Identity(root[r])
    BY <1>2, <2>1, <2>2, <2>3, <2>4, <2>5 DEF Identity, v
  <2>7. AgreeInv'
    <3>1. ASSUME NEW b \in Addr, NEW k \in Slot, fwd'[b] # Nil
          PROVE  Identity(slots[fwd[b]][k])' = Identity(slots[b][k])'
      <4>1. CASE b = v
        BY <2>1, <2>3, <2>4, <4>1
      <4>2. CASE b # v
        <5>1. /\ fwd'[b] = fwd[b] /\ fwd[b] \in ToSpace /\ fwd[b] # Nil
              /\ b \in FromSpace
          BY <1>2, <2>4, <3>1, <4>2 DEF IInv, ForwardingInv
        <5>2. slots'[fwd[b]] = slots[fwd[b]] /\ slots'[b] = slots[b]
          BY <1>2, <2>3, <2>4, <5>1
        <5>3. Identity(slots[fwd[b]][k]) = Identity(slots[b][k])
          BY <1>2, <5>1 DEF AgreeInv
        <5>4. PointsInto(slots[fwd[b]][k], Used) /\ PointsInto(slots[b][k], Used)
          BY <1>2, <5>1
        <5>5. /\ Identity(slots[fwd[b]][k])' = Identity(slots[fwd[b]][k])
              /\ Identity(slots[b][k])' = Identity(slots[b][k])
          BY <2>5, <5>1, <5>2, <5>4 DEF Identity
        <5> QED
          BY <5>3, <5>5
      <4> QED
        BY <4>1, <4>2
    <3> QED
      BY <3>1 DEF AgreeInv
  <2>8. Contents' = Contents
    BY <1>1, <1>2, <2>3, <2>4, <2>7, FromSpaceKept
  <2>9. \A S : Closed(S)' => Closed(S)
    BY <1>1, <2>6, <2>8, VisibleAreRoots, ClosedKept
  <2>10. ReachInv'
    <3>1. ASSUME NEW S \in SUBSET (Bytes \cup Label), Closed(S), NEW c \in ToSpace'
          PROVE  payload'[c] \in S
      <4>1. CASE c = a
        <5>1. Identity(v) \in S \cup {Nil} /\ Identity(v) = payload[v]
          BY <1>1, <2>1, <3>1 DEF Closed, Identity, v
        <5>2. payload[v] # Nil
          BY <1>2, <2>1, UsedAreObjects
        <5> QED
          BY <2>4, <4>1, <5>1, <5>2
      <4>2. CASE c # a
        BY <1>1, <1>2, <2>3, <2>4, <3>1, <4>2 DEF ReachInv
      <4> QED
        BY <4>1, <4>2
    <3> QED
      BY <2>9, <3>1 DEF ReachInv
  <2> QED
    BY <2>6, <2>7, <2>8, <2>10 DEF RInv, View
<1> QED
  BY <1>3, <1>4

\* scan_value of a slot changes nothing that the machine can see.
LEMMA ScanSlotRefines ==
  ASSUME IInv, IInv', RInv, ScanSlot
  PROVE  RInv' /\ View' = View /\ Contents' = Contents
<1> DEFINE v == slots[scanning][next]
<1>1. /\ pc = "scan" /\ next \in Slot /\ scanning \in ToSpace /\ scanning # Nil
      /\ kind[scanning] \notin Leaf
      /\ UNCHANGED <<root, top, interned, scanning, pc>> /\ Collecting /\ Collecting'
  BY DEF ScanSlot, IInv, TypeOK, StageInv, Slot, Collecting
<1>2. /\ Used \subseteq Addr /\ FromSpace \subseteq Addr /\ ToSpace \subseteq Addr /\ Nil \notin Addr
      /\ FromSpace \subseteq Used /\ ToSpace \subseteq Used /\ scanning \notin FromSpace
      /\ \A r \in Root : PointsInto(root[r], Used)
      /\ \A b \in Used, k \in Slot : PointsInto(slots[b][k], Used)
      /\ slots \in [Addr -> [Slot -> Value]] /\ AgreeInv /\ ReachInv
  <2>1. scanning \notin FromSpace
    BY <1>1 DEF FromSpace, ToSpace
  <2>2. slots \in [Addr -> [Slot -> Value]]
    BY DEF IInv, TypeOK
  <2> QED
    BY <2>1, <2>2, PointersIntoUsed, UsedAreObjects DEF RInv, Used
<1>3. PointsInto(v, FromSpace)
  BY <1>1 DEF IInv, BlackPointsToToSpace, Slot
<1>4. CASE Settled(v)
  <2>1. /\ slots' = [slots EXCEPT ![scanning][next] = Target(v)]
        /\ UNCHANGED <<space, kind, payload, fwd, gray>>
    BY <1>4 DEF ScanSlot
  <2>2. FromSpace' = FromSpace /\ ToSpace' = ToSpace
    BY <2>1 DEF FromSpace, ToSpace
  <2>3. Identity(Target(v)) = Identity(v)
    BY <1>2, <1>3, <1>4 DEF IInv, ForwardingInv, PointsInto, Settled, Target, Identity
  <2>4. /\ \A b \in Addr \ {scanning} : slots'[b] = slots[b]
        /\ \A k \in Slot \ {next} : slots'[scanning][k] = slots[scanning][k]
        /\ slots'[scanning][next] = Target(v)
    BY <1>1, <1>2, <2>1
  <2>5. \A r \in Root : Identity(root[r])' = Identity(root[r])
    BY <1>1, <2>1 DEF Identity
  <2>6. \A b \in Addr, k \in Slot : Identity(slots[b][k])' = Identity(slots[b][k])
    BY <1>1, <1>2, <2>1, <2>3, <2>4 DEF Identity
  <2>7. AgreeInv'
    <3>1. \A b \in Addr : fwd[b] # Nil => fwd[b] \in Addr
      BY <1>2 DEF IInv, ForwardingInv
    <3> QED
      BY <2>1, <2>6, <3>1, <1>2 DEF AgreeInv
  <2>8. Contents' = Contents
    BY <1>1, <1>2, <2>1, <2>2, <2>4, <2>7, FromSpaceKept
  <2>9. \A S : Closed(S)' => Closed(S)
    BY <1>1, <2>5, <2>8, VisibleAreRoots, ClosedKept
  <2>10. ReachInv'
    BY <1>1, <1>2, <2>1, <2>2, <2>9 DEF ReachInv
  <2> QED
    BY <2>5, <2>7, <2>8, <2>10 DEF RInv, View
<1>5. CASE ~Settled(v)
  <2>1. v \in FromSpace /\ fwd[v] = Nil /\ v \in Addr /\ v # Nil
    BY <1>2, <1>3, <1>5 DEF Settled, PointsInto
  <2>2. PICK a \in Fresh(Free, ToSpace) :
          /\ CopyTo(v, a)
          /\ slots' = [slots EXCEPT ![a] = slots[v], ![scanning][next] = a]
    BY <1>5 DEF ScanSlot
  <2>3. /\ a \in Addr /\ a # Nil /\ a \notin FromSpace /\ a \notin ToSpace
        /\ FromSpace' = FromSpace /\ ToSpace' = ToSpace \cup {a}
    BY <1>1, <2>1, <2>2, Copying
  <2> HIDE DEF v
  <2>4. /\ a \notin Used /\ slots'[a] = slots[v] /\ payload'[a] = payload[v] /\ fwd'[v] = a
        /\ \A b \in Addr \ {a} : payload'[b] = payload[b] /\ kind'[b] = kind[b]
        /\ \A b \in Addr \ {a, scanning} : slots'[b] = slots[b]
        /\ \A k \in Slot \ {next} : slots'[scanning][k] = slots[scanning][k]
        /\ slots'[scanning][next] = a
        /\ \A b \in Addr \ {v} : fwd'[b] # Nil => fwd'[b] = fwd[b] /\ fwd[b] \in ToSpace
    BY <1>1, <1>2, <2>1, <2>2, <2>3 DEF IInv, TypeOK, CopyTo, Used, ForwardingInv
  <2>5. \A x : PointsInto(x, Used) => Identity(x)' = Identity(x)
    BY <1>2, <2>3, <2>4 DEF Identity, PointsInto
  <2>6. \A r \in Root : Identity(root[r])' = Identity(root[r])
    BY <1>1, <1>2, <2>5 DEF Identity
  <2>7. \A b \in Used, k \in Slot : Identity(slots[b][k])' = Identity(slots[b][k])
    <3>1. ASSUME NEW b \in Used, NEW k \in Slot
          PROVE  Identity(slots[b][k])' = Identity(slots[b][k])
      <4>1. CASE b = scanning /\ k = next
        BY <2>1, <2>3, <2>4, <4>1 DEF Identity, v
      <4>2. CASE ~(b = scanning /\ k = next)
        <5>1. slots'[b][k] = slots[b][k]
          BY <1>2, <2>4, <4>2
        <5>2. PointsInto(slots[b][k], Used)
          BY <1>2
        <5> QED
          BY <2>5, <5>1, <5>2 DEF Identity
      <4> QED
        BY <4>1, <4>2
    <3> QED
      BY <3>1
  <2>8. AgreeInv'
    <3>1. ASSUME NEW b \in Addr, NEW k \in Slot, fwd'[b] # Nil
          PROVE  Identity(slots[fwd[b]][k])' = Identity(slots[b][k])'
      <4>1. CASE b = v
        <5>1. slots'[fwd'[b]] = slots'[b]
          BY <1>1, <1>2, <2>1, <2>3, <2>4, <4>1
        <5> QED
          BY <5>1 DEF Identity
      <4>2. CASE b # v
        <5>1. /\ fwd'[b] = fwd[b] /\ fwd[b] \in ToSpace /\ fwd[b] # Nil
              /\ b \in FromSpace
          BY <1>2, <2>4, <3>1, <4>2 DEF IInv, ForwardingInv
        <5>2. Identity(slots[fwd[b]][k]) = Identity(slots[b][k])
          BY <1>2, <5>1 DEF AgreeInv
        <5>3. Identity(slots[fwd[b]][k])' = Identity(slots[fwd[b]][k])
          BY <1>2, <2>7, <5>1 DEF Identity
        <5> QED
          BY <1>2, <2>7, <5>1, <5>2, <5>3
      <4> QED
        BY <4>1, <4>2
    <3> QED
      BY <3>1 DEF AgreeInv
  <2>9. Contents' = Contents
    BY <1>1, <1>2, <2>3, <2>4, <2>8, FromSpaceKept
  <2>10. \A S : Closed(S)' => Closed(S)
    BY <1>1, <2>6, <2>9, VisibleAreRoots, ClosedKept
  <2>11. ReachInv'
    <3>1. ASSUME NEW S \in SUBSET (Bytes \cup Label), Closed(S), NEW c \in ToSpace'
          PROVE  payload'[c] \in S
      <4>1. \A x \in ToSpace : payload[x] \in S
        BY <1>1, <1>2, <3>1 DEF ReachInv
      <4>2. CASE c = a
        <5>1. payload[scanning] \in S /\ payload[scanning] \in DOMAIN Contents
          BY <1>1, <1>2, <4>1, ContentsAt DEF Used, ContentsShown
        <5>2. Contents[payload[scanning]].slots[next] = Identity(v)
          <6>1. Contents[payload[scanning]] = ObjectAt(scanning)
            BY <1>1, <1>2, ContentsAt DEF ContentsShown
          <6> QED
            BY <1>1, <6>1 DEF ObjectAt, v
        <5>3. Identity(v) \in S \cup {Nil} /\ Identity(v) = payload[v]
          BY <1>1, <2>1, <3>1, <5>1, <5>2 DEF Closed, Identity
        <5>4. payload[v] # Nil
          BY <1>2, <2>1, UsedAreObjects
        <5> QED
          BY <2>4, <4>2, <5>3, <5>4
      <4>3. CASE c # a
        BY <1>2, <2>3, <2>4, <4>1, <4>3
      <4> QED
        BY <4>2, <4>3
    <3> QED
      BY <2>10, <3>1 DEF ReachInv
  <2> QED
    BY <2>6, <2>8, <2>9, <2>11 DEF RInv, View
<1> QED
  BY <1>4, <1>5

\* The steps between two values change neither roots nor objects.
LEMMA OtherStepsRefine ==
  ASSUME IInv, RInv, EndRoots \/ PopGray \/ EndScan \/ DropDeadStrings \/ UNCHANGED vars
  PROVE  RInv' /\ View' = View /\ Contents' = Contents /\ top' = top
<1>1. UNCHANGED <<root, top, space, kind, payload, slots, fwd>>
  BY DEF EndRoots, PopGray, EndScan, DropDeadStrings, vars, object
<1>2. /\ pc \in {"mutator", "registers"} => pc' = pc
      /\ pc = "mutator" <=> pc' = "mutator"
  BY DEF EndRoots, PopGray, EndScan, DropDeadStrings, vars
<1>3. Contents' = Contents /\ View' = View
  BY <1>1 DEF Contents, View, Identity, FromSpace, ToSpace
<1>4. \A S : Closed(S)' => Closed(S)
  BY <1>1, <1>3 DEF Closed, Visible, Identity
<1>5. AgreeInv'
  BY <1>1, <1>2 DEF RInv, AgreeInv, Identity
<1>6. ReachInv'
  BY <1>1, <1>2, <1>4 DEF RInv, ReachInv, Collecting, ToSpace
<1> QED
  BY <1>1, <1>3, <1>5, <1>6 DEF RInv

\* A collection begins with what the machine can see.
LEMMA StartCollectionRefines ==
  ASSUME IInv, RInv, StartCollection
  PROVE  RInv' /\ View' = View /\ Contents' = Contents /\ top' = top
<1> USE DEF StartCollection, object
<1>1. FromSpace' = ToSpace /\ ToSpace' = {} /\ FromSpace = {}
  BY InHandIsLive DEF FromSpace, ToSpace, IInv, TypeOK
<1>2. Contents' = Contents /\ View' = View
  BY <1>1 DEF Contents, View, Identity
<1>3. AgreeInv' /\ ReachInv'
  BY <1>1 DEF RInv, AgreeInv, ReachInv, Identity
<1> QED
  BY <1>2, <1>3 DEF RInv

\* memset clears the registers that no function uses: the machine sees it, and
\* the graph allows it.
LEMMA ClearStaleRegistersRefines ==
  ASSUME IInv, RInv, ClearStaleRegisters
  PROVE  RInv' /\ Graph!Forget
<1> USE DEF ClearStaleRegisters, object
<1>1. Contents' = Contents /\ \A v : Identity(v)' = Identity(v)
  BY DEF Contents, Identity, FromSpace, ToSpace
<1>2. View' = [r \in Root |-> IF r \in top + 1..NRegs THEN Nil ELSE View[r]]
  BY <1>1 DEF View, Identity
<1>3. Graph!Forget
  BY <1>1, <1>2 DEF Graph!Forget, Graph!Root, Root, View
<1>4. \A r \in Visible : root'[r] = root[r]
  BY VisibleAreRoots, SizeAssumption DEF Visible, IInv, TypeOK
<1>5. \A S : Closed(S)' => Closed(S)
  <2>1. \A r \in Visible : Identity(root[r])' = Identity(root[r])
    BY <1>1, <1>4 DEF Identity
  <2> QED
    BY <1>1, <2>1, ClosedKept
<1>6. AgreeInv' /\ ReachInv'
  BY <1>5 DEF RInv, AgreeInv, ReachInv, Collecting, Identity, ToSpace
<1> QED
  BY <1>3, <1>6 DEF RInv

\* The program sees of a collection, when from-space is reclaimed, that exactly
\* the objects that a root reaches remain.
LEMMA ReclaimRefines ==
  ASSUME IInv, IInv', RInv, Reclaim
  PROVE  RInv' /\ Graph!Collect
<1> DEFINE Kept == {payload[a] : a \in ToSpace}
<1>1. /\ Used \subseteq Addr /\ FromSpace \subseteq Addr /\ ToSpace \subseteq Addr /\ Nil \notin Addr
      /\ ToSpace \subseteq Used
      /\ \A a \in Used : payload[a] \in (Bytes \cup Label) /\ payload[a] # Nil
      /\ pc = "reclaim" /\ Collecting /\ gray = <<>> /\ scanning = Nil
      /\ UNCHANGED <<root, top, interned, gray, scanning, next>>
      /\ AgreeInv /\ ReachInv
  BY UsedAreObjects DEF Reclaim, RInv, Used, Collecting, IInv, StageInv
<1>2. /\ FromSpace' = {} /\ ToSpace' = ToSpace /\ Used' = ToSpace
      /\ \A a \in ToSpace : /\ kind'[a] = kind[a] /\ payload'[a] = payload[a]
                            /\ slots'[a] = slots[a]
      /\ \A a \in Addr : fwd'[a] = Nil \/ (a \in ToSpace /\ fwd'[a] = fwd[a])
  BY DEF Reclaim, FromSpace, ToSpace, Used, IInv, TypeOK, ForwardingInv
<1>3. /\ \A r \in Root : PointsInto(root[r], ToSpace)
      /\ \A a \in ToSpace, k \in Slot : PointsInto(slots[a][k], ToSpace)
  <2>1. \A a \in ToSpace : Black(a)
    BY <1>1 DEF Black, Gray, Range
  <2> QED
    BY <1>1, <2>1 DEF IInv, RootsInv, BlackPointsToToSpace
<1>4. \A v : PointsInto(v, ToSpace) => Identity(v)' = Identity(v)
  BY <1>2 DEF Identity, PointsInto
<1>5. View' = View
  BY <1>1, <1>3, <1>4 DEF View, Identity
<1>6. \A a \in ToSpace : ObjectAt(a)' = ObjectAt(a)
  <2>1. \A a \in ToSpace, k \in Slot : Identity(slots[a][k])' = Identity(slots[a][k])
    BY <1>2, <1>3, <1>4 DEF Identity
  <2> QED
    BY <1>2, <2>1 DEF ObjectAt
<1>7. AgreeInv' /\ ReachInv'
  <2>1. \A a \in Addr : fwd'[a] = Nil
    BY <1>1, <1>2 DEF IInv, ForwardingInv, FromSpace, ToSpace
  <2>2. pc' = "mutator"
    BY DEF Reclaim
  <2> QED
    BY <2>1, <2>2 DEF AgreeInv, ReachInv, Collecting
<1> USE DEF ContentsShown
<1>8. ContentsShown
  BY <1>1, ContentsAt
<1>9. ContentsShown'
  BY <1>7, ContentsAt, PTL
<1>10. Contents' = Restrict(Contents, Kept)
  <2>1. DOMAIN Contents' = Kept
    BY <1>2, <1>9
  <2>2. \A i \in Kept : Contents'[i] = Contents[i]
    BY <1>1, <1>2, <1>6, <1>8, <1>9
  <2> QED
    BY <1>9, <2>1, <2>2 DEF Restrict
<1>11. Kept \in SUBSET DOMAIN Contents /\ DOMAIN Contents \subseteq Bytes \cup Label
  BY <1>1, <1>8
<1>12. \A i \in DOMAIN Contents : DOMAIN Contents[i].slots = Slot
  <2>1. ASSUME NEW a \in Used PROVE DOMAIN Contents[payload[a]].slots = Slot
    <3>1. ObjectAt(a).slots = [k \in Slot |-> Identity(slots[a][k])]
      BY DEF ObjectAt
    <3> QED
      BY <1>8, <3>1
  <2> QED
    BY <1>8, <2>1
<1>13. ASSUME NEW S \in SUBSET DOMAIN Contents, Graph!ClosedFromRoots(S)
       PROVE  Kept \subseteq S
  <2>1. \A r \in Root : Identity(root[r]) \in S \cup {Nil}
    BY <1>13 DEF Graph!ClosedFromRoots, Graph!Pointers, Graph!Range, Graph!Root, Root
  <2>2. \A i \in S, k \in Slot : Contents[i].slots[k] \in S \cup {Nil}
    BY <1>12, <1>13 DEF Graph!ClosedFromRoots, Graph!Pointers, Graph!Range
  <2>3. Closed(S)
    BY <2>1, <2>2, VisibleAreRoots DEF Closed
  <2> QED
    BY <1>1, <1>11, <2>3 DEF ReachInv
<1>14. Graph!ClosedFromRoots(Kept)
  <2>1. \A r \in Root : Identity(root[r]) \in Kept \cup {Nil}
    BY <1>3 DEF Identity, PointsInto
  <2>2. \A i \in Kept, k \in Slot : Contents[i].slots[k] \in Kept \cup {Nil}
    <3>1. ASSUME NEW a \in ToSpace, NEW k \in Slot
          PROVE  Contents[payload[a]].slots[k] \in Kept \cup {Nil}
      <4>1. Contents[payload[a]] = ObjectAt(a)
        BY <1>1, <1>8
      <4> QED
        BY <1>3, <4>1 DEF ObjectAt, Identity, PointsInto
    <3> QED
      BY <3>1
  <2>3. Graph!Pointers([r \in Root |-> Identity(root[r])]) \subseteq Kept
    BY <2>1 DEF Graph!Pointers, Graph!Range
  <2>4. \A i \in Kept : Graph!Pointers(Contents[i].slots) \subseteq Kept
    BY <1>11, <1>12, <2>2 DEF Graph!Pointers, Graph!Range
  <2> QED
    BY <2>3, <2>4 DEF Graph!ClosedFromRoots
<1>15. Graph!Live = Kept
  <2> HIDE DEF Kept
  <2> QED
    BY <1>11, <1>13, <1>14 DEF Graph!Live
<1> QED
  BY <1>1, <1>5, <1>7, <1>10, <1>15 DEF RInv, View, Graph!Collect, Graph!Restrict, Restrict

-----------------------------------------------------------------------------
(* The mutator *)

\* What an instruction may use is in the graph's hand.
LEMMA InHandRefines ==
  ASSUME IInv, pc = "mutator"
  PROVE  /\ Graph!Visible = Visible
         /\ \A v \in InHand : Identity(v) \in Graph!InHand
         /\ \A v \in InHand : v # Nil => Identity(v) # Nil /\ v \in ToSpace
         /\ FromSpace = {} /\ Used = ToSpace
<1>1. Graph!Visible = Visible
  BY DEF Graph!Visible, Visible
<1>2. FromSpace = {} /\ Used = ToSpace
  BY DEF IInv, StageInv, Used
<1>3. \A v \in InHand : v # Nil => v \in ToSpace /\ Identity(v) # Nil
  BY <1>2, InHandIsLive, UsedAreObjects DEF PointsInto, Identity
<1>4. \A v \in InHand : Identity(v) \in Graph!InHand
  BY <1>1, VisibleAreRoots DEF InHand, Graph!InHand, Identity
<1> QED
  BY <1>1, <1>2, <1>3, <1>4

\* Between collections the rest of the invariant says nothing.
LEMMA MutatorInv == IInv /\ pc = "mutator" => RInv
BY UsedAreObjects DEF RInv, AgreeInv, ReachInv, Collecting, IInv, StageInv, ForwardingInv

\* A step that changes one root, to a value with the identity i.
LEMMA RootChangeRefines ==
  ASSUME IInv, pc = "mutator", NEW r \in Visible, NEW v,
         root' = [root EXCEPT ![r] = v], UNCHANGED <<space, object>>
  PROVE  View' = [View EXCEPT ![r] = Identity(v)] /\ Contents' = Contents
<1>1. UNCHANGED <<space, kind, payload, slots>>
  BY DEF object
<1>2. View' = [View EXCEPT ![r] = Identity(v)]
  BY <1>1, VisibleAreRoots DEF View, Identity, IInv, TypeOK
<1>3. Contents' = Contents
  BY <1>1 DEF Contents, Identity, FromSpace, ToSpace
<1> QED
  BY <1>2, <1>3

\* A value in hand is moved to a root.
LEMMA AssignRefines ==
  ASSUME IInv, NEW r \in Visible, NEW v \in InHand, Assign(r, v)
  PROVE  Graph!Refer(r, Identity(v))
<1>1. pc = "mutator"
  BY DEF Assign
<1>2. View' = [View EXCEPT ![r] = Identity(v)] /\ Contents' = Contents /\ top' = top
  BY <1>1, RootChangeRefines DEF Assign
<1> QED
  BY <1>1, <1>2, InHandRefines DEF Graph!Refer, View

\* A value in an object in hand is moved to a root.
LEMMA LoadRefines ==
  ASSUME IInv, NEW r \in Visible, NEW a \in InHand \ {Nil}, NEW k \in Slot, Load(r, a, k)
  PROVE  Graph!Refer(r, Identity(slots[a][k]))
<1>1. pc = "mutator" /\ RInv /\ a \in Used
  BY MutatorInv, InHandRefines DEF Load
<1>2. View' = [View EXCEPT ![r] = Identity(slots[a][k])] /\ Contents' = Contents /\ top' = top
  BY <1>1, RootChangeRefines DEF Load
<1>3. Identity(slots[a][k]) \in Graph!Range(Contents[Identity(a)].slots)
  <2>1. Contents[payload[a]] = ObjectAt(a)
    BY <1>1, ContentsAt DEF RInv, ContentsShown
  <2> QED
    BY <2>1 DEF ObjectAt, Graph!Range, Identity
<1>4. Identity(a) \in Graph!InHand \ {Nil}
  BY <1>1, InHandRefines
<1> QED
  BY <1>1, <1>2, <1>3, <1>4, InHandRefines DEF Graph!Refer, View

\* A value in hand is stored into an object in hand.
LEMMA StoreRefines ==
  ASSUME IInv, IInv', NEW a \in InHand \ {Nil}, NEW k \in Slot, NEW v \in InHand, Store(a, k, v)
  PROVE  Identity(a) \in Label /\ Graph!Update(Identity(a), k, Identity(v))
<1> USE DEF ContentsShown
<1>1. /\ pc = "mutator" /\ pc' = "mutator" /\ kind[a] \notin Leaf
      /\ slots' = [slots EXCEPT ![a][k] = v]
      /\ UNCHANGED <<root, top, space, kind, payload, fwd>>
  BY DEF Store
<1>2. /\ a \in ToSpace /\ a \in Addr /\ a # Nil /\ Used = ToSpace /\ FromSpace = {}
      /\ slots \in [Addr -> [Slot -> Value]] /\ Used \subseteq Addr
  BY <1>1, InHandRefines, UsedAreObjects DEF ToSpace, IInv, TypeOK
<1>3. RInv /\ RInv'
  <2>1. (pc = "mutator")'
    BY <1>1
  <2> QED
    BY <1>1, <2>1, MutatorInv, PTL
<1>4. Used' = Used /\ View' = View /\ \A x : Identity(x)' = Identity(x)
  BY <1>1 DEF Used, FromSpace, ToSpace, View, Identity
<1>5. ContentsShown
  BY <1>3, ContentsAt DEF RInv
<1>6. ContentsShown'
  <2>1. AgreeInv'
    BY <1>3 DEF RInv
  <2> QED
    BY <2>1, ContentsAt, PTL
<1>7. \A b \in Used : b # a => payload[b] # payload[a]
  BY <1>2 DEF IInv, IdentityInv
<1>8. \A b \in Used : ObjectAt(b)' = IF b = a THEN [ObjectAt(a) EXCEPT !.slots[k] = Identity(v)]
                                     ELSE ObjectAt(b)
  <2>1. ASSUME NEW b \in Used, b # a PROVE ObjectAt(b)' = ObjectAt(b)
    <3>1. slots'[b] = slots[b] /\ kind'[b] = kind[b]
      BY <1>1, <1>2, <2>1
    <3>2. \A j \in Slot : Identity(slots[b][j])' = Identity(slots[b][j])
      BY <1>4, <3>1 DEF Identity
    <3> QED
      BY <3>1, <3>2 DEF ObjectAt
  <2>2. ObjectAt(a)' = [ObjectAt(a) EXCEPT !.slots[k] = Identity(v)]
    <3>1. \A j \in Slot : slots'[a][j] = IF j = k THEN v ELSE slots[a][j]
      BY <1>1, <1>2
    <3>2. \A j \in Slot : Identity(slots[a][j])' = IF j = k THEN Identity(v) ELSE Identity(slots[a][j])
      BY <1>1, <3>1 DEF Identity
    <3> DEFINE shown == [j \in Slot |-> Identity(slots[a][j])]
    <3>3. ObjectAt(a)' = [kind |-> kind[a], slots |-> [shown EXCEPT ![k] = Identity(v)]]
      BY <1>1, <3>2 DEF ObjectAt
    <3>4. ObjectAt(a) = [kind |-> kind[a], slots |-> shown]
      BY DEF ObjectAt
    <3> QED
      BY <3>3, <3>4
  <2> QED
    BY <2>1, <2>2
<1>9. Contents' = [Contents EXCEPT ![payload[a]].slots[k] = Identity(v)]
  <2>1. DOMAIN Contents' = DOMAIN Contents
    BY <1>1, <1>4, <1>5, <1>6
  <2>2. ASSUME NEW b \in Used
        PROVE  Contents'[payload[b]] =
                 IF payload[b] = payload[a] THEN [Contents[payload[a]] EXCEPT !.slots[k] = Identity(v)]
                 ELSE Contents[payload[b]]
    <3>1. Contents'[payload[b]] = ObjectAt(b)'
      BY <1>1, <1>4, <1>6
    <3>2. ObjectAt(a) = Contents[payload[a]] /\ ObjectAt(b) = Contents[payload[b]]
      BY <1>2, <1>5
    <3> QED
      BY <1>2, <1>7, <1>8, <3>1, <3>2
  <2>3. \A i \in DOMAIN Contents :
          Contents'[i] = IF i = payload[a] THEN [Contents[payload[a]] EXCEPT !.slots[k] = Identity(v)]
                         ELSE Contents[i]
    BY <1>5, <2>2
  <2> QED
    BY <1>5, <1>6, <2>1, <2>3
<1>10. payload[a] \in Label /\ Contents[payload[a]].kind \notin Graph!Leaf
  <2>1. Contents[payload[a]] = ObjectAt(a)
    BY <1>2, <1>5
  <2> QED
    BY <1>1, <1>2, <2>1 DEF IInv, IdentityInv, ObjectAt, Leaf, Graph!Leaf
<1> QED
  BY <1>1, <1>2, <1>4, <1>9, <1>10, InHandRefines DEF Graph!Update, View, Identity

\* A new object is one more object, with an identity that was not in use.
LEMMA AllocateRefines ==
  ASSUME IInv, IInv', pc = "mutator", pc' = "mutator", NEW r \in Visible, NEW a \in Free,
         NEW knd, NEW pay, \A c \in Used : payload[c] # pay, NEW slts \in [Slot -> InHand],
         Allocate(a, knd, pay, slts), SetsRoot(r, a)
  PROVE  /\ View' = [View EXCEPT ![r] = pay]
         /\ Contents' = Graph!WithObject(pay, ObjectOf(knd, slts))
         /\ pay \notin DOMAIN Contents
<1> USE DEF ContentsShown
<1>1. /\ space' = [space EXCEPT ![a] = "to"] /\ kind' = [kind EXCEPT ![a] = knd]
      /\ payload' = [payload EXCEPT ![a] = pay] /\ slots' = [slots EXCEPT ![a] = slts]
  BY DEF Allocate
<1>2. /\ a \in Addr /\ a # Nil /\ a \notin Used /\ a \notin ToSpace /\ Used = ToSpace
      /\ FromSpace = {} /\ Used \subseteq Addr
  BY UsedAreObjects, InHandRefines DEF Free, ToSpace
<1>3. /\ kind'[a] = knd /\ payload'[a] = pay /\ slots'[a] = slts
      /\ \A b \in Used : kind'[b] = kind[b] /\ payload'[b] = payload[b] /\ slots'[b] = slots[b]
  BY <1>1, <1>2 DEF IInv, TypeOK
<1>4. Used' = Used \cup {a}
  BY <1>1, <1>2 DEF Used, FromSpace, ToSpace, IInv, TypeOK
<1>5. \A v : v = Nil \/ v \in Used => Identity(v)' = Identity(v)
  BY <1>3 DEF Identity
<1>6. /\ \A r1 \in Root : root[r1] = Nil \/ root[r1] \in Used
      /\ \A b \in Used, k \in Slot : slots[b][k] = Nil \/ slots[b][k] \in Used
      /\ \A k \in Slot : slts[k] = Nil \/ slts[k] \in Used
  <2>1. gray = <<>> /\ scanning = Nil
    BY DEF IInv, StageInv
  <2>2. \A b \in ToSpace : Black(b)
    BY <1>2, <2>1, UsedAreObjects DEF Black, Gray, Range
  <2>3. \A k \in Slot : slts[k] \in InHand
    OBVIOUS
  <2> QED
    BY <1>2, <2>2, <2>3, InHandRefines DEF IInv, RootsInv, BlackPointsToToSpace, PointsInto
<1>7. View' = [View EXCEPT ![r] = pay]
  <2>1. Identity(a)' = pay
    BY <1>2, <1>3 DEF Identity
  <2>2. \A r1 \in Root : root'[r1] = IF r1 = r THEN a ELSE root[r1]
    BY VisibleAreRoots DEF IInv, TypeOK, SetsRoot
  <2>3. \A r1 \in Root : View'[r1] = IF r1 = r THEN pay ELSE Identity(root[r1])
    BY <1>5, <1>6, <2>1, <2>2 DEF View, Identity
  <2> QED
    BY <2>3 DEF View
<1>8. RInv /\ RInv'
  <2>1. (pc = "mutator")'
    OBVIOUS
  <2> QED
    BY <2>1, MutatorInv, PTL
<1>9. ContentsShown
  BY <1>8, ContentsAt DEF RInv
<1>10. ContentsShown'
  <2>1. AgreeInv'
    BY <1>8 DEF RInv
  <2> QED
    BY <2>1, ContentsAt, PTL
<1> DEFINE new == ObjectOf(knd, slts)
<1>11. ObjectAt(a)' = new
  <2>1. \A k \in Slot : Identity(slots[a][k])' = Identity(slts[k])
    BY <1>3, <1>5, <1>6 DEF Identity
  <2> QED
    BY <1>3, <2>1 DEF ObjectAt, ObjectOf
<1>12. \A b \in Used : ObjectAt(b)' = ObjectAt(b)
  <2>1. \A b \in Used, k \in Slot : Identity(slots[b][k])' = Identity(slots[b][k])
    BY <1>3, <1>5, <1>6 DEF Identity
  <2> QED
    BY <1>3, <2>1 DEF ObjectAt
<1> HIDE DEF new
<1>13. DOMAIN Contents' = DOMAIN Contents \cup {pay}
  <2>1. DOMAIN Contents' = {payload'[b] : b \in Used'}
    BY <1>10
  <2> QED
    BY <1>3, <1>4, <1>9, <2>1
<1>14. \A i \in DOMAIN Contents \cup {pay} : Contents'[i] = IF i = pay THEN new ELSE Contents[i]
  <2>1. Contents'[pay] = new
    <3>1. Contents'[payload'[a]] = ObjectAt(a)'
      BY <1>4, <1>10
    <3> QED
      BY <1>3, <1>11, <3>1
  <2>2. ASSUME NEW b \in Used PROVE Contents'[payload[b]] = Contents[payload[b]]
    <3>1. Contents'[payload'[b]] = ObjectAt(b)'
      BY <1>4, <1>10
    <3> QED
      BY <1>3, <1>9, <1>12, <3>1
  <2> QED
    BY <1>9, <2>1, <2>2
<1>15. pay \notin DOMAIN Contents
  BY <1>9
<1>16. Contents' = Graph!WithObject(pay, new)
  BY <1>10, <1>13, <1>14 DEF Graph!WithObject
<1> QED
  BY <1>7, <1>15, <1>16 DEF new

\* The slots of a new object hold what the graph has in hand.
LEMMA SlotsInHand ==
  ASSUME IInv, pc = "mutator", NEW slts \in [Slot -> InHand]
  PROVE  [k \in Slot |-> Identity(slts[k])] \in [1..NSlots -> Graph!InHand]
<1>1. \A k \in Slot : slts[k] \in InHand
  OBVIOUS
<1> QED
  BY <1>1, InHandRefines DEF Slot

\* Cons, MkBlock, MkClosure and the loader make an object.
LEMMA NewRefines ==
  ASSUME IInv, IInv', NEW r \in Visible, NEW a \in Fresh(Free, ToSpace), NEW l \in Label,
         NEW knd \in Kind, NEW slts \in [Slot -> InHand], New(r, a, l, knd, slts)
  PROVE  Graph!New(r, l)
<1>1. /\ pc = "mutator" /\ pc' = "mutator" /\ knd \in {"function", "block"} /\ Used = ToSpace
      /\ Allocate(a, knd, l, slts) /\ SetsRoot(r, a) /\ top' = top
      /\ \A c \in Used : payload[c] # l
  BY InHandRefines DEF New, Kind, SetsRoot
<1>2. a \in Free
  BY FreshAssumption DEF Free, ToSpace
<1>3. /\ View' = [View EXCEPT ![r] = l]
      /\ Contents' = Graph!WithObject(l, ObjectOf(knd, slts))
      /\ l \notin DOMAIN Contents
  BY <1>1, <1>2, AllocateRefines
<1>4. [k \in Slot |-> Identity(slts[k])] \in [1..NSlots -> Graph!InHand]
  BY <1>1, SlotsInHand
<1> QED
  BY <1>1, <1>3, <1>4, InHandRefines DEF Graph!New, View, ObjectOf

\* Interning a string makes an object, or finds the one that has its bytes.
LEMMA InternRefines ==
  ASSUME IInv, IInv', NEW r \in Visible, NEW b \in Bytes, InternShort(r, b)
  PROVE  Graph!Intern(r, b)
<1> USE DEF ContentsShown
<1>1. pc = "mutator" /\ pc' = "mutator" /\ top' = top
  BY DEF InternShort
<1>2. Used = ToSpace /\ Used \subseteq Addr
  BY <1>1, InHandRefines, UsedAreObjects
<1>3. \A s \in Addr : s \in interned <=> s \in ToSpace /\ kind[s] = "string"
  BY <1>1 DEF IInv, TableInv, ToSpace
<1>4. CASE \E s \in interned : payload[s] = b /\ root' = [root EXCEPT ![r] = s]
                               /\ UNCHANGED <<space, object, fwd, interned>>
  <2>1. PICK s \in interned : payload[s] = b /\ root' = [root EXCEPT ![r] = s]
                              /\ UNCHANGED <<space, object, fwd, interned>>
    BY <1>4
  <2>2. s \in ToSpace /\ kind[s] = "string" /\ slots[s] = NoSlots /\ s # Nil
    BY <1>3, UsedAreObjects DEF IInv, TypeOK, LeafInv, Leaf
  <2>3. View' = [View EXCEPT ![r] = b] /\ Contents' = Contents
    BY <1>1, <2>1, <2>2, RootChangeRefines DEF Identity
  <2>4. ContentsShown
    BY <1>1, MutatorInv, ContentsAt DEF RInv
  <2>5. ObjectAt(s) = [kind |-> "string", slots |-> Graph!NoSlots]
    <3>1. \A k \in Slot : Identity(slots[s][k]) = Nil
      BY <2>2 DEF NoSlots, Identity
    <3> QED
      BY <2>2, <3>1 DEF ObjectAt, Graph!NoSlots, Slot
  <2>6. b \in DOMAIN Contents /\ Contents[b] = ObjectAt(s)
    BY <1>2, <2>1, <2>2, <2>4
  <2>7. Contents = Graph!WithObject(b, [kind |-> "string", slots |-> Graph!NoSlots])
    BY <2>4, <2>5, <2>6 DEF Graph!WithObject
  <2> QED
    BY <1>1, <2>3, <2>7, InHandRefines DEF Graph!Intern, View
<1>5. CASE /\ {s \in interned : payload[s] = b} = {}
           /\ \E a \in Fresh(Free, ToSpace) : /\ Allocate(a, "string", b, NoSlots)
                                              /\ SetsRoot(r, a)
  <2>1. PICK a \in Fresh(Free, ToSpace) : /\ Allocate(a, "string", b, NoSlots)
                                          /\ SetsRoot(r, a)
    BY <1>5
  <2>2. a \in Free
    BY FreshAssumption DEF Free, ToSpace
  <2>3. \A c \in Used : payload[c] # b
    <3>1. ASSUME NEW c \in Used, payload[c] = b PROVE FALSE
      <4>1. kind[c] = "string"
        BY <3>1, IdentityAssumption DEF IInv, IdentityInv, Used
      <4> QED
        BY <1>2, <1>3, <1>5, <3>1, <4>1
    <3> QED
      BY <3>1
  <2>4. NoSlots \in [Slot -> InHand]
    BY DEF NoSlots, InHand
  <2>5. /\ View' = [View EXCEPT ![r] = b]
        /\ Contents' = Graph!WithObject(b, ObjectOf("string", NoSlots))
    BY <1>1, <2>1, <2>2, <2>3, <2>4, AllocateRefines
  <2>6. ObjectOf("string", NoSlots) = [kind |-> "string", slots |-> Graph!NoSlots]
    BY DEF ObjectOf, NoSlots, Graph!NoSlots, Identity, Slot
  <2> QED
    BY <1>1, <2>5, <2>6, InHandRefines DEF Graph!Intern, View
<1> QED
  BY <1>4, <1>5 DEF InternShort, SetsRoot

\* A call or a return shows other registers.
LEMMA MoveWindowRefines ==
  ASSUME IInv, NEW t \in 0..NRegs, MoveWindow(t)
  PROVE  Graph!Window(t)
<1>1. top' = t /\ UNCHANGED <<root, space, kind, payload, slots>>
  BY DEF MoveWindow, object
<1>2. View' = View /\ Contents' = Contents
  BY <1>1 DEF View, Contents, Identity, FromSpace, ToSpace
<1> QED
  BY <1>1, <1>2 DEF Graph!Window, View

-----------------------------------------------------------------------------
(* The theorem *)

\* A machine without objects is a graph without objects.
LEMMA InitRefines == Init => RInv /\ Graph!Init
<1> SUFFICES ASSUME Init PROVE RInv /\ Graph!Init
  OBVIOUS
<1>1. RInv
  BY InitIInv, MutatorInv DEF Init
<1>2. \A r \in Root : Identity(root[r]) = Nil
  BY DEF Init, Identity
<1>3. Contents = [i \in {} |-> Nil]
  <2>1. Used = {}
    BY DEF Init, Used, FromSpace, ToSpace
  <2>2. DOMAIN Contents = {} /\ Contents = [i \in DOMAIN Contents |-> Contents[i]]
    BY <1>1, <2>1, InitIInv, ContentsAt DEF RInv, ContentsShown
  <2> QED
    BY <2>2
<1>4. View = [r \in Root |-> Nil]
  BY <1>2 DEF View
<1> QED
  BY <1>1, <1>3, <1>4 DEF Graph!Init, Graph!Root, Init, Root, View

\* An instruction is a step of the graph of objects.
LEMMA MutatorRefines ==
  ASSUME IInv, IInv', MutatorStep
  PROVE  RInv' /\ Graph!Next
<1>1. pc = "mutator" /\ pc' = "mutator"
  BY DEF MutatorStep, Assign, Load, Store, New, InternShort, MoveWindow
<1>2. RInv'
  <2>1. (pc = "mutator")'
    BY <1>1
  <2> QED
    BY <2>1, MutatorInv, PTL
<1>3. \A r \in Visible : r \in Graph!Root
  BY VisibleAreRoots DEF Graph!Root, Root
<1>4. \A v \in Value : Identity(v) \in Bytes \cup Label \cup {Nil}
  BY DEF Identity, Value, IInv, TypeOK
<1>5. \A v \in InHand : v \in Value /\ (v # Nil => v \in Addr)
  BY <1>1, InHandRefines DEF Value, ToSpace
<1>6. ASSUME NEW r \in Visible, NEW v \in InHand, Assign(r, v) PROVE Graph!Next
  BY <1>3, <1>4, <1>5, <1>6, AssignRefines DEF Graph!Next
<1>7. ASSUME NEW r \in Visible, NEW a \in InHand \ {Nil}, NEW k \in Slot, Load(r, a, k)
      PROVE  Graph!Next
  <2>1. slots[a][k] \in Value
    BY <1>5 DEF IInv, TypeOK
  <2>2. Graph!Refer(r, Identity(slots[a][k]))
    BY <1>7, LoadRefines
  <2> QED
    BY <1>3, <1>4, <2>1, <2>2 DEF Graph!Next
<1>8. ASSUME NEW a \in InHand \ {Nil}, NEW k \in Slot, NEW v \in InHand, Store(a, k, v)
      PROVE  Graph!Next
  <2>1. Identity(a) \in Label /\ Graph!Update(Identity(a), k, Identity(v))
    BY <1>8, StoreRefines
  <2> QED
    BY <1>4, <1>5, <2>1 DEF Graph!Next, Slot
<1>9. ASSUME NEW r \in Visible, NEW a \in Fresh(Free, ToSpace), NEW l \in Label,
             NEW knd \in Kind, NEW slts \in [Slot -> InHand], New(r, a, l, knd, slts)
      PROVE  Graph!Next
  BY <1>3, <1>9, NewRefines DEF Graph!Next
<1>10. ASSUME NEW r \in Visible, NEW b \in Bytes, InternShort(r, b) PROVE Graph!Next
  BY <1>3, <1>10, InternRefines DEF Graph!Next
<1>11. ASSUME NEW t \in 0..NRegs, MoveWindow(t) PROVE Graph!Next
  BY <1>11, MoveWindowRefines DEF Graph!Next
<1> QED
  BY <1>2, <1>6, <1>7, <1>8, <1>9, <1>10, <1>11 DEF MutatorStep

\* A step of a collection is invisible, but for the two that drop values.
LEMMA CollectorRefines ==
  ASSUME IInv, IInv', RInv, CollectorStep
  PROVE  RInv' /\ [Graph!Next]_Graph!vars
<1>1. ASSUME View' = View, Contents' = Contents, top' = top PROVE UNCHANGED Graph!vars
  BY <1>1 DEF Graph!vars, View
<1>2. CASE ScanRegister
  <2>1. next \in Root /\ next <= top /\ pc = "registers" /\ UNCHANGED pc /\ ForwardRoot
    BY <1>2, SizeAssumption DEF ScanRegister, IInv, TypeOK, StageInv, Root
  <2>2. top' = top
    BY <1>2 DEF ScanRegister, ForwardRoot
  <2> QED
    BY <1>1, <2>1, <2>2, ForwardRootRefines
<1>3. CASE ScanRoot
  <2>1. next \in Root /\ pc = "roots" /\ UNCHANGED pc /\ ForwardRoot
    BY <1>3, SizeAssumption DEF ScanRoot, IInv, TypeOK, StageInv, Root
  <2>2. top' = top
    BY <1>3 DEF ScanRoot, ForwardRoot
  <2> QED
    BY <1>1, <2>1, <2>2, ForwardRootRefines
<1>4. CASE ScanSlot
  <2>1. top' = top
    BY <1>4 DEF ScanSlot
  <2> QED
    BY <1>1, <1>4, <2>1, ScanSlotRefines
<1>5. CASE EndRoots \/ PopGray \/ EndScan \/ DropDeadStrings
  BY <1>1, <1>5, OtherStepsRefine
<1>6. CASE ClearStaleRegisters
  BY <1>6, ClearStaleRegistersRefines DEF Graph!Next
<1>7. CASE Reclaim
  BY <1>7, ReclaimRefines DEF Graph!Next
<1> QED
  BY <1>2, <1>3, <1>4, <1>5, <1>6, <1>7 DEF CollectorStep

\* What the machine computes with is the graph of objects: its instructions are
\* the graph's, and gc() does nothing to it but forget what no running function
\* and then what no root can reach.
THEOREM Refinement == Spec => ImplementsObjectGraph
<1>1. IInv /\ IInv' /\ RInv /\ [Next]_vars => RInv' /\ [Graph!Next]_Graph!vars
  <2> SUFFICES ASSUME IInv, IInv', RInv, [Next]_vars PROVE RInv' /\ [Graph!Next]_Graph!vars
    OBVIOUS
  <2>1. ASSUME View' = View, Contents' = Contents, top' = top PROVE UNCHANGED Graph!vars
    BY <2>1 DEF Graph!vars, View
  <2>2. CASE MutatorStep
    BY <2>2, MutatorRefines
  <2>3. CASE StartCollection
    BY <2>1, <2>3, StartCollectionRefines
  <2>4. CASE CollectorStep
    BY <2>4, CollectorRefines
  <2>5. CASE UNCHANGED vars
    BY <2>1, <2>5, OtherStepsRefine
  <2> QED
    BY <2>2, <2>3, <2>4, <2>5 DEF Next
<1> QED
  BY Invariance, InitRefines, <1>1, PTL DEF Spec, ImplementsObjectGraph, Graph!Spec

=============================================================================
