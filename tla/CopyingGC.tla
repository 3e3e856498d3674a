------------------------------ MODULE CopyingGC ------------------------------
(***************************************************************************)
(* The copying collector of src/svm/vmheap.c together with the instructions *)
(* of the virtual machine that build and change objects, and the weak       *)
(* table of interned strings of src/svm/vmstring.c.                         *)
(*                                                                         *)
(* A collection is a sequence of steps, one for each value that scan_value  *)
(* visits, so the color invariants that vmheap.c documents can be stated    *)
(* and checked between any two of them.  The mutator is not running then.   *)
(*                                                                         *)
(* An address is an element of Addr; where the allocator finds it on the    *)
(* pages is the business of module PageHeap, here the operator Fresh.  An   *)
(* object is what scan_value makes of it: a kind and NSlots values.  A      *)
(* value without a heap payload is Nil.  The payload that memcpy copies is  *)
(* abstracted to an identity: the bytes of a string, a label of any other   *)
(* object.                                                                 *)
(***************************************************************************)
EXTENDS Integers, Sequences, FiniteSets, Functions

CONSTANTS Addr,       \* addresses of objects
          Fresh(_, _), \* of the free addresses, where the allocator may go next
                      \* when those of the second set are in use
          MaxObjects, \* bound on the objects allocated between collections
          NRegs,      \* vm->registers are the roots 1..NRegs
          NRoots,     \* and the others, in scan_vmstate's order, NRegs+1..NRoots
          NSlots,     \* values that an object can hold
          Bytes,      \* contents of short strings
          Label,      \* identities of other objects
          Nil         \* a value without a payload on the heap

ASSUME FreshAssumption == \A S, T \in SUBSET Addr : Fresh(S, T) \subseteq S

ASSUME SizeAssumption ==
  /\ NRegs \in Nat /\ NRoots \in Nat /\ NSlots \in Nat
  /\ NRegs <= NRoots

ASSUME NilAssumption == Nil \notin Addr \cup Bytes \cup Label

ASSUME IdentityAssumption == Bytes \cap Label = {}

\* A block stands for whatever holds values: a cons cell or another block, or
\* a closure, whose function comes first.
Kind == {"string", "function", "block"}

\* forward_string and forward_function do not remember their copies.
Leaf == {"string", "function"}

Root == 1..NRoots
Slot == 1..NSlots
Value == Addr \cup {Nil}

VARIABLES
  root,      \* the values in the machine state
  top,       \* R_window_start + fun->nregs: registers above it are stale
  space,     \* where an address lies: unused, in from-space or in to-space
  kind, payload, slots, \* the object at an address
  fwd,       \* its forwarding pointer
  interned,  \* the strings linked from the buckets of the string table
  gray,      \* the stack of objects to be scanned
  scanning,  \* the object whose slots are being scanned
  next,      \* the root or the slot to be scanned next
  pc         \* where gc() is, or "mutator"

object == <<kind, payload, slots>>
vars == <<root, top, space, object, fwd, interned, gray, scanning, next, pc>>

FromSpace == {a \in Addr : space[a] = "from"}
ToSpace == {a \in Addr : space[a] = "to"}
Free == {a \in Addr : space[a] = "free"}

NoSlots == [k \in Slot |-> Nil]

-----------------------------------------------------------------------------
(* The mutator: instructions between two safe points *)

\* Registers of the running function, and the other roots.
Visible == 1..top \cup NRegs + 1..NRoots

InHand == {root[r] : r \in Visible} \cup {Nil}

\* Move, LoadLiteral, GetGlobal, SetGlobal and loads of values without payload.
Assign(r, v) ==
  /\ pc = "mutator"
  /\ root' = [root EXCEPT ![r] = v]
  /\ UNCHANGED <<top, space, object, fwd, interned, gray, scanning, next, pc>>

\* Car, Cdr, GetBlockSlot and GetClSlot.
Load(r, a, k) ==
  /\ pc = "mutator"
  /\ kind[a] \notin Leaf
  /\ root' = [root EXCEPT ![r] = slots[a][k]]
  /\ UNCHANGED <<top, space, object, fwd, interned, gray, scanning, next, pc>>

\* SetBlockSlot and SetClSlot.
Store(a, k, v) ==
  /\ pc = "mutator"
  /\ kind[a] \notin Leaf
  /\ slots' = [slots EXCEPT ![a][k] = v]
  /\ UNCHANGED <<root, top, space, kind, payload, fwd, interned, gray, scanning, next, pc>>

\* vmalloc_raw and GCINIT, and the fields the caller fills in.
Allocate(a, knd, pay, slts) ==
  /\ Cardinality(ToSpace) < MaxObjects
  /\ space' = [space EXCEPT ![a] = "to"]
  /\ kind' = [kind EXCEPT ![a] = knd]
  /\ payload' = [payload EXCEPT ![a] = pay]
  /\ slots' = [slots EXCEPT ![a] = slts]
  /\ fwd' = [fwd EXCEPT ![a] = Nil]

\* Cons; MkBlock and MkClosure with the SetBlockSlot and SetClSlot instructions
\* that follow; a function made by the loader.
New(r, a, l, knd, slts) ==
  /\ pc = "mutator"
  /\ knd # "string"
  /\ knd = "function" => slts = NoSlots
  /\ l \notin {payload[b] : b \in ToSpace}
  /\ Allocate(a, knd, l, slts)
  /\ root' = [root EXCEPT ![r] = a]
  /\ UNCHANGED <<top, interned, gray, scanning, next, pc>>

\* intern_short: the string in the table that has these bytes, or a new one.
InternShort(r, b) ==
  /\ pc = "mutator"
  /\ LET found == {s \in interned : payload[s] = b} IN
     \/ /\ found # {}
        /\ \E s \in found : root' = [root EXCEPT ![r] = s]
        /\ UNCHANGED <<space, object, fwd, interned>>
     \/ /\ found = {}
        /\ \E a \in Fresh(Free, ToSpace) :
             /\ Allocate(a, "string", b, NoSlots)
             /\ root' = [root EXCEPT ![r] = a]
             /\ interned' = interned \cup {a}
  /\ UNCHANGED <<top, gray, scanning, next, pc>>

\* Call and Return move the register window; what a register holds stays.
MoveWindow(t) ==
  /\ pc = "mutator"
  /\ top' = t
  /\ UNCHANGED <<root, space, object, fwd, interned, gray, scanning, next, pc>>

-----------------------------------------------------------------------------
(* Forwarding *)

\* Mutant: an object that has been copied is copied again.
SettledNil(v) == v = Nil

\* A value that a forward_ function returns without copying anything.
Settled(v) == v # Nil => fwd[v] # Nil

Target(v) == IF v = Nil THEN Nil ELSE fwd[v]

\* Mutant: the copy is not remembered.
CopyToForgotten(p, a) ==
  /\ space' = [space EXCEPT ![a] = "to"]
  /\ kind' = [kind EXCEPT ![a] = kind[p]]
  /\ payload' = [payload EXCEPT ![a] = payload[p]]
  /\ fwd' = [fwd EXCEPT ![a] = fwd[p], ![p] = a]
  /\ UNCHANGED gray

\* copy_X(p) into a, p->forwarded = a, and remember(a) if it holds values; what
\* the slots become depends on who asked.
CopyTo(p, a) ==
  /\ space' = [space EXCEPT ![a] = "to"]
  /\ kind' = [kind EXCEPT ![a] = kind[p]]
  /\ payload' = [payload EXCEPT ![a] = payload[p]]
  /\ fwd' = [fwd EXCEPT ![a] = fwd[p], ![p] = a]
  /\ gray' = IF kind[p] \in Leaf THEN gray ELSE Append(gray, a)

-----------------------------------------------------------------------------
(* The collector *)

\* gc(), step 3: what has been allocated is from-space, to-space is empty.
StartCollection ==
  /\ pc = "mutator"
  /\ space' = [a \in Addr |-> IF space[a] = "to" THEN "from" ELSE space[a]]
  /\ next' = 1
  /\ pc' = "registers"
  /\ UNCHANGED <<root, top, object, fwd, interned, gray, scanning>>

\* scan_value of the next root.
ForwardRoot ==
  LET v == root[next] IN
  /\ next' = next + 1
  /\ \/ /\ Settled(v)
        /\ root' = [root EXCEPT ![next] = Target(v)]
        /\ UNCHANGED <<space, object, fwd, gray>>
     \/ /\ ~Settled(v)
        /\ \E a \in Fresh(Free, ToSpace) :
             /\ CopyTo(v, a)
             /\ slots' = [slots EXCEPT ![a] = slots[v]]
             /\ root' = [root EXCEPT ![next] = a]
  /\ UNCHANGED <<top, interned, scanning>>

\* scan_vmstate: the registers up to stale_start.
ScanRegister ==
  /\ pc = "registers" /\ next <= top
  /\ ForwardRoot
  /\ UNCHANGED pc

\* Mutants: the memset is left out, or starts one register too early.
StaleRegistersStay ==
  /\ pc = "registers" /\ next > top
  /\ next' = NRegs + 1
  /\ pc' = "roots"
  /\ UNCHANGED <<root, top, space, object, fwd, interned, gray, scanning>>
ClearLastRegister ==
  /\ pc = "registers" /\ next > top
  /\ root' = [r \in Root |-> IF r \in top..NRegs THEN Nil ELSE root[r]]
  /\ next' = NRegs + 1
  /\ pc' = "roots"
  /\ UNCHANGED <<top, space, object, fwd, interned, gray, scanning>>

\* scan_vmstate: memset makes the stale registers nil.
ClearStaleRegisters ==
  /\ pc = "registers" /\ next > top
  /\ root' = [r \in Root |-> IF r \in top + 1..NRegs THEN Nil ELSE root[r]]
  /\ next' = NRegs + 1
  /\ pc' = "roots"
  /\ UNCHANGED <<top, space, object, fwd, interned, gray, scanning>>

\* scan_vmstate: awaiting_expect, literals, globals, activations and vm->fun.
ScanRoot ==
  /\ pc = "roots" /\ next <= NRoots
  /\ ForwardRoot
  /\ UNCHANGED pc

EndRoots ==
  /\ pc = "roots" /\ next > NRoots
  /\ next' = 1
  /\ pc' = "drain"
  /\ UNCHANGED <<root, top, space, object, fwd, interned, gray, scanning>>

\* gc(), step 5: VStack_pop.
PopGray ==
  /\ pc = "drain" /\ gray # <<>>
  /\ scanning' = gray[Len(gray)]
  /\ gray' = SubSeq(gray, 1, Len(gray) - 1)
  /\ next' = 1
  /\ pc' = "scan"
  /\ UNCHANGED <<root, top, space, object, fwd, interned>>

\* scan_block and scan_closure: scan_value of the next slot.
ScanSlot ==
  /\ pc = "scan" /\ next <= NSlots
  /\ next' = next + 1
  /\ LET v == slots[scanning][next] IN
     \/ /\ Settled(v)
        /\ slots' = [slots EXCEPT ![scanning][next] = Target(v)]
        /\ UNCHANGED <<space, kind, payload, fwd, gray>>
     \/ /\ ~Settled(v)
        /\ \E a \in Fresh(Free, ToSpace) :
             /\ CopyTo(v, a)
             /\ slots' = [slots EXCEPT ![a] = slots[v], ![scanning][next] = a]
  /\ UNCHANGED <<root, top, interned, scanning, pc>>

EndScan ==
  /\ pc = "scan" /\ next > NSlots
  /\ scanning' = Nil
  /\ next' = 1
  /\ pc' = "drain"
  /\ UNCHANGED <<root, top, space, object, fwd, interned, gray>>

\* Mutants: keep_live keeps every string, or none.
KeepAllStrings ==
  /\ pc = "drain" /\ gray = <<>>
  /\ interned' = {fwd[s] : s \in interned}
  /\ pc' = "reclaim"
  /\ UNCHANGED <<root, top, space, object, fwd, gray, scanning, next>>
DropAllStrings ==
  /\ pc = "drain" /\ gray = <<>>
  /\ interned' = {}
  /\ pc' = "reclaim"
  /\ UNCHANGED <<root, top, space, object, fwd, gray, scanning, next>>

\* gc(), step 6: VMString_drop_dead_strings relinks the copies of the strings
\* that have one and forgets the others.
DropDeadStrings ==
  /\ pc = "drain" /\ gray = <<>>
  /\ interned' = {fwd[s] : s \in {t \in interned : fwd[t] # Nil}}
  /\ pc' = "reclaim"
  /\ UNCHANGED <<root, top, space, object, fwd, gray, scanning, next>>

\* gc(), step 7: make_available(fromspace).  Nothing can be said of the bytes on
\* an available page; here they are wiped.
Reclaim ==
  /\ pc = "reclaim"
  /\ LET Wipe(f, wiped) == [a \in Addr |-> IF space[a] = "from" THEN wiped ELSE f[a]] IN
     /\ space' = Wipe(space, "free")
     /\ kind' = Wipe(kind, "string")
     /\ payload' = Wipe(payload, Nil)
     /\ slots' = Wipe(slots, NoSlots)
     /\ fwd' = Wipe(fwd, Nil)
  /\ pc' = "mutator"
  /\ UNCHANGED <<root, top, interned, gray, scanning, next>>

-----------------------------------------------------------------------------

Init ==
  /\ root = [r \in Root |-> Nil]
  /\ top = 0
  /\ space = [a \in Addr |-> "free"]
  /\ kind = [a \in Addr |-> "string"]
  /\ payload = [a \in Addr |-> Nil]
  /\ slots = [a \in Addr |-> NoSlots]
  /\ fwd = [a \in Addr |-> Nil]
  /\ interned = {}
  /\ gray = <<>>
  /\ scanning = Nil
  /\ next = 1
  /\ pc = "mutator"

MutatorStep ==
  \/ \E r \in Visible, v \in InHand : Assign(r, v)
  \/ \E r \in Visible, a \in InHand \ {Nil}, k \in Slot : Load(r, a, k)
  \/ \E a \in InHand \ {Nil}, k \in Slot, v \in InHand : Store(a, k, v)
  \/ \E r \in Visible, a \in Fresh(Free, ToSpace), l \in Label, knd \in Kind,
        slts \in [Slot -> InHand] : New(r, a, l, knd, slts)
  \/ \E r \in Visible, b \in Bytes : InternShort(r, b)
  \/ \E t \in 0..NRegs : MoveWindow(t)

CollectorStep ==
  \/ ScanRegister \/ ClearStaleRegisters \/ ScanRoot \/ EndRoots
  \/ PopGray \/ ScanSlot \/ EndScan
  \/ DropDeadStrings \/ Reclaim

Next == MutatorStep \/ StartCollection \/ CollectorStep

\* gc() is a subroutine: once called, its steps are taken until it returns.
Spec == Init /\ [][Next]_vars /\ WF_vars(CollectorStep)

-----------------------------------------------------------------------------
(* Properties *)

Collecting == pc # "mutator"

TypeOK ==
  /\ root \in [Root -> Value]
  /\ top \in 0..NRegs
  /\ space \in [Addr -> {"free", "from", "to"}]
  /\ kind \in [Addr -> Kind]
  /\ payload \in [Addr -> Bytes \cup Label \cup {Nil}]
  /\ slots \in [Addr -> [Slot -> Value]]
  /\ fwd \in [Addr -> Value]
  /\ interned \subseteq Addr
  /\ gray \in Seq(Addr)
  /\ scanning \in Value
  /\ next \in Nat
  /\ pc \in {"mutator", "registers", "roots", "drain", "scan", "reclaim"}

PointsInto(v, S) == v = Nil \/ v \in S

\* The color invariants of vmheap.c, between any two steps of a collection.
White(a) == a \in FromSpace /\ fwd[a] = Nil
Gray(a) == a \in Range(gray)
Black(a) == a \in ToSpace /\ ~Gray(a) /\ a # scanning

\* "A white object has a NULL forwarding pointer and any pointers it contains
\* point into from-space."
WhitePointsToFromSpace ==
  Collecting => \A a \in FromSpace, k \in Slot : White(a) => PointsInto(slots[a][k], FromSpace)

\* "A gray or black object has been copied into to-space. The original object's
\* forwarding pointer is non-NULL and points to the to-space copy."
CopiesAreForwardedTo ==
  Collecting =>
    /\ \A a \in FromSpace : PointsInto(fwd[a], ToSpace)
    /\ \A c \in ToSpace : \E a \in FromSpace :
         /\ fwd[a] = c /\ payload[a] = payload[c] /\ kind[a] = kind[c]
         /\ \A b \in FromSpace : fwd[b] = c => b = a

\* "Any pointers that a gray object contains point into from-space."
GrayPointsToFromSpace ==
  \A a \in Range(gray), k \in Slot : PointsInto(slots[a][k], FromSpace)

\* "Any pointers that a black object contains point into to-space", and the
\* slots of the object being scanned are black before next and gray after it.
BlackPointsToToSpace ==
  /\ \A a \in ToSpace, k \in Slot : Black(a) => PointsInto(slots[a][k], ToSpace)
  /\ scanning # Nil =>
       \A k \in Slot : PointsInto(slots[scanning][k], IF k < next THEN ToSpace ELSE FromSpace)

\* "Every gray object appears on the `gray` stack exactly once."
GrayOnce ==
  /\ \A i, j \in DOMAIN gray : gray[i] = gray[j] => i = j
  /\ \A i \in DOMAIN gray : gray[i] \in ToSpace \ {scanning} /\ kind[gray[i]] \notin Leaf

ColorInvariants ==
  /\ WhitePointsToFromSpace
  /\ CopiesAreForwardedTo
  /\ GrayPointsToFromSpace
  /\ BlackPointsToToSpace
  /\ GrayOnce

\* Between collections nothing points to memory that is not in use: no root, no
\* register however stale, no slot of any object, no link of the string table;
\* and no object still carries a forwarding pointer, which GCVALIDATE asserts.
NoDanglingPointer ==
  ~Collecting =>
    /\ \A r \in Root : PointsInto(root[r], ToSpace)
    /\ \A a \in ToSpace, k \in Slot : PointsInto(slots[a][k], ToSpace)
    /\ \A a \in ToSpace : fwd[a] = Nil
    /\ interned \subseteq ToSpace
    /\ FromSpace = {}

\* What eqvalue and identical rely on: two pointers are equal exactly if they
\* refer to the same object, or to short strings with the same bytes.
PointerEqualityIsIdentity ==
  ~Collecting => \A a, b \in ToSpace : payload[a] = payload[b] => a = b

\* A collection ends.
CollectionEnds == Collecting ~> ~Collecting

\* The objects as the machine sees them: an address stands for the identity of
\* the object there, whichever space holds it, and collections are invisible.
Identity(v) == IF v = Nil THEN Nil ELSE payload[v]

Contents ==
  LET used == FromSpace \cup ToSpace
      Object(a) == [kind |-> kind[a], slots |-> [k \in Slot |-> Identity(slots[a][k])]]
  IN  [i \in {payload[a] : a \in used} |-> Object(CHOOSE a \in used : payload[a] = i)]

Graph == INSTANCE ObjectGraph WITH
  view <- [r \in Root |-> Identity(root[r])],
  contents <- Contents

\* The heap implements the graph of objects that the machine computes with.
ImplementsObjectGraph == Graph!Spec

-----------------------------------------------------------------------------
(* The inductive invariant behind the safety properties *)

\* What holds at each stage of gc().
StageInv ==
  /\ pc \in {"mutator", "reclaim"} => gray = <<>>
  /\ pc = "mutator" => FromSpace = {}
  /\ pc = "scan" <=> scanning # Nil
  /\ scanning # Nil => scanning \in ToSpace /\ kind[scanning] \notin Leaf
  /\ pc = "registers" => next \in 1..top + 1
  /\ pc = "roots" => next \in NRegs + 1..NRoots + 1
  /\ pc = "scan" => next \in 1..NSlots + 1

\* A root that is still to be scanned points into from-space, another does not.
RootsInv ==
  \A r \in Root :
    PointsInto(root[r], IF pc \in {"registers", "roots"} /\ r >= next THEN FromSpace ELSE ToSpace)

\* The collector leaves from-space objects as they are.
FromSpaceInv == \A a \in FromSpace, k \in Slot : PointsInto(slots[a][k], FromSpace)

LeafInv == \A a \in Addr : kind[a] \in Leaf => slots[a] = NoSlots

\* Forwarding is a bijection between the copied objects and to-space.
ForwardingInv ==
  /\ \A a \in Addr : fwd[a] # Nil =>
       /\ a \in FromSpace /\ fwd[a] \in ToSpace
       /\ kind[fwd[a]] = kind[a] /\ payload[fwd[a]] = payload[a]
  /\ \A a, b \in Addr : fwd[a] = fwd[b] /\ fwd[a] # Nil => a = b
  /\ Collecting => \A c \in ToSpace : \E a \in FromSpace : fwd[a] = c

\* In either space an identity has one object.
IdentityInv ==
  /\ \A a \in FromSpace \cup ToSpace :
       payload[a] \in IF kind[a] = "string" THEN Bytes ELSE Label
  /\ \A a, b \in FromSpace : payload[a] = payload[b] => a = b
  /\ \A a, b \in ToSpace : payload[a] = payload[b] => a = b

\* The string table holds the strings of one space, all of them.
TableInv ==
  \A a \in Addr : a \in interned <=>
    /\ kind[a] = "string"
    /\ space[a] = IF pc \in {"mutator", "reclaim"} THEN "to" ELSE "from"

IInv ==
  /\ TypeOK
  /\ StageInv
  /\ RootsInv
  /\ FromSpaceInv
  /\ GrayPointsToFromSpace
  /\ BlackPointsToToSpace
  /\ GrayOnce
  /\ LeafInv
  /\ ForwardingInv
  /\ IdentityInv
  /\ TableInv

=============================================================================
