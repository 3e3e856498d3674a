----------------------------- MODULE ObjectGraph -----------------------------
(***************************************************************************)
(* What the managed heap promises the virtual machine: a graph of objects  *)
(* seen from the roots, which only the machine's own instructions change.  *)
(* There are no addresses in it, and all that a collection does is to drop *)
(* the objects that no root reaches.                                       *)
(***************************************************************************)
EXTENDS Integers, Functions

CONSTANTS NRegs,   \* number of machine registers, the first roots
          NRoots,  \* number of roots
          NSlots,  \* number of values that an object can hold
          Bytes,   \* identities of strings: their contents
          Label,   \* identities of the other objects
          Nil      \* a value that is no pointer

VARIABLES view,      \* the identity of the object each root refers to
          contents,  \* the objects, by identity
          top        \* registers above top belong to no running function

vars == <<view, contents, top>>

Root == 1..NRoots
Visible == 1..top \cup NRegs + 1..NRoots

Leaf == {"string", "function"}
NoSlots == [k \in 1..NSlots |-> Nil]

-----------------------------------------------------------------------------

\* Values an instruction can get hold of.
InHand == {view[r] : r \in Visible} \cup {Nil}

\* A root is assigned a value in hand, or a value that an object in hand holds.
Refer(r, v) ==
  /\ r \in Visible
  /\ view' = [view EXCEPT ![r] = v]
  /\ v \in InHand \/ \E i \in InHand \ {Nil} : v \in Range(contents[i].slots)
  /\ UNCHANGED <<contents, top>>

\* A slot of an object that holds values is assigned.
Update(i, k, v) ==
  /\ UNCHANGED <<view, top>>
  /\ {i, v} \subseteq InHand
  /\ contents[i].kind \notin Leaf
  /\ contents' = [contents EXCEPT ![i].slots[k] = v]

\* The objects, with one more.
WithObject(i, object) ==
  [j \in DOMAIN contents \cup {i} |-> IF j = i THEN object ELSE contents[j]]

\* A new object, with an identity that no other has.
New(r, i) ==
  /\ r \in Visible
  /\ view' = [view EXCEPT ![r] = i]
  /\ i \notin DOMAIN contents
  /\ \E kind \in {"function", "block"}, slots \in [1..NSlots -> InHand] :
       contents' = WithObject(i, [kind |-> kind, slots |-> slots])
  /\ UNCHANGED top

\* The string with the contents b: a string is its contents.
Intern(r, b) ==
  /\ r \in Visible
  /\ view' = [view EXCEPT ![r] = b]
  /\ contents' = WithObject(b, [kind |-> "string", slots |-> NoSlots])
  /\ UNCHANGED top

\* A call or a return: other registers are in use, whatever they hold.
Window(t) ==
  /\ top' = t
  /\ UNCHANGED <<view, contents>>

\* Registers that no function uses lose their values.
Forget ==
  /\ view' = [r \in Root |-> IF r \in top + 1..NRegs THEN Nil ELSE view[r]]
  /\ UNCHANGED <<contents, top>>

Pointers(f) == Range(f) \ {Nil}

\* A set that holds what the roots refer to and what its own members refer to.
ClosedFromRoots(S) ==
  /\ Pointers(view) \subseteq S
  /\ \A i \in S : Pointers(contents[i].slots) \subseteq S

\* The objects that a path leads to from some root.
Live ==
  {i \in DOMAIN contents :
     \A S \in SUBSET DOMAIN contents : ClosedFromRoots(S) => i \in S}

\* The objects that no root reaches are gone, all of them.
Collect ==
  /\ UNCHANGED <<view, top>>
  /\ contents' = Restrict(contents, Live)

Init ==
  /\ view = [r \in Root |-> Nil]
  /\ contents = [i \in {} |-> Nil]
  /\ top = 0

Next ==
  \/ \E r \in Root, v \in Bytes \cup Label \cup {Nil} : Refer(r, v)
  \/ \E i \in Label, k \in 1..NSlots, v \in Bytes \cup Label \cup {Nil} : Update(i, k, v)
  \/ \E r \in Root, i \in Label : New(r, i)
  \/ \E r \in Root, b \in Bytes : Intern(r, b)
  \/ \E t \in 0..NRegs : Window(t)
  \/ Forget
  \/ Collect

Spec == Init /\ [][Next]_vars

=============================================================================
