------------------------------- MODULE VTable -------------------------------
(***************************************************************************)
(* The hash table of src/svm/vtable.c: an array of buckets, each the head   *)
(* of a list of bindings.  Table, buckets and bindings lie on the collected *)
(* heap, and so do most keys and values: a collection copies the table and  *)
(* moves everything its bindings point to.                                  *)
(*                                                                         *)
(* Bindings are numbered in the order of their allocation since the last    *)
(* collection, a removed one included.  The rest of the heap is the place   *)
(* of each object that a caller may use as a key or as a value.             *)
(***************************************************************************)
EXTENDS Values, LinkedLists, SequencesExt

CONSTANTS Obj,          \* heap objects: strings, blocks, cells, ...
          ObjTag,       \* the tag of each
          StringHash,   \* Vmstring_hash of those that are strings
          TagHash,      \* NILHASH, EMPTYHASH, ...: one hash for a tag
          NumberHash(_),\* NUMHASH ^ n
          Placed,       \* where each is when the table is made
          Unboxed,      \* the other values that a caller may use
          Bound,        \* the objects and values to which it binds keys
          NULL,
          Hint,         \* arguments of VTable_new
          MaxBindings   \* bound on the bindings between two collections

ASSUME ObjAssumption == /\ IsFiniteSet(Obj) /\ Obj \cap Unboxed = {}
                        /\ \A n \in {0, NaN} : mkNumberValue(n) \notin Obj
                        /\ nilValue \notin Obj
                        /\ Placed \in [Obj -> 1..Cardinality(Obj)] /\ IsInjective(Placed)
                        /\ Bound \subseteq Obj \cup Unboxed

\* The tag of a value tells whether it is an object.  No argument is nil.
ASSUME TagAssumption ==
  /\ \A o \in Obj : ObjTag[o] \notin {"Nil", "Boolean", "Number", "Emptylist"}
  /\ \A x \in Unboxed : \/ x = emptylistValue
                        \/ x.tag = "Boolean" /\ x = mkBooleanValue(x.b)
                        \/ x.tag = "Number" /\ x = mkNumberValue(x.n)
  /\ NaN \notin {0, NegZero}

\* Hashes are of type uint32_t.
ASSUME HashAssumption ==
  /\ \A o \in Obj : IF ObjTag[o] = "String" THEN StringHash[o] \in Nat
                     ELSE TagHash[ObjTag[o]] \in Nat
  /\ \A x \in Unboxed : x.tag = "Number" => NumberHash(Truncate(x.n)) \in Nat
  /\ \A x \in Unboxed : x.tag = "Boolean" => TagHash[IF x.b THEN "True" ELSE "False"] \in Nat
  /\ \A x \in Unboxed : x.tag = "Emptylist" => TagHash[x.tag] \in Nat

INT_MAX == 2147483647

\* The argument of VTable_new is a nonnegative int.
ASSUME SizeAssumption == Hint \subseteq 0..INT_MAX /\ MaxBindings \in Nat \ {0}

ASSUME NullAssumption == NULL \notin Nat

VARIABLES
  where,              \* the address of each object
  binding,            \* the bindings allocated in this semispace
  buckets, length,    \* struct VTable_T; its size is that of buckets
  outcome,            \* "running", or "crashed"
  last                \* the last operation and its result

table == <<buckets, length>>
vars == <<where, binding, table, outcome, last>>

size == Cardinality(DOMAIN buckets)

\* Any value but nil.  An argument of an operation is one of these.
Arg == Obj \cup Unboxed

\* The machine's value for an argument, which depends on where an object is.
Value(x) == IF x \in Obj THEN mkPointerValue(ObjTag[x], where[x]) ELSE x

\* 0.0 and -0.0 are one key.
Canonical(v) == IF v.tag = "Number" THEN mkNumberValue(Truncate(v.n)) ELSE v

\* The object, or unboxed value, that a value is.
Identity(v) ==
  IF v.tag \in {ObjTag[o] : o \in Obj} THEN CHOOSE o \in Obj : where[o] = v.p
  ELSE Canonical(v)

Identities == Obj \cup {Canonical(x) : x \in Unboxed}

\* Mutant of hashvalue: an object hashes to its address.
HashOfAddress(v) ==
  CASE v.tag = "Number"  -> NumberHash(Truncate(v.n))
    [] v.tag = "Boolean" -> TagHash[IF v.b THEN "True" ELSE "False"]
    [] v.tag = "String"  -> StringHash[Identity(v)]
    [] OTHER             -> v.p

\* Mutant of hashvalue: a number hashes to its bits, in which -0.0 is not 0.0.
HashOfBits(v) ==
  CASE v.tag = "Number"  -> NumberHash(IF v.n = NegZero THEN 1 ELSE v.n)
    [] v.tag = "Boolean" -> TagHash[IF v.b THEN "True" ELSE "False"]
    [] v.tag = "String"  -> StringHash[Identity(v)]
    [] OTHER             -> TagHash[v.tag]

hashvalue(v) ==
  CASE v.tag = "Number"  -> NumberHash(Truncate(v.n))
    [] v.tag = "Boolean" -> TagHash[IF v.b THEN "True" ELSE "False"]
    [] v.tag = "String"  -> StringHash[Identity(v)]
    [] OTHER             -> TagHash[v.tag]

Bucket(key) == hashvalue(key) % size

-----------------------------------------------------------------------------
(* Lists of bindings *)

Link == [p \in DOMAIN binding |-> binding[p].link]

\* The list of bucket b.
Chain(b) == List(Link, NULL, buckets[b])

\* The places in a list whose key is identical to the argument.
Places(c, key) == {j \in DOMAIN c : identical(key, binding[c[j]].key)}

\* The binding at which a search for the key stops.
Found(key) ==
  LET c == Chain(Bucket(key))
      places == Places(c, key)
  IN  IF places = {} THEN NULL ELSE c[Min(places)]

Lookup(key) == LET p == Found(key) IN IF p = NULL THEN nilValue ELSE binding[p].value

-----------------------------------------------------------------------------
(* Operations *)

primes == <<5, 5, 11, 23, 47, 97, 197, 397, 509, 1021, 2053, 4093,
            8191, 16381, 32771, 65521, INT_MAX>>

\* The prime before the first, not counting primes[0], that is no less.
SizeFor(hint) == primes[Min({i \in 2..Len(primes) : primes[i] >= hint}) - 1]

\* VTable_new.
Init ==
  /\ \E hint \in Hint : buckets = [b \in 0..SizeFor(hint) - 1 |-> NULL]
  /\ length = 0
  /\ binding = <<>>
  /\ where = Placed
  /\ outcome = "running"
  /\ last = <<"new">>

VTable_get(x) ==
  /\ last' = <<"get", Identity(Value(x)), Identity(Lookup(Value(x)))>>
  /\ UNCHANGED <<where, binding, table, outcome>>

VTable_length ==
  /\ last' = <<"length", length>>
  /\ UNCHANGED <<where, binding, table, outcome>>

\* VTable_put of a key that has a binding.
Rebind(x, y) ==
  LET p == Found(Value(x)) IN
  /\ p # NULL
  /\ binding' = [binding EXCEPT ![p].value = Value(y)]
  /\ UNCHANGED table

\* Mutant of Prepend: does not count the binding.
PrependUncounted(x, y) ==
  LET b == Bucket(Value(x)) IN
  /\ Found(Value(x)) = NULL
  /\ Len(binding) < MaxBindings
  /\ binding' = Append(binding, [link |-> buckets[b], key |-> Value(x), value |-> Value(y)])
  /\ buckets' = [buckets EXCEPT ![b] = Len(binding) + 1]
  /\ UNCHANGED length

\* VTable_put of another key, whose binding becomes the first of its list.
Prepend(x, y) ==
  LET b == Bucket(Value(x)) IN
  /\ Found(Value(x)) = NULL
  /\ Len(binding) < MaxBindings
  /\ binding' = Append(binding, [link |-> buckets[b], key |-> Value(x), value |-> Value(y)])
  /\ buckets' = [buckets EXCEPT ![b] = Len(binding) + 1]
  /\ length' = length + 1

VTable_put(x, y) ==
  /\ Rebind(x, y) \/ Prepend(x, y)
  /\ last' = <<"put", Identity(Value(x)), Identity(Value(y))>>
  /\ UNCHANGED <<where, outcome>>

\* Unlinks the binding at place j of the list c of bucket b.
Unlink(b, c, j) ==
  LET next == binding[c[j]].link IN
  IF j = 1 THEN buckets' = [buckets EXCEPT ![b] = next] /\ UNCHANGED binding
  ELSE binding' = [binding EXCEPT ![c[j - 1]].link = next] /\ UNCHANGED buckets

\* VTable_remove, which is also VTable_put of nil.  After it has unlinked a
\* binding the loop steps on from the link it has changed, through the binding
\* that comes next.  When none does, it goes through NULL.
VTable_remove(x) ==
  LET key == Value(x)
      b == Bucket(key)
      c == Chain(b)
      places == Places(c, key)
  IN
  /\ IF places = {} THEN UNCHANGED <<table, binding, outcome>>
     ELSE /\ Unlink(b, c, Min(places))
          /\ length' = length - 1
          /\ outcome' = IF Min(places) = Len(c) THEN "crashed" ELSE outcome
  /\ last' = <<"put", Identity(key), nilValue>>
  /\ UNCHANGED where

-----------------------------------------------------------------------------
(* Collection: forward_table, VTable_copy, and scan_table through           *)
(* VTable_internal_values, between which nothing else uses the table.       *)

\* Objects go to the other semispace.
NewPlace(a) == IF a <= Cardinality(Obj) THEN a + Cardinality(Obj) ELSE a - Cardinality(Obj)

\* scan_value.
Forwarded(v) == IF v.tag \in {ObjTag[o] : o \in Obj} THEN [v EXCEPT !.p = NewPlace(@)] ELSE v

\* The bindings in the order in which VTable_copy copies them.
CopyOrder == FlattenSeq([b \in 1..size |-> Chain(b - 1)])

Copied(order, p) == IF p = NULL THEN NULL ELSE CHOOSE j \in DOMAIN order : order[j] = p

Collect ==
  LET order == CopyOrder IN
  /\ where' = [o \in Obj |-> NewPlace(where[o])]
  /\ binding' = [j \in DOMAIN order |->
                   LET p == binding[order[j]]
                   IN [link |-> Copied(order, p.link),
                       key |-> Forwarded(p.key), value |-> Forwarded(p.value)]]
  /\ buckets' = [b \in DOMAIN buckets |-> Copied(order, buckets[b])]
  /\ UNCHANGED <<length, outcome, last>>

Running ==
  /\ outcome = "running"
  /\ \/ \E x \in Arg : VTable_get(x) \/ VTable_remove(x) \/ \E y \in Bound : VTable_put(x, y)
     \/ VTable_length
     \/ Collect

\* A program that has crashed takes no more steps.
Next == Running \/ (outcome = "crashed" /\ UNCHANGED vars)

Spec == Init /\ [][Next]_vars

-----------------------------------------------------------------------------
(* Properties *)

Values == [tag : {ObjTag[o] : o \in Obj}, p : Nat] \cup Unboxed

\* Type invariant.
TypeOK ==
  /\ where \in [Obj -> 1..2 * Cardinality(Obj)]
  /\ binding \in Seq([link : 1..Len(binding) \cup {NULL}, key : Values, value : Values])
  /\ buckets \in [0..size - 1 -> 1..Len(binding) \cup {NULL}]
  /\ length \in 0..MaxBindings
  /\ outcome \in {"running", "crashed"}

\* However keys collide, and wherever collections have moved them, the binding
\* of a key stays in the list in which a search for that key looks, no list
\* runs into a cycle or into another list, and no key has two bindings of
\* which one would hide the other.
BindingsAreFound ==
  LET order == CopyOrder IN
  /\ \A b \in DOMAIN buckets : \A p \in Range(Chain(b)) : Bucket(binding[p].key) = b
  /\ \A i, j \in DOMAIN order :
       i # j => ~identical(binding[order[i]].key, binding[order[j]].key)

Map == INSTANCE KeyValueMap
         WITH Key <- Identities, Val <- {Canonical(x) : x \in Unboxed} \cup Obj, Nil <- nilValue,
              map <- [k \in Identities |-> Identity(Lookup(Value(k)))]

\* The table is a map from identities to identities, which a collection does
\* not change: a get returns what the last put of that key bound, a key that
\* has been removed or was never put is nil, and the length is the number of
\* keys that are not nil.
ImplementsMap == Map!Spec

\* vtable.h: putting nilValue removes a binding, and the table is then one in
\* which the entry is missing, so that every later operation succeeds.
RemovalSucceeds == outcome = "running"

=============================================================================
