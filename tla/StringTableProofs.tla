-------------------------- MODULE StringTableProofs --------------------------
(***************************************************************************)
(* Safety of the string table for every finite memory, allocator, hash     *)
(* function, set of strings and initial size, through any number of         *)
(* doublings and collections.                                               *)
(***************************************************************************)
EXTENDS StringTable, LinkedListProofs

-----------------------------------------------------------------------------
(* The inductive invariant *)

\* The list that begins with a comes to an end.
Ends(a) == Spells(Chain(a), next_interned, NULL, a)

\* The strings of each bucket, and those of the list that resize has in hand.
Members == [b \in DOMAIN bucket |-> Range(Chain(bucket[b]))]
InHand == Range(Chain(p))
InTable == {s \in Addr : s \in InHand \/ \E b \in DOMAIN bucket : s \in Members[b]}

\* The string that intern_short may have been given, until it is in the table.
Pending == IF pc \in {"rehash", "insert"} THEN wanted.alloced ELSE buffer

\* Each stage's local variables.
StagesKept ==
  /\ pc # "rehash" => p = NULL
  /\ pc # "mutator" => buffer = NULL
  /\ pc \in {"rehash", "insert"} => wanted \in [bytes : Short, alloced : Addr \cup {NULL}]
  /\ pc = "rehash" => newsize = 2 * nbuckets /\ i <= nbuckets /\ population <= nbuckets
  /\ pc = "insert" /\ nbuckets <= MaxDoubled => population + 1 <= nbuckets
  /\ pc \in {"mutator", "copy", "reclaim"} /\ nbuckets <= MaxDoubled => population <= nbuckets

\* Every list ends, and no string is on two of them.
ListsKept ==
  /\ Ends(p)
  /\ \A b \in DOMAIN bucket : Ends(bucket[b])
  /\ \A b \in DOMAIN bucket : Members[b] \cap InHand = {}
  /\ \A b, c \in DOMAIN bucket : b # c => Members[b] \cap Members[c] = {}

\* Every string is where a lookup expects it, or was.
PlacesKept ==
  /\ \A b \in DOMAIN bucket : \A s \in Members[b] : b = Index(hash[s], SizeAt(b))
  /\ pc = "rehash" => \A s \in InHand : i = Index(hash[s], nbuckets) + 1

\* The table's strings are short, hashed, in use, and no two have the same bytes.
StringsKept ==
  /\ \A s \in InTable :
       /\ bytes[s] \in Short /\ hash[s] = HashBytes[bytes[s]]
       /\ space[s] = IF pc = "copy" THEN "from" ELSE "to"
       /\ pc \in {"rehash", "insert"} => bytes[s] # wanted.bytes
  /\ \A s, t \in InTable : bytes[s] = bytes[t] => s = t
  /\ Cardinality(InTable) <= population

\* A string that is not interned yet is the caller's own.
PendingKept ==
  Pending # NULL =>
    /\ space[Pending] = "to" /\ Pending \notin held \cup InTable
    /\ bytes[Pending] \in Short

\* The machine's strings are in use, the short ones interned.
HeldKept ==
  /\ \A a \in Addr : space[a] # "free" => bytes[a] \in Short \cup Long
  /\ pc # "copy" => held \subseteq ToSpace
  /\ pc = "copy" => held \subseteq FromSpace \cup ToSpace
  /\ \A a \in held : bytes[a] \in Short /\ ~(pc = "copy" /\ space[a] = "to") => a \in InTable

\* During a collection the strings in to-space are copies of different strings.
CopiesKept ==
  /\ pc \notin {"copy", "reclaim"} => FromSpace = {}
  /\ pc \in {"copy", "reclaim"} => ToSpace \subseteq held
  /\ \A a \in Addr : forwarded[a] # NULL => space[a] = "from"
  /\ pc = "copy" =>
       /\ \A s \in FromSpace : forwarded[s] # NULL =>
            /\ forwarded[s] \in ToSpace
            /\ bytes[forwarded[s]] = bytes[s] /\ hash[forwarded[s]] = hash[s]
            /\ s \notin held
            /\ bytes[s] \in Short => s \in InTable
       /\ \A s, t \in FromSpace : forwarded[s] # NULL /\ forwarded[s] = forwarded[t] => s = t
       /\ \A a \in ToSpace : \E s \in FromSpace : forwarded[s] = a

IInv ==
  /\ TypeOK
  /\ StagesKept
  /\ ListsKept
  /\ PlacesKept
  /\ StringsKept
  /\ PendingKept
  /\ HeldKept
  /\ CopiesKept

-----------------------------------------------------------------------------
(* The lists of a table *)

LinkFunction == [Addr -> Addr \cup {NULL}]

\* What a list spells is the list, and its nodes are addresses.
LEMMA ChainIs ==
  ASSUME NEW f \in LinkFunction, NEW a, NEW s, Spells(s, f, NULL, a)
  PROVE  List(f, NULL, a) = s /\ Range(s) \subseteq Addr
<1>1. DOMAIN f = Addr
  BY DEF LinkFunction
<1>2. List(f, NULL, a) = s
  BY <1>1, ListIs, MemoryAssumption, NullAssumption
<1>3. s \in Seq(Addr)
  BY <1>1 DEF Spells
<1> QED
  BY <1>2, <1>3, RangeOfSeq

\* The empty list.
LEMMA ChainNull ==
  ASSUME NEW f \in LinkFunction
  PROVE  Range(List(f, NULL, NULL)) = {} /\ Spells(List(f, NULL, NULL), f, NULL, NULL)
BY ChainIs, SpellsNull

\* A list is the same as long as its own links are.
LEMMA ChainKept ==
  ASSUME NEW f \in LinkFunction, NEW g \in LinkFunction, NEW a,
         Spells(List(f, NULL, a), f, NULL, a),
         \A x \in Range(List(f, NULL, a)) : g[x] = f[x]
  PROVE  /\ List(g, NULL, a) = List(f, NULL, a)
         /\ Spells(List(g, NULL, a), g, NULL, a)
<1> DEFINE s == List(f, NULL, a)
<1>1. Range(s) \subseteq Addr
  BY ChainIs
<1>2. DOMAIN g = Addr
  BY DEF LinkFunction
<1> HIDE DEF s
<1>3. Spells(s, g, NULL, a)
  BY <1>1, <1>2, SpellsAgree DEF s
<1> QED
  BY <1>3, ChainIs DEF s

\* A string is put before the list b.
LEMMA ChainPushed ==
  ASSUME NEW f \in LinkFunction, NEW g \in LinkFunction, NEW a \in Addr, NEW b,
         Spells(List(f, NULL, b), f, NULL, b), g[a] = b,
         \A x \in Range(List(f, NULL, b)) : g[x] = f[x]
  PROVE  /\ Spells(List(g, NULL, a), g, NULL, a)
         /\ Range(List(g, NULL, a)) = {a} \cup Range(List(f, NULL, b))
<1> DEFINE s == List(f, NULL, b)
<1>1. List(g, NULL, b) = s /\ Spells(s, g, NULL, b)
  BY ChainKept
<1>2. DOMAIN g = Addr
  BY DEF LinkFunction
<1> HIDE DEF s
<1>3. Spells(<<a>> \o s, g, NULL, a) /\ Range(<<a>> \o s) = {a} \cup Range(s)
  BY <1>1, <1>2, SpellsCons, NullAssumption
<1>4. List(g, NULL, a) = <<a>> \o s
  BY <1>3, ChainIs
<1> QED
  BY <1>3, <1>4 DEF s

\* The first string of the list a is taken off.
LEMMA ChainPopped ==
  ASSUME NEW f \in LinkFunction, NEW g \in LinkFunction, NEW a, a # NULL,
         Spells(List(f, NULL, a), f, NULL, a),
         \A x \in Range(List(f, NULL, a)) : x # a => g[x] = f[x]
  PROVE  /\ a \in Addr
         /\ Spells(List(g, NULL, f[a]), g, NULL, f[a])
         /\ a \notin Range(List(g, NULL, f[a]))
         /\ Range(List(f, NULL, a)) = {a} \cup Range(List(g, NULL, f[a]))
<1> DEFINE s == List(f, NULL, a)
<1>1. DOMAIN f = Addr
  BY DEF LinkFunction
<1> HIDE DEF s
<1>2. /\ a \in Addr /\ Spells(Tail(s), f, NULL, f[a])
      /\ Range(s) = {a} \cup Range(Tail(s))
  BY <1>1, SpellsTail, NullAssumption DEF s
<1>3. a \notin Range(Tail(s))
  BY <1>1, SpellsFirst, NullAssumption DEF s
<1>4. List(f, NULL, f[a]) = Tail(s)
  BY <1>2, ChainIs
<1>5. \A x \in Range(Tail(s)) : g[x] = f[x]
  BY <1>2, <1>3 DEF s
<1>6. /\ List(g, NULL, f[a]) = Tail(s)
      /\ Spells(List(g, NULL, f[a]), g, NULL, f[a])
  BY <1>2, <1>4, <1>5, ChainKept
<1> QED
  BY <1>2, <1>3, <1>6 DEF s

\* The allocator takes free addresses.
LEMMA FreshIsFree ==
  ASSUME NEW a \in FreshString
  PROVE  a \in Addr /\ space[a] = "free"
BY FreshAssumption DEF FreshString, ToSpace

\* The sets of strings that the invariant speaks of.
LEMMA TableSets ==
  ASSUME TypeOK, ListsKept
  PROVE  /\ DOMAIN Members = DOMAIN bucket
         /\ \A b \in DOMAIN bucket : Members[b] \subseteq InTable
         /\ InHand \subseteq InTable
         /\ InTable \subseteq Addr
         /\ p = NULL => InHand = {}
         /\ \A b \in DOMAIN bucket : bucket[b] = NULL => Members[b] = {}
<1>1. next_interned \in LinkFunction
  BY DEF TypeOK, LinkFunction
<1>2. InHand \subseteq Addr
  BY <1>1, ChainIs DEF ListsKept, Ends, InHand, Chain
<1>3. \A b \in DOMAIN bucket : Members[b] = Range(Chain(bucket[b]))
  BY DEF Members
<1>4. \A b \in DOMAIN bucket : Members[b] \subseteq Addr
  BY <1>1, <1>3, ChainIs DEF ListsKept, Ends, Chain
<1>5. Range(Chain(NULL)) = {}
  BY <1>1, ChainNull DEF Chain
<1> QED
  BY <1>2, <1>3, <1>4, <1>5 DEF InTable, InHand, Members

\* The table holds finitely many strings.
LEMMA TableFinite ==
  ASSUME NEW S \in SUBSET Addr
  PROVE  /\ IsFiniteSet(S) /\ Cardinality(S) \in Nat
         /\ \A x \in Addr : x \notin S => Cardinality(S \cup {x}) = Cardinality(S) + 1
BY MemoryAssumption, FS_Subset, FS_AddElement, FS_CardinalityType

\* A step that changes no link of a string in the table.
LEMMA ListsUntouched ==
  ASSUME TypeOK, ListsKept, next_interned' \in LinkFunction,
         UNCHANGED <<bucket, p>>,
         \A x \in InTable : next_interned'[x] = next_interned[x]
  PROVE  /\ Members' = Members /\ InHand' = InHand /\ InTable' = InTable
         /\ ListsKept'
<1>1. next_interned \in LinkFunction
  BY DEF TypeOK, LinkFunction
<1>2. InHand' = InHand /\ Ends(p)'
  <2>1. \A x \in InHand : next_interned'[x] = next_interned[x]
    BY TableSets
  <2>2. /\ List(next_interned', NULL, p) = List(next_interned, NULL, p)
        /\ Spells(List(next_interned', NULL, p), next_interned', NULL, p)
    BY <1>1, <2>1, ChainKept DEF ListsKept, Ends, InHand, Chain
  <2> QED
    BY <2>2 DEF Ends, InHand, Chain
<1>3. ASSUME NEW b \in DOMAIN bucket
      PROVE  /\ List(next_interned', NULL, bucket[b]) = List(next_interned, NULL, bucket[b])
             /\ Spells(List(next_interned', NULL, bucket[b]), next_interned', NULL, bucket[b])
  <2>1. \A x \in Range(List(next_interned, NULL, bucket[b])) :
          next_interned'[x] = next_interned[x]
    BY TableSets DEF Members, Chain
  <2> QED
    BY <1>1, <2>1, ChainKept DEF ListsKept, Ends, Chain
<1>4. Members' = Members
  BY <1>3 DEF Members, Chain
<1>5. (\A b \in DOMAIN bucket : Ends(bucket[b]))'
  BY <1>3 DEF Ends, Chain
<1>6. InTable' = InTable
  BY <1>2, <1>4 DEF InTable
<1> QED
  BY <1>2, <1>4, <1>5, <1>6 DEF ListsKept

\* A string that is in no bucket becomes the first of bucket k.
LEMMA BucketPushed ==
  ASSUME TypeOK, ListsKept, next_interned' \in LinkFunction,
         NEW a \in Addr, NEW k \in DOMAIN bucket,
         \A b \in DOMAIN bucket : \A x \in Members[b] :
           x # a /\ next_interned'[x] = next_interned[x],
         next_interned'[a] = bucket[k],
         DOMAIN bucket' = DOMAIN bucket,
         \A b \in DOMAIN bucket : bucket'[b] = IF b = k THEN a ELSE bucket[b]
  PROVE  /\ DOMAIN Members' = DOMAIN bucket
         /\ \A b \in DOMAIN bucket :
              Members'[b] = IF b = k THEN Members[k] \cup {a} ELSE Members[b]
         /\ (\A b \in DOMAIN bucket : Ends(bucket[b]))'
         /\ (\A b, c \in DOMAIN bucket : b # c => Members[b] \cap Members[c] = {})'
<1>1. next_interned \in LinkFunction
  BY DEF TypeOK, LinkFunction
<1>2. ASSUME NEW b \in DOMAIN bucket
      PROVE  /\ Members'[b] = IF b = k THEN Members[k] \cup {a} ELSE Members[b]
             /\ Spells(List(next_interned', NULL, bucket'[b]), next_interned', NULL, bucket'[b])
  <2>1. \A x \in Range(List(next_interned, NULL, bucket[b])) :
          next_interned'[x] = next_interned[x]
    BY DEF Members, Chain
  <2>2. Spells(List(next_interned, NULL, bucket[b]), next_interned, NULL, bucket[b])
    BY DEF ListsKept, Ends, Chain
  <2>3. CASE b = k
    <3>1. bucket'[b] = a /\ next_interned'[a] = bucket[b]
      BY <2>3
    <3>2. /\ Spells(List(next_interned', NULL, a), next_interned', NULL, a)
          /\ Range(List(next_interned', NULL, a)) =
               {a} \cup Range(List(next_interned, NULL, bucket[b]))
      BY <1>1, <2>1, <2>2, <3>1, ChainPushed
    <3> QED
      BY <2>3, <3>1, <3>2 DEF Members, Chain
  <2>4. CASE b # k
    <3>1. bucket'[b] = bucket[b]
      BY <2>4
    <3>2. /\ List(next_interned', NULL, bucket[b]) = List(next_interned, NULL, bucket[b])
          /\ Spells(List(next_interned', NULL, bucket[b]), next_interned', NULL, bucket[b])
      BY <1>1, <2>1, <2>2, ChainKept
    <3> QED
      BY <2>4, <3>1, <3>2 DEF Members, Chain
  <2> QED
    BY <2>3, <2>4
<1>3. DOMAIN Members' = DOMAIN bucket
  BY DEF Members
<1>4. (\A b \in DOMAIN bucket : Ends(bucket[b]))'
  BY <1>2 DEF Ends, Chain
<1>5. \A b, c \in DOMAIN bucket : b # c => Members'[b] \cap Members'[c] = {}
  <2>1. \A b, c \in DOMAIN bucket : b # c => Members[b] \cap Members[c] = {}
    BY DEF ListsKept
  <2>2. \A b \in DOMAIN bucket : a \notin Members[b]
    OBVIOUS
  <2>3. \A b \in DOMAIN bucket :
          Members'[b] = IF b = k THEN Members[k] \cup {a} ELSE Members[b]
    BY <1>2
  <2> HIDE DEF Members
  <2> QED
    BY <2>1, <2>2, <2>3
<1> QED
  BY <1>2, <1>3, <1>4, <1>5

-----------------------------------------------------------------------------
(* Interning *)

\* A hash leads to one of the buckets.
LEMMA IndexInRange ==
  ASSUME NEW h \in Nat, NEW n \in Nat \ {0}
  PROVE  Index(h, n) \in 0..n - 1
BY DEF Index

\* The string that Insert adds, whichever it is.
LEMMA InsertedIsFresh ==
  ASSUME IInv, pc \in {"mutator", "insert"},
         NEW a \in IF Pending # NULL THEN {Pending} ELSE FreshString
  PROVE  /\ a \in Addr /\ a \notin InTable /\ a \notin held
         /\ space[a] \in {"free", "to"} /\ forwarded[a] = NULL
<1>1. CASE Pending # NULL
  <2>1. a = Pending /\ Pending \in Addr
    BY <1>1 DEF IInv, TypeOK, StagesKept, Pending
  <2> QED
    BY <1>1, <2>1 DEF IInv, PendingKept, CopiesKept
<1>2. CASE Pending = NULL
  <2>1. a \in Addr /\ space[a] = "free"
    BY <1>2, FreshIsFree
  <2> QED
    BY <2>1 DEF IInv, StringsKept, HeldKept, CopiesKept, ToSpace, FromSpace
<1> QED
  BY <1>1, <1>2

\* Insert keeps the inductive invariant.
LEMMA InsertStep ==
  ASSUME IInv, pc \in {"mutator", "insert"},
         NEW s \in Short, \A x \in InTable : bytes[x] # s,
         nbuckets <= MaxDoubled => population + 1 <= nbuckets,
         Insert(s, Pending), buffer' = NULL, p' = NULL,
         newsize' \in Nat, i' \in Nat,
         wanted' \in [bytes : Short, alloced : Addr \cup {NULL}] \cup {NULL}
  PROVE  IInv'
<1> DEFINE h == HashBytes[s]
           k == Index(h, nbuckets)
<1>1. PICK a \in IF Pending # NULL THEN {Pending} ELSE FreshString :
        /\ AllocString(a, s, h, bucket[k])
        /\ bucket' = [bucket EXCEPT ![k] = a]
        /\ population' = population + 1
        /\ held' = held \cup {a}
        /\ pc' = "mutator"
        /\ UNCHANGED nbuckets
  BY DEF Insert
<1>2. /\ a \in Addr /\ a \notin InTable /\ a \notin held
      /\ space[a] \in {"free", "to"} /\ forwarded[a] = NULL
  BY <1>1, InsertedIsFresh
<1>3. h \in Nat \ {0} /\ k \in 0..nbuckets - 1 /\ DOMAIN bucket = 0..nbuckets - 1 /\ p = NULL
  BY IndexInRange, BytesAssumption DEF IInv, TypeOK, StagesKept
<1> HIDE DEF k, h
<1>4. /\ bytes' = [bytes EXCEPT ![a] = s] /\ hash' = [hash EXCEPT ![a] = h]
      /\ next_interned' = [next_interned EXCEPT ![a] = bucket[k]]
      /\ forwarded' = forwarded
      /\ space' = [space EXCEPT ![a] = "to"]
  BY <1>1, <1>2 DEF AllocString, IInv, TypeOK
<1>5. TypeOK'
  BY <1>1, <1>2, <1>3, <1>4 DEF IInv, TypeOK
<1>6. /\ DOMAIN Members' = DOMAIN bucket
      /\ \A b \in DOMAIN bucket :
           Members'[b] = IF b = k THEN Members[k] \cup {a} ELSE Members[b]
      /\ (\A b \in DOMAIN bucket : Ends(bucket[b]))'
      /\ (\A b, c \in DOMAIN bucket : b # c => Members[b] \cap Members[c] = {})'
  <2>1. next_interned' \in LinkFunction
    BY <1>5 DEF TypeOK, LinkFunction
  <2>2. /\ next_interned'[a] = bucket[k]
        /\ \A x \in Addr : x # a => next_interned'[x] = next_interned[x]
    BY <1>2, <1>4 DEF IInv, TypeOK
  <2>3. /\ DOMAIN bucket' = DOMAIN bucket
        /\ \A b \in DOMAIN bucket : bucket'[b] = IF b = k THEN a ELSE bucket[b]
    BY <1>1, <1>3 DEF IInv, TypeOK
  <2>4. \A b \in DOMAIN bucket : \A x \in Members[b] :
          x # a /\ next_interned'[x] = next_interned[x]
    BY <1>2, <2>2, TableSets DEF IInv
  <2>5. TypeOK /\ ListsKept
    BY DEF IInv
  <2>6. a \in Addr /\ k \in DOMAIN bucket
    BY <1>2, <1>3
  <2> QED
    BY <2>1, <2>2, <2>3, <2>4, <2>5, <2>6, BucketPushed
<1>7. InHand = {} /\ InHand' = {} /\ Ends(p)' /\ DOMAIN bucket' = DOMAIN bucket
  <2>1. next_interned' \in LinkFunction
    BY <1>5 DEF TypeOK, LinkFunction
  <2> QED
    BY <1>1, <1>3, <2>1, ChainNull, TableSets DEF IInv, InHand, Ends, Chain
<1>8. InTable' = InTable \cup {a}
  BY <1>2, <1>3, <1>6, <1>7 DEF InTable
<1>9. ListsKept'
  BY <1>6, <1>7 DEF ListsKept
<1>10. StagesKept'
  BY <1>1, <1>3 DEF StagesKept
<1>11. PlacesKept'
  <2>1. \A b \in DOMAIN bucket : \A x \in Members[b] : x # a /\ x \in Addr /\ b = Index(hash[x], nbuckets)
    BY <1>2, TableSets DEF IInv, PlacesKept, SizeAt
  <2>2. \A b \in DOMAIN bucket : \A x \in Members'[b] : b = Index(hash'[x], nbuckets)
    <3>1. hash'[a] = h /\ \A x \in Addr : x # a => hash'[x] = hash[x]
      BY <1>2, <1>4 DEF IInv, TypeOK
    <3>2. k = Index(h, nbuckets)
      BY DEF k
    <3> QED
      BY <1>2, <1>3, <1>6, <2>1, <3>1, <3>2
  <2> QED
    BY <1>1, <1>7, <2>2 DEF PlacesKept, SizeAt
<1>12. StringsKept'
  <2>1. \A x \in InTable : x # a /\ x \in Addr /\ bytes'[x] = bytes[x] /\ hash'[x] = hash[x]
                           /\ space'[x] = space[x]
    BY <1>2, <1>4, TableSets DEF IInv, TypeOK
  <2>2. bytes'[a] = s /\ hash'[a] = HashBytes[s] /\ space'[a] = "to"
    BY <1>2, <1>4 DEF IInv, TypeOK, h
  <2>3. \A x \in InTable : /\ bytes[x] \in Short /\ hash[x] = HashBytes[bytes[x]]
                           /\ space[x] = "to" /\ bytes[x] # s
    BY DEF IInv, StringsKept
  <2>4. \A x, y \in InTable : bytes[x] = bytes[y] => x = y
    BY DEF IInv, StringsKept
  <2>5. Cardinality(InTable') <= population'
    <3>1. Cardinality(InTable \cup {a}) = Cardinality(InTable) + 1 /\ Cardinality(InTable) \in Nat
      BY <1>2, TableFinite, TableSets DEF IInv
    <3> QED
      BY <1>1, <1>8, <3>1 DEF IInv, StringsKept, TypeOK
  <2> QED
    BY <1>1, <1>8, <2>1, <2>2, <2>3, <2>4, <2>5 DEF StringsKept
<1>13. PendingKept'
  BY <1>1 DEF PendingKept, Pending
<1>14. HeldKept'
  BY <1>1, <1>2, <1>4, <1>8 DEF IInv, HeldKept, TypeOK, ToSpace
<1>15. CopiesKept'
  BY <1>1, <1>2, <1>4 DEF IInv, CopiesKept, TypeOK, FromSpace
<1> QED
  BY <1>5, <1>9, <1>10, <1>11, <1>12, <1>13, <1>14, <1>15 DEF IInv

\* The string has been found.
LEMMA FoundStep ==
  ASSUME IInv, pc = "mutator", NEW a \in InTable, held' = held \cup {a}, buffer' = NULL,
         UNCHANGED <<tb, strings, resizing, pc>>
  PROVE  IInv'
<1> USE DEF tb, strings, resizing
<1>1. TypeOK'
  BY TableSets DEF IInv, TypeOK
<1>2. Members' = Members /\ InHand' = InHand /\ InTable' = InTable /\ ListsKept'
  <2>1. next_interned' \in LinkFunction
    BY <1>1 DEF TypeOK, LinkFunction
  <2> QED
    BY <2>1, ListsUntouched DEF IInv
<1>3. StagesKept'
  BY DEF IInv, StagesKept
<1>4. PlacesKept'
  BY <1>2 DEF IInv, PlacesKept, SizeAt
<1>5. StringsKept'
  BY <1>2 DEF IInv, StringsKept
<1>6. PendingKept'
  BY DEF PendingKept, Pending
<1>7. HeldKept'
  BY <1>2, TableSets DEF IInv, HeldKept, StringsKept, ToSpace
<1>8. CopiesKept'
  BY DEF IInv, CopiesKept, FromSpace
<1> QED
  BY <1>1, <1>2, <1>3, <1>4, <1>5, <1>6, <1>7, <1>8 DEF IInv

\* The table is to be doubled first.
LEMMA CrowdedStep ==
  ASSUME IInv, pc = "mutator", NEW s \in Short, \A x \in InTable : bytes[x] # s,
         population >= nbuckets, nbuckets <= MaxDoubled,
         wanted' = [bytes |-> s, alloced |-> buffer], buffer' = NULL,
         newsize' = nbuckets * 2,
         bucket' = [b \in 0..newsize' - 1 |-> IF b < nbuckets THEN bucket[b] ELSE NULL],
         i' = 0, p' = NULL, pc' = "rehash",
         UNCHANGED <<nbuckets, population, strings, held>>
  PROVE  IInv'
<1> USE DEF strings
<1>1. /\ TypeOK /\ ListsKept /\ nbuckets \in Nat \ {0} /\ population = nbuckets
      /\ DOMAIN bucket = 0..nbuckets - 1 /\ p = NULL /\ DOMAIN bucket' = 0..newsize' - 1
      /\ next_interned \in LinkFunction /\ buffer \in Addr \cup {NULL}
      /\ newsize' \in Nat \ {0}
  BY DEF IInv, TypeOK, StagesKept, LinkFunction
<1>2. TypeOK'
  <2>1. bucket' \in [0..newsize' - 1 -> Addr \cup {NULL}]
    BY <1>1 DEF TypeOK
  <2> QED
    BY <1>1, <2>1 DEF TypeOK
<1>3. \A b \in DOMAIN bucket' : IF b < nbuckets
        THEN b \in DOMAIN bucket /\ Members'[b] = Members[b] /\ bucket'[b] = bucket[b]
        ELSE Members'[b] = {} /\ bucket'[b] = NULL
  BY <1>1, ChainNull DEF Members, Chain
<1>4. \A b \in DOMAIN bucket : b \in DOMAIN bucket' /\ b < nbuckets
  BY <1>1
<1>5. InHand = {} /\ InHand' = {} /\ Ends(p)'
  BY <1>1, ChainNull DEF InHand, Chain, Ends
<1>6. InTable' = InTable
  BY <1>3, <1>4, <1>5 DEF InTable
<1>7. ListsKept'
  <2>1. \A b \in DOMAIN bucket' : Ends(bucket[b])'
    BY <1>1, <1>3, ChainNull DEF ListsKept, Ends, Chain
  <2>2. \A b, c \in DOMAIN bucket' : b # c => Members'[b] \cap Members'[c] = {}
    BY <1>1, <1>3 DEF ListsKept
  <2> QED
    BY <1>5, <2>1, <2>2 DEF ListsKept
<1>8. StagesKept'
  BY <1>1 DEF StagesKept
<1>9. PlacesKept'
  <2>1. \A b \in DOMAIN bucket' : \A x \in Members'[b] : b \in 0..nbuckets - 1 /\ b = Index(hash[x], nbuckets)
    BY <1>1, <1>3 DEF IInv, PlacesKept, SizeAt
  <2> QED
    BY <1>5, <2>1 DEF PlacesKept, SizeAt
<1>10. StringsKept'
  BY <1>6 DEF IInv, StringsKept
<1>11. PendingKept'
  <2>1. Pending' = Pending
    BY DEF Pending
  <2> QED
    BY <1>6, <2>1 DEF IInv, PendingKept
<1>12. HeldKept'
  BY <1>6 DEF IInv, HeldKept, ToSpace
<1>13. CopiesKept'
  BY DEF IInv, CopiesKept, FromSpace
<1> QED
  BY <1>2, <1>7, <1>8, <1>9, <1>10, <1>11, <1>12, <1>13 DEF IInv

\* InternShort, whether it finds the string, inserts it or begins to resize.
LEMMA InternShortStep ==
  ASSUME IInv, NEW s \in Short, InternShort(s, buffer)
  PROVE  IInv'
<1> DEFINE k == Index(HashBytes[s], nbuckets)
           found == {a \in Range(Chain(bucket[k])) : bytes[a] = s}
           crowded == population >= nbuckets /\ nbuckets <= MaxDoubled
<1>1. /\ pc = "mutator" /\ p = NULL /\ InHand = {} /\ TypeOK /\ ListsKept
      /\ DOMAIN bucket = 0..nbuckets - 1 /\ HashBytes[s] \in Nat \ {0}
      /\ k \in DOMAIN bucket
  <2>1. pc = "mutator"
    BY DEF InternShort
  <2>2. HashBytes[s] \in Nat \ {0} /\ nbuckets \in Nat \ {0}
    BY BytesAssumption DEF IInv, TypeOK
  <2>3. k \in 0..nbuckets - 1
    BY <2>2, IndexInRange
  <2> QED
    BY <2>1, <2>2, <2>3, TableSets DEF IInv, TypeOK, StagesKept
<1>2. found = {a \in Members[k] : bytes[a] = s}
  BY <1>1 DEF Members
<1>3. ASSUME NEW x \in InTable, bytes[x] = s PROVE found # {}
  <2>1. PICK b \in DOMAIN bucket : x \in Members[b]
    BY <1>1 DEF InTable
  <2>2. b = Index(hash[x], nbuckets) /\ hash[x] = HashBytes[s]
    BY <1>1, <1>3, <2>1 DEF IInv, PlacesKept, SizeAt, StringsKept
  <2> QED
    BY <1>2, <1>3, <2>1, <2>2
<1>4. CASE found # {} /\ \E a \in found : held' = held \cup {a} /\ UNCHANGED <<tb, strings, resizing, pc>>
  <2>1. PICK a \in found : held' = held \cup {a} /\ UNCHANGED <<tb, strings, resizing, pc>>
    BY <1>4
  <2>2. a \in InTable
    BY <1>1, <1>2, <2>1, TableSets
  <2>3. buffer' = NULL
    BY DEF InternShort
  <2> QED
    BY <1>1, <2>1, <2>2, <2>3, FoundStep
<1>5. CASE found = {} /\ ~crowded /\ Insert(s, buffer) /\ UNCHANGED resizing
  <2>1. \A x \in InTable : bytes[x] # s
    BY <1>3, <1>5
  <2>2. buffer' = NULL /\ Pending = buffer
    BY <1>1 DEF InternShort, Pending
  <2>3. nbuckets <= MaxDoubled => population + 1 <= nbuckets
    BY <1>1, <1>5 DEF TypeOK
  <2>4. /\ p' = NULL /\ newsize' \in Nat /\ i' \in Nat
        /\ wanted' \in [bytes : Short, alloced : Addr \cup {NULL}] \cup {NULL}
    BY <1>1, <1>5 DEF TypeOK, resizing
  <2>5. Insert(s, Pending)
    BY <1>5, <2>2
  <2> QED
    BY <1>1, <2>1, <2>2, <2>3, <2>4, <2>5, InsertStep
<1>6. CASE /\ found = {} /\ crowded
           /\ wanted' = [bytes |-> s, alloced |-> buffer]
           /\ newsize' = nbuckets * 2
           /\ bucket' = [b \in 0..newsize' - 1 |-> IF b < nbuckets THEN bucket[b] ELSE NULL]
           /\ i' = 0 /\ p' = NULL
           /\ pc' = "rehash"
           /\ UNCHANGED <<nbuckets, population, strings, held>>
  <2>1. \A x \in InTable : bytes[x] # s
    BY <1>3, <1>6
  <2>2. buffer' = NULL
    BY DEF InternShort
  <2> QED
    BY <1>1, <1>6, <2>1, <2>2, CrowdedStep
<1> QED
  BY <1>4, <1>5, <1>6 DEF InternShort

\* Its two callers.
LEMMA InternSteps ==
  ASSUME IInv, InternBuffer \/ \E s \in Short : InternBytes(s)
  PROVE  IInv'
<1>1. CASE InternBuffer
  <2>1. pc = "mutator"
    BY <1>1 DEF InternBuffer, InternShort
  <2>2. bytes[buffer] \in Short /\ InternShort(bytes[buffer], buffer)
    BY <1>1, <2>1 DEF InternBuffer, IInv, PendingKept, Pending
  <2> QED
    BY <2>2, InternShortStep
<1>2. CASE \E s \in Short : InternBytes(s)
  BY <1>2, InternShortStep DEF InternBytes
<1> QED
  BY <1>1, <1>2

-----------------------------------------------------------------------------
(* Doubling *)

\* A hash modulo the new size has the same remainder by the old one.
LEMMA Multiple ==
  ASSUME NEW n \in Nat, NEW d \in Int, d >= 1
  PROVE  n * d >= n
OBVIOUS

\* Division with remainder.
LEMMA DivMod ==
  ASSUME NEW a \in Nat, NEW n \in Nat \ {0}
  PROVE  a \div n \in Int /\ a % n \in 0..n - 1 /\ a = n * (a \div n) + (a % n)
OBVIOUS

\* The remainder is the only one.
LEMMA ModIs ==
  ASSUME NEW a \in Nat, NEW n \in Nat \ {0}, NEW q \in Int, NEW r \in 0..n - 1, a = n * q + r
  PROVE  a % n = r
<1>1. PICK e \in Int, m \in 0..n - 1 : a = n * e + m /\ m = a % n
  BY DivMod
<1>2. n * (q - e) = m - r
  BY <1>1
<1>3. ~(q - e >= 1)
  <2>1. q - e >= 1 => n * (q - e) >= n
    BY Multiple
  <2> QED
    BY <1>1, <1>2, <2>1
<1>4. ~(e - q >= 1)
  <2>1. e - q >= 1 => n * (e - q) >= n
    BY Multiple
  <2>2. n * (e - q) = -(n * (q - e))
    BY <1>1
  <2>3. n * (e - q) = r - m
    BY <1>1, <1>2, <2>2
  <2> QED
    BY <1>1, <2>1, <2>3
<1>5. q = e
  BY <1>3, <1>4
<1> QED
  BY <1>1, <1>5

\* When the table is doubled, a string stays in its bucket or moves up by the old
\* size.
LEMMA ModDouble ==
  ASSUME NEW a \in Nat, NEW n \in Nat \ {0}
  PROVE  a % (2 * n) \in {a % n, (a % n) + n}
<1>1. PICK e \in Int, m \in 0..2 * n - 1 : a = (2 * n) * e + m /\ m = a % (2 * n)
  <2>1. 2 * n \in Nat \ {0}
    OBVIOUS
  <2> QED
    BY <2>1, DivMod
<1>2. CASE m < n
  <2>1. a = n * (2 * e) + m /\ m \in 0..n - 1 /\ 2 * e \in Int
    BY <1>1, <1>2
  <2>2. a % n = m
    BY <2>1, ModIs
  <2> QED
    BY <1>1, <2>2
<1>3. CASE ~(m < n)
  <2>1. a = n * (2 * e + 1) + (m - n) /\ m - n \in 0..n - 1 /\ 2 * e + 1 \in Int
    BY <1>1, <1>3
  <2>2. a % n = m - n
    BY <2>1, ModIs
  <2> QED
    BY <1>1, <2>2
<1> QED
  BY <1>2, <1>3

\* resize takes the list of a bucket: what it has in hand is disjoint from the rest.
LEMMA TakeBucketStep ==
  ASSUME IInv, TakeBucket
  PROVE  IInv'
<1> USE DEF strings
<1>1. /\ TypeOK /\ ListsKept /\ pc = "rehash" /\ p = NULL /\ i \in 0..nbuckets - 1
      /\ nbuckets \in Nat \ {0} /\ newsize = 2 * nbuckets
      /\ DOMAIN bucket = 0..newsize - 1 /\ i \in DOMAIN bucket
      /\ next_interned \in LinkFunction /\ bucket \in [DOMAIN bucket -> Addr \cup {NULL}]
  BY DEF TakeBucket, IInv, TypeOK, StagesKept, LinkFunction
<1>2. /\ p' = bucket[i] /\ i' = i + 1 /\ bucket' = [bucket EXCEPT ![i] = NULL]
      /\ UNCHANGED <<nbuckets, population, strings, held, buffer, wanted, newsize, pc>>
      /\ DOMAIN bucket' = DOMAIN bucket
  BY DEF TakeBucket
<1>3. TypeOK'
  BY <1>1, <1>2 DEF TypeOK
<1>4. \A b \in DOMAIN bucket : bucket'[b] = IF b = i THEN NULL ELSE bucket[b]
  BY <1>1, <1>2
<1>5. /\ DOMAIN Members' = DOMAIN bucket
      /\ \A b \in DOMAIN bucket : Members'[b] = IF b = i THEN {} ELSE Members[b]
  BY <1>1, <1>2, <1>4, ChainNull DEF Members, Chain
<1>6. InHand = {} /\ InHand' = Members[i]
  BY <1>1, <1>2, TableSets DEF InHand, Members, Chain
<1>7. InTable' = InTable
  BY <1>1, <1>2, <1>5, <1>6 DEF InTable
<1>8. ListsKept'
  <2>1. Ends(p)'
    BY <1>1, <1>2 DEF ListsKept, Ends, Chain
  <2>2. \A b \in DOMAIN bucket' : Ends(bucket[b])'
    BY <1>1, <1>2, <1>4, ChainNull DEF ListsKept, Ends, Chain
  <2>3. \A b, c \in DOMAIN bucket : b # c => Members[b] \cap Members[c] = {}
    BY <1>1 DEF ListsKept
  <2> QED
    BY <1>1, <1>2, <1>5, <1>6, <2>1, <2>2, <2>3 DEF ListsKept
<1>9. StagesKept'
  BY <1>1, <1>2 DEF IInv, StagesKept
<1>10. PlacesKept'
  <2>1. ASSUME NEW b \in DOMAIN bucket, NEW x \in Members'[b]
        PROVE  b = Index(hash[x], IF b \notin i'..nbuckets - 1 THEN newsize ELSE nbuckets)
    <3>1. b # i /\ x \in Members[b]
      BY <1>5, <2>1
    <3>2. b = Index(hash[x], IF b \notin i..nbuckets - 1 THEN newsize ELSE nbuckets)
      BY <1>1, <3>1 DEF IInv, PlacesKept, SizeAt
    <3>3. b \in Nat /\ (b \notin i'..nbuckets - 1 <=> b \notin i..nbuckets - 1)
      BY <1>1, <1>2, <3>1
    <3> QED
      BY <3>2, <3>3
  <2>2. \A x \in Members[i] : i = Index(hash[x], nbuckets)
    BY <1>1 DEF IInv, PlacesKept, SizeAt
  <2> QED
    BY <1>1, <1>2, <1>6, <2>1, <2>2 DEF PlacesKept, SizeAt
<1>11. StringsKept'
  BY <1>2, <1>7 DEF IInv, StringsKept
<1>12. PendingKept'
  BY <1>2, <1>7 DEF IInv, PendingKept, Pending
<1>13. HeldKept'
  BY <1>1, <1>2, <1>7 DEF IInv, HeldKept, ToSpace
<1>14. CopiesKept'
  BY <1>1, <1>2 DEF IInv, CopiesKept, FromSpace
<1> QED
  BY <1>3, <1>8, <1>9, <1>10, <1>11, <1>12, <1>13, <1>14 DEF IInv

\* resize moves one string: a tail of p's list, and a list longer by one.
LEMMA RehashStep ==
  ASSUME IInv, Rehash
  PROVE  IInv'
<1> DEFINE k == Index(hash[p], newsize)
<1>1. /\ TypeOK /\ ListsKept /\ pc = "rehash" /\ p # NULL /\ p \in Addr
      /\ nbuckets \in Nat \ {0} /\ newsize = 2 * nbuckets /\ newsize \in Nat \ {0}
      /\ DOMAIN bucket = 0..newsize - 1 /\ i \in 0..nbuckets
      /\ next_interned \in LinkFunction /\ bucket \in [DOMAIN bucket -> Addr \cup {NULL}]
      /\ hash[p] \in Nat
  BY DEF Rehash, IInv, TypeOK, StagesKept, LinkFunction
<1>2. /\ next_interned' = [next_interned EXCEPT ![p] = bucket[k]]
      /\ bucket' = [bucket EXCEPT ![k] = p]
      /\ p' = next_interned[p]
      /\ UNCHANGED <<nbuckets, population, bytes, hash, forwarded, space, held, buffer,
                     wanted, newsize, i, pc>>
  BY DEF Rehash
<1>3. k \in DOMAIN bucket
  BY <1>1, IndexInRange
<1> HIDE DEF k
<1>4. TypeOK'
  <2>1. bucket' \in [0..newsize - 1 -> Addr \cup {NULL}]
    BY <1>1, <1>2, <1>3
  <2>2. next_interned' \in [Addr -> Addr \cup {NULL}]
    BY <1>1, <1>2, <1>3 DEF LinkFunction
  <2>3. p' \in Addr \cup {NULL}
    BY <1>1, <1>2 DEF LinkFunction
  <2> QED
    BY <1>1, <1>2, <2>1, <2>2, <2>3 DEF TypeOK
<1>5. /\ next_interned' \in LinkFunction
      /\ next_interned'[p] = bucket[k]
      /\ \A x \in Addr : x # p => next_interned'[x] = next_interned[x]
      /\ DOMAIN bucket' = DOMAIN bucket
      /\ \A b \in DOMAIN bucket : bucket'[b] = IF b = k THEN p ELSE bucket[b]
  BY <1>1, <1>2, <1>3, <1>4 DEF LinkFunction, TypeOK
<1>6. /\ Ends(p)' /\ p \notin InHand' /\ InHand = {p} \cup InHand'
  <2>1. Spells(List(next_interned, NULL, p), next_interned, NULL, p)
    BY <1>1 DEF ListsKept, Ends, Chain
  <2>2. \A x \in Range(List(next_interned, NULL, p)) : x # p => next_interned'[x] = next_interned[x]
    BY <1>1, <1>5, <2>1, ChainIs
  <2>3. /\ Spells(List(next_interned', NULL, next_interned[p]), next_interned', NULL, next_interned[p])
        /\ p \notin Range(List(next_interned', NULL, next_interned[p]))
        /\ Range(List(next_interned, NULL, p)) =
             {p} \cup Range(List(next_interned', NULL, next_interned[p]))
    BY <1>1, <1>5, <2>1, <2>2, ChainPopped
  <2> QED
    BY <1>2, <2>3 DEF Ends, Chain, InHand
<1>7. /\ DOMAIN Members' = DOMAIN bucket
      /\ \A b \in DOMAIN bucket :
           Members'[b] = IF b = k THEN Members[k] \cup {p} ELSE Members[b]
      /\ (\A b \in DOMAIN bucket : Ends(bucket[b]))'
      /\ (\A b, c \in DOMAIN bucket : b # c => Members[b] \cap Members[c] = {})'
  <2>1. \A b \in DOMAIN bucket : \A x \in Members[b] :
          x # p /\ next_interned'[x] = next_interned[x]
    BY <1>1, <1>5, <1>6, TableSets DEF ListsKept
  <2> QED
    BY <1>1, <1>3, <1>5, <2>1, BucketPushed
<1>8. InTable' = InTable
  BY <1>1, <1>3, <1>5, <1>6, <1>7 DEF InTable
<1>9. ListsKept'
  <2>1. \A b \in DOMAIN bucket : Members[b] \cap InHand = {}
    BY <1>1 DEF ListsKept
  <2>2. \A b \in DOMAIN bucket : Members'[b] \cap InHand' = {}
    BY <1>3, <1>6, <1>7, <2>1
  <2> QED
    BY <1>5, <1>6, <1>7, <2>2 DEF ListsKept
<1>10. StagesKept'
  BY <1>1, <1>2 DEF IInv, StagesKept
<1>11. PlacesKept'
  <2>1. \A x \in InHand : i = Index(hash[x], nbuckets) + 1
    BY <1>1 DEF IInv, PlacesKept
  <2>2. i = Index(hash[p], nbuckets) + 1
    BY <1>6, <2>1
  <2>3. k \notin i..nbuckets - 1
    <3>1. hash[p] % (2 * nbuckets) \in {hash[p] % nbuckets, (hash[p] % nbuckets) + nbuckets}
      BY <1>1, ModDouble
    <3>2. Index(hash[p], nbuckets) \in 0..nbuckets - 1
      BY <1>1, IndexInRange
    <3>3. k \in {i - 1, i - 1 + nbuckets}
      BY <1>1, <2>2, <3>1, <3>2 DEF k, Index
    <3> QED
      BY <1>1, <2>2, <3>2, <3>3
  <2>4. ASSUME NEW b \in DOMAIN bucket, NEW x \in Members'[b]
        PROVE  b = Index(hash[x], IF b \notin i..nbuckets - 1 THEN newsize ELSE nbuckets)
    <3>1. CASE x \in Members[b]
      BY <1>1, <3>1 DEF IInv, PlacesKept, SizeAt
    <3>2. CASE x \notin Members[b]
      <4>1. b = k /\ x = p
        BY <1>7, <2>4, <3>2
      <4> QED
        BY <2>3, <4>1 DEF k
    <3> QED
      BY <3>1, <3>2
  <2> QED
    BY <1>1, <1>2, <1>5, <1>6, <2>1, <2>4 DEF PlacesKept, SizeAt
<1>12. StringsKept'
  BY <1>2, <1>8 DEF IInv, StringsKept
<1>13. PendingKept'
  BY <1>2, <1>8 DEF IInv, PendingKept, Pending
<1>14. HeldKept'
  BY <1>1, <1>2, <1>8 DEF IInv, HeldKept, ToSpace
<1>15. CopiesKept'
  BY <1>1, <1>2 DEF IInv, CopiesKept, FromSpace
<1> QED
  BY <1>4, <1>9, <1>10, <1>11, <1>12, <1>13, <1>14, <1>15 DEF IInv

\* resize is done: every string is in the bucket of the new size.
LEMMA EndResizeStep ==
  ASSUME IInv, EndResize
  PROVE  IInv'
<1>1. /\ TypeOK /\ pc = "rehash" /\ p = NULL /\ i = nbuckets /\ pc' = "insert"
      /\ nbuckets \in Nat \ {0} /\ newsize = 2 * nbuckets /\ nbuckets' = newsize
      /\ population <= nbuckets /\ population \in Nat
      /\ DOMAIN bucket = 0..newsize - 1
      /\ UNCHANGED <<bucket, population, strings, held, buffer, resizing>>
  BY DEF EndResize, IInv, TypeOK, StagesKept
<1> USE DEF strings, resizing
<1>2. TypeOK'
  BY <1>1 DEF TypeOK
<1>3. Members' = Members /\ InHand' = InHand /\ InTable' = InTable /\ ListsKept'
  <2>1. next_interned' \in LinkFunction
    BY <1>2 DEF TypeOK, LinkFunction
  <2> QED
    BY <1>1, <2>1, ListsUntouched DEF IInv
<1>4. StagesKept'
  BY <1>1 DEF IInv, StagesKept
<1>5. PlacesKept'
  <2>1. \A b \in DOMAIN bucket : \A x \in Members[b] : b = Index(hash[x], newsize)
    BY <1>1 DEF IInv, PlacesKept, SizeAt
  <2> QED
    BY <1>1, <1>3, <2>1 DEF PlacesKept, SizeAt
<1>6. StringsKept'
  BY <1>1, <1>3 DEF IInv, StringsKept
<1>7. PendingKept'
  BY <1>1, <1>3 DEF IInv, PendingKept, Pending
<1>8. HeldKept'
  BY <1>1, <1>3 DEF IInv, HeldKept, ToSpace
<1>9. CopiesKept'
  BY <1>1 DEF IInv, CopiesKept, FromSpace
<1> QED
  BY <1>2, <1>3, <1>4, <1>5, <1>6, <1>7, <1>8, <1>9 DEF IInv

\* intern_short after resize.
LEMMA InsertWantedStep ==
  ASSUME IInv, InsertWanted
  PROVE  IInv'
<1>1. /\ pc = "insert" /\ wanted.bytes \in Short /\ Pending = wanted.alloced
      /\ buffer' = NULL /\ p' = NULL /\ newsize' \in Nat /\ i' \in Nat /\ wanted' = NULL
  BY DEF InsertWanted, IInv, StagesKept, Pending
<1>2. \A x \in InTable : bytes[x] # wanted.bytes
  BY <1>1 DEF IInv, StringsKept
<1>3. nbuckets <= MaxDoubled => population + 1 <= nbuckets
  BY <1>1 DEF IInv, StagesKept
<1>4. Insert(wanted.bytes, Pending)
  BY <1>1 DEF InsertWanted
<1> QED
  BY <1>1, <1>2, <1>3, <1>4, InsertStep

-----------------------------------------------------------------------------
(* The machine *)

\* A new string that is not in the table, a buffer or a long one.
LEMMA AllocatedStep ==
  ASSUME IInv, pc = "mutator", buffer = NULL,
         NEW a \in FreshString, NEW s \in Short \cup Long, NEW h \in Nat,
         AllocString(a, s, h, NULL),
         \/ s \in Short /\ held' = held /\ buffer' = a
         \/ s \in Long /\ held' = held \cup {a} /\ buffer' = buffer,
         UNCHANGED <<tb, resizing, pc>>
  PROVE  IInv'
<1> USE DEF tb, resizing
<1>1. a \in Addr /\ space[a] = "free" /\ forwarded[a] = NULL /\ a \notin held /\ a \notin InTable
  BY FreshIsFree DEF IInv, StringsKept, HeldKept, CopiesKept, ToSpace, FromSpace
<1>2. /\ bytes' = [bytes EXCEPT ![a] = s] /\ hash' = [hash EXCEPT ![a] = h]
      /\ next_interned' = [next_interned EXCEPT ![a] = NULL]
      /\ forwarded' = forwarded
      /\ space' = [space EXCEPT ![a] = "to"]
  BY <1>1 DEF AllocString, IInv, TypeOK
<1>3. TypeOK'
  BY <1>1, <1>2 DEF IInv, TypeOK
<1>4. \A x \in InTable : /\ x \in Addr /\ x # a /\ bytes'[x] = bytes[x] /\ hash'[x] = hash[x]
                         /\ space'[x] = space[x] /\ next_interned'[x] = next_interned[x]
  BY <1>1, <1>2, TableSets DEF IInv, TypeOK
<1>5. Members' = Members /\ InHand' = InHand /\ InTable' = InTable /\ ListsKept'
  <2>1. next_interned' \in LinkFunction
    BY <1>3 DEF TypeOK, LinkFunction
  <2> QED
    BY <1>4, <2>1, ListsUntouched DEF IInv
<1>6. StagesKept'
  BY DEF IInv, StagesKept
<1>7. PlacesKept'
  <2>1. \A b \in DOMAIN bucket : \A x \in Members[b] : b = Index(hash[x], nbuckets) /\ x \in InTable
    BY TableSets DEF IInv, PlacesKept, SizeAt
  <2> QED
    BY <1>4, <1>5, <2>1 DEF PlacesKept, SizeAt
<1>8. StringsKept'
  BY <1>4, <1>5 DEF IInv, StringsKept
<1>9. PendingKept'
  BY <1>1, <1>2, <1>5 DEF IInv, PendingKept, Pending, TypeOK
<1>10. HeldKept'
  BY <1>1, <1>2, <1>5, BytesAssumption DEF IInv, HeldKept, ToSpace, TypeOK
<1>11. CopiesKept'
  BY <1>1, <1>2 DEF IInv, CopiesKept, FromSpace, TypeOK
<1> QED
  BY <1>3, <1>5, <1>6, <1>7, <1>8, <1>9, <1>10, <1>11 DEF IInv

\* The strings that are made outside the table.
LEMMA AllocationSteps ==
  ASSUME IInv,
         \/ \E s \in Short : FillBuffer(s)
         \/ \E s \in Long : NewLong(s)
  PROVE  IInv'
<1>1. CASE \E s \in Short : FillBuffer(s)
  <2>1. PICK s \in Short : FillBuffer(s)
    BY <1>1
  <2>2. PICK a \in FreshString : AllocString(a, s, FillCount[s], NULL) /\ buffer' = a
    BY <2>1 DEF FillBuffer
  <2>3. FillCount[s] \in Nat
    BY BytesAssumption
  <2> QED
    BY <2>1, <2>2, <2>3, AllocatedStep DEF FillBuffer
<1>2. CASE \E s \in Long : NewLong(s)
  <2>1. PICK s \in Long : NewLong(s)
    BY <1>2
  <2>2. PICK a \in FreshString : AllocString(a, s, 0, NULL) /\ held' = held \cup {a}
    BY <2>1 DEF NewLong
  <2> QED
    BY <2>1, <2>2, AllocatedStep DEF NewLong
<1> QED
  BY <1>1, <1>2

\* Only a long string is ever hashed late.
LEMMA HashStringStep ==
  ASSUME IInv, NEW a \in held, HashString(a)
  PROVE  IInv'
<1>1. /\ pc = "mutator" /\ hash[a] = 0 /\ a \in Addr /\ bytes[a] \in Short \cup Long
      /\ hash' = [hash EXCEPT ![a] = HashBytes[bytes[a]]]
      /\ UNCHANGED <<tb, bytes, next_interned, forwarded, space, held, buffer, resizing, pc>>
  BY DEF HashString, IInv, TypeOK, HeldKept, ToSpace
<1> USE DEF tb, resizing
<1>2. TypeOK'
  BY <1>1, BytesAssumption DEF IInv, TypeOK
<1>3. a \notin InTable
  BY <1>1, BytesAssumption DEF IInv, StringsKept
<1>4. \A x \in InTable : hash'[x] = hash[x]
  BY <1>1, <1>3, TableSets DEF IInv, TypeOK
<1>5. Members' = Members /\ InHand' = InHand /\ InTable' = InTable /\ ListsKept'
  <2>1. next_interned' \in LinkFunction
    BY <1>2 DEF TypeOK, LinkFunction
  <2> QED
    BY <1>1, <2>1, ListsUntouched DEF IInv
<1>6. StagesKept'
  BY <1>1 DEF IInv, StagesKept
<1>7. PlacesKept'
  <2>1. \A b \in DOMAIN bucket : \A x \in Members[b] : b = Index(hash[x], nbuckets) /\ x \in InTable
    BY <1>1, TableSets DEF IInv, PlacesKept, SizeAt
  <2> QED
    BY <1>1, <1>4, <1>5, <2>1 DEF PlacesKept, SizeAt
<1>8. StringsKept'
  BY <1>1, <1>4, <1>5 DEF IInv, StringsKept
<1>9. PendingKept'
  BY <1>1, <1>5 DEF IInv, PendingKept, Pending
<1>10. HeldKept'
  BY <1>1, <1>5 DEF IInv, HeldKept, ToSpace
<1>11. CopiesKept'
  BY <1>1 DEF IInv, CopiesKept, FromSpace
<1> QED
  BY <1>2, <1>5, <1>6, <1>7, <1>8, <1>9, <1>10, <1>11 DEF IInv

\* A string that the machine forgets stays in the table.
LEMMA ForgetStep ==
  ASSUME IInv, NEW a \in held, Forget(a)
  PROVE  IInv'
<1>1. /\ pc = "mutator" /\ held' = held \ {a}
      /\ UNCHANGED <<tb, strings, buffer, resizing, pc>>
  BY DEF Forget
<1> USE DEF tb, strings, resizing
<1>2. TypeOK'
  BY <1>1 DEF IInv, TypeOK
<1>3. Members' = Members /\ InHand' = InHand /\ InTable' = InTable /\ ListsKept'
  <2>1. next_interned' \in LinkFunction
    BY <1>2 DEF TypeOK, LinkFunction
  <2> QED
    BY <1>1, <2>1, ListsUntouched DEF IInv
<1>4. StagesKept' /\ PlacesKept'
  BY <1>1, <1>3 DEF IInv, StagesKept, PlacesKept, SizeAt
<1>5. StringsKept' /\ PendingKept'
  BY <1>1, <1>3 DEF IInv, StringsKept, PendingKept, Pending
<1>6. HeldKept' /\ CopiesKept'
  BY <1>1, <1>3 DEF IInv, HeldKept, CopiesKept, ToSpace, FromSpace
<1> QED
  BY <1>2, <1>3, <1>4, <1>5, <1>6 DEF IInv

-----------------------------------------------------------------------------
(* Collection *)

\* The table's strings lie in from-space at first.
LEMMA StartCollectionStep ==
  ASSUME IInv, StartCollection
  PROVE  IInv'
<1>1. /\ pc = "mutator" /\ buffer = NULL /\ pc' = "copy"
      /\ space' = [a \in Addr |-> IF space[a] = "to" THEN "from" ELSE space[a]]
      /\ UNCHANGED <<tb, bytes, hash, next_interned, forwarded, held, buffer, resizing>>
  BY DEF StartCollection
<1> USE DEF tb, resizing
<1>2. TypeOK'
  BY <1>1 DEF IInv, TypeOK
<1>3. Members' = Members /\ InHand' = InHand /\ InTable' = InTable /\ ListsKept'
  <2>1. next_interned' \in LinkFunction
    BY <1>2 DEF TypeOK, LinkFunction
  <2> QED
    BY <1>1, <2>1, ListsUntouched DEF IInv
<1>4. /\ \A a \in Addr : forwarded[a] = NULL
      /\ FromSpace' = ToSpace /\ ToSpace' = {} /\ InTable \subseteq Addr
      /\ \A a \in Addr : space[a] = "free" <=> space'[a] = "free"
  BY <1>1, TableSets DEF IInv, TypeOK, CopiesKept, FromSpace, ToSpace
<1>5. StagesKept' /\ PlacesKept'
  BY <1>1, <1>3 DEF IInv, StagesKept, PlacesKept, SizeAt
<1>6. StringsKept'
  BY <1>1, <1>3, <1>4 DEF IInv, StringsKept
<1>7. PendingKept'
  BY <1>1 DEF PendingKept, Pending
<1>8. HeldKept'
  BY <1>1, <1>3, <1>4 DEF IInv, HeldKept
<1>9. CopiesKept'
  <2>1. \A a \in Addr : forwarded'[a] = NULL
    BY <1>1, <1>4
  <2>2. \A a \in FromSpace' : a \in Addr
    BY DEF FromSpace
  <2> QED
    BY <1>1, <1>4, <2>1, <2>2 DEF CopiesKept
<1> QED
  BY <1>2, <1>3, <1>5, <1>6, <1>7, <1>8, <1>9 DEF IInv

\* A copy is new, and has the bytes, hash and link of its original.
LEMMA ForwardStringStep ==
  ASSUME IInv, NEW s \in held, ForwardString(s)
  PROVE  IInv'
<1>1. PICK a \in FreshString :
        /\ space' = [space EXCEPT ![a] = "to"]
        /\ bytes' = [bytes EXCEPT ![a] = bytes[s]]
        /\ hash' = [hash EXCEPT ![a] = hash[s]]
        /\ next_interned' = [next_interned EXCEPT ![a] = next_interned[s]]
        /\ forwarded' = [forwarded EXCEPT ![a] = NULL, ![s] = a]
        /\ held' = (held \ {s}) \cup {a}
        /\ UNCHANGED <<tb, buffer, resizing, pc>>
  BY DEF ForwardString
<1> USE DEF tb, resizing
<1>2. /\ pc = "copy" /\ s \in FromSpace /\ s \in Addr /\ space[s] = "from" /\ a # s
      /\ a \in Addr /\ space[a] = "free" /\ a # NULL /\ a \notin held /\ a \notin InTable
      /\ forwarded[a] = NULL /\ forwarded[s] = NULL /\ a \notin FromSpace /\ a \notin ToSpace
  BY FreshIsFree, NullAssumption
     DEF ForwardString, IInv, StringsKept, HeldKept, CopiesKept, ToSpace, FromSpace
<1>3. /\ forwarded' = [forwarded EXCEPT ![s] = a]
      /\ FromSpace' = FromSpace /\ ToSpace' = ToSpace \cup {a}
  <2>1. \A x \in Addr : forwarded'[x] = IF x = s THEN a ELSE forwarded[x]
    BY <1>1, <1>2 DEF IInv, TypeOK
  <2> QED
    BY <1>1, <1>2, <2>1 DEF FromSpace, ToSpace, IInv, TypeOK
<1>4. TypeOK'
  BY <1>1, <1>2, <1>3 DEF IInv, TypeOK
<1>5. \A x \in Addr : x # a =>
        /\ bytes'[x] = bytes[x] /\ hash'[x] = hash[x]
        /\ space'[x] = space[x] /\ next_interned'[x] = next_interned[x]
  BY <1>1, <1>2 DEF IInv, TypeOK
<1>6. bytes'[a] = bytes[s] /\ hash'[a] = hash[s] /\ space'[a] = "to"
  BY <1>1, <1>2 DEF IInv, TypeOK
<1>7. \A x \in InTable : x \in Addr /\ x # a
  BY <1>2, TableSets DEF IInv
<1>8. Members' = Members /\ InHand' = InHand /\ InTable' = InTable /\ ListsKept'
  <2>1. next_interned' \in LinkFunction
    BY <1>4 DEF TypeOK, LinkFunction
  <2> QED
    BY <1>1, <1>5, <1>7, <2>1, ListsUntouched DEF IInv
<1>9. StagesKept'
  BY <1>1, <1>2 DEF IInv, StagesKept
<1>10. PlacesKept'
  <2>1. \A b \in DOMAIN bucket : \A x \in Members[b] : b = Index(hash[x], nbuckets) /\ x \in InTable
    BY <1>2, TableSets DEF IInv, PlacesKept, SizeAt
  <2> QED
    BY <1>1, <1>2, <1>5, <1>7, <1>8, <2>1 DEF PlacesKept, SizeAt
<1>11. StringsKept'
  BY <1>1, <1>2, <1>5, <1>7, <1>8 DEF IInv, StringsKept
<1>12. PendingKept'
  BY <1>1, <1>2 DEF IInv, StagesKept, PendingKept, Pending
<1>13. HeldKept'
  <2>1. \A x \in Addr : space'[x] # "free" => bytes'[x] \in Short \cup Long
    BY <1>2, <1>5, <1>6 DEF IInv, HeldKept
  <2>2. held' \subseteq FromSpace' \cup ToSpace'
    BY <1>1, <1>2, <1>3 DEF IInv, HeldKept
  <2>3. \A x \in held' : bytes'[x] \in Short /\ space'[x] # "to" => x \in InTable
    BY <1>1, <1>2, <1>5, <1>6 DEF IInv, HeldKept, TypeOK
  <2> QED
    BY <1>1, <1>2, <1>8, <2>1, <2>2, <2>3 DEF HeldKept
<1>14. CopiesKept'
  <2>1. \A x \in Addr : forwarded'[x] = IF x = s THEN a ELSE forwarded[x]
    BY <1>2, <1>3 DEF IInv, TypeOK
  <2>2. \A x \in FromSpace : x \in Addr /\ x # a /\ x # NULL
    BY <1>2, NullAssumption DEF FromSpace
  <2>3. \A x \in ToSpace : x \in Addr /\ x # a /\ x # NULL /\ x # s
    BY <1>2, NullAssumption DEF ToSpace
  <2>4. ASSUME NEW x \in FromSpace, forwarded'[x] # NULL
        PROVE  /\ forwarded'[x] \in ToSpace'
               /\ bytes'[forwarded'[x]] = bytes'[x] /\ hash'[forwarded'[x]] = hash'[x]
               /\ x \notin held'
               /\ bytes'[x] \in Short => x \in InTable
    <3>1. CASE x = s
      BY <1>1, <1>2, <1>3, <1>5, <1>6, <2>1, <3>1 DEF IInv, HeldKept
    <3>2. CASE x # s
      <4>1. forwarded'[x] = forwarded[x] /\ forwarded[x] # NULL
        BY <2>1, <2>2, <2>4, <3>2
      <4>2. /\ forwarded[x] \in ToSpace
            /\ bytes[forwarded[x]] = bytes[x] /\ hash[forwarded[x]] = hash[x]
            /\ x \notin held
            /\ bytes[x] \in Short => x \in InTable
        BY <1>2, <4>1 DEF IInv, CopiesKept
      <4> QED
        BY <1>1, <1>3, <1>5, <2>2, <2>3, <4>1, <4>2
    <3> QED
      BY <3>1, <3>2
  <2>5. \A x, y \in FromSpace : forwarded'[x] # NULL /\ forwarded'[x] = forwarded'[y] => x = y
    <3>1. \A x, y \in FromSpace : forwarded[x] # NULL /\ forwarded[x] = forwarded[y] => x = y
      BY <1>2 DEF IInv, CopiesKept
    <3>2. \A x \in FromSpace : forwarded[x] # a
      BY <1>2 DEF IInv, CopiesKept
    <3> QED
      BY <2>1, <2>2, <3>1, <3>2
  <2>6. \A x \in ToSpace' : \E y \in FromSpace : forwarded'[y] = x
    <3>1. \A x \in ToSpace : \E y \in FromSpace : forwarded[y] = x
      BY <1>2 DEF IInv, CopiesKept
    <3> QED
      BY <1>2, <1>3, <2>1, <2>2, <2>3, <3>1
  <2>7. ToSpace' \subseteq held'
    BY <1>1, <1>2, <1>3, <2>3 DEF IInv, CopiesKept
  <2>8. \A x \in Addr : forwarded'[x] # NULL => space'[x] = "from"
    BY <1>2, <1>5, <2>1 DEF IInv, CopiesKept
  <2> QED
    BY <1>1, <1>2, <1>3, <1>8, <2>4, <2>5, <2>6, <2>7, <2>8 DEF CopiesKept
<1> QED
  BY <1>4, <1>8, <1>9, <1>10, <1>11, <1>12, <1>13, <1>14 DEF IInv

\* The list that x's string begins continues with the one after it.
LEMMA ChainUnfold ==
  ASSUME TypeOK, NEW x, Ends(x), x # NULL
  PROVE  /\ x \in Addr /\ next_interned[x] \in Addr \cup {NULL} /\ Ends(next_interned[x])
         /\ Chain(next_interned[x]) = Tail(Chain(x))
         /\ Range(Chain(x)) = {x} \cup Range(Chain(next_interned[x]))
         /\ Len(Chain(x)) \in Nat /\ Len(Chain(next_interned[x])) = Len(Chain(x)) - 1
         /\ Chain(x)[1] = x /\ Len(Chain(x)) >= 1
         /\ \A k \in 1..Len(Chain(x)) - 1 : Chain(next_interned[x])[k] = Chain(x)[k + 1]
<1> DEFINE s == Chain(x)
<1>1. next_interned \in LinkFunction /\ DOMAIN next_interned = Addr
  BY DEF TypeOK, LinkFunction
<1>2. Spells(s, next_interned, NULL, x)
  BY DEF Ends
<1> HIDE DEF s
<1>3. /\ x \in Addr /\ Spells(Tail(s), next_interned, NULL, next_interned[x])
      /\ Len(Tail(s)) = Len(s) - 1 /\ Range(s) = {x} \cup Range(Tail(s))
  BY <1>1, <1>2, SpellsTail, NullAssumption
<1>4. Chain(next_interned[x]) = Tail(s)
  BY <1>1, <1>3, ChainIs DEF Chain
<1>5. /\ s \in Seq(Addr) /\ s # <<>> /\ s[1] = x /\ Len(s) \in Nat
  BY <1>1, <1>2 DEF Spells
<1>6. \A k \in 1..Len(Tail(s)) : Tail(s)[k] = s[k + 1]
  BY <1>5, HeadTailProperties
<1>7. Len(s) >= 1
  BY <1>5, EmptySeq
<1> QED
  BY <1>1, <1>3, <1>4, <1>5, <1>6, <1>7 DEF s, Ends, TypeOK

\* The least index at which a list has a live string.
LEMMA LeastLive ==
  ASSUME NEW S \in SUBSET Nat, NEW m \in S, \A n \in S : m <= n
  PROVE  Min(S) = m
<1>1. \A x \in S : (\A n \in S : x <= n) => x = m
  BY SMT
<1> QED
  BY <1>1 DEF Min

\* keep_live returns a copy, or the empty list.
LEMMA KeepLiveType ==
  ASSUME TypeOK, NEW x \in Addr \cup {NULL}
  PROVE  KeepLive(x) \in Addr \cup {NULL}
<1> DEFINE list == Chain(x)
           live == {k \in DOMAIN list : forwarded[list[k]] # NULL}
<1>1. list \in Seq(Addr)
  <2>1. DOMAIN next_interned = Addr /\ \A a \in Addr : next_interned[a] \in Addr \cup {NULL}
    BY DEF TypeOK
  <2> QED
    BY <2>1, ListType, MemoryAssumption DEF Chain
<1> HIDE DEF list
<1>2. live \in SUBSET Nat /\ \A k \in live : list[k] \in Addr
  BY <1>1
<1>3. CASE live = {}
  BY <1>3 DEF KeepLive, list
<1>4. CASE live # {}
  <2>1. PICK m \in live : \A n \in live : m <= n
    BY <1>2, <1>4, LeastExists
  <2>2. Min(live) = m
    BY <1>2, <2>1, LeastLive
  <2>3. KeepLive(x) = forwarded[list[Min(live)]]
    BY <1>4 DEF KeepLive, list
  <2> QED
    BY <1>2, <2>1, <2>2, <2>3 DEF TypeOK
<1> QED
  BY <1>3, <1>4

\* keep_live's loop: a dead string is passed over.
LEMMA KeepLiveUnfold ==
  ASSUME TypeOK, NEW x, Ends(x)
  PROVE  KeepLive(x) = IF x = NULL THEN NULL
                       ELSE IF forwarded[x] # NULL THEN forwarded[x]
                       ELSE KeepLive(next_interned[x])
<1> DEFINE Live(list) == {k \in DOMAIN list : forwarded[list[k]] # NULL}
           s == Chain(x)
           t == Chain(next_interned[x])
<1>1. /\ KeepLive(x) = IF Live(s) = {} THEN NULL ELSE forwarded[s[Min(Live(s))]]
      /\ KeepLive(next_interned[x]) = IF Live(t) = {} THEN NULL ELSE forwarded[t[Min(Live(t))]]
  BY DEF KeepLive
<1>2. CASE x = NULL
  <2>1. s = <<>>
    BY <1>2 DEF Ends, Spells
  <2> QED
    BY <1>1, <1>2, <2>1
<1>3. CASE x # NULL
  <2>0. Ends(next_interned[x])
    BY <1>3, ChainUnfold
  <2>1. /\ s \in Seq(Addr) /\ t \in Seq(Addr) /\ s[1] = x
        /\ Len(s) \in Nat /\ Len(s) >= 1 /\ Len(t) = Len(s) - 1
        /\ \A k \in 1..Len(s) - 1 : t[k] = s[k + 1]
    <3>1. DOMAIN next_interned = Addr
      BY DEF TypeOK
    <3>2. s \in Seq(Addr) /\ t \in Seq(Addr)
      BY <2>0, <3>1 DEF Ends, Spells
    <3> QED
      BY <1>3, <3>2, ChainUnfold
  <2> HIDE DEF s, t
  <2>2. DOMAIN s = 1..Len(s) /\ DOMAIN t = 1..Len(s) - 1
    BY <2>1
  <2>3. CASE forwarded[x] # NULL
    <3>1. 1 \in Live(s) /\ \A n \in Live(s) : 1 <= n
      BY <2>1, <2>2, <2>3
    <3>2. Live(s) \in SUBSET Nat
      BY <2>2
    <3>3. Min(Live(s)) = 1
      BY <3>1, <3>2, LeastLive
    <3> QED
      BY <1>1, <1>3, <2>1, <2>3, <3>1, <3>3
  <2>4. CASE forwarded[x] = NULL
    <3>1. \A k \in Live(s) : k - 1 \in Live(t)
      BY <2>1, <2>2, <2>4
    <3>2. \A k \in Live(t) : k + 1 \in Live(s) /\ s[k + 1] = t[k]
      BY <2>1, <2>2
    <3>3. Live(s) \in SUBSET Nat /\ Live(t) \in SUBSET Nat
      BY <2>1, <2>2
    <3>4. CASE Live(t) = {}
      BY <1>1, <1>3, <2>4, <3>1, <3>4
    <3>5. CASE Live(t) # {}
      <4>1. PICK m \in Live(t) : \A n \in Live(t) : m <= n
        BY <3>3, <3>5, LeastExists
      <4>2. Min(Live(t)) = m
        BY <3>3, <4>1, LeastLive
      <4>3. m + 1 \in Live(s) /\ s[m + 1] = t[m]
        BY <3>2, <4>1
      <4>4. \A n \in Live(s) : m + 1 <= n
        BY <3>1, <3>3, <4>1
      <4>5. Min(Live(s)) = m + 1
        BY <3>3, <4>3, <4>4, LeastLive
      <4>6. Live(s) # {}
        BY <4>3
      <4> HIDE DEF Live
      <4> QED
        BY <1>1, <1>3, <2>4, <3>5, <4>2, <4>3, <4>5, <4>6
    <3> QED
      BY <3>4, <3>5
  <2> QED
    BY <2>3, <2>4
<1> QED
  BY <1>2, <1>3

\* The copies of a set of strings.
Copies(S) == {a \in Addr : \E s \in S : forwarded[s] = a}

\* keep_live links the copies of a list's strings, in the list's order.
LEMMA KeepLiveLinks ==
  ASSUME TypeOK, NEW S \in SUBSET Addr, NEW g \in LinkFunction,
         \A s \in S : forwarded[s] # NULL =>
           g[forwarded[s]] = KeepLive(next_interned[s])
  PROVE  \A x : Ends(x) /\ Range(Chain(x)) \subseteq S =>
           /\ Spells(List(g, NULL, KeepLive(x)), g, NULL, KeepLive(x))
           /\ Range(List(g, NULL, KeepLive(x))) = Copies(Range(Chain(x)))
<1> DEFINE Linked(x) ==
             /\ Spells(List(g, NULL, KeepLive(x)), g, NULL, KeepLive(x))
             /\ Range(List(g, NULL, KeepLive(x))) = Copies(Range(Chain(x)))
           T == {n \in Nat : \A x \in Addr \cup {NULL} :
                   Ends(x) /\ Range(Chain(x)) \subseteq S /\ Len(Chain(x)) <= n => Linked(x)}
<1>1. ASSUME Ends(NULL) PROVE Linked(NULL)
  <2>1. KeepLive(NULL) = NULL
    BY <1>1, KeepLiveUnfold
  <2>2. Range(Chain(NULL)) = {}
    BY ChainNull DEF Chain, TypeOK, LinkFunction
  <2>3. Copies({}) = {}
    BY DEF Copies
  <2> QED
    BY <2>1, <2>2, <2>3, ChainNull
<1>2. ASSUME NEW x, x # NULL, Ends(x), Range(Chain(x)) \subseteq S, Linked(next_interned[x])
      PROVE  Linked(x)
  <2> DEFINE y == next_interned[x]
  <2>1. x \in S /\ x \in Addr /\ Range(Chain(x)) = {x} \cup Range(Chain(y))
    BY <1>2, ChainUnfold
  <2>2. KeepLive(x) = IF forwarded[x] # NULL THEN forwarded[x] ELSE KeepLive(y)
    BY <1>2, KeepLiveUnfold
  <2>3. /\ Spells(List(g, NULL, KeepLive(y)), g, NULL, KeepLive(y))
        /\ Range(List(g, NULL, KeepLive(y))) = Copies(Range(Chain(y)))
    BY <1>2
  <2>4. forwarded[x] \in Addr \cup {NULL}
    BY <2>1 DEF TypeOK
  <2> HIDE DEF y
  <2>5. CASE forwarded[x] = NULL
    <3>1. Copies({x} \cup Range(Chain(y))) = Copies(Range(Chain(y)))
      BY <2>5, NullAssumption DEF Copies
    <3> QED
      BY <2>1, <2>2, <2>3, <2>5, <3>1
  <2>6. CASE forwarded[x] # NULL
    <3> DEFINE a == forwarded[x]
    <3>1. a \in Addr /\ KeepLive(x) = a
      BY <2>2, <2>4, <2>6
    <3>2. g[a] = KeepLive(y)
      BY <2>1, <2>6 DEF y
    <3> HIDE DEF a
    <3>3. /\ Spells(List(g, NULL, a), g, NULL, a)
          /\ Range(List(g, NULL, a)) = {a} \cup Range(List(g, NULL, KeepLive(y)))
      BY <2>3, <3>1, <3>2, ChainPushed
    <3>4. Copies({x} \cup Range(Chain(y))) = {a} \cup Copies(Range(Chain(y)))
      BY <3>1 DEF Copies, a
    <3> QED
      BY <2>1, <2>3, <3>1, <3>3, <3>4
  <2> QED
    BY <2>5, <2>6
<1> HIDE DEF Linked
<1>3. 0 \in T
  <2> SUFFICES ASSUME NEW x \in Addr \cup {NULL}, Ends(x), Range(Chain(x)) \subseteq S,
                      Len(Chain(x)) <= 0
               PROVE  Linked(x)
    OBVIOUS
  <2>1. x = NULL
    BY ChainUnfold
  <2> QED
    BY <1>1, <2>1
<1>4. ASSUME NEW n \in Nat, n \in T PROVE n + 1 \in T
  <2> SUFFICES ASSUME NEW x \in Addr \cup {NULL}, Ends(x), Range(Chain(x)) \subseteq S,
                      Len(Chain(x)) <= n + 1
               PROVE  Linked(x)
    OBVIOUS
  <2>1. CASE x = NULL
    BY <1>1, <2>1
  <2>2. CASE x # NULL
    <3>1. /\ next_interned[x] \in Addr \cup {NULL} /\ Ends(next_interned[x])
          /\ Range(Chain(next_interned[x])) \subseteq S
          /\ Len(Chain(x)) \in Nat /\ Len(Chain(next_interned[x])) = Len(Chain(x)) - 1
      BY <2>2, ChainUnfold
    <3>2. Len(Chain(next_interned[x])) <= n
      BY <3>1
    <3>3. Linked(next_interned[x])
      BY <1>4, <3>1, <3>2
    <3> QED
      BY <1>2, <2>2, <3>3
  <2> QED
    BY <2>1, <2>2
<1> HIDE DEF T
<1>5. \A n \in Nat : n \in T
  BY <1>3, <1>4, SetInduction
<1>6. ASSUME NEW x, Ends(x), Range(Chain(x)) \subseteq S PROVE Linked(x)
  <2>1. x \in Addr \cup {NULL} /\ Len(Chain(x)) \in Nat
    BY <1>6, SpellsHead DEF Ends, TypeOK
  <2>2. Len(Chain(x)) \in T
    BY <1>5, <2>1
  <2> QED
    BY <1>6, <2>1, <2>2 DEF T
<1> QED
  BY <1>6 DEF Linked

\* The strings of the table, by bucket.
LEMMA StoredIsTable ==
  ASSUME TypeOK, ListsKept
  PROVE  InTable = Stored \cup InHand
BY TableSets DEF InTable, Stored, Members

\* The copies are linked as their originals were, without the dead ones.
LEMMA DropDeadStringsStep ==
  ASSUME IInv, DropDeadStrings
  PROVE  IInv'
<1> USE DEF resizing
<1>1. /\ TypeOK /\ ListsKept /\ pc = "copy" /\ held \cap FromSpace = {} /\ pc' = "reclaim"
      /\ p = NULL /\ buffer = NULL /\ InHand = {} /\ DOMAIN bucket = 0..nbuckets - 1
      /\ UNCHANGED <<nbuckets, population, bytes, hash, forwarded, space, held, buffer, resizing>>
  BY TableSets DEF DropDeadStrings, IInv, StagesKept, TypeOK
<1>2. /\ bucket' = [b \in DOMAIN bucket |-> KeepLive(bucket[b])]
      /\ next_interned' =
           [a \in Addr |->
              IF \E s \in Stored : forwarded[s] = a
              THEN KeepLive(next_interned[CHOOSE s \in Stored : forwarded[s] = a])
              ELSE next_interned[a]]
  BY DEF DropDeadStrings
<1>3. InTable = Stored /\ Stored \subseteq Addr /\ Stored \subseteq FromSpace
  <2>1. \A x \in InTable : space[x] = "from"
    BY <1>1 DEF IInv, StringsKept
  <2> QED
    BY <1>1, <2>1, StoredIsTable, TableSets DEF FromSpace
<1> HIDE DEF Stored
<1>4. \A s, t \in Stored : forwarded[s] # NULL /\ forwarded[s] = forwarded[t] => s = t
  BY <1>1, <1>3 DEF IInv, CopiesKept
<1>5. next_interned' \in LinkFunction
  <2>1. \A s \in Stored : next_interned[s] \in Addr \cup {NULL}
    BY <1>1, <1>3 DEF TypeOK
  <2>2. ASSUME NEW a \in Addr
        PROVE  (IF \E s \in Stored : forwarded[s] = a
                THEN KeepLive(next_interned[CHOOSE s \in Stored : forwarded[s] = a])
                ELSE next_interned[a]) \in Addr \cup {NULL}
    BY <1>1, <2>1, KeepLiveType DEF TypeOK
  <2> QED
    BY <1>2, <2>2 DEF LinkFunction
<1>6. ASSUME NEW s \in Stored, forwarded[s] # NULL
      PROVE  next_interned'[forwarded[s]] = KeepLive(next_interned[s])
  <2>1. forwarded[s] \in Addr
    BY <1>1, <1>3, <1>6 DEF TypeOK
  <2>2. (CHOOSE t \in Stored : forwarded[t] = forwarded[s]) = s
    BY <1>4, <1>6
  <2> QED
    BY <1>2, <2>1, <2>2
<1>7. \A b \in DOMAIN bucket : bucket[b] \in Addr \cup {NULL} /\ bucket'[b] = KeepLive(bucket[b])
  BY <1>1, <1>2 DEF TypeOK
<1>8. TypeOK'
  <2>1. \A b \in DOMAIN bucket : KeepLive(bucket[b]) \in Addr \cup {NULL}
    BY <1>1, <1>7, KeepLiveType
  <2>2. bucket' \in [0..nbuckets - 1 -> Addr \cup {NULL}]
    BY <1>1, <1>2, <2>1
  <2> QED
    BY <1>1, <1>5, <2>2 DEF TypeOK, LinkFunction
<1>9. ASSUME NEW b \in DOMAIN bucket
      PROVE  /\ Spells(List(next_interned', NULL, bucket'[b]), next_interned', NULL, bucket'[b])
             /\ Range(List(next_interned', NULL, bucket'[b])) = Copies(Members[b])
  <2>1. Members[b] = Range(Chain(bucket[b])) /\ Range(Chain(bucket[b])) \subseteq Stored
    BY <1>1, <1>3, TableSets DEF Members
  <2>2. Ends(bucket[b])
    BY <1>1 DEF ListsKept
  <2>3. /\ Spells(List(next_interned', NULL, KeepLive(bucket[b])), next_interned', NULL, KeepLive(bucket[b]))
        /\ Range(List(next_interned', NULL, KeepLive(bucket[b]))) = Copies(Range(Chain(bucket[b])))
    <3>1. Stored \in SUBSET Addr /\ TypeOK
      BY <1>1, <1>3
    <3>2. \A x : Ends(x) /\ Range(Chain(x)) \subseteq Stored =>
            /\ Spells(List(next_interned', NULL, KeepLive(x)), next_interned', NULL, KeepLive(x))
            /\ Range(List(next_interned', NULL, KeepLive(x))) = Copies(Range(Chain(x)))
      BY <1>5, <1>6, <3>1, KeepLiveLinks
    <3> QED
      BY <2>1, <2>2, <3>2
  <2> QED
    BY <1>7, <2>1, <2>3
<1>10. /\ DOMAIN bucket' = DOMAIN bucket /\ DOMAIN Members' = DOMAIN bucket
       /\ \A b \in DOMAIN bucket : Members'[b] = Copies(Members[b])
  BY <1>2, <1>9 DEF Members, Chain
<1>11. InHand' = {} /\ Ends(p)'
  BY <1>1, <1>5, ChainNull DEF InHand, Ends, Chain
<1>12. InTable' = Copies(InTable)
  <2>1. InTable' = {a \in Addr : \E b \in DOMAIN bucket : a \in Members'[b]}
    BY <1>10, <1>11 DEF InTable
  <2>2. \A a : a \in InTable <=> a \in Addr /\ \E b \in DOMAIN bucket : a \in Members[b]
    BY <1>1 DEF InTable
  <2> HIDE DEF InTable, Members
  <2> QED
    BY <1>1, <1>10, <2>1, <2>2, TableSets DEF Copies
<1>13. \A s \in InTable : forwarded[s] \in Addr => /\ forwarded[s] \in ToSpace
                                                 /\ forwarded[s] # NULL
                                                 /\ bytes[forwarded[s]] = bytes[s]
                                                 /\ hash[forwarded[s]] = hash[s]
  BY <1>1, <1>3, NullAssumption DEF IInv, CopiesKept
<1>14. ListsKept'
  <2>1. \A b \in DOMAIN bucket : Members[b] \subseteq Stored
    BY <1>1, <1>3, TableSets
  <2>2. \A b, c \in DOMAIN bucket : b # c => Members[b] \cap Members[c] = {}
    BY <1>1 DEF ListsKept
  <2>3. ASSUME NEW b \in DOMAIN bucket, NEW c \in DOMAIN bucket, b # c
        PROVE  Copies(Members[b]) \cap Copies(Members[c]) = {}
    <3> SUFFICES ASSUME NEW a \in Copies(Members[b]), a \in Copies(Members[c]) PROVE FALSE
      OBVIOUS
    <3>1. PICK s \in Members[b] : forwarded[s] = a
      BY DEF Copies
    <3>2. PICK t \in Members[c] : forwarded[t] = a
      BY DEF Copies
    <3>3. a # NULL
      BY NullAssumption DEF Copies
    <3>4. s = t
      BY <1>4, <2>1, <3>1, <3>2, <3>3
    <3> QED
      BY <2>2, <2>3, <3>1, <3>2, <3>4
  <2>4. (\A b \in DOMAIN bucket : Ends(bucket[b]))'
    BY <1>9, <1>10 DEF Ends, Chain
  <2> QED
    BY <1>10, <1>11, <2>3, <2>4 DEF ListsKept
<1>15. StagesKept'
  BY <1>1 DEF IInv, StagesKept
<1>16. PlacesKept'
  <2>1. ASSUME NEW b \in DOMAIN bucket, NEW a \in Copies(Members[b])
        PROVE  b = Index(hash[a], nbuckets)
    <3>1. PICK s \in Members[b] : forwarded[s] = a /\ a \in Addr
      BY DEF Copies
    <3>2. s \in InTable /\ b = Index(hash[s], nbuckets)
      BY <1>1, TableSets DEF IInv, PlacesKept, SizeAt
    <3>3. hash[a] = hash[s]
      BY <1>13, <3>1, <3>2
    <3> QED
      BY <3>2, <3>3
  <2> QED
    BY <1>1, <1>10, <1>11, <2>1 DEF PlacesKept, SizeAt
<1>17. StringsKept'
  <2>1. ASSUME NEW a \in Copies(InTable)
        PROVE  \E s \in InTable : forwarded[s] = a /\ bytes[s] = bytes[a] /\ hash[s] = hash[a]
                                  /\ a \in ToSpace
    BY <1>13 DEF Copies
  <2>2. \A s \in InTable : bytes[s] \in Short /\ hash[s] = HashBytes[bytes[s]]
    BY DEF IInv, StringsKept
  <2>3. \A s, t \in InTable : bytes[s] = bytes[t] => s = t
    BY DEF IInv, StringsKept
  <2>4. \A a \in Copies(InTable) :
          bytes[a] \in Short /\ hash[a] = HashBytes[bytes[a]] /\ space[a] = "to"
    BY <2>1, <2>2 DEF ToSpace
  <2>5. \A a, b \in Copies(InTable) : bytes[a] = bytes[b] => a = b
    BY <2>1, <2>3
  <2>6. Cardinality(Copies(InTable)) <= population
    <3> DEFINE g == [a \in Copies(InTable) |-> CHOOSE s \in InTable : forwarded[s] = a]
    <3>1. \A a \in Copies(InTable) : g[a] \in InTable /\ forwarded[g[a]] = a
      BY DEF Copies
    <3> HIDE DEF g
    <3>2. g \in Injection(Copies(InTable), InTable)
      <4>1. g \in [Copies(InTable) -> InTable]
        BY <3>1 DEF g
      <4> QED
        BY <3>1, <4>1 DEF Injection, IsInjective
    <3>3. IsFiniteSet(InTable)
      BY <1>1, TableSets, TableFinite
    <3>4. Cardinality(Copies(InTable)) <= Cardinality(InTable)
      BY <3>2, <3>3, FS_Injection
    <3>5. Cardinality(Copies(InTable)) \in Nat /\ Cardinality(InTable) \in Nat
      BY <1>1, TableSets, TableFinite DEF Copies
    <3> QED
      BY <1>1, <3>4, <3>5 DEF IInv, StringsKept, TypeOK
  <2> QED
    BY <1>1, <1>12, <2>4, <2>5, <2>6 DEF StringsKept
<1>18. PendingKept'
  BY <1>1 DEF PendingKept, Pending
<1>19. HeldKept'
  <2>1. held \subseteq ToSpace
    BY <1>1 DEF IInv, HeldKept
  <2>2. ASSUME NEW a \in held, bytes[a] \in Short PROVE a \in Copies(InTable)
    <3>1. a \in ToSpace /\ a \in Addr /\ a # NULL
      BY <2>1, NullAssumption DEF ToSpace
    <3>2. PICK s \in FromSpace : forwarded[s] = a
      BY <1>1, <3>1 DEF IInv, CopiesKept
    <3>3. bytes[s] = bytes[a] /\ s \in InTable
      BY <1>1, <2>2, <3>1, <3>2 DEF IInv, CopiesKept
    <3> QED
      BY <3>1, <3>2, <3>3 DEF Copies
  <2>3. \A a \in Addr : space[a] # "free" => bytes[a] \in Short \cup Long
    BY DEF IInv, HeldKept
  <2>4. ToSpace' = ToSpace
    BY <1>1 DEF ToSpace
  <2> QED
    BY <1>1, <1>12, <2>1, <2>2, <2>3, <2>4 DEF HeldKept
<1>20. CopiesKept'
  BY <1>1 DEF IInv, CopiesKept, FromSpace, ToSpace
<1> QED
  BY <1>8, <1>14, <1>15, <1>16, <1>17, <1>18, <1>19, <1>20 DEF IInv

\* Wiping from-space touches nothing that is still in use.
LEMMA ReclaimStep ==
  ASSUME IInv, Reclaim
  PROVE  IInv'
<1> USE DEF tb, resizing
<1>1. /\ TypeOK /\ ListsKept /\ pc = "reclaim" /\ pc' = "mutator" /\ buffer = NULL
      /\ UNCHANGED <<tb, held, buffer, resizing>>
  BY DEF Reclaim, IInv, StagesKept
<1>2. /\ space' = [a \in Addr |-> IF a \in FromSpace THEN "free" ELSE space[a]]
      /\ bytes' = [a \in Addr |-> IF a \in FromSpace THEN NULL ELSE bytes[a]]
      /\ hash' = [a \in Addr |-> IF a \in FromSpace THEN 0 ELSE hash[a]]
      /\ next_interned' = [a \in Addr |-> IF a \in FromSpace THEN NULL ELSE next_interned[a]]
      /\ forwarded' = [a \in Addr |-> IF a \in FromSpace THEN NULL ELSE forwarded[a]]
  BY DEF Reclaim
<1>3. TypeOK'
  BY <1>1, <1>2 DEF TypeOK
<1>4. \A a \in InTable \cup ToSpace :
        /\ a \in Addr /\ a \notin FromSpace /\ space'[a] = "to" /\ space[a] = "to"
        /\ bytes'[a] = bytes[a] /\ hash'[a] = hash[a] /\ next_interned'[a] = next_interned[a]
  <2>1. \A a \in InTable \cup ToSpace : a \in Addr /\ space[a] = "to"
    BY <1>1, TableSets DEF IInv, StringsKept, ToSpace
  <2> QED
    BY <1>2, <2>1 DEF FromSpace
<1>5. Members' = Members /\ InHand' = InHand /\ InTable' = InTable /\ ListsKept'
  <2>1. next_interned' \in LinkFunction
    BY <1>3 DEF TypeOK, LinkFunction
  <2> QED
    BY <1>1, <1>4, <2>1, ListsUntouched
<1>6. FromSpace' = {} /\ ToSpace' = ToSpace
  BY <1>1, <1>2 DEF FromSpace, ToSpace, TypeOK
<1>7. StagesKept'
  BY <1>1 DEF IInv, StagesKept
<1>8. PlacesKept'
  <2>1. \A b \in DOMAIN bucket : \A x \in Members[b] : b = Index(hash[x], nbuckets) /\ x \in InTable
    BY <1>1, TableSets DEF IInv, PlacesKept, SizeAt
  <2> QED
    BY <1>1, <1>4, <1>5, <2>1 DEF PlacesKept, SizeAt
<1>9. StringsKept'
  BY <1>1, <1>4, <1>5 DEF IInv, StringsKept
<1>10. PendingKept'
  BY <1>1 DEF PendingKept, Pending
<1>11. HeldKept'
  <2>1. held \subseteq ToSpace
    BY <1>1 DEF IInv, HeldKept
  <2>2. \A a \in held : bytes[a] \in Short => a \in InTable
    BY <1>1 DEF IInv, HeldKept
  <2>3. \A a \in Addr : space'[a] # "free" => bytes'[a] \in Short \cup Long
    BY <1>2 DEF IInv, HeldKept
  <2> QED
    BY <1>1, <1>4, <1>5, <1>6, <2>1, <2>2, <2>3 DEF HeldKept
<1>12. CopiesKept'
  <2>1. \A a \in Addr : forwarded'[a] = NULL
    BY <1>2 DEF IInv, CopiesKept, FromSpace
  <2> QED
    BY <1>1, <1>6, <2>1 DEF CopiesKept
<1> QED
  BY <1>3, <1>5, <1>7, <1>8, <1>9, <1>10, <1>11, <1>12 DEF IInv

-----------------------------------------------------------------------------
(* The theorems *)

\* Stuttering keeps it.
LEMMA StutterStep == IInv /\ UNCHANGED vars => IInv'
<1> SUFFICES ASSUME IInv, UNCHANGED vars PROVE IInv'
  OBVIOUS
<1> USE DEF vars, tb, strings, resizing
<1>1. TypeOK'
  BY DEF IInv, TypeOK
<1>2. Members' = Members /\ InHand' = InHand /\ InTable' = InTable /\ ListsKept'
  <2>1. next_interned' \in LinkFunction
    BY <1>1 DEF TypeOK, LinkFunction
  <2> QED
    BY <2>1, ListsUntouched DEF IInv
<1>3. StagesKept' /\ PlacesKept'
  BY <1>2 DEF IInv, StagesKept, PlacesKept, SizeAt
<1>4. StringsKept' /\ PendingKept'
  BY <1>2 DEF IInv, StringsKept, PendingKept, Pending
<1>5. HeldKept' /\ CopiesKept'
  BY <1>2 DEF IInv, HeldKept, CopiesKept, ToSpace, FromSpace
<1> QED
  BY <1>1, <1>2, <1>3, <1>4, <1>5 DEF IInv

\* It holds initially,
LEMMA InitIInv == Init => IInv
<1> SUFFICES ASSUME Init PROVE IInv
  OBVIOUS
<1>1. MINSTRTABSIZE \in Nat \ {0}
  BY SizeAssumption
<1>2. TypeOK
  BY <1>1 DEF Init, TypeOK
<1>3. /\ next_interned \in LinkFunction /\ p = NULL
      /\ \A b \in DOMAIN bucket : bucket[b] = NULL
  BY DEF Init, LinkFunction
<1>4. /\ InHand = {} /\ Ends(p) /\ \A b \in DOMAIN bucket : Ends(bucket[b])
      /\ \A b \in DOMAIN bucket : Members[b] = {}
  BY <1>3, ChainNull DEF InHand, Ends, Members, Chain
<1>5. InTable = {} /\ Cardinality(InTable) = 0
  BY <1>4, FS_EmptySet DEF InTable
<1>6. ListsKept
  BY <1>4 DEF ListsKept
<1>7. StagesKept /\ PlacesKept
  BY <1>1, <1>4 DEF Init, StagesKept, PlacesKept
<1>8. StringsKept /\ PendingKept
  BY <1>5 DEF Init, StringsKept, PendingKept, Pending
<1>9. HeldKept /\ CopiesKept
  BY DEF Init, HeldKept, CopiesKept, FromSpace, ToSpace
<1> QED
  BY <1>2, <1>6, <1>7, <1>8, <1>9 DEF IInv

\* and every step keeps it.
LEMMA NextIInv == IInv /\ [Next]_vars => IInv'
<1> SUFFICES ASSUME IInv, [Next]_vars PROVE IInv'
  OBVIOUS
<1>1. CASE InternBuffer \/ \E s \in Short : InternBytes(s)
  BY <1>1, InternSteps
<1>2. CASE \/ \E s \in Short : FillBuffer(s)
           \/ \E s \in Long : NewLong(s)
  BY <1>2, AllocationSteps
<1>3. ASSUME NEW a \in held, HashString(a) \/ Forget(a) PROVE IInv'
  BY <1>3, HashStringStep, ForgetStep
<1>4. CASE TakeBucket \/ Rehash \/ EndResize \/ InsertWanted
  BY <1>4, TakeBucketStep, RehashStep, EndResizeStep, InsertWantedStep
<1>5. CASE StartCollection \/ DropDeadStrings \/ Reclaim
  BY <1>5, StartCollectionStep, DropDeadStringsStep, ReclaimStep
<1>6. ASSUME NEW s \in held, ForwardString(s) PROVE IInv'
  BY <1>6, ForwardStringStep
<1>7. CASE UNCHANGED vars
  BY <1>7, StutterStep
<1> QED
  BY <1>1, <1>2, <1>3, <1>4, <1>5, <1>6, <1>7 DEF Next

\* The inductive invariant holds in every reachable state.
THEOREM Invariance == Spec => []IInv
<1>1. Init => IInv
  BY InitIInv
<1>2. IInv /\ [Next]_vars => IInv'
  BY NextIInv
<1> QED
  BY <1>1, <1>2, PTL DEF Spec

\* Every variable of vmstring.c's table has its type, and the array has the size
\* that resize gave it.
THEOREM TypeCorrectness == Spec => []TypeOK
<1>1. IInv => TypeOK
  BY DEF IInv
<1> QED
  BY <1>1, Invariance, PTL

\* intern_short's lookups and resize's loops come to an end, and a string is
\* looked for where it is: whatever the hash function, a table that is doubled
\* keeps every string in the bucket of its hash, and no string is in two lists.
THEOREM ListsStayIntact == Spec => []ListsIntact
<1>1. IInv => ListsIntact
  <2> SUFFICES ASSUME IInv PROVE ListsIntact
    OBVIOUS
  <2>1. TypeOK /\ ListsKept /\ DOMAIN next_interned = Addr
    BY DEF IInv, TypeOK
  <2>2. ASSUME NEW b \in DOMAIN bucket, NEW j \in DOMAIN Chain(bucket[b]),
               NEW k \in DOMAIN Chain(bucket[b]), Chain(bucket[b])[j] = Chain(bucket[b])[k]
        PROVE  j = k
    <3>1. Spells(Chain(bucket[b]), next_interned, NULL, bucket[b])
      BY <2>1 DEF ListsKept, Ends
    <3>2. DOMAIN Chain(bucket[b]) = 1..Len(Chain(bucket[b]))
      BY <3>1 DEF Spells
    <3> QED
      BY <2>1, <2>2, <3>1, <3>2, SpellsInjective, NullAssumption
  <2>3. \A b \in DOMAIN bucket : Range(Chain(bucket[b])) = Members[b]
    BY DEF Members
  <2>4. \A b \in DOMAIN bucket : \A s \in Members[b] :
          hash[s] = HashBytes[bytes[s]] /\ b = Index(hash[s], SizeAt(b))
    BY <2>1, TableSets DEF IInv, StringsKept, PlacesKept
  <2>5. InHand \cap Stored = {}
    BY <2>1, <2>3 DEF ListsKept, Stored
  <2> QED
    BY <2>1, <2>2, <2>3, <2>4, <2>5 DEF ListsIntact, ListsKept, InHand
<1> QED
  BY <1>1, Invariance, PTL

\* Two short strings that the machine holds have the same bytes only if they are
\* the same string: comparing addresses is enough for eqvalue and identical,
\* before, after and between the steps of any resize and any collection.
THEOREM UniqueShortStrings == Spec => []ShortStringsAreUnique
<1>1. IInv => ShortStringsAreUnique
  <2> SUFFICES ASSUME IInv, pc \in {"mutator", "rehash", "insert"}
               PROVE  /\ \A a, b \in held : bytes[a] \in Short /\ bytes[a] = bytes[b] => a = b
                      /\ \A a \in held : bytes[a] \in Short => a \in Stored \cup Range(Chain(p))
    BY DEF ShortStringsAreUnique
  <2>1. \A a \in held : bytes[a] \in Short => a \in InTable
    BY DEF IInv, HeldKept
  <2>2. \A a, b \in InTable : bytes[a] = bytes[b] => a = b
    BY DEF IInv, StringsKept
  <2>3. InTable = Stored \cup Range(Chain(p))
    BY StoredIsTable DEF IInv, InHand
  <2> QED
    BY <2>1, <2>2, <2>3
<1> QED
  BY <1>1, Invariance, PTL

\* The table never refers to a string that the collector has left behind, and
\* after VMString_drop_dead_strings to none that the machine does not hold.
THEOREM WeakTable == Spec => []TableIsWeak
<1>1. IInv => TableIsWeak
  <2> SUFFICES ASSUME IInv PROVE TableIsWeak
    OBVIOUS
  <2>1. Stored \subseteq InTable /\ InTable \subseteq Addr
    BY StoredIsTable, TableSets DEF IInv
  <2>2. pc # "copy" => \A s \in InTable : space[s] = "to"
    BY DEF IInv, StringsKept
  <2>3. pc # "copy" => Stored \subseteq ToSpace
    BY <2>1, <2>2 DEF ToSpace
  <2>4. pc = "reclaim" => ToSpace \subseteq held
    BY DEF IInv, CopiesKept
  <2> QED
    BY <2>3, <2>4 DEF TableIsWeak
<1> QED
  BY <1>1, Invariance, PTL

\* Until the table is too large to be doubled, there is a bucket for every string.
THEOREM BucketsSuffice == Spec => []EnoughBuckets
<1>1. IInv => EnoughBuckets
  <2> SUFFICES ASSUME IInv, pc = "mutator", nbuckets <= MaxDoubled
               PROVE  Cardinality(Stored) <= nbuckets
    BY DEF EnoughBuckets
  <2>1. p = NULL /\ population <= nbuckets /\ population \in Nat /\ nbuckets \in Nat
    BY DEF IInv, StagesKept, TypeOK
  <2>2. InTable = Stored
    BY <2>1, StoredIsTable, TableSets DEF IInv
  <2>3. Cardinality(InTable) \in Nat /\ Cardinality(InTable) <= population
    BY TableSets, TableFinite DEF IInv, StringsKept
  <2> QED
    BY <2>1, <2>2, <2>3
<1> QED
  BY <1>1, Invariance, PTL

=============================================================================
