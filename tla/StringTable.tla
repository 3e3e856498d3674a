----------------------------- MODULE StringTable -----------------------------
(***************************************************************************)
(* The table of interned strings, src/svm/vmstring.c: an array of buckets,  *)
(* each the head of a list linked through the strings' own next_interned    *)
(* fields.  The table is weak: a collection drops the strings that nothing  *)
(* else refers to and relinks the copies of the others.                     *)
(*                                                                         *)
(* The bytes of a string are an element of Short or of Long; what they hash *)
(* to is the constant HashBytes.  The rest of the machine is the set of the *)
(* strings it holds.  Where vmheap.c puts a string is the operator Fresh.   *)
(***************************************************************************)
EXTENDS LinkedLists, FiniteSetsExt

CONSTANTS Addr,            \* addresses of strings
          Fresh(_, _),     \* of the free addresses, where the allocator may go
                           \* next when those of the second set are in use
          NULL,
          Short, Long,     \* bytes of strings up to VM_MAXSHORTLEN, and beyond
          HashBytes,       \* Vmstring_hash_bytes
          FillCount,       \* length of short bytes, a full buffer's hash field
          MINSTRTABSIZE,   \* initial number of buckets
          MaxDoubled,      \* INT_MAX/2: no table with more buckets is doubled
          MaxStrings,      \* bound on the strings allocated between collections
          MaxPopulation    \* bound on the strings ever interned

ASSUME FreshAssumption == \A S, T \in SUBSET Addr : Fresh(S, T) \subseteq S

\* The machine's memory is finite.
ASSUME MemoryAssumption == IsFiniteSet(Addr)

\* Vmstring_hash_bytes asserts that no hash is 0.
ASSUME BytesAssumption ==
  /\ Short \cap Long = {}
  /\ HashBytes \in [Short \cup Long -> Nat \ {0}]
  /\ FillCount \in [Short -> Nat]

ASSUME SizeAssumption == {MINSTRTABSIZE, MaxDoubled} \subseteq Nat \ {0}

ASSUME NullAssumption == NULL \notin Addr

VARIABLES
  bucket, nbuckets, population,               \* struct stringtable tb
  bytes, hash, next_interned, forwarded,      \* the strings, by address
  space,     \* where an address lies: free, in from-space or in to-space
  held,      \* the strings the machine refers to
  buffer,    \* a buffer that has been filled, a string not yet interned
  wanted,    \* intern_short's arguments while it resizes the table
  newsize, i, p, \* resize's argument and its local variables
  pc         \* where the code is, or "mutator"

tb == <<bucket, nbuckets, population>>
strings == <<bytes, hash, next_interned, forwarded, space>>
resizing == <<wanted, newsize, i, p>>
vars == <<tb, strings, held, buffer, resizing, pc>>

ToSpace == {a \in Addr : space[a] = "to"}
FromSpace == {a \in Addr : space[a] = "from"}
FreshString == Fresh({a \in Addr : space[a] = "free"}, ToSpace)

-----------------------------------------------------------------------------
(* Lists *)

\* The list that begins with a.
Chain(a) == List(next_interned, NULL, a)

Stored == UNION {Range(Chain(bucket[b])) : b \in DOMAIN bucket}

Index(h, size) == h % size

-----------------------------------------------------------------------------
(* Interning *)

\* allocstring, and the bytes that its caller fills in.
AllocString(a, s, h, next) ==
  /\ bytes' = [bytes EXCEPT ![a] = s]
  /\ hash' = [hash EXCEPT ![a] = h]
  /\ next_interned' = [next_interned EXCEPT ![a] = next]
  /\ forwarded' = [forwarded EXCEPT ![a] = NULL]
  /\ space' = [space EXCEPT ![a] = "to"]

\* Mutant: the string is not counted.
InsertUncounted(s, alloced) ==
  LET h == HashBytes[s]
      list == Index(h, nbuckets)
  IN  \E a \in IF alloced # NULL THEN {alloced} ELSE FreshString :
        /\ AllocString(a, s, h, bucket[list])
        /\ bucket' = [bucket EXCEPT ![list] = a]
        /\ held' = held \cup {a}
        /\ pc' = "mutator"
        /\ UNCHANGED <<nbuckets, population>>

\* The end of intern_short: the string alloced, or a new one, becomes the first
\* of its bucket.
Insert(s, alloced) ==
  LET h == HashBytes[s]
      list == Index(h, nbuckets)
  IN  \E a \in IF alloced # NULL THEN {alloced} ELSE FreshString :
        /\ AllocString(a, s, h, bucket[list])
        /\ bucket' = [bucket EXCEPT ![list] = a]
        /\ population' = population + 1
        /\ held' = held \cup {a}
        /\ pc' = "mutator"
        /\ UNCHANGED nbuckets

\* The bounds, on a string that is not in the table.
RoomFor(alloced) ==
  /\ population < MaxPopulation
  /\ alloced # NULL \/ Cardinality(ToSpace) < MaxStrings

\* intern_short up to the call of resize.
InternShort(s, alloced) ==
  LET found == {a \in Range(Chain(bucket[Index(HashBytes[s], nbuckets)])) : bytes[a] = s}
      crowded == population >= nbuckets /\ nbuckets <= MaxDoubled
  IN  /\ pc = "mutator"
      /\ buffer' = NULL
      /\ \/ /\ found # {}
            /\ \E a \in found : held' = held \cup {a}
            /\ UNCHANGED <<tb, strings, resizing, pc>>
         \/ /\ found = {} /\ ~crowded
            /\ RoomFor(alloced)
            /\ Insert(s, alloced)
            /\ UNCHANGED resizing
         \/ /\ found = {} /\ crowded
            /\ RoomFor(alloced)
            /\ wanted' = [bytes |-> s, alloced |-> alloced]
            /\ newsize' = nbuckets * 2
            /\ bucket' = [b \in 0..newsize' - 1 |-> IF b < nbuckets THEN bucket[b] ELSE NULL]
            /\ i' = 0 /\ p' = NULL
            /\ pc' = "rehash"
            /\ UNCHANGED <<nbuckets, population, strings, held>>

\* Vmstring_new, short.
InternBytes(s) == buffer = NULL /\ InternShort(s, NULL)

\* Vmstring_buffer, filled by Vmstring_putc: the hash field counts the bytes.
FillBuffer(s) ==
  /\ pc = "mutator" /\ buffer = NULL
  /\ Cardinality(ToSpace) < MaxStrings /\ population < MaxPopulation
  /\ \E a \in FreshString :
       /\ AllocString(a, s, FillCount[s], NULL)
       /\ buffer' = a
  /\ UNCHANGED <<tb, held, resizing, pc>>

\* Vmstring_of_buffer, short.
InternBuffer == buffer # NULL /\ InternShort(bytes[buffer], buffer)

\* Vmstring_new, long: the string is not interned and not hashed.
NewLong(s) ==
  /\ pc = "mutator" /\ buffer = NULL
  /\ Cardinality(ToSpace) < MaxStrings
  /\ \E a \in FreshString :
       /\ AllocString(a, s, 0, NULL)
       /\ held' = held \cup {a}
  /\ UNCHANGED <<tb, buffer, resizing, pc>>

\* Vmstring_hash of a string: a long one is hashed when first asked.
HashString(a) ==
  /\ pc = "mutator"
  /\ hash[a] = 0
  /\ hash' = [hash EXCEPT ![a] = HashBytes[bytes[a]]]
  /\ UNCHANGED <<tb, bytes, next_interned, forwarded, space, held, buffer, resizing, pc>>

\* The machine forgets a string.
Forget(a) ==
  /\ pc = "mutator"
  /\ held' = held \ {a}
  /\ UNCHANGED <<tb, strings, buffer, resizing, pc>>

-----------------------------------------------------------------------------
(* resize *)

\* Mutant: the bucket keeps its list.
TakeBucketAndKeep ==
  /\ pc = "rehash" /\ p = NULL /\ i < nbuckets
  /\ p' = bucket[i]
  /\ i' = i + 1
  /\ UNCHANGED <<tb, strings, held, buffer, wanted, newsize, pc>>

\* The next bucket is emptied, its list is p's.
TakeBucket ==
  /\ pc = "rehash" /\ p = NULL /\ i < nbuckets
  /\ p' = bucket[i]
  /\ bucket' = [bucket EXCEPT ![i] = NULL]
  /\ i' = i + 1
  /\ UNCHANGED <<nbuckets, population, strings, held, buffer, wanted, newsize, pc>>

\* Mutant: the next string is read after the link has been overwritten.
RehashUnsaved ==
  LET h == Index(hash[p], newsize) IN
  /\ pc = "rehash" /\ p # NULL
  /\ next_interned' = [next_interned EXCEPT ![p] = bucket[h]]
  /\ bucket' = [bucket EXCEPT ![h] = p]
  /\ p' = bucket[h]
  /\ UNCHANGED <<nbuckets, population, bytes, hash, forwarded, space, held, buffer,
                 wanted, newsize, i, pc>>

\* The first string of p's list goes to the front of its new bucket.
Rehash ==
  LET h == Index(hash[p], newsize) IN
  /\ pc = "rehash" /\ p # NULL
  /\ next_interned' = [next_interned EXCEPT ![p] = bucket[h]]
  /\ bucket' = [bucket EXCEPT ![h] = p]
  /\ p' = next_interned[p]
  /\ UNCHANGED <<nbuckets, population, bytes, hash, forwarded, space, held, buffer,
                 wanted, newsize, i, pc>>

\* Mutant: the new size is not recorded.
EndResizeUnrecorded ==
  /\ pc = "rehash" /\ p = NULL /\ i = nbuckets
  /\ pc' = "insert"
  /\ UNCHANGED <<tb, strings, held, buffer, resizing>>

\* Every bucket is rehashed.
EndResize ==
  /\ pc = "rehash" /\ p = NULL /\ i = nbuckets
  /\ nbuckets' = newsize
  /\ pc' = "insert"
  /\ UNCHANGED <<bucket, population, strings, held, buffer, resizing>>

\* intern_short after resize.
InsertWanted ==
  /\ pc = "insert"
  /\ Insert(wanted.bytes, wanted.alloced)
  /\ wanted' = NULL /\ newsize' = 0 /\ i' = 0 /\ p' = NULL
  /\ UNCHANGED buffer

-----------------------------------------------------------------------------
(* Collection *)

\* A collection never comes between filling a buffer and interning it.
StartCollection ==
  /\ pc = "mutator" /\ buffer = NULL
  /\ space' = [a \in Addr |-> IF space[a] = "to" THEN "from" ELSE space[a]]
  /\ pc' = "copy"
  /\ UNCHANGED <<tb, bytes, hash, next_interned, forwarded, held, buffer, resizing>>

\* forward_string: a string that the machine holds is copied, links and all.
ForwardString(s) ==
  /\ pc = "copy" /\ s \in FromSpace
  /\ \E a \in FreshString :
       /\ space' = [space EXCEPT ![a] = "to"]
       /\ bytes' = [bytes EXCEPT ![a] = bytes[s]]
       /\ hash' = [hash EXCEPT ![a] = hash[s]]
       /\ next_interned' = [next_interned EXCEPT ![a] = next_interned[s]]
       /\ forwarded' = [forwarded EXCEPT ![a] = NULL, ![s] = a]
       /\ held' = (held \ {s}) \cup {a}
  /\ UNCHANGED <<tb, buffer, resizing, pc>>

\* keep_live(s): the copy of the first string of the list s that has one.
KeepLive(s) ==
  LET list == Chain(s)
      live == {k \in DOMAIN list : forwarded[list[k]] # NULL}
  IN  IF live = {} THEN NULL ELSE forwarded[list[Min(live)]]

\* Mutant: a copy keeps the link of its original.
DropWithoutRelinking ==
  /\ pc = "copy" /\ held \cap FromSpace = {}
  /\ bucket' = [b \in DOMAIN bucket |-> KeepLive(bucket[b])]
  /\ pc' = "reclaim"
  /\ UNCHANGED <<nbuckets, population, strings, held, buffer, resizing>>

\* VMString_drop_dead_strings; keep_live links the copies among themselves.
DropDeadStrings ==
  /\ pc = "copy" /\ held \cap FromSpace = {}
  /\ bucket' = [b \in DOMAIN bucket |-> KeepLive(bucket[b])]
  /\ next_interned' =
       [a \in Addr |->
          IF \E s \in Stored : forwarded[s] = a
          THEN KeepLive(next_interned[CHOOSE s \in Stored : forwarded[s] = a])
          ELSE next_interned[a]]
  /\ pc' = "reclaim"
  /\ UNCHANGED <<nbuckets, population, bytes, hash, forwarded, space, held, buffer, resizing>>

\* make_available: whatever may become of from-space, its strings are gone.
Reclaim ==
  /\ pc = "reclaim"
  /\ LET Wipe(f, wiped) == [a \in Addr |-> IF a \in FromSpace THEN wiped ELSE f[a]] IN
     /\ space' = Wipe(space, "free")
     /\ bytes' = Wipe(bytes, NULL)
     /\ hash' = Wipe(hash, 0)
     /\ next_interned' = Wipe(next_interned, NULL)
     /\ forwarded' = Wipe(forwarded, NULL)
  /\ pc' = "mutator"
  /\ UNCHANGED <<tb, held, buffer, resizing>>

-----------------------------------------------------------------------------

\* Vmstring_init, with no string yet.
Init ==
  /\ bucket = [b \in 0..MINSTRTABSIZE - 1 |-> NULL]
  /\ nbuckets = MINSTRTABSIZE
  /\ population = 0
  /\ bytes = [a \in Addr |-> NULL]
  /\ hash = [a \in Addr |-> 0]
  /\ next_interned = [a \in Addr |-> NULL]
  /\ forwarded = [a \in Addr |-> NULL]
  /\ space = [a \in Addr |-> "free"]
  /\ held = {}
  /\ buffer = NULL
  /\ wanted = NULL /\ newsize = 0 /\ i = 0 /\ p = NULL
  /\ pc = "mutator"

Next ==
  \/ \E s \in Short : InternBytes(s) \/ FillBuffer(s)
  \/ InternBuffer
  \/ \E s \in Long : NewLong(s)
  \/ \E a \in held : HashString(a) \/ Forget(a)
  \/ TakeBucket \/ Rehash \/ EndResize \/ InsertWanted
  \/ StartCollection
  \/ \E s \in held : ForwardString(s)
  \/ DropDeadStrings
  \/ Reclaim

Spec == Init /\ [][Next]_vars

-----------------------------------------------------------------------------
(* Properties *)

TypeOK ==
  /\ nbuckets \in Nat \ {0} /\ population \in Nat /\ newsize \in Nat /\ i \in Nat
  /\ bucket \in [0..(IF pc = "rehash" THEN newsize ELSE nbuckets) - 1 -> Addr \cup {NULL}]
  /\ bytes \in [Addr -> Short \cup Long \cup {NULL}]
  /\ hash \in [Addr -> Nat]
  /\ next_interned \in [Addr -> Addr \cup {NULL}]
  /\ forwarded \in [Addr -> Addr \cup {NULL}]
  /\ space \in [Addr -> {"free", "from", "to"}]
  /\ held \subseteq Addr
  /\ {buffer, p} \subseteq Addr \cup {NULL}
  /\ wanted \in [bytes : Short, alloced : Addr \cup {NULL}] \cup {NULL}
  /\ pc \in {"mutator", "rehash", "insert", "copy", "reclaim"}

\* The number of buckets that tells where in bucket b a string is looked for: while
\* resize is at work, the old one in those it has yet to take.
SizeAt(b) == IF pc = "rehash" /\ b \notin i..nbuckets - 1 THEN newsize ELSE nbuckets

\* The lists are what lookups count on, even halfway through resize: no list has
\* a cycle, no two lists share a string, and a string is in the bucket of its
\* own hash, or on p's list.
ListsIntact ==
  pc \in {"mutator", "rehash", "insert"} =>
    /\ \A b \in DOMAIN bucket :
         LET list == Chain(bucket[b]) IN
         /\ \A j, k \in DOMAIN list : list[j] = list[k] => j = k
         /\ \A s \in Range(list) :
              /\ hash[s] = HashBytes[bytes[s]]
              /\ b = Index(hash[s], SizeAt(b))
    /\ \A b, c \in DOMAIN bucket :
         b # c => Range(Chain(bucket[b])) \cap Range(Chain(bucket[c])) = {}
    /\ pc = "rehash" => Range(Chain(p)) \cap Stored = {}

\* Short strings that the machine holds are equal exactly if they are the same
\* string: what eqvalue, identical and the table of globals rely on.  A string
\* that resize has in hand is not lost, nor is one that a collection copies.
ShortStringsAreUnique ==
  pc \in {"mutator", "rehash", "insert"} =>
    /\ \A a, b \in held : bytes[a] \in Short /\ bytes[a] = bytes[b] => a = b
    /\ \A a \in held : bytes[a] \in Short => a \in Stored \cup Range(Chain(p))

\* Between collections the table refers to strings in use only, and a collection
\* leaves in it none but those the machine holds.
TableIsWeak ==
  /\ pc # "copy" => Stored \subseteq ToSpace
  /\ pc = "reclaim" => Stored \subseteq held

\* A list is no longer than one would expect: unless the table is as large as it
\* gets, there is a bucket for every string.
EnoughBuckets ==
  pc = "mutator" /\ nbuckets <= MaxDoubled => Cardinality(Stored) <= nbuckets

=============================================================================
