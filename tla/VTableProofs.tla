---------------------------- MODULE VTableProofs ----------------------------
(***************************************************************************)
(* The hash table is a map, for every set of objects and values, every hash *)
(* function, every size and any number of collections.                      *)
(***************************************************************************)
EXTENDS VTable, LinkedListProofs

-----------------------------------------------------------------------------
(* Sequences that are made of sequences *)

\* No element occurs twice in a sequence.
Distinct(s) == \A j, k \in 1..Len(s) : s[j] = s[k] => j = k

\* Two sequences of different elements that share none make one.
LEMMA ConcatDistinct ==
  ASSUME NEW S, NEW s \in Seq(S), NEW t \in Seq(S), Distinct(s), Distinct(t),
         Range(s) \cap Range(t) = {}
  PROVE  Distinct(s \o t)
<1> DEFINE u == s \o t
<1>1. PICK m \in Nat, n \in Nat : m = Len(s) /\ n = Len(t)
  OBVIOUS
<1>2. /\ Len(u) = m + n
      /\ \A k \in 1..m : u[k] = s[k] /\ s[k] \in Range(s)
      /\ \A k \in m + 1..m + n : u[k] = t[k - m] /\ k - m \in 1..n /\ t[k - m] \in Range(t)
  <2>1. Len(u) = m + n /\ \A k \in 1..m + n : u[k] = IF k <= m THEN s[k] ELSE t[k - m]
    BY <1>1, ConcatProperties
  <2>2. \A k \in 1..m : s[k] \in Range(s)
    BY <1>1, RangeEquality
  <2>3. \A k \in 1..n : t[k] \in Range(t)
    BY <1>1, RangeEquality
  <2>4. \A k \in m + 1..m + n : k - m \in 1..n /\ ~(k <= m) /\ k \in 1..m + n
    BY <1>1
  <2>5. \A k \in 1..m : k <= m /\ k \in 1..m + n
    BY <1>1
  <2> QED
    BY <2>1, <2>2, <2>3, <2>4, <2>5
<1> HIDE DEF u
<1>3. ASSUME NEW j \in 1..m + n, NEW k \in 1..m + n, u[j] = u[k] PROVE j = k
  <2>1. /\ j \in 1..m \/ j \in m + 1..m + n
        /\ k \in 1..m \/ k \in m + 1..m + n
    OBVIOUS
  <2>2. CASE j \in 1..m /\ k \in 1..m
    BY <1>1, <1>2, <1>3, <2>2 DEF Distinct
  <2>3. CASE j \in m + 1..m + n /\ k \in m + 1..m + n
    <3>1. t[j - m] = t[k - m] /\ j - m \in 1..n /\ k - m \in 1..n
      BY <1>2, <1>3, <2>3
    <3>2. j - m = k - m
      BY <1>1, <3>1 DEF Distinct
    <3> QED
      BY <3>2
  <2>4. CASE j \in 1..m /\ k \in m + 1..m + n
    BY <1>2, <1>3, <2>4
  <2>5. CASE j \in m + 1..m + n /\ k \in 1..m
    BY <1>2, <1>3, <2>5
  <2> QED
    BY <2>1, <2>2, <2>3, <2>4, <2>5
<1> QED
  BY <1>2, <1>3 DEF Distinct, u

\* The recursion that defines FlattenSeq.
LEMMA FlattenIs ==
  ASSUME NEW seqs, NEW n \in Nat \ {0}, Len(seqs) = n
  PROVE  \E g : /\ FlattenSeq(seqs) = g[n]
                /\ \A i \in 1..n : g[i] = IF i = 1 THEN seqs[i] ELSE g[i - 1] \o seqs[i]
<1> DEFINE Up(g, m) == g = [i \in 1..m |-> IF i = 1 THEN seqs[i] ELSE g[i - 1] \o seqs[i]]
           T == {m \in Nat : \E g : Up(g, m)}
<1>1. 0 \in T
  <2> DEFINE g == [i \in 1..0 |-> 0]
  <2>1. Up(g, 0)
    OBVIOUS
  <2> QED
    BY <2>1
<1>2. ASSUME NEW m \in Nat, m \in T PROVE m + 1 \in T
  <2>1. PICK g : Up(g, m)
    BY <1>2
  <2> DEFINE h == [i \in 1..m + 1 |-> IF i = 1 THEN seqs[i]
                     ELSE IF i = m + 1 THEN g[m] \o seqs[i] ELSE g[i]]
  <2>2. ASSUME NEW i \in 1..m + 1
        PROVE  h[i] = IF i = 1 THEN seqs[i] ELSE h[i - 1] \o seqs[i]
    <3>1. CASE i = 1
      BY <3>1
    <3>2. CASE i # 1
      <4>1. i - 1 \in 1..m /\ i - 1 \in 1..m + 1 /\ i - 1 # m + 1
        BY <3>2
      <4>2. h[i - 1] = g[i - 1]
        <5>1. g[i - 1] = IF i - 1 = 1 THEN seqs[i - 1] ELSE g[i - 1 - 1] \o seqs[i - 1]
          BY <2>1, <4>1
        <5>2. h[i - 1] = IF i - 1 = 1 THEN seqs[i - 1]
                         ELSE IF i - 1 = m + 1 THEN g[m] \o seqs[i - 1] ELSE g[i - 1]
          BY <4>1
        <5> QED
          BY <4>1, <5>1, <5>2
      <4>3. h[i] = g[i - 1] \o seqs[i]
        <5>1. h[i] = IF i = m + 1 THEN g[m] \o seqs[i] ELSE g[i]
          BY <3>2
        <5>2. i = m + 1 => i - 1 = m
          OBVIOUS
        <5>3. i # m + 1 => i \in 1..m /\ g[i] = g[i - 1] \o seqs[i]
          <6>1. i # m + 1 => i \in 1..m
            OBVIOUS
          <6>2. \A k \in 1..m : g[k] = IF k = 1 THEN seqs[k] ELSE g[k - 1] \o seqs[k]
            BY <2>1
          <6> QED
            BY <3>2, <6>1, <6>2
        <5> QED
          BY <5>1, <5>2, <5>3
      <4> QED
        BY <3>2, <4>2, <4>3
    <3> QED
      BY <3>1, <3>2
  <2>3. DOMAIN h = 1..m + 1 /\ h = [i \in 1..m + 1 |-> h[i]]
    OBVIOUS
  <2> HIDE DEF h
  <2>4. Up(h, m + 1)
    BY <2>2, <2>3
  <2> HIDE DEF Up
  <2> QED
    BY <2>4
<1> HIDE DEF T
<1>3. n \in T
  BY <1>1, <1>2, SetInduction
<1> DEFINE F == CHOOSE g : Up(g, n)
<1>4. Up(F, n)
  BY <1>3 DEF T
<1>5. FlattenSeq(seqs) = F[n]
  BY DEF FlattenSeq
<1> HIDE DEF F
<1>6. \A i \in 1..n : F[i] = IF i = 1 THEN seqs[i] ELSE F[i - 1] \o seqs[i]
  BY <1>4
<1> QED
  BY <1>5, <1>6

\* What FlattenSeq makes of sequences of different elements.
LEMMA FlattenDistinct ==
  ASSUME NEW S, NEW seqs, NEW n \in Nat \ {0}, Len(seqs) = n,
         \A i \in 1..n : seqs[i] \in Seq(S) /\ Distinct(seqs[i]),
         \A i, j \in 1..n : i # j => Range(seqs[i]) \cap Range(seqs[j]) = {}
  PROVE  /\ FlattenSeq(seqs) \in Seq(S)
         /\ Distinct(FlattenSeq(seqs))
         /\ \A x : x \in Range(FlattenSeq(seqs)) <=> \E i \in 1..n : x \in Range(seqs[i])
<1>1. PICK g : /\ FlattenSeq(seqs) = g[n]
               /\ \A i \in 1..n : g[i] = IF i = 1 THEN seqs[i] ELSE g[i - 1] \o seqs[i]
  BY FlattenIs
<1> DEFINE Good(i) == /\ g[i] \in Seq(S) /\ Distinct(g[i])
                      /\ \A x : x \in Range(g[i]) <=> \E m \in 1..i : x \in Range(seqs[m])
           T == {m \in Nat : m + 1 <= n => Good(m + 1)}
<1>2. 0 \in T
  <2>1. 0 + 1 = 1 /\ 1 \in 1..n /\ g[1] = seqs[1]
    BY <1>1
  <2>2. \A m \in 1..1 : m = 1
    OBVIOUS
  <2>3. Good(1)
    BY <2>1, <2>2
  <2> QED
    BY <2>1, <2>3
<1>3. ASSUME NEW m \in Nat, m \in T PROVE m + 1 \in T
  <2> SUFFICES ASSUME m + 1 + 1 <= n PROVE Good(m + 1 + 1)
    OBVIOUS
  <2>1. /\ m + 1 \in 1..n /\ m + 1 + 1 \in 1..n /\ m + 1 + 1 # 1 /\ m + 1 + 1 - 1 = m + 1
        /\ m + 1 <= n /\ m + 1 \in Nat
        /\ \A l \in 1..m + 1 : l \in 1..n /\ l # m + 1 + 1
        /\ \A l \in 1..m + 1 + 1 : l \in 1..m + 1 \/ l = m + 1 + 1
        /\ \A l \in 1..m + 1 : l \in 1..m + 1 + 1
    OBVIOUS
  <2>2. Good(m + 1)
    BY <1>3, <2>1
  <2> DEFINE s == g[m + 1]
             t == seqs[m + 1 + 1]
  <2>3. g[m + 1 + 1] = s \o t
    <3> DEFINE k == m + 1 + 1
    <3>1. k \in 1..n /\ k # 1 /\ k - 1 = m + 1
      BY <2>1
    <3> HIDE DEF k
    <3>2. g[k] = g[k - 1] \o seqs[k]
      BY <1>1, <3>1
    <3> QED
      BY <3>1, <3>2 DEF k
  <2>4. s \in Seq(S) /\ t \in Seq(S) /\ Distinct(s) /\ Distinct(t)
    BY <2>1, <2>2
  <2>5. \A x : x \in Range(s) <=> \E l \in 1..m + 1 : x \in Range(seqs[l])
    BY <2>2
  <2> HIDE DEF s
  <2>6. Range(s) \cap Range(t) = {}
    BY <2>1, <2>5
  <2> HIDE DEF t
  <2>7. Range(s \o t) = Range(s) \cup Range(t)
    BY <2>4, RangeConcatenation
  <2>8. s \o t \in Seq(S) /\ Distinct(s \o t)
    BY <2>4, <2>6, ConcatDistinct, ConcatProperties
  <2>9. \A x : x \in Range(s \o t) <=> \E l \in 1..m + 1 + 1 : x \in Range(seqs[l])
    BY <2>1, <2>5, <2>7 DEF t
  <2> QED
    BY <2>3, <2>8, <2>9
<1> HIDE DEF T
<1>4. \A m \in Nat : m \in T
  BY <1>2, <1>3, SetInduction
<1>5. n - 1 \in Nat /\ n - 1 + 1 = n /\ n - 1 \in T
  BY <1>4
<1>6. Good(n)
  BY <1>5 DEF T
<1> QED
  BY <1>1, <1>6

-----------------------------------------------------------------------------
(* Values *)

\* The identity and the hash of an argument, wherever it is.
IdOf(x) == IF x \in Obj THEN x ELSE Canonical(x)
Hash(x) ==
  IF x \in Obj
  THEN IF ObjTag[x] = "String" THEN StringHash[x] ELSE TagHash[ObjTag[x]]
  ELSE CASE x.tag = "Number"  -> NumberHash(Truncate(x.n))
         [] x.tag = "Boolean" -> TagHash[IF x.b THEN "True" ELSE "False"]
         [] OTHER             -> TagHash[x.tag]

Keys == Arg \cup Identities
NotANumber == mkNumberValue(NaN)

\* Whatever is not an object.
Plain(x) == \/ x = emptylistValue
            \/ x.tag = "Boolean" /\ x = mkBooleanValue(x.b)
            \/ x.tag = "Number" /\ x = mkNumberValue(x.n)

\* No two objects are at one address.
WhereKept == where \in [Obj -> 1..2 * Cardinality(Obj)] /\ IsInjective(where)

\* A key that is not an object is its own value, and its identity a key.
LEMMA PlainKeys ==
  ASSUME NEW x \in Keys, x \notin Obj
  PROVE  /\ Plain(x) /\ x.tag \in {"Emptylist", "Boolean", "Number"}
         /\ Plain(Canonical(x)) /\ Canonical(x).tag = x.tag
         /\ Canonical(x) \in Identities /\ Canonical(x) \notin Obj
         /\ Canonical(Canonical(x)) = Canonical(x)
<1>1. \A u \in Unboxed : Plain(u)
  BY TagAssumption DEF Plain
<1>2. ASSUME NEW u, Plain(u)
      PROVE  /\ Plain(Canonical(u)) /\ Canonical(u).tag = u.tag
             /\ Canonical(Canonical(u)) = Canonical(u)
             /\ u.tag \in {"Emptylist", "Boolean", "Number"}
             /\ Canonical(u) = u \/ Canonical(u) = mkNumberValue(0)
  <2>1. CASE u = emptylistValue
    BY <2>1 DEF Canonical, Plain, emptylistValue
  <2>2. CASE u.tag = "Boolean" /\ u = mkBooleanValue(u.b)
    BY <2>2 DEF Canonical, Plain, mkBooleanValue
  <2>3. CASE u.tag = "Number" /\ u = mkNumberValue(u.n)
    BY <2>3 DEF Canonical, Plain, mkNumberValue, Truncate
  <2> QED
    BY <1>2, <2>1, <2>2, <2>3 DEF Plain
<1>3. \A u \in Unboxed : Canonical(u) \notin Obj
  BY <1>1, <1>2, ObjAssumption
<1>4. CASE x \in Unboxed
  BY <1>1, <1>2, <1>3, <1>4 DEF Identities
<1>5. CASE x \notin Unboxed
  <2>1. PICK u \in Unboxed : x = Canonical(u)
    BY <1>5 DEF Keys, Arg, Identities
  <2> QED
    BY <1>1, <1>2, <1>3, <2>1 DEF Identities
<1> QED
  BY <1>4, <1>5

\* Every identity is a key, and its own identity.
LEMMA IdOfKey ==
  ASSUME NEW x \in Keys
  PROVE  IdOf(x) \in Identities /\ Identities \subseteq Keys /\ IdOf(IdOf(x)) = IdOf(x)
<1>1. Identities \subseteq Keys
  BY DEF Keys
<1>2. CASE x \in Obj
  BY <1>1, <1>2 DEF IdOf, Identities
<1>3. CASE x \notin Obj
  BY <1>1, <1>3, PlainKeys DEF IdOf
<1> QED
  BY <1>2, <1>3

\* What the machine's value for a key tells of it.
LEMMA ValueIs == WhereKept =>
  \A x \in Keys : /\ Identity(Value(x)) = IdOf(x)
                  /\ hashvalue(Value(x)) = Hash(x)
                  /\ Value(x) = IF x \in Obj THEN mkPointerValue(ObjTag[x], where[x]) ELSE x
                  /\ Value(x).tag = IF x \in Obj THEN ObjTag[x] ELSE x.tag
<1> SUFFICES ASSUME WhereKept, NEW x \in Keys
             PROVE  /\ Identity(Value(x)) = IdOf(x)
                    /\ hashvalue(Value(x)) = Hash(x)
                    /\ Value(x) = IF x \in Obj THEN mkPointerValue(ObjTag[x], where[x]) ELSE x
                    /\ Value(x).tag = IF x \in Obj THEN ObjTag[x] ELSE x.tag
  OBVIOUS
<1>1. CASE x \in Obj
  <2>1. Value(x) = mkPointerValue(ObjTag[x], where[x])
    BY <1>1 DEF Value
  <2>2. Value(x).tag = ObjTag[x] /\ Value(x).p = where[x]
    BY <2>1 DEF mkPointerValue
  <2>3. \A o \in Obj : where[o] = where[x] <=> o = x
    BY <1>1 DEF WhereKept, IsInjective
  <2>4. (CHOOSE o \in Obj : where[o] = Value(x).p) = x
    <3>1. \A o \in Obj : where[o] = Value(x).p <=> o = x
      BY <2>2, <2>3
    <3> HIDE DEF Value
    <3> QED
      BY <1>1, <3>1
  <2>5. Identity(Value(x)) = x
    BY <1>1, <2>2, <2>4 DEF Identity
  <2>6. ObjTag[x] \notin {"Number", "Boolean"}
    BY <1>1, TagAssumption
  <2>7. hashvalue(Value(x)) = IF ObjTag[x] = "String" THEN StringHash[x] ELSE TagHash[ObjTag[x]]
    BY <2>2, <2>5, <2>6 DEF hashvalue
  <2> QED
    BY <1>1, <2>1, <2>2, <2>5, <2>7 DEF IdOf, Hash
<1>2. CASE x \notin Obj
  <2>1. Value(x) = x
    BY <1>2 DEF Value
  <2>2. x.tag \in {"Emptylist", "Boolean", "Number"}
    BY <1>2, PlainKeys
  <2>3. x.tag \notin {ObjTag[o] : o \in Obj}
    BY <2>2, TagAssumption
  <2>4. Identity(x) = Canonical(x)
    BY <2>3 DEF Identity
  <2>5. hashvalue(x) = Hash(x)
    BY <1>2, <2>2 DEF hashvalue, Hash
  <2> QED
    BY <1>2, <2>1, <2>4, <2>5 DEF IdOf
<1> QED
  BY <1>1, <1>2

\* Values are identical if their identities are equal, but for NaN.
LEMMA IdenticalIs == WhereKept =>
  \A x, y \in Keys : identical(Value(x), Value(y)) <=> IdOf(x) = IdOf(y) /\ IdOf(x) # NotANumber
<1> SUFFICES ASSUME WhereKept, NEW x \in Keys, NEW y \in Keys
             PROVE  identical(Value(x), Value(y)) <=> IdOf(x) = IdOf(y) /\ IdOf(x) # NotANumber
  OBVIOUS
<1>1. /\ Value(x) = IF x \in Obj THEN mkPointerValue(ObjTag[x], where[x]) ELSE x
      /\ Value(y) = IF y \in Obj THEN mkPointerValue(ObjTag[y], where[y]) ELSE y
      /\ Value(x).tag = IF x \in Obj THEN ObjTag[x] ELSE x.tag
      /\ Value(y).tag = IF y \in Obj THEN ObjTag[y] ELSE y.tag
  BY ValueIs
<1> HIDE DEF Value
<1>2. CASE x \in Obj /\ y \in Obj
  <2>1. ObjTag[x] \notin {"Nil", "Emptylist", "Boolean", "Number"}
    BY <1>2, TagAssumption
  <2>2. identical(Value(x), Value(y)) <=>
          ObjTag[x] = ObjTag[y] /\ Value(x) = Value(y)
    BY <1>1, <1>2, <2>1 DEF identical
  <2>3. Value(x) = Value(y) => where[x] = where[y]
    BY <1>1, <1>2 DEF mkPointerValue
  <2>4. where[x] = where[y] => x = y
    BY <1>2 DEF WhereKept, IsInjective
  <2>5. x # NotANumber
    BY <1>2, ObjAssumption DEF NotANumber
  <2> QED
    BY <1>1, <1>2, <2>2, <2>3, <2>4, <2>5 DEF IdOf
<1>3. CASE x \in Obj /\ y \notin Obj
  <2>1. ObjTag[x] # y.tag
    BY <1>3, PlainKeys, TagAssumption
  <2>2. IdOf(x) # IdOf(y)
    BY <1>3, PlainKeys DEF IdOf
  <2> QED
    BY <1>1, <1>3, <2>1, <2>2 DEF identical
<1>4. CASE x \notin Obj /\ y \in Obj
  <2>1. ObjTag[y] # x.tag
    BY <1>4, PlainKeys, TagAssumption
  <2>2. IdOf(x) # IdOf(y)
    BY <1>4, PlainKeys DEF IdOf
  <2> QED
    BY <1>1, <1>4, <2>1, <2>2 DEF identical
<1>5. CASE x \notin Obj /\ y \notin Obj
  <2>1. Value(x) = x /\ Value(y) = y /\ IdOf(x) = Canonical(x) /\ IdOf(y) = Canonical(y)
    BY <1>1, <1>5 DEF IdOf
  <2>2. Plain(x) /\ Plain(y) /\ Canonical(x).tag = x.tag /\ Canonical(y).tag = y.tag
    BY <1>5, PlainKeys
  <2>0. emptylistValue.tag = "Emptylist"
    BY DEF emptylistValue
  <2>3. CASE x.tag # y.tag
    BY <2>1, <2>2, <2>3 DEF identical
  <2>4. CASE x.tag = y.tag /\ x = emptylistValue
    <3>1. y = emptylistValue /\ x.tag = "Emptylist"
      BY <2>2, <2>4 DEF Plain, emptylistValue
    <3>2. Canonical(x) = x /\ Canonical(y) = y /\ x # NotANumber
      BY <2>4, <3>1 DEF Canonical, NotANumber, mkNumberValue
    <3> QED
      BY <2>1, <2>4, <3>1, <3>2 DEF identical
  <2>5. CASE x.tag = y.tag /\ x.tag = "Boolean"
    <3>1. x = mkBooleanValue(x.b) /\ y = mkBooleanValue(y.b)
      BY <2>0, <2>2, <2>5, Zenon DEF Plain
    <3>2. Canonical(x) = x /\ Canonical(y) = y /\ x # NotANumber
      BY <2>5 DEF Canonical, NotANumber, mkNumberValue
    <3> QED
      BY <2>1, <2>5, <3>1, <3>2 DEF identical
  <2>6. CASE x.tag = y.tag /\ x.tag = "Number"
    <3>1. x = mkNumberValue(x.n) /\ y = mkNumberValue(y.n)
      BY <2>0, <2>2, <2>6, Zenon DEF Plain
    <3>2. /\ Canonical(x) = mkNumberValue(Truncate(x.n))
          /\ Canonical(y) = mkNumberValue(Truncate(y.n))
      BY <2>6 DEF Canonical
    <3>3. \A m, n : mkNumberValue(m) = mkNumberValue(n) <=> m = n
      BY DEF mkNumberValue
    <3>4. NumberEq(x.n, y.n) <=> Truncate(x.n) = Truncate(y.n) /\ Truncate(x.n) # NaN
      BY TagAssumption DEF NumberEq, Truncate
    <3> QED
      BY <2>1, <2>6, <3>2, <3>3, <3>4 DEF identical, NotANumber
  <2> QED
    BY <2>2, <2>3, <2>4, <2>5, <2>6 DEF Plain
<1> QED
  BY <1>2, <1>3, <1>4, <1>5

\* What is identical has one hash, which is a number.
LEMMA HashIs ==
  ASSUME NEW x \in Keys
  PROVE  Hash(x) \in Nat /\ Hash(IdOf(x)) = Hash(x)
<1>1. CASE x \in Obj
  BY <1>1, HashAssumption DEF Hash, IdOf
<1>2. CASE x \notin Obj
  <2>1. /\ Plain(x) /\ x.tag \in {"Emptylist", "Boolean", "Number"}
        /\ Canonical(x).tag = x.tag /\ Canonical(x) \notin Obj
        /\ IdOf(x) = Canonical(x)
    BY <1>2, PlainKeys DEF IdOf
  <2>2. Hash(Canonical(x)) = Hash(x)
    <3>1. CASE x.tag = "Number"
      <4>1. Canonical(x).n = Truncate(x.n)
        BY <3>1 DEF Canonical, mkNumberValue
      <4>2. Truncate(Truncate(x.n)) = Truncate(x.n)
        BY DEF Truncate
      <4> QED
        BY <1>2, <2>1, <3>1, <4>1, <4>2 DEF Hash
    <3>2. CASE x.tag # "Number"
      BY <3>2 DEF Canonical
    <3> QED
      BY <3>1, <3>2
  <2>3. Hash(x) \in Nat
    <3>1. PICK u \in Unboxed : x = u \/ x = Canonical(u)
      BY <1>2 DEF Keys, Arg, Identities
    <3>2. u \in Keys /\ u \notin Obj
      BY ObjAssumption DEF Keys, Arg
    <3>3. Hash(u) \in Nat
      BY <3>2, PlainKeys, HashAssumption DEF Hash
    <3>4. Hash(Canonical(u)) = Hash(u)
      <4>1. CASE u.tag = "Number"
        <5>1. Canonical(u).n = Truncate(u.n) /\ Canonical(u).tag = u.tag
          BY <4>1 DEF Canonical, mkNumberValue
        <5>2. Truncate(Truncate(u.n)) = Truncate(u.n)
          BY DEF Truncate
        <5> QED
          BY <3>2, PlainKeys, <4>1, <5>1, <5>2 DEF Hash
      <4>2. CASE u.tag # "Number"
        BY <4>2 DEF Canonical
      <4> QED
        BY <4>1, <4>2
    <3> QED
      BY <3>1, <3>3, <3>4
  <2> QED
    BY <2>1, <2>2, <2>3
<1> QED
  BY <1>1, <1>2

-----------------------------------------------------------------------------
(* The inductive invariant *)

\* The bindings of each bucket, and all of them.  A removed one is in none.
Members == [b \in DOMAIN buckets |-> Range(Chain(b))]
Live == {p \in DOMAIN binding : \E b \in DOMAIN buckets : p \in Members[b]}

\* The identities of each binding's key and value.
KeyId == [p \in DOMAIN binding |-> Identity(binding[p].key)]
ValId == [p \in DOMAIN binding |-> Identity(binding[p].value)]

\* The number of buckets does not change, nor is it zero.
SizeKept == size \in Nat \ {0}

\* Every list ends, and no two share a binding.
ListsKept ==
  /\ \A b \in DOMAIN buckets : Spells(Chain(b), Link, NULL, buckets[b])
  /\ \A b, c \in DOMAIN buckets : b # c => Members[b] \cap Members[c] = {}

\* A key is an argument, and a value one that keys are bound to, where it is now.
ArgsKept ==
  \A p \in DOMAIN binding :
    /\ \E x \in Arg : binding[p].key = Value(x)
    /\ \E y \in Bound : binding[p].value = Value(y)

\* A binding is where a search for its key looks.
PlacesKept == \A b \in DOMAIN buckets : \A p \in Members[b] : b = Hash(KeyId[p]) % size

\* But for NaN, which nothing equals, no key has two bindings.
KeysKept == \A p, q \in Live : KeyId[p] = KeyId[q] /\ KeyId[p] # NotANumber => p = q

\* The bindings are counted.
CountKept == length = Cardinality(Live) /\ Len(binding) <= MaxBindings

IInv ==
  /\ TypeOK
  /\ WhereKept
  /\ SizeKept
  /\ ListsKept
  /\ ArgsKept
  /\ PlacesKept
  /\ KeysKept
  /\ CountKept

-----------------------------------------------------------------------------
(* What the invariant says of lists and searches *)

\* What the type invariant says of the bindings and the buckets.
LEMMA Typed == TypeOK =>
  /\ DOMAIN binding = 1..Len(binding) /\ Len(binding) \in Nat
  /\ \A p \in DOMAIN binding : binding[p] \in [link : DOMAIN binding \cup {NULL},
                                               key : Values, value : Values]
  /\ DOMAIN buckets = 0..size - 1
  /\ \A b \in DOMAIN buckets : buckets[b] \in DOMAIN binding \cup {NULL}
  /\ NULL \notin DOMAIN binding /\ IsFiniteSet(DOMAIN binding)
  /\ DOMAIN Link = DOMAIN binding /\ \A p \in DOMAIN binding : Link[p] = binding[p].link
<1> SUFFICES ASSUME TypeOK
             PROVE  /\ DOMAIN binding = 1..Len(binding) /\ Len(binding) \in Nat
                    /\ \A p \in DOMAIN binding :
                         binding[p] \in [link : DOMAIN binding \cup {NULL},
                                         key : Values, value : Values]
                    /\ DOMAIN buckets = 0..size - 1
                    /\ \A b \in DOMAIN buckets : buckets[b] \in DOMAIN binding \cup {NULL}
                    /\ NULL \notin DOMAIN binding /\ IsFiniteSet(DOMAIN binding)
                    /\ DOMAIN Link = DOMAIN binding
                    /\ \A p \in DOMAIN binding : Link[p] = binding[p].link
  OBVIOUS
<1> DEFINE Rec == [link : 1..Len(binding) \cup {NULL}, key : Values, value : Values]
<1> HIDE DEF Rec
<1>1. binding \in Seq(Rec)
  BY DEF TypeOK, Rec
<1>2. DOMAIN binding = 1..Len(binding) /\ Len(binding) \in Nat
  BY <1>1
<1>3. \A p \in DOMAIN binding : binding[p] \in Rec
  BY <1>1, <1>2, ElementOfSeq
<1>4. NULL \notin DOMAIN binding
  BY <1>2, NullAssumption
<1>5. IsFiniteSet(DOMAIN binding)
  BY <1>2, FS_Interval
<1>6. DOMAIN buckets = 0..size - 1 /\ \A b \in DOMAIN buckets : buckets[b] \in 1..Len(binding) \cup {NULL}
  BY DEF TypeOK
<1>7. DOMAIN Link = DOMAIN binding /\ \A p \in DOMAIN binding : Link[p] = binding[p].link
  BY DEF Link
<1> QED
  BY <1>2, <1>3, <1>4, <1>5, <1>6, <1>7 DEF Rec

\* What a bucket's links spell is its list.
ChainsRead ==
  \A b \in DOMAIN buckets : \A s :
    Spells(s, Link, NULL, buckets[b]) =>
      Chain(b) = s /\ Members[b] = Range(s) /\ Range(s) \subseteq DOMAIN binding

LEMMA ChainIs == TypeOK => ChainsRead
<1> SUFFICES ASSUME TypeOK, NEW b \in DOMAIN buckets, NEW s,
                    Spells(s, Link, NULL, buckets[b])
             PROVE  /\ Chain(b) = s /\ Members[b] = Range(s)
                    /\ Range(s) \subseteq DOMAIN binding
  BY DEF ChainsRead
<1>1. DOMAIN Link = DOMAIN binding /\ NULL \notin DOMAIN binding /\ IsFiniteSet(DOMAIN binding)
  BY Typed
<1>2. Chain(b) = s
  BY <1>1, ListIs DEF Chain
<1>3. s \in Seq(DOMAIN binding)
  BY <1>1 DEF Spells
<1> QED
  BY <1>2, <1>3, RangeOfSeq DEF Members

\* The members of a bucket are bindings, and live.
LEMMA MembersLive == TypeOK /\ ListsKept =>
  /\ \A b \in DOMAIN buckets :
       /\ Chain(b) \in Seq(DOMAIN binding) /\ Members[b] = Range(Chain(b))
       /\ Members[b] \subseteq Live
  /\ Live \subseteq DOMAIN binding
  /\ IsFiniteSet(Live) /\ Cardinality(Live) \in Nat /\ Cardinality(Live) <= Len(binding)
<1> SUFFICES ASSUME TypeOK, ListsKept
             PROVE  /\ \A b \in DOMAIN buckets :
                         /\ Chain(b) \in Seq(DOMAIN binding) /\ Members[b] = Range(Chain(b))
                         /\ Members[b] \subseteq Live
                    /\ Live \subseteq DOMAIN binding
                    /\ IsFiniteSet(Live) /\ Cardinality(Live) \in Nat
                    /\ Cardinality(Live) <= Len(binding)
  OBVIOUS
<1>1. ASSUME NEW b \in DOMAIN buckets
      PROVE  /\ Chain(b) \in Seq(DOMAIN binding) /\ Members[b] = Range(Chain(b))
             /\ Members[b] \subseteq Live
  <2>1. Spells(Chain(b), Link, NULL, buckets[b])
    BY DEF ListsKept
  <2>2. Members[b] = Range(Chain(b)) /\ Range(Chain(b)) \subseteq DOMAIN binding
    BY <2>1, ChainIs DEF ChainsRead
  <2>3. Chain(b) \in Seq(DOMAIN binding)
    BY <2>1, Typed DEF Spells
  <2> QED
    BY <2>2, <2>3 DEF Live
<1>2. Live \subseteq DOMAIN binding
  BY DEF Live
<1>3. IsFiniteSet(DOMAIN binding) /\ DOMAIN binding = 1..Len(binding) /\ Len(binding) \in Nat
  BY Typed
<1>4. Cardinality(DOMAIN binding) = Len(binding)
  <2>1. \A n \in Nat : Cardinality(1..n) = IF 1 > n THEN 0 ELSE n - 1 + 1
    BY FS_Interval
  <2>2. \A n \in Nat : 1 > n => n = 0
    OBVIOUS
  <2> QED
    BY <1>3, <2>1, <2>2
<1>5. IsFiniteSet(Live) /\ Cardinality(Live) <= Cardinality(DOMAIN binding)
  BY <1>2, <1>3, FS_Subset
<1> QED
  BY <1>1, <1>2, <1>4, <1>5, FS_CardinalityType

\* The identities of a binding's key and value.
LEMMA IdentitiesAre == WhereKept /\ ArgsKept =>
  \A p \in DOMAIN binding :
    /\ \E x \in Arg : binding[p].key = Value(x) /\ KeyId[p] = IdOf(x)
    /\ \E y \in Bound : binding[p].value = Value(y) /\ ValId[p] = IdOf(y)
    /\ KeyId[p] \in Identities /\ ValId[p] \in {IdOf(y) : y \in Bound}
<1> SUFFICES ASSUME WhereKept, ArgsKept, NEW p \in DOMAIN binding
             PROVE  /\ \E x \in Arg : binding[p].key = Value(x) /\ KeyId[p] = IdOf(x)
                    /\ \E y \in Bound : binding[p].value = Value(y) /\ ValId[p] = IdOf(y)
                    /\ KeyId[p] \in Identities /\ ValId[p] \in {IdOf(y) : y \in Bound}
  OBVIOUS
<1>1. PICK x \in Arg : binding[p].key = Value(x)
  BY DEF ArgsKept
<1>2. PICK y \in Bound : binding[p].value = Value(y)
  BY DEF ArgsKept
<1>3. x \in Keys /\ y \in Keys
  BY ObjAssumption DEF Keys, Arg
<1>4. Identity(Value(x)) = IdOf(x) /\ Identity(Value(y)) = IdOf(y)
  BY <1>3, ValueIs
<1>5. KeyId[p] = IdOf(x) /\ ValId[p] = IdOf(y)
  BY <1>1, <1>2, <1>4 DEF KeyId, ValId
<1> QED
  BY <1>1, <1>2, <1>3, <1>5, IdOfKey

\* A search finds the binding of its key, if there is one.
LEMMA FoundIs == IInv =>
  \A x \in Keys :
    /\ Bucket(Value(x)) = Hash(x) % size /\ Bucket(Value(x)) \in DOMAIN buckets
    /\ \A p \in DOMAIN binding :
         identical(Value(x), binding[p].key) <=> KeyId[p] = IdOf(x) /\ IdOf(x) # NotANumber
    /\ \/ /\ Found(Value(x)) = NULL
          /\ Places(Chain(Bucket(Value(x))), Value(x)) = {}
          /\ \A p \in Live : ~(KeyId[p] = IdOf(x) /\ IdOf(x) # NotANumber)
       \/ /\ Found(Value(x)) \in Live
          /\ KeyId[Found(Value(x))] = IdOf(x) /\ IdOf(x) # NotANumber
          /\ LET c == Chain(Bucket(Value(x)))
                 places == Places(c, Value(x))
             IN  /\ places # {} /\ Min(places) \in 1..Len(c)
                 /\ c[Min(places)] = Found(Value(x))
<1> SUFFICES ASSUME IInv, NEW x \in Keys
    PROVE
    /\ Bucket(Value(x)) = Hash(x) % size /\ Bucket(Value(x)) \in DOMAIN buckets
    /\ \A p \in DOMAIN binding :
         identical(Value(x), binding[p].key) <=> KeyId[p] = IdOf(x) /\ IdOf(x) # NotANumber
    /\ \/ /\ Found(Value(x)) = NULL
          /\ Places(Chain(Bucket(Value(x))), Value(x)) = {}
          /\ \A p \in Live : ~(KeyId[p] = IdOf(x) /\ IdOf(x) # NotANumber)
       \/ /\ Found(Value(x)) \in Live
          /\ KeyId[Found(Value(x))] = IdOf(x) /\ IdOf(x) # NotANumber
          /\ LET c == Chain(Bucket(Value(x)))
                 places == Places(c, Value(x))
             IN  /\ places # {} /\ Min(places) \in 1..Len(c)
                 /\ c[Min(places)] = Found(Value(x))
  OBVIOUS
<1> DEFINE v == Value(x)
           b == Bucket(v)
           c == Chain(b)
           places == Places(c, v)
<1>0. TypeOK /\ WhereKept /\ SizeKept /\ ListsKept /\ ArgsKept /\ PlacesKept /\ KeysKept
  BY DEF IInv
<1>1. b = Hash(x) % size /\ b \in DOMAIN buckets
  <2>1. hashvalue(v) = Hash(x) /\ Hash(x) \in Nat
    BY <1>0, ValueIs, HashIs
  <2>2. DOMAIN buckets = 0..size - 1 /\ size \in Nat \ {0}
    BY <1>0, Typed DEF SizeKept
  <2>3. \A h \in Nat, n \in Nat \ {0} : h % n \in 0..n - 1
    OBVIOUS
  <2> HIDE DEF v
  <2> QED
    BY <2>1, <2>2, <2>3 DEF Bucket
<1>2. ASSUME NEW p \in DOMAIN binding
      PROVE  identical(v, binding[p].key) <=> KeyId[p] = IdOf(x) /\ IdOf(x) # NotANumber
  <2>1. PICK y \in Arg : binding[p].key = Value(y) /\ KeyId[p] = IdOf(y)
    BY <1>0, IdentitiesAre
  <2>2. y \in Keys
    BY DEF Keys
  <2>3. identical(v, Value(y)) <=> IdOf(x) = IdOf(y) /\ IdOf(x) # NotANumber
    BY <1>0, <2>2, IdenticalIs
  <2> QED
    BY <2>1, <2>3
<1> HIDE DEF v, b
<1>3. /\ c \in Seq(DOMAIN binding) /\ Members[b] = Range(c) /\ Members[b] \subseteq Live
      /\ Live \subseteq DOMAIN binding
  BY <1>0, <1>1, MembersLive
<1>4. PICK n \in Nat : n = Len(c) /\ DOMAIN c = 1..n
  BY <1>3
<1>5. /\ \A j \in 1..n : c[j] \in DOMAIN binding /\ c[j] \in Members[b]
      /\ \A p \in Members[b] : \E j \in 1..n : c[j] = p
  <2>1. Range(c) = {c[j] : j \in 1..n}
    BY <1>3, <1>4, RangeEquality
  <2>2. \A j \in 1..n : c[j] \in DOMAIN binding
    BY <1>3, <1>4, ElementOfSeq
  <2> QED
    BY <1>3, <2>1, <2>2
<1>6. places \subseteq 1..n /\ \A j \in 1..n : j \in places <=> identical(v, binding[c[j]].key)
  BY <1>4 DEF Places
<1>7. Found(v) = IF places = {} THEN NULL ELSE c[Min(places)]
  BY DEF Found, b
<1>8. CASE places = {}
  <2>1. ASSUME NEW p \in Live, KeyId[p] = IdOf(x), IdOf(x) # NotANumber PROVE FALSE
    <3>1. PICK d \in DOMAIN buckets : p \in Members[d]
      BY DEF Live
    <3>2. d = Hash(KeyId[p]) % size
      BY <1>0, <3>1 DEF PlacesKept
    <3>3. d = b
      BY <1>1, <2>1, <3>2, HashIs
    <3>4. PICK j \in 1..n : c[j] = p
      BY <1>5, <3>1, <3>3
    <3>5. p \in DOMAIN binding
      BY <1>3
    <3>6. identical(v, binding[p].key)
      BY <1>2, <2>1, <3>5
    <3> QED
      BY <1>6, <1>8, <3>4, <3>6
  <2>2. Found(v) = NULL
    BY <1>7, <1>8
  <2> QED
    BY <1>1, <1>2, <1>8, <2>1, <2>2 DEF v, b
<1>9. CASE places # {}
  <2>1. Min(places) \in places
    <3>1. places \in SUBSET Nat
      BY <1>6
    <3>2. PICK least \in places : \A k \in places : least <= k
      BY <1>9, <3>1, LeastExists
    <3>3. Min(places) = CHOOSE l \in places : \A k \in places : l <= k
      BY DEF Min
    <3> HIDE DEF places
    <3> QED
      BY <3>2, <3>3
  <2> DEFINE m == Min(places)
  <2>2. m \in 1..n /\ identical(v, binding[c[m]].key) /\ c[m] \in DOMAIN binding /\ c[m] \in Live
    BY <1>3, <1>5, <1>6, <2>1
  <2>3. Found(v) = c[m]
    BY <1>7, <1>9
  <2>4. KeyId[c[m]] = IdOf(x) /\ IdOf(x) # NotANumber
    BY <1>2, <2>2
  <2> QED
    BY <1>1, <1>2, <1>4, <1>9, <2>2, <2>3, <2>4 DEF v, b
<1> QED
  BY <1>8, <1>9

\* What a binding's key and value are the values of.
IdsRead ==
  \A p \in DOMAIN binding : \A x \in Keys :
    /\ binding[p].key = Value(x) => KeyId[p] = IdOf(x)
    /\ binding[p].value = Value(x) => ValId[p] = IdOf(x)

LEMMA IdIs == WhereKept => IdsRead
BY ValueIs DEF IdsRead, KeyId, ValId

\* Arguments are values.
LEMMA ValueType == WhereKept => \A x \in Arg : Value(x) \in Values
<1> SUFFICES ASSUME WhereKept, NEW x \in Arg PROVE Value(x) \in Values
  OBVIOUS
<1>1. CASE x \in Obj
  <2>1. where[x] \in Nat
    <3>1. where[x] \in 1..2 * Cardinality(Obj) /\ Cardinality(Obj) \in Nat
      BY <1>1, ObjAssumption, FS_CardinalityType DEF WhereKept
    <3> QED
      BY <3>1
  <2> QED
    BY <1>1, <2>1 DEF Value, Values, mkPointerValue
<1>2. CASE x \notin Obj
  BY <1>2 DEF Arg, Value, Values
<1> QED
  BY <1>1, <1>2

-----------------------------------------------------------------------------
(* The steps *)

\* A new table.
LEMMA InitIInv == Init => IInv
<1> SUFFICES ASSUME Init PROVE IInv
  OBVIOUS
<1>1. PICK n \in Nat \ {0} : buckets = [b \in 0..n - 1 |-> NULL]
  <2>1. PICK hint \in Hint : buckets = [b \in 0..SizeFor(hint) - 1 |-> NULL]
    BY DEF Init
  <2> DEFINE S == {i \in 2..Len(primes) : primes[i] >= hint}
  <2>0. INT_MAX \in Nat \ {0}
    BY SMT DEF INT_MAX
  <2>2. Len(primes) = 17 /\ primes[17] = INT_MAX
    BY SMT DEF primes
  <2>3. 17 \in S /\ S \in SUBSET Nat
    BY <2>0, <2>2, SizeAssumption
  <2>4. PICK m \in S : \A k \in S : m <= k
    BY <2>3, LeastExists
  <2>5. Min(S) = CHOOSE k \in S : \A l \in S : k <= l
    BY DEF Min
  <2> HIDE DEF S
  <2>6. Min(S) \in S
    BY <2>4, <2>5
  <2>7. Min(S) - 1 \in 1..16
    BY <2>2, <2>6 DEF S
  <2>8. \A k \in 1..16 : primes[k] \in Nat \ {0}
    BY <2>0, SMT DEF primes
  <2>9. SizeFor(hint) = primes[Min(S) - 1]
    BY DEF SizeFor, S
  <2> QED
    BY <2>1, <2>7, <2>8, <2>9
<1>2. DOMAIN buckets = 0..n - 1 /\ \A b \in DOMAIN buckets : buckets[b] = NULL
  BY <1>1
<1>3. size = n
  <2>1. \A a, b \in Int : Cardinality(a..b) = IF a > b THEN 0 ELSE b - a + 1
    BY FS_Interval
  <2>2. n - 1 \in Int /\ 0 \in Int /\ ~(0 > n - 1) /\ n - 1 - 0 + 1 = n
    OBVIOUS
  <2>3. Cardinality(0..n - 1) = n
    BY <2>1, <2>2
  <2> QED
    BY <1>2, <2>3 DEF size
<1>4. binding = <<>> /\ length = 0 /\ where = Placed /\ outcome = "running"
  BY DEF Init
<1>5. DOMAIN binding = {} /\ Len(binding) = 0
  BY <1>4
<1>6. WhereKept
  <2>1. Cardinality(Obj) \in Nat
    BY ObjAssumption, FS_CardinalityType
  <2>2. Placed \in [Obj -> 1..2 * Cardinality(Obj)]
    BY <2>1, ObjAssumption
  <2> QED
    BY <1>4, <2>2, ObjAssumption DEF WhereKept
<1>7. TypeOK
  <2>1. buckets \in [0..size - 1 -> 1..Len(binding) \cup {NULL}]
    BY <1>1, <1>3
  <2> QED
    BY <1>4, <1>6, <2>1, SizeAssumption DEF TypeOK, WhereKept
<1>8. ASSUME NEW b \in DOMAIN buckets
      PROVE  Spells(Chain(b), Link, NULL, buckets[b]) /\ Members[b] = {}
  <2>1. Spells(<<>>, Link, NULL, buckets[b]) /\ Range(<<>>) = {}
    BY <1>2, SpellsNull
  <2>2. Chain(b) = <<>> /\ Members[b] = Range(<<>>)
    BY <1>7, <2>1, ChainIs DEF ChainsRead
  <2> QED
    BY <2>1, <2>2
<1>9. Live = {}
  BY <1>8 DEF Live
<1>10. Cardinality(Live) = 0
  BY <1>9, FS_EmptySet
<1>11. CountKept
  BY <1>4, <1>5, <1>10, SizeAssumption DEF CountKept
<1> QED
  BY <1>3, <1>5, <1>6, <1>7, <1>8, <1>9, <1>11
  DEF IInv, SizeKept, ListsKept, ArgsKept, PlacesKept, KeysKept

\* Putting a key that has a binding changes that binding's value.
LEMMA RebindStep ==
  ASSUME IInv, NEW x \in Arg, NEW y \in Bound, Rebind(x, y), where' = where,
         outcome' = outcome
  PROVE  /\ IInv' /\ Live' = Live /\ KeyId' = KeyId
         /\ \E p \in Live : /\ KeyId[p] = IdOf(x)
                            /\ ValId'[p] = IdOf(y)
                            /\ \A q \in DOMAIN binding : q # p => ValId'[q] = ValId[q]
<1> DEFINE p == Found(Value(x))
           Rec == [link : 1..Len(binding) \cup {NULL}, key : Values, value : Values]
<1>0. /\ TypeOK /\ WhereKept /\ SizeKept /\ ListsKept /\ ArgsKept /\ PlacesKept /\ KeysKept
      /\ CountKept
  BY DEF IInv
<1>a. x \in Keys /\ y \in Keys /\ y \in Arg
  BY ObjAssumption DEF Keys, Arg
<1>1. p \in Live /\ KeyId[p] = IdOf(x) /\ p \in DOMAIN binding
  <2>1. p # NULL
    BY DEF Rebind
  <2>2. p \in Live /\ KeyId[p] = IdOf(x)
    BY <1>a, <2>1, FoundIs
  <2> QED
    BY <2>2 DEF Live
<1>2. binding' = [binding EXCEPT ![p].value = Value(y)] /\ buckets' = buckets /\ length' = length
  BY DEF Rebind, table
<1> HIDE DEF p
<1>3. /\ DOMAIN binding = 1..Len(binding) /\ Len(binding) \in Nat
      /\ \A q \in DOMAIN binding : binding[q] \in Rec
  BY <1>0, Typed
<1>4. Value(y) \in Values
  BY <1>0, <1>a, ValueType
<1>5. /\ DOMAIN binding' = DOMAIN binding
      /\ \A q \in DOMAIN binding :
           binding'[q] = IF q = p THEN [binding[q] EXCEPT !.value = Value(y)] ELSE binding[q]
  BY <1>1, <1>2
<1>6. \A q \in DOMAIN binding :
        /\ binding'[q] \in Rec
        /\ binding'[q].link = binding[q].link /\ binding'[q].key = binding[q].key
        /\ binding'[q].value = IF q = p THEN Value(y) ELSE binding[q].value
  BY <1>3, <1>4, <1>5
<1>7. binding' \in Seq(Rec) /\ Len(binding') = Len(binding)
  <2>1. binding' = [q \in 1..Len(binding) |-> binding'[q]]
    BY <1>2, <1>3
  <2> HIDE DEF Rec
  <2>2. binding' \in [1..Len(binding) -> Rec]
    BY <1>3, <1>6, <2>1
  <2> QED
    BY <1>3, <2>2
<1>8. TypeOK'
  <2>1. size' = size
    BY <1>2 DEF size
  <2> QED
    BY <1>0, <1>2, <1>7, <2>1 DEF TypeOK
<1>9. Link' = Link
  BY <1>5, <1>6 DEF Link
<1>10. Members' = Members /\ \A b \in DOMAIN buckets : Chain(b)' = Chain(b)
  BY <1>2, <1>9 DEF Members, Chain
<1>11. Live' = Live
  BY <1>2, <1>5, <1>10 DEF Live
<1>12. WhereKept' /\ \A z \in Keys : Value(z)' = Value(z)
  BY <1>0 DEF WhereKept, Value
<1>13. ArgsKept'
  <2> SUFFICES ASSUME NEW q \in DOMAIN binding'
               PROVE  /\ \E z \in Arg : binding'[q].key = Value(z)'
                      /\ \E z \in Bound : binding'[q].value = Value(z)'
    BY DEF ArgsKept
  <2>1. \A z \in Arg \cup Bound : z \in Keys
    BY ObjAssumption DEF Keys, Arg
  <2> HIDE DEF Rec
  <2> QED
    BY <1>0, <1>5, <1>6, <1>12, <2>1 DEF ArgsKept
<1>14. ASSUME NEW q \in DOMAIN binding
       PROVE  KeyId'[q] = KeyId[q] /\ ValId'[q] = IF q = p THEN IdOf(y) ELSE ValId[q]
  <2>1. PICK z \in Arg : binding[q].key = Value(z) /\ KeyId[q] = IdOf(z)
    BY <1>0, IdentitiesAre
  <2>2. PICK w \in Bound : binding[q].value = Value(w) /\ ValId[q] = IdOf(w)
    BY <1>0, IdentitiesAre
  <2>3. z \in Keys /\ w \in Keys
    BY ObjAssumption DEF Keys, Arg
  <2>4. \A u \in Keys : /\ binding'[q].key = Value(u)' => KeyId'[q] = IdOf(u)
                        /\ binding'[q].value = Value(u)' => ValId'[q] = IdOf(u)
    <3>1. WhereKept' => IdsRead'
      BY IdIs, PTL
    <3> QED
      BY <1>5, <1>12, <3>1 DEF IdsRead
  <2> QED
    BY <1>6, <1>12, <1>a, <2>1, <2>2, <2>3, <2>4
<1>15. KeyId' = KeyId
  BY <1>5, <1>14 DEF KeyId
<1>16. ListsKept'
  BY <1>0, <1>2, <1>9, <1>10 DEF ListsKept
<1>17. PlacesKept' /\ SizeKept'
  BY <1>0, <1>2, <1>10, <1>15 DEF PlacesKept, SizeKept, size
<1>18. KeysKept' /\ CountKept'
  BY <1>0, <1>2, <1>7, <1>11, <1>15 DEF KeysKept, CountKept
<1> QED
  BY <1>1, <1>8, <1>11, <1>12, <1>13, <1>14, <1>15, <1>16, <1>17, <1>18 DEF IInv

\* What a binding's key and value are does not change as long as nothing moves.
LEMMA IdsKept ==
  ASSUME IInv, where' = where,
         \A q \in DOMAIN binding : /\ q \in DOMAIN binding'
                                   /\ binding'[q].key = binding[q].key
                                   /\ binding'[q].value = binding[q].value
  PROVE  /\ \A q \in DOMAIN binding : KeyId'[q] = KeyId[q] /\ ValId'[q] = ValId[q]
         /\ WhereKept' /\ \A z \in Keys : Value(z)' = Value(z)
<1>1. WhereKept /\ ArgsKept
  BY DEF IInv
<1>2. WhereKept' /\ \A z \in Keys : Value(z)' = Value(z)
  BY <1>1 DEF WhereKept, Value
<1>3. IdsRead'
  <2>1. WhereKept' => IdsRead'
    BY IdIs, PTL
  <2> QED
    BY <1>2, <2>1
<1>4. ASSUME NEW q \in DOMAIN binding PROVE KeyId'[q] = KeyId[q] /\ ValId'[q] = ValId[q]
  <2>1. PICK z \in Arg : binding[q].key = Value(z) /\ KeyId[q] = IdOf(z)
    BY <1>1, IdentitiesAre
  <2>2. PICK w \in Bound : binding[q].value = Value(w) /\ ValId[q] = IdOf(w)
    BY <1>1, IdentitiesAre
  <2>3. z \in Keys /\ w \in Keys
    BY ObjAssumption DEF Keys, Arg
  <2> QED
    BY <1>2, <1>3, <2>1, <2>2, <2>3 DEF IdsRead
<1> QED
  BY <1>2, <1>4

\* Putting another key makes a binding, the first of its list.
LEMMA PrependStep ==
  ASSUME IInv, NEW x \in Arg, NEW y \in Bound, Prepend(x, y), where' = where,
         outcome' = outcome
  PROVE  /\ IInv'
         /\ \A q \in Live : ~(KeyId[q] = IdOf(x) /\ IdOf(x) # NotANumber)
         /\ \E n : /\ n \notin Live /\ Live' = Live \cup {n}
                   /\ KeyId'[n] = IdOf(x) /\ ValId'[n] = IdOf(y)
         /\ \A q \in Live : KeyId'[q] = KeyId[q] /\ ValId'[q] = ValId[q]
<1> DEFINE n == Len(binding) + 1
           b == Bucket(Value(x))
           new == [link |-> buckets[b], key |-> Value(x), value |-> Value(y)]
           Rec == [link : 1..Len(binding) \cup {NULL}, key : Values, value : Values]
           Rec2 == [link : 1..n \cup {NULL}, key : Values, value : Values]
<1>0. /\ TypeOK /\ WhereKept /\ SizeKept /\ ListsKept /\ ArgsKept /\ PlacesKept /\ KeysKept
      /\ CountKept
  BY DEF IInv
<1>a. x \in Keys /\ y \in Keys /\ y \in Arg
  BY ObjAssumption DEF Keys, Arg
<1>1. /\ b = Hash(x) % size /\ b \in DOMAIN buckets
      /\ \A q \in Live : ~(KeyId[q] = IdOf(x) /\ IdOf(x) # NotANumber)
  <2>1. Found(Value(x)) = NULL
    BY DEF Prepend
  <2>2. NULL \notin Live
    BY <1>0, Typed DEF Live
  <2> QED
    BY <1>a, <2>1, <2>2, FoundIs
<1>2. /\ binding' = Append(binding, new)
      /\ buckets' = [buckets EXCEPT ![b] = n]
      /\ length' = length + 1 /\ Len(binding) < MaxBindings
  BY DEF Prepend
<1>3. /\ DOMAIN binding = 1..Len(binding) /\ Len(binding) \in Nat
      /\ \A q \in DOMAIN binding : binding[q] \in Rec
      /\ DOMAIN buckets = 0..size - 1
      /\ \A d \in DOMAIN buckets : buckets[d] \in DOMAIN binding \cup {NULL}
      /\ NULL \notin DOMAIN binding /\ DOMAIN Link = DOMAIN binding
      /\ \A q \in DOMAIN binding : Link[q] = binding[q].link
  BY <1>0, Typed
<1>4. new \in Rec2 /\ n \in Nat /\ n # NULL
  BY <1>0, <1>1, <1>3, <1>a, ValueType, NullAssumption
<1> HIDE DEF b
<1>5. /\ DOMAIN binding' = DOMAIN binding \cup {n} /\ n \notin DOMAIN binding
      /\ binding' \in Seq(Rec2) /\ Len(binding') = n
      /\ binding'[n] = new /\ \A q \in DOMAIN binding : binding'[q] = binding[q]
  <2> DEFINE N == Len(binding)
  <2>1. Rec \subseteq Rec2
    <3>1. 1..N \subseteq 1..N + 1
      BY <1>3
    <3> QED
      BY <3>1
  <2> HIDE DEF Rec, Rec2
  <2>2. binding \in Seq(Rec2)
    <3>1. binding \in Seq(Rec)
      BY <1>0 DEF TypeOK, Rec
    <3> QED
      BY <2>1, <3>1, SeqMonotonic
  <2>3. new \in Rec2
    BY <1>4
  <2> HIDE DEF new
  <2>4. /\ Append(binding, new) \in Seq(Rec2) /\ Len(Append(binding, new)) = N + 1
        /\ \A q \in 1..N : Append(binding, new)[q] = binding[q]
        /\ Append(binding, new)[N + 1] = new
    BY <2>2, <2>3, AppendProperties
  <2>5. DOMAIN binding' = 1..N + 1
    BY <1>2, <2>4
  <2>6. 1..N + 1 = 1..N \cup {N + 1} /\ N + 1 \notin 1..N
    BY <1>3
  <2> QED
    BY <1>2, <1>3, <2>4, <2>5, <2>6
<1>6. /\ DOMAIN buckets' = DOMAIN buckets /\ buckets'[b] = n /\ size' = size
      /\ \A d \in DOMAIN buckets : d # b => buckets'[d] = buckets[d]
  BY <1>1, <1>2 DEF size
<1>7. TypeOK'
  <2>1. buckets' \in [0..size - 1 -> 1..n \cup {NULL}]
    <3>1. \A d \in DOMAIN buckets : buckets'[d] \in 1..n \cup {NULL}
      BY <1>3, <1>5, <1>6
    <3>2. buckets' = [d \in DOMAIN buckets |-> buckets'[d]]
      BY <1>2
    <3> QED
      BY <1>3, <3>1, <3>2
  <2>2. length' \in 0..MaxBindings
    <3>1. length \in Nat /\ length <= Len(binding)
      BY <1>0, MembersLive DEF CountKept
    <3> QED
      BY <1>2, <1>3, <3>1, SizeAssumption
  <2>3. binding' \in Seq([link : 1..Len(binding') \cup {NULL}, key : Values, value : Values])
    BY <1>5
  <2>4. where' \in [Obj -> 1..2 * Cardinality(Obj)] /\ outcome' \in {"running", "crashed"}
    BY <1>0 DEF TypeOK
  <2> QED
    BY <1>5, <1>6, <2>1, <2>2, <2>3, <2>4 DEF TypeOK
<1>8. /\ DOMAIN Link' = DOMAIN binding \cup {n} /\ Link'[n] = buckets[b]
      /\ \A q \in DOMAIN binding : Link'[q] = Link[q]
  BY <1>3, <1>5 DEF Link
<1>9. NULL \notin DOMAIN Link'
  BY <1>3, <1>4, <1>8
<1>10. ChainsRead'
  <2>1. TypeOK' => ChainsRead'
    BY ChainIs, PTL
  <2> QED
    BY <1>7, <2>1
<1>11. ASSUME NEW d \in DOMAIN buckets
       PROVE  /\ Spells(Chain(d), Link', NULL, buckets[d])
              /\ Members[d] = Range(Chain(d)) /\ Members[d] \subseteq Live
              /\ Live \subseteq DOMAIN binding
  <2>1. Spells(Chain(d), Link, NULL, buckets[d])
    BY <1>0 DEF ListsKept
  <2>2. /\ Members[d] = Range(Chain(d)) /\ Members[d] \subseteq Live
        /\ Live \subseteq DOMAIN binding
    BY <1>0, MembersLive
  <2>3. \A q \in Range(Chain(d)) : q \in DOMAIN Link' /\ Link'[q] = Link[q]
    BY <1>8, <2>2
  <2>4. Spells(Chain(d), Link', NULL, buckets[d])
    BY <2>1, <2>3, SpellsAgree
  <2> QED
    BY <2>2, <2>4
<1>12. ASSUME NEW d \in DOMAIN buckets
       PROVE  /\ Spells(Chain(d)', Link', NULL, buckets'[d])
              /\ Members'[d] = IF d = b THEN Members[d] \cup {n} ELSE Members[d]
  <2>1. CASE d = b
    <3> DEFINE s == <<n>> \o Chain(b)
    <3>1. n \in DOMAIN Link' /\ Link'[n] = buckets[b] /\ Spells(Chain(b), Link', NULL, buckets[b])
      BY <1>1, <1>8, <1>11
    <3>2. Spells(s, Link', NULL, n) /\ Range(s) = {n} \cup Range(Chain(b))
      BY <1>9, <3>1, SpellsCons
    <3> HIDE DEF s
    <3>3. Spells(s, Link', NULL, buckets'[d]) /\ d \in DOMAIN buckets'
      BY <1>1, <1>6, <2>1, <3>2
    <3>4. Chain(d)' = s /\ Members'[d] = Range(s)
      BY <1>10, <3>3 DEF ChainsRead
    <3> QED
      BY <1>1, <1>11, <2>1, <3>2, <3>3, <3>4
  <2>2. CASE d # b
    <3>1. Spells(Chain(d), Link', NULL, buckets'[d]) /\ d \in DOMAIN buckets'
      BY <1>6, <1>11, <2>2
    <3>2. Chain(d)' = Chain(d) /\ Members'[d] = Range(Chain(d))
      BY <1>10, <3>1 DEF ChainsRead
    <3> QED
      BY <1>11, <2>2, <3>1, <3>2
  <2> QED
    BY <2>1, <2>2
<1>13. Live' = Live \cup {n} /\ n \notin Live /\ Live \subseteq DOMAIN binding
  <2>1. Live' = {q \in DOMAIN binding' : \E d \in DOMAIN buckets' : q \in Members'[d]}
    BY DEF Live
  <2>2. Live = {q \in DOMAIN binding : \E d \in DOMAIN buckets : q \in Members[d]}
    BY DEF Live
  <2>a. n \in Live'
    BY <1>1, <1>5, <1>6, <1>12, <2>1
  <2>b. \A q \in Live : q \in Live'
    BY <1>5, <1>6, <1>12, <2>1, <2>2
  <2>c. ASSUME NEW q \in Live' PROVE q \in Live \/ q = n
    <3>1. PICK d \in DOMAIN buckets : q \in Members'[d]
      BY <1>6, <2>1
    <3>2. q \in Members[d] \/ q = n
      BY <1>12, <3>1
    <3> QED
      BY <1>11, <3>2
  <2>3. \A q : q \in Live' <=> q \in Live \/ q = n
    BY <2>a, <2>b, <2>c
  <2> QED
    BY <1>5, <2>2, <2>3
<1>14. ListsKept'
  <2>1. \A d \in DOMAIN buckets : n \notin Members[d]
    BY <1>11, <1>13
  <2>2. \A d, e \in DOMAIN buckets : d # e => Members'[d] \cap Members'[e] = {}
    BY <1>0, <1>12, <2>1 DEF ListsKept
  <2> QED
    BY <1>6, <1>12, <2>2 DEF ListsKept
<1>15. /\ \A q \in DOMAIN binding : KeyId'[q] = KeyId[q] /\ ValId'[q] = ValId[q]
       /\ WhereKept' /\ \A z \in Keys : Value(z)' = Value(z)
  BY <1>5, IdsKept
<1>16. KeyId'[n] = IdOf(x) /\ ValId'[n] = IdOf(y)
  <2>1. WhereKept' => IdsRead'
    BY IdIs, PTL
  <2>2. binding'[n].key = Value(x)' /\ binding'[n].value = Value(y)'
    BY <1>5, <1>15, <1>a
  <2> QED
    BY <1>5, <1>15, <1>a, <2>1, <2>2 DEF IdsRead
<1>17. ArgsKept'
  <2> SUFFICES ASSUME NEW q \in DOMAIN binding'
               PROVE  /\ \E z \in Arg : binding'[q].key = Value(z)'
                      /\ \E z \in Bound : binding'[q].value = Value(z)'
    BY DEF ArgsKept
  <2>1. \A z \in Arg \cup Bound : z \in Keys
    BY ObjAssumption DEF Keys, Arg
  <2>2. CASE q = n
    BY <1>5, <1>15, <2>1, <2>2
  <2>3. CASE q \in DOMAIN binding
    BY <1>0, <1>5, <1>15, <2>1, <2>3 DEF ArgsKept
  <2> QED
    BY <1>5, <2>2, <2>3
<1>18. PlacesKept'
  <2> SUFFICES ASSUME NEW d \in DOMAIN buckets, NEW q \in Members'[d]
               PROVE  d = Hash(KeyId'[q]) % size
    BY <1>6 DEF PlacesKept
  <2>1. CASE q = n
    <3>1. d = b
      BY <1>11, <1>12, <1>13, <2>1
    <3> QED
      BY <1>1, <1>16, <1>a, <2>1, <3>1, HashIs
  <2>2. CASE q # n
    <3>1. q \in Members[d] /\ q \in DOMAIN binding
      BY <1>11, <1>12, <2>2
    <3> QED
      BY <1>0, <1>15, <3>1 DEF PlacesKept
  <2> QED
    BY <2>1, <2>2
<1>19. KeysKept'
  <2> SUFFICES ASSUME NEW q \in Live', NEW r \in Live',
                      KeyId'[q] = KeyId'[r], KeyId'[q] # NotANumber
               PROVE  q = r
    BY DEF KeysKept
  <2>1. CASE q \in Live /\ r \in Live
    BY <1>0, <1>13, <1>15, <2>1 DEF KeysKept
  <2>2. CASE q = n /\ r \in Live
    BY <1>1, <1>13, <1>15, <1>16, <2>2
  <2>3. CASE q \in Live /\ r = n
    BY <1>1, <1>13, <1>15, <1>16, <2>3
  <2> QED
    BY <1>13, <2>1, <2>2, <2>3
<1>20. CountKept'
  <2>1. Cardinality(Live \cup {n}) = Cardinality(Live) + 1
    BY <1>0, <1>13, MembersLive, FS_AddElement
  <2>2. n <= MaxBindings
    BY <1>2, <1>3, SizeAssumption
  <2> QED
    BY <1>0, <1>2, <1>5, <1>13, <2>1, <2>2 DEF CountKept
<1>21. SizeKept'
  BY <1>0, <1>6 DEF SizeKept
<1>22. IInv'
  BY <1>7, <1>14, <1>15, <1>17, <1>18, <1>19, <1>20, <1>21 DEF IInv
<1>23. \A q \in Live : KeyId'[q] = KeyId[q] /\ ValId'[q] = ValId[q]
  BY <1>13, <1>15
<1> QED
  BY <1>1, <1>13, <1>16, <1>22, <1>23

\* What changes neither the bindings nor the buckets.
LEMMA StutterStep ==
  ASSUME IInv, UNCHANGED <<where, binding, table>>, outcome' \in {"running", "crashed"}
  PROVE  /\ IInv' /\ Live' = Live
         /\ \A q \in Live : KeyId'[q] = KeyId[q] /\ ValId'[q] = ValId[q]
<1>1. where' = where /\ binding' = binding /\ buckets' = buckets /\ length' = length
  BY DEF table
<1>2. /\ TypeOK /\ WhereKept /\ SizeKept /\ ListsKept /\ ArgsKept /\ PlacesKept /\ KeysKept
      /\ CountKept
  BY DEF IInv
<1>3. /\ \A q \in DOMAIN binding : KeyId'[q] = KeyId[q] /\ ValId'[q] = ValId[q]
      /\ WhereKept' /\ \A z \in Keys : Value(z)' = Value(z)
  BY <1>1, IdsKept
<1>4. KeyId' = KeyId
  BY <1>1, <1>3 DEF KeyId
<1>5. Link' = Link
  BY <1>1 DEF Link
<1>6. Members' = Members /\ \A b \in DOMAIN buckets : Chain(b)' = Chain(b)
  BY <1>1, <1>5 DEF Members, Chain
<1>7. Live' = Live /\ Live \subseteq DOMAIN binding
  BY <1>1, <1>6 DEF Live
<1>8. TypeOK' /\ SizeKept' /\ size' = size
  BY <1>1, <1>2 DEF TypeOK, SizeKept, size
<1>9. ArgsKept'
  <2>1. \A z \in Arg \cup Bound : z \in Keys
    BY ObjAssumption DEF Keys, Arg
  <2> QED
    BY <1>1, <1>2, <1>3, <2>1 DEF ArgsKept
<1>10. ListsKept' /\ PlacesKept'
  BY <1>1, <1>2, <1>4, <1>5, <1>6, <1>8 DEF ListsKept, PlacesKept
<1>11. KeysKept' /\ CountKept'
  BY <1>1, <1>2, <1>4, <1>7 DEF KeysKept, CountKept
<1> QED
  BY <1>3, <1>7, <1>8, <1>9, <1>10, <1>11 DEF IInv

\* Unlink leaves a list without the binding at place j, and the others alone.
LEMMA UnlinkStep ==
  ASSUME IInv, NEW b \in DOMAIN buckets, NEW j \in 1..Len(Chain(b)), Unlink(b, Chain(b), j),
         where' = where, outcome' \in {"running", "crashed"}, length' = length - 1
  PROVE  /\ IInv'
         /\ Chain(b)[j] \in Live /\ Live' = Live \ {Chain(b)[j]}
         /\ \A q \in Live : KeyId'[q] = KeyId[q] /\ ValId'[q] = ValId[q]
<1> DEFINE c == Chain(b)
           p == c[j]
           next == binding[p].link
           Rec == [link : 1..Len(binding) \cup {NULL}, key : Values, value : Values]
           Relinked ==
             /\ \E t : Spells(t, Link', NULL, buckets'[b]) /\ Range(t) = Members[b] \ {p}
             /\ \A d \in DOMAIN buckets : d # b => Spells(Chain(d), Link', NULL, buckets'[d])
             /\ binding' \in Seq(Rec) /\ Len(binding') = Len(binding)
             /\ DOMAIN binding' = DOMAIN binding
             /\ \A q \in DOMAIN binding : /\ binding'[q].key = binding[q].key
                                           /\ binding'[q].value = binding[q].value
             /\ DOMAIN buckets' = DOMAIN buckets
             /\ buckets' \in [DOMAIN buckets -> 1..Len(binding) \cup {NULL}]
<1>0. /\ TypeOK /\ WhereKept /\ SizeKept /\ ListsKept /\ ArgsKept /\ PlacesKept /\ KeysKept
      /\ CountKept
  BY DEF IInv
<1>1. /\ DOMAIN binding = 1..Len(binding) /\ Len(binding) \in Nat
      /\ \A q \in DOMAIN binding : binding[q] \in Rec
      /\ DOMAIN buckets = 0..size - 1
      /\ \A d \in DOMAIN buckets : buckets[d] \in DOMAIN binding \cup {NULL}
      /\ NULL \notin DOMAIN Link /\ DOMAIN Link = DOMAIN binding
      /\ \A q \in DOMAIN binding : Link[q] = binding[q].link
  BY <1>0, Typed
<1>2. \A d \in DOMAIN buckets : /\ Spells(Chain(d), Link, NULL, buckets[d])
                                /\ Members[d] = Range(Chain(d)) /\ Members[d] \subseteq Live
                                /\ Live \subseteq DOMAIN binding
  BY <1>0, MembersLive DEF ListsKept
<1>3. c \in Seq(DOMAIN binding) /\ Len(c) \in Nat /\ c # <<>> /\ c[1] = buckets[b]
  <2>1. Spells(c, Link, NULL, buckets[b])
    BY <1>2
  <2>2. c \in Seq(DOMAIN binding) /\ Len(c) \in Nat
    BY <1>1, <2>1 DEF Spells
  <2>3. c # <<>>
    BY <2>2
  <2> QED
    BY <2>1, <2>2, <2>3 DEF Spells
<1>4. p \in Members[b] /\ p \in DOMAIN binding /\ p \in Live
  <2>1. Range(c) = {c[k] : k \in 1..Len(c)}
    BY <1>3, RangeEquality
  <2> QED
    BY <1>2, <2>1
<1>5. next \in 1..Len(binding) \cup {NULL} /\ next = Link[p]
  BY <1>1, <1>4
<1> HIDE DEF c
<1>6. ASSUME j = 1 PROVE Relinked
  <2>1. buckets' = [buckets EXCEPT ![b] = next] /\ binding' = binding
    BY <1>6 DEF Unlink, c
  <2>2. Link' = Link
    BY <2>1 DEF Link
  <2>3. p = buckets[b] /\ p # NULL
    BY <1>1, <1>3, <1>4, <1>6
  <2>4. Spells(c, Link, NULL, p)
    BY <1>2, <2>3 DEF c
  <2> HIDE DEF p
  <2>5. Spells(Tail(c), Link, NULL, Link[p]) /\ Range(c) = {p} \cup Range(Tail(c))
    BY <1>1, <2>3, <2>4, SpellsTail
  <2>6. p \notin Range(Tail(c))
    BY <1>1, <2>3, <2>4, SpellsFirst
  <2>7. Range(Tail(c)) = Members[b] \ {p}
    BY <1>2, <2>5, <2>6 DEF c
  <2>8. buckets'[b] = Link[p] /\ \A d \in DOMAIN buckets : d # b => buckets'[d] = buckets[d]
    BY <1>5, <2>1
  <2>9. /\ Spells(Tail(c), Link', NULL, buckets'[b])
        /\ \A d \in DOMAIN buckets : d # b => Spells(Chain(d), Link', NULL, buckets'[d])
    BY <1>2, <2>2, <2>5, <2>8
  <2>10. /\ binding' \in Seq(Rec) /\ Len(binding') = Len(binding)
         /\ \A q \in DOMAIN binding : binding'[q].key = binding[q].key /\ binding'[q].value = binding[q].value
    BY <1>0, <2>1 DEF TypeOK
  <2>11. DOMAIN binding' = DOMAIN binding /\ DOMAIN buckets' = DOMAIN buckets
    BY <2>1
  <2>12. buckets' \in [DOMAIN buckets -> 1..Len(binding) \cup {NULL}]
    BY <1>0, <1>1, <1>5, <2>1 DEF TypeOK
  <2> QED
    BY <2>7, <2>9, <2>10, <2>11, <2>12
<1>7. ASSUME j # 1 PROVE Relinked
  <2> DEFINE o == c[j - 1]
  <2>1. binding' = [binding EXCEPT ![o].link = next] /\ buckets' = buckets
    BY <1>7 DEF Unlink, c
  <2>2. j - 1 \in 1..Len(c) /\ j \in 2..Len(c)
    BY <1>3, <1>7 DEF c
  <2>3. o \in Members[b] /\ o \in DOMAIN binding
    <3>1. Range(c) = {c[k] : k \in 1..Len(c)}
      BY <1>3, RangeEquality
    <3> QED
      BY <1>2, <2>2, <3>1 DEF c
  <2>4. /\ DOMAIN binding' = DOMAIN binding
        /\ \A q \in DOMAIN binding :
             binding'[q] = IF q = o THEN [binding[q] EXCEPT !.link = next] ELSE binding[q]
    BY <2>1, <2>3
  <2> HIDE DEF o
  <2>5. \A q \in DOMAIN binding :
          /\ binding'[q] \in Rec
          /\ binding'[q].key = binding[q].key /\ binding'[q].value = binding[q].value
          /\ binding'[q].link = IF q = o THEN next ELSE binding[q].link
    BY <1>1, <1>5, <2>4
  <2>6. binding' \in Seq(Rec) /\ Len(binding') = Len(binding)
    <3>1. binding' = [q \in 1..Len(binding) |-> binding'[q]]
      BY <1>1, <2>1
    <3> HIDE DEF Rec
    <3>2. binding' \in [1..Len(binding) -> Rec]
      BY <1>1, <2>5, <3>1
    <3> QED
      BY <1>1, <3>2
  <2>7. /\ DOMAIN Link' = DOMAIN Link
        /\ \A q \in DOMAIN Link : Link'[q] = IF q = o THEN Link[p] ELSE Link[q]
    <3>1. DOMAIN Link' = DOMAIN binding' /\ \A q \in DOMAIN binding' : Link'[q] = binding'[q].link
      BY DEF Link
    <3> QED
      BY <1>1, <1>5, <2>4, <2>5, <3>1
  <2>8. Spells(c, Link, NULL, buckets[b])
    BY <1>2 DEF c
  <2>9. Link'[c[j - 1]] = Link[c[j]] /\ \A q \in DOMAIN Link : q # c[j - 1] => Link'[q] = Link[q]
    BY <1>1, <2>3, <2>7 DEF o
  <2>10. PICK t : Spells(t, Link', NULL, buckets[b]) /\ Range(t) = Range(c) \ {c[j]}
    <3> DEFINE g == Link'
               a == buckets[b]
    <3>1. /\ DOMAIN g = DOMAIN Link /\ g[c[j - 1]] = Link[c[j]]
          /\ \A q \in DOMAIN Link : q # c[j - 1] => g[q] = Link[q]
      BY <2>7, <2>9
    <3>2. Spells(c, Link, NULL, a) /\ NULL \notin DOMAIN Link
      BY <1>1, <2>8
    <3> HIDE DEF g, a
    <3>3. \E t : Spells(t, g, NULL, a) /\ Range(t) = Range(c) \ {c[j]}
      BY <2>2, <3>1, <3>2, SpellsRemove
    <3> QED
      BY <3>3 DEF g, a
  <2>11. Range(t) = Members[b] \ {p}
    BY <1>2, <2>10 DEF c
  <2>12. ASSUME NEW d \in DOMAIN buckets, d # b
         PROVE  Spells(Chain(d), Link', NULL, buckets'[d])
    <3>1. o \notin Members[d]
      BY <1>0, <2>3, <2>12 DEF ListsKept
    <3>2. \A q \in Range(Chain(d)) : q \in DOMAIN Link' /\ Link'[q] = Link[q]
      BY <1>1, <1>2, <2>7, <3>1
    <3>3. Spells(Chain(d), Link', NULL, buckets[d])
      BY <1>2, <3>2, SpellsAgree
    <3> QED
      BY <2>1, <3>3
  <2>13. Spells(t, Link', NULL, buckets'[b])
    BY <2>1, <2>10
  <2>14. DOMAIN buckets' = DOMAIN buckets /\ buckets' \in [DOMAIN buckets -> 1..Len(binding) \cup {NULL}]
    BY <1>0, <1>1, <2>1 DEF TypeOK
  <2> QED
    BY <2>4, <2>5, <2>6, <2>11, <2>12, <2>13, <2>14
<1>8. Relinked
  BY <1>6, <1>7
<1>9. size' = size
  BY <1>8 DEF size
<1>12. /\ IsFiniteSet(Live) /\ Cardinality(Live) \in Nat /\ Cardinality(Live) <= Len(binding)
       /\ Cardinality(Live \ {p}) = Cardinality(Live) - 1 /\ Cardinality(Live \ {p}) \in Nat
  <2>1. IsFiniteSet(Live) /\ Cardinality(Live) \in Nat /\ Cardinality(Live) <= Len(binding)
    BY <1>0, MembersLive
  <2>2. Cardinality(Live \ {p}) = Cardinality(Live) - 1 /\ IsFiniteSet(Live \ {p})
    BY <1>4, <2>1, FS_RemoveElement
  <2> QED
    BY <2>1, <2>2, FS_CardinalityType
<1>13. TypeOK'
  <2>1. length' \in 0..MaxBindings
    BY <1>0, <1>1, <1>12, SizeAssumption DEF CountKept
  <2>2. binding' \in Seq([link : 1..Len(binding') \cup {NULL}, key : Values, value : Values])
    BY <1>8
  <2>3. buckets' \in [0..size' - 1 -> 1..Len(binding') \cup {NULL}]
    BY <1>1, <1>8, <1>9
  <2>4. where' \in [Obj -> 1..2 * Cardinality(Obj)]
    BY <1>0 DEF TypeOK
  <2> QED
    BY <2>1, <2>2, <2>3, <2>4 DEF TypeOK
<1>14. ChainsRead'
  <2>1. TypeOK' => ChainsRead'
    BY ChainIs, PTL
  <2> QED
    BY <1>13, <2>1
<1>15. ASSUME NEW d \in DOMAIN buckets
       PROVE  /\ Spells(Chain(d)', Link', NULL, buckets'[d])
              /\ Members'[d] = IF d = b THEN Members[d] \ {p} ELSE Members[d]
  <2>1. CASE d = b
    <3>1. PICK t : Spells(t, Link', NULL, buckets'[b]) /\ Range(t) = Members[b] \ {p}
      BY <1>8
    <3>2. Chain(d)' = t /\ Members'[d] = Range(t)
      BY <1>8, <1>14, <2>1, <3>1 DEF ChainsRead
    <3> QED
      BY <2>1, <3>1, <3>2
  <2>2. CASE d # b
    <3>1. Chain(d)' = Chain(d) /\ Members'[d] = Range(Chain(d))
      BY <1>8, <1>14, <2>2 DEF ChainsRead
    <3> QED
      BY <1>2, <1>8, <2>2, <3>1
  <2> QED
    BY <2>1, <2>2
<1>16. Live' = Live \ {p} /\ Live \subseteq DOMAIN binding
  <2>1. Live' = {q \in DOMAIN binding : \E d \in DOMAIN buckets : q \in Members'[d]}
    BY <1>8 DEF Live
  <2>2. Live = {q \in DOMAIN binding : \E d \in DOMAIN buckets : q \in Members[d]}
    BY DEF Live
  <2>3. ASSUME NEW q \in Live' PROVE q \in Live \ {p}
    <3>1. PICK d \in DOMAIN buckets : q \in Members'[d]
      BY <2>1
    <3>2. q \in Members[d] /\ (d = b => q # p)
      BY <1>15, <3>1
    <3>3. q # p
      BY <1>0, <1>4, <3>2 DEF ListsKept
    <3> QED
      BY <1>2, <3>2, <3>3
  <2>4. ASSUME NEW q \in Live, q # p PROVE q \in Live'
    <3>1. PICK d \in DOMAIN buckets : q \in Members[d]
      BY <2>2
    <3>2. q \in Members'[d]
      BY <1>15, <2>4, <3>1
    <3> QED
      BY <2>1, <2>2, <3>2
  <2> QED
    BY <2>2, <2>3, <2>4
<1>17. /\ \A q \in DOMAIN binding : KeyId'[q] = KeyId[q] /\ ValId'[q] = ValId[q]
       /\ WhereKept' /\ \A z \in Keys : Value(z)' = Value(z)
  BY <1>8, IdsKept
<1>18. ListsKept'
  <2>1. \A d, e \in DOMAIN buckets : d # e => Members'[d] \cap Members'[e] = {}
    BY <1>0, <1>15 DEF ListsKept
  <2> QED
    BY <1>8, <1>15, <2>1 DEF ListsKept
<1>19. ArgsKept'
  <2>1. \A z \in Arg \cup Bound : z \in Keys
    BY ObjAssumption DEF Keys, Arg
  <2> QED
    BY <1>0, <1>8, <1>17, <2>1 DEF ArgsKept
<1>20. PlacesKept'
  <2> SUFFICES ASSUME NEW d \in DOMAIN buckets, NEW q \in Members'[d]
               PROVE  d = Hash(KeyId'[q]) % size
    BY <1>8, <1>9 DEF PlacesKept
  <2>1. q \in Members[d] /\ q \in DOMAIN binding
    BY <1>2, <1>15
  <2> QED
    BY <1>0, <1>17, <2>1 DEF PlacesKept
<1>21. KeysKept' /\ CountKept' /\ SizeKept'
  BY <1>0, <1>8, <1>9, <1>12, <1>16, <1>17 DEF KeysKept, CountKept, SizeKept
<1>22. IInv'
  BY <1>13, <1>17, <1>18, <1>19, <1>20, <1>21 DEF IInv
<1>23. \A q \in Live : KeyId'[q] = KeyId[q] /\ ValId'[q] = ValId[q]
  BY <1>16, <1>17
<1> QED
  BY <1>4, <1>16, <1>22, <1>23 DEF c

\* Removing a key leaves the bindings of all others.
LEMMA RemoveStep ==
  ASSUME IInv, NEW x \in Arg, VTable_remove(x), outcome = "running"
  PROVE  /\ IInv'
         /\ Live' = {q \in Live : ~(KeyId[q] = IdOf(x) /\ IdOf(x) # NotANumber)}
         /\ \A q \in Live : KeyId'[q] = KeyId[q] /\ ValId'[q] = ValId[q]
<1> DEFINE v == Value(x)
           b == Bucket(v)
           c == Chain(b)
           places == Places(c, v)
           Lost(q) == KeyId[q] = IdOf(x) /\ IdOf(x) # NotANumber
<1>1. /\ x \in Keys /\ b \in DOMAIN buckets
      /\ \/ places = {} /\ \A q \in Live : ~Lost(q)
         \/ /\ Found(v) \in Live /\ Lost(Found(v))
            /\ places # {} /\ Min(places) \in 1..Len(c) /\ c[Min(places)] = Found(v)
  <2>1. x \in Keys
    BY DEF Keys
  <2> QED
    BY <2>1, FoundIs
<1>2. /\ IF places = {} THEN UNCHANGED <<table, binding, outcome>>
         ELSE /\ Unlink(b, c, Min(places))
              /\ length' = length - 1
              /\ outcome' = IF Min(places) = Len(c) THEN "crashed" ELSE outcome
      /\ where' = where
  BY DEF VTable_remove
<1> HIDE DEF v, b, places
<1>3. CASE places = {}
  <2>1. UNCHANGED <<where, binding, table>> /\ outcome' \in {"running", "crashed"}
    BY <1>2, <1>3
  <2>2. /\ IInv' /\ Live' = Live
        /\ \A q \in Live : KeyId'[q] = KeyId[q] /\ ValId'[q] = ValId[q]
    BY <2>1, StutterStep
  <2>3. \A q \in Live : ~Lost(q)
    BY <1>1, <1>3
  <2> QED
    BY <2>2, <2>3
<1>4. CASE places # {}
  <2> DEFINE j == Min(places)
  <2>1. /\ j \in 1..Len(Chain(b)) /\ Unlink(b, Chain(b), j)
        /\ outcome' \in {"running", "crashed"} /\ length' = length - 1 /\ where' = where
    BY <1>1, <1>2, <1>4
  <2> HIDE DEF j
  <2>2. /\ IInv' /\ Live' = Live \ {Chain(b)[j]}
        /\ \A q \in Live : KeyId'[q] = KeyId[q] /\ ValId'[q] = ValId[q]
    BY <1>1, <2>1, UnlinkStep
  <2>3. Chain(b)[j] \in Live /\ Lost(Chain(b)[j])
    BY <1>1, <1>4 DEF j
  <2>4. \A q \in Live : Lost(q) => q = Chain(b)[j]
    BY <2>3 DEF IInv, KeysKept
  <2> QED
    BY <2>2, <2>3, <2>4
<1> QED
  BY <1>3, <1>4

-----------------------------------------------------------------------------
(* Collection *)

\* The keys that have bindings, and their values, which no collection changes.
Bindings == {<<KeyId[p], ValId[p]>> : p \in Live}

\* A collection copies each live binding, and once.
LEMMA OrderIs == TypeOK /\ SizeKept /\ ListsKept =>
  /\ CopyOrder \in Seq(DOMAIN binding) /\ Distinct(CopyOrder) /\ Range(CopyOrder) = Live
<1> SUFFICES ASSUME TypeOK, SizeKept, ListsKept
             PROVE  /\ CopyOrder \in Seq(DOMAIN binding) /\ Distinct(CopyOrder)
                    /\ Range(CopyOrder) = Live
  OBVIOUS
<1> DEFINE seqs == [b \in 1..size |-> Chain(b - 1)]
<1>1. PICK n \in Nat \ {0} : n = size
  BY DEF SizeKept
<1>2. /\ DOMAIN buckets = 0..n - 1 /\ NULL \notin DOMAIN Link /\ DOMAIN Link = DOMAIN binding
  BY <1>1, Typed
<1>3. /\ seqs = [b \in 1..n |-> Chain(b - 1)] /\ Len(seqs) = n
      /\ \A i \in 1..n : seqs[i] = Chain(i - 1) /\ i - 1 \in DOMAIN buckets
  <2>1. seqs = [b \in 1..n |-> Chain(b - 1)]
    BY <1>1
  <2>2. \A i \in 1..n : i - 1 \in 0..n - 1
    OBVIOUS
  <2>3. Len([b \in 1..n |-> Chain(b - 1)]) = n
    <3> DEFINE f == [b \in 1..n |-> Chain(b - 1)]
    <3>1. DOMAIN f = 1..n
      OBVIOUS
    <3> HIDE DEF f
    <3> QED
      BY <3>1 DEF f
  <2> QED
    BY <1>2, <2>1, <2>2, <2>3
<1> HIDE DEF seqs
<1>4. ASSUME NEW i \in 1..n
      PROVE  /\ seqs[i] \in Seq(DOMAIN binding) /\ Distinct(seqs[i])
             /\ Range(seqs[i]) = Members[i - 1]
  <2>1. Spells(Chain(i - 1), Link, NULL, buckets[i - 1])
    BY <1>3 DEF ListsKept
  <2>2. Distinct(Chain(i - 1))
    BY <1>2, <2>1, SpellsInjective DEF Distinct
  <2> QED
    BY <1>3, <2>2, MembersLive
<1>5. ASSUME NEW i \in 1..n, NEW j \in 1..n, i # j
      PROVE  Range(seqs[i]) \cap Range(seqs[j]) = {}
  <2>1. i - 1 # j - 1
    BY <1>5
  <2> QED
    BY <1>3, <1>4, <2>1 DEF ListsKept
<1>6. /\ FlattenSeq(seqs) \in Seq(DOMAIN binding) /\ Distinct(FlattenSeq(seqs))
      /\ \A x : x \in Range(FlattenSeq(seqs)) <=> \E i \in 1..n : x \in Range(seqs[i])
  <2> DEFINE S == DOMAIN binding
  <2>1. \A i \in 1..n : seqs[i] \in Seq(S) /\ Distinct(seqs[i])
    BY <1>4
  <2>2. \A i, j \in 1..n : i # j => Range(seqs[i]) \cap Range(seqs[j]) = {}
    BY <1>5
  <2> HIDE DEF S
  <2>3. /\ FlattenSeq(seqs) \in Seq(S) /\ Distinct(FlattenSeq(seqs))
        /\ \A x : x \in Range(FlattenSeq(seqs)) <=> \E i \in 1..n : x \in Range(seqs[i])
    <3>1. Len(seqs) = n
      BY <1>3
    <3> QED
      BY <2>1, <2>2, <3>1, FlattenDistinct
  <2> QED
    BY <2>3 DEF S
<1>7. CopyOrder = FlattenSeq(seqs)
  BY DEF CopyOrder, seqs
<1>8. \A x : x \in Live <=> \E i \in 1..n : x \in Members[i - 1]
  <2>1. \A b \in DOMAIN buckets : \E i \in 1..n : i - 1 = b
    <3>1. \A b \in 0..n - 1 : b + 1 \in 1..n /\ b + 1 - 1 = b
      OBVIOUS
    <3> QED
      BY <1>2, <3>1
  <2>2. \A x : x \in Live <=> \E b \in DOMAIN buckets : x \in Members[b]
    BY MembersLive DEF Live
  <2>3. \A i \in 1..n : i - 1 \in DOMAIN buckets
    BY <1>3
  <2>4. ASSUME NEW x, NEW b \in DOMAIN buckets, x \in Members[b]
        PROVE  \E i \in 1..n : x \in Members[i - 1]
    <3>1. PICK i \in 1..n : i - 1 = b
      BY <2>1
    <3> QED
      BY <2>4, <3>1
  <2> QED
    BY <2>2, <2>3, <2>4
<1>9. \A x : x \in Range(CopyOrder) <=> x \in Live
  <2>1. \A x : x \in Range(CopyOrder) <=> \E i \in 1..n : x \in Range(seqs[i])
    BY <1>6, <1>7
  <2>2. \A i \in 1..n : Range(seqs[i]) = Members[i - 1]
    BY <1>4
  <2>3. \A x : x \in Range(CopyOrder) <=> \E i \in 1..n : x \in Members[i - 1]
    BY <2>1, <2>2, Zenon
  <2> QED
    BY <1>8, <2>3
<1> QED
  BY <1>6, <1>7, <1>9

\* The places of the other semispace.
LEMMA NewPlaces ==
  ASSUME NEW a \in 1..2 * Cardinality(Obj), NEW b \in 1..2 * Cardinality(Obj)
  PROVE  /\ NewPlace(a) \in 1..2 * Cardinality(Obj)
         /\ NewPlace(a) = NewPlace(b) => a = b
<1>1. PICK n \in Nat : n = Cardinality(Obj)
  BY ObjAssumption, FS_CardinalityType
<1> QED
  BY <1>1 DEF NewPlace

\* When its objects move, a value is what the forwarded pointer says.
LEMMA Moved ==
  ASSUME WhereKept, where' = [o \in Obj |-> NewPlace(where[o])]
  PROVE  /\ WhereKept'
         /\ \A x \in Keys : Forwarded(Value(x)) = Value(x)'
<1>1. \A o \in Obj : where[o] \in 1..2 * Cardinality(Obj) /\ where'[o] = NewPlace(where[o])
  BY DEF WhereKept
<1>2. WhereKept'
  <2>1. where' \in [Obj -> 1..2 * Cardinality(Obj)]
    <3>1. \A o \in Obj : NewPlace(where[o]) \in 1..2 * Cardinality(Obj)
      BY <1>1, NewPlaces
    <3> QED
      BY <3>1
  <2>2. \A o, m \in Obj : where'[o] = where'[m] => where[o] = where[m]
    BY <1>1, NewPlaces
  <2>3. IsInjective(where')
    BY <2>1, <2>2 DEF WhereKept, IsInjective
  <2> QED
    BY <2>1, <2>3 DEF WhereKept
<1>3. ASSUME NEW x \in Keys PROVE Forwarded(Value(x)) = Value(x)'
  <2>1. CASE x \in Obj
    <3>1. Value(x) = mkPointerValue(ObjTag[x], where[x])
      BY <2>1 DEF Value
    <3>2. Value(x)' = mkPointerValue(ObjTag[x], NewPlace(where[x]))
      BY <1>1, <2>1 DEF Value
    <3>3. ObjTag[x] \in {ObjTag[o] : o \in Obj}
      BY <2>1
    <3>4. Value(x).tag = ObjTag[x] /\ Value(x).p = where[x]
      BY <3>1 DEF mkPointerValue
    <3>5. Forwarded(Value(x)) = [Value(x) EXCEPT !.p = NewPlace(where[x])]
      BY <3>3, <3>4 DEF Forwarded
    <3> QED
      BY <3>1, <3>2, <3>5 DEF mkPointerValue
  <2>2. CASE x \notin Obj
    <3>1. Value(x) = x /\ Value(x)' = x
      BY <2>2 DEF Value
    <3>2. x.tag \notin {ObjTag[o] : o \in Obj}
      BY <2>2, PlainKeys, TagAssumption
    <3> QED
      BY <3>1, <3>2 DEF Forwarded
  <2> QED
    BY <2>1, <2>2
<1> QED
  BY <1>2, <1>3

\* Where the copy of a live binding is.
LEMMA CopiedIs == TypeOK /\ SizeKept /\ ListsKept =>
  /\ \A p \in Live : Copied(CopyOrder, p) \in DOMAIN CopyOrder /\ CopyOrder[Copied(CopyOrder, p)] = p
  /\ \A j \in DOMAIN CopyOrder : CopyOrder[j] \in Live /\ Copied(CopyOrder, CopyOrder[j]) = j
  /\ DOMAIN CopyOrder = 1..Len(CopyOrder) /\ Len(CopyOrder) = Cardinality(Live)
  /\ NULL \notin Live
<1> SUFFICES ASSUME TypeOK, SizeKept, ListsKept
    PROVE
    /\ \A p \in Live : /\ Copied(CopyOrder, p) \in DOMAIN CopyOrder
                       /\ CopyOrder[Copied(CopyOrder, p)] = p
    /\ \A j \in DOMAIN CopyOrder : CopyOrder[j] \in Live /\ Copied(CopyOrder, CopyOrder[j]) = j
    /\ DOMAIN CopyOrder = 1..Len(CopyOrder) /\ Len(CopyOrder) = Cardinality(Live)
    /\ NULL \notin Live
  OBVIOUS
<1> DEFINE o == CopyOrder
<1>1. o \in Seq(DOMAIN binding) /\ Distinct(o) /\ Range(o) = Live
  BY OrderIs
<1> HIDE DEF o
<1>2. PICK n \in Nat : n = Len(o) /\ DOMAIN o = 1..n
  BY <1>1
<1>3. /\ \A j \in 1..n : o[j] \in Live
      /\ \A p \in Live : \E j \in 1..n : o[j] = p
      /\ \A j, k \in 1..n : o[j] = o[k] => j = k
  <2>1. Range(o) = {o[j] : j \in 1..n}
    BY <1>1, <1>2, RangeEquality
  <2> QED
    BY <1>1, <1>2, <2>1 DEF Distinct
<1>4. NULL \notin Live
  BY MembersLive, Typed
<1>5. ASSUME NEW p \in Live PROVE Copied(o, p) \in 1..n /\ o[Copied(o, p)] = p
  <2>1. p # NULL
    BY <1>4
  <2>2. Copied(o, p) = CHOOSE j \in DOMAIN o : o[j] = p
    BY <2>1 DEF Copied
  <2> QED
    BY <1>2, <1>3, <2>2
<1>6. ASSUME NEW j \in 1..n PROVE Copied(o, o[j]) = j
  BY <1>3, <1>5
<1>7. n = Cardinality(Live)
  <2>1. o \in Bijection(1..n, Live)
    <3>1. o \in [1..n -> Live]
      <4>1. o = [j \in 1..n |-> o[j]]
        BY <1>1, <1>2
      <4> QED
        BY <1>3, <4>1
    <3>2. o \in Injection(1..n, Live)
      BY <1>3, <3>1 DEF Injection, IsInjective
    <3>3. o \in Surjection(1..n, Live)
      BY <1>3, <3>1 DEF Surjection
    <3> QED
      BY <3>2, <3>3 DEF Bijection
  <2>2. IsFiniteSet(1..n) /\ Cardinality(1..n) = n
    <3>1. \A a, b \in Int : Cardinality(a..b) = IF a > b THEN 0 ELSE b - a + 1
      BY FS_Interval
    <3>2. 1 > n => n = 0
      OBVIOUS
    <3> QED
      BY <3>1, <3>2, FS_Interval
  <2>3. ExistsBijection(1..n, Live)
    BY <2>1 DEF ExistsBijection
  <2> QED
    BY <2>2, <2>3, FS_Bijection
<1> QED
  BY <1>2, <1>3, <1>4, <1>5, <1>6, <1>7 DEF o

\* A collection moves everything, and changes nothing.
LEMMA CollectStep ==
  ASSUME IInv, Collect
  PROVE  IInv' /\ Bindings' = Bindings
<1> DEFINE o == CopyOrder
           n == Len(o)
           r(p) == Copied(o, p)
           Rec == [link : 1..Len(binding) \cup {NULL}, key : Values, value : Values]
           Rec2 == [link : 1..n \cup {NULL}, key : Values, value : Values]
<1>0. /\ TypeOK /\ WhereKept /\ SizeKept /\ ListsKept /\ ArgsKept /\ PlacesKept /\ KeysKept
      /\ CountKept
  BY DEF IInv
<1>1. /\ where' = [a \in Obj |-> NewPlace(where[a])]
      /\ binding' = [j \in DOMAIN o |->
                       [link |-> r(binding[o[j]].link), key |-> Forwarded(binding[o[j]].key),
                        value |-> Forwarded(binding[o[j]].value)]]
      /\ buckets' = [b \in DOMAIN buckets |-> r(buckets[b])]
      /\ length' = length /\ outcome' = outcome
  BY DEF Collect
<1>2. /\ \A p \in Live : r(p) \in 1..n /\ o[r(p)] = p
      /\ \A j \in 1..n : o[j] \in Live /\ r(o[j]) = j
      /\ DOMAIN o = 1..n /\ n = Cardinality(Live) /\ NULL \notin Live
      /\ r(NULL) = NULL
  BY <1>0, CopiedIs DEF Copied
<1>3. /\ n \in Nat /\ n <= MaxBindings /\ IsFiniteSet(Live) /\ Live \subseteq DOMAIN binding
      /\ MaxBindings \in Nat
  <2>1. Live \subseteq DOMAIN binding /\ n \in Nat /\ n <= Len(binding) /\ IsFiniteSet(Live)
    BY <1>0, <1>2, MembersLive
  <2>2. Len(binding) <= MaxBindings /\ Len(binding) \in Nat
    BY <1>0, Typed DEF CountKept
  <2> QED
    BY <2>1, <2>2, SizeAssumption
<1> HIDE DEF o, n, r
<1>4. /\ DOMAIN binding = 1..Len(binding)
      /\ \A q \in DOMAIN binding : binding[q] \in Rec
      /\ DOMAIN buckets = 0..size - 1 /\ NULL \notin DOMAIN binding
      /\ NULL \notin DOMAIN Link /\ DOMAIN Link = DOMAIN binding
      /\ \A q \in DOMAIN binding : Link[q] = binding[q].link
  BY <1>0, Typed
<1>5. \A d \in DOMAIN buckets : /\ Spells(Chain(d), Link, NULL, buckets[d])
                                /\ Members[d] = Range(Chain(d)) /\ Members[d] \subseteq Live
                                /\ buckets[d] \in Members[d] \cup {NULL}
                                /\ \A p \in Members[d] : binding[p].link \in Members[d] \cup {NULL}
  <2> SUFFICES ASSUME NEW d \in DOMAIN buckets
               PROVE  /\ Spells(Chain(d), Link, NULL, buckets[d])
                      /\ Members[d] = Range(Chain(d)) /\ Members[d] \subseteq Live
                      /\ buckets[d] \in Members[d] \cup {NULL}
                      /\ \A p \in Members[d] : binding[p].link \in Members[d] \cup {NULL}
    OBVIOUS
  <2>1. Spells(Chain(d), Link, NULL, buckets[d])
    BY <1>0 DEF ListsKept
  <2>2. Members[d] = Range(Chain(d)) /\ Members[d] \subseteq Live
    BY <1>0, MembersLive
  <2>3. /\ buckets[d] \in Range(Chain(d)) \cup {NULL}
        /\ \A p \in Range(Chain(d)) : p \in DOMAIN Link /\ Link[p] \in Range(Chain(d)) \cup {NULL}
    BY <2>1, SpellsClosed
  <2> QED
    BY <1>4, <2>1, <2>2, <2>3
<1>6. \A p \in Live : /\ p \in DOMAIN binding
                      /\ binding[p].link \in Live \cup {NULL}
                      /\ \E d \in DOMAIN buckets : p \in Members[d]
  <2>1. \A p \in Live : \E d \in DOMAIN buckets : p \in Members[d]
    BY DEF Live
  <2> QED
    BY <1>3, <1>5, <2>1
<1>7. /\ DOMAIN binding' = 1..n
      /\ \A j \in 1..n : /\ binding'[j].link = r(binding[o[j]].link)
                         /\ binding'[j].key = Forwarded(binding[o[j]].key)
                         /\ binding'[j].value = Forwarded(binding[o[j]].value)
                         /\ binding'[j] = [link |-> binding'[j].link, key |-> binding'[j].key,
                                           value |-> binding'[j].value]
  BY <1>1, <1>2
<1>8. WhereKept' /\ \A x \in Keys : Forwarded(Value(x)) = Value(x)'
  BY <1>0, <1>1, Moved
<1>9. \A x \in Arg \cup Bound : x \in Keys /\ x \in Arg
  BY ObjAssumption DEF Keys, Arg
<1>10. ASSUME NEW j \in 1..n
       PROVE  /\ \E x \in Arg : binding'[j].key = Value(x)' /\ KeyId[o[j]] = IdOf(x)
              /\ \E y \in Bound : binding'[j].value = Value(y)' /\ ValId[o[j]] = IdOf(y)
  <2>1. o[j] \in DOMAIN binding
    BY <1>2, <1>6
  <2>2. PICK x \in Arg : binding[o[j]].key = Value(x) /\ KeyId[o[j]] = IdOf(x)
    BY <1>0, <2>1, IdentitiesAre
  <2>3. PICK y \in Bound : binding[o[j]].value = Value(y) /\ ValId[o[j]] = IdOf(y)
    BY <1>0, <2>1, IdentitiesAre
  <2> QED
    BY <1>7, <1>8, <1>9, <2>2, <2>3
<1>11. \A x \in Arg : Value(x)' \in Values
  <2>1. WhereKept' => (\A x \in Arg : Value(x) \in Values)'
    BY ValueType, PTL
  <2> QED
    BY <1>8, <2>1
<1>12. binding' \in Seq(Rec2) /\ Len(binding') = n
  <2>1. \A p \in Live \cup {NULL} : r(p) \in 1..n \cup {NULL}
    BY <1>2
  <2>2. \A j \in 1..n : binding'[j] \in Rec2
    <3> SUFFICES ASSUME NEW j \in 1..n PROVE binding'[j] \in Rec2
      OBVIOUS
    <3>1. binding'[j].link \in 1..n \cup {NULL}
      BY <1>2, <1>6, <1>7, <2>1
    <3>2. binding'[j].key \in Values /\ binding'[j].value \in Values
      BY <1>9, <1>10, <1>11
    <3> QED
      BY <1>7, <3>1, <3>2
  <2>3. binding' = [j \in 1..n |-> binding'[j]]
    BY <1>1, <1>2
  <2> HIDE DEF Rec2
  <2>4. binding' \in [1..n -> Rec2]
    BY <2>2, <2>3
  <2> QED
    BY <1>3, <2>4
<1>13. /\ DOMAIN buckets' = DOMAIN buckets /\ size' = size
       /\ \A d \in DOMAIN buckets : buckets'[d] = r(buckets[d])
  BY <1>1 DEF size
<1>14. TypeOK'
  <2>1. buckets' \in [0..size' - 1 -> 1..Len(binding') \cup {NULL}]
    <3>1. \A d \in DOMAIN buckets : buckets'[d] \in 1..n \cup {NULL}
      BY <1>2, <1>5, <1>13
    <3>2. buckets' = [d \in DOMAIN buckets |-> buckets'[d]]
      BY <1>1
    <3> QED
      BY <1>4, <1>12, <1>13, <3>1, <3>2
  <2>2. binding' \in Seq([link : 1..Len(binding') \cup {NULL}, key : Values, value : Values])
    BY <1>12
  <2>3. where' \in [Obj -> 1..2 * Cardinality(Obj)]
    BY <1>8 DEF WhereKept
  <2> QED
    BY <1>0, <1>1, <2>1, <2>2, <2>3 DEF TypeOK
<1>15. ChainsRead'
  <2>1. TypeOK' => ChainsRead'
    BY ChainIs, PTL
  <2> QED
    BY <1>14, <2>1
<1>16. DOMAIN Link' = 1..n /\ \A j \in 1..n : Link'[j] = r(binding[o[j]].link)
  BY <1>7 DEF Link
<1>17. ASSUME NEW d \in DOMAIN buckets
       PROVE  /\ Spells(Chain(d)', Link', NULL, buckets'[d])
              /\ \A q : q \in Members'[d] <=> \E p \in Members[d] : q = r(p)
  <2> DEFINE c == Chain(d)
             a == buckets[d]
             g == Link'
             f == [p \in Live |-> r(p)]
  <2>1. Spells(c, Link, NULL, a) /\ Range(c) = Members[d]
    BY <1>5
  <2>2. NULL \notin DOMAIN g
    BY <1>3, <1>16, NullAssumption
  <2>3. Renames(f, c, Link, g, NULL)
    <3> SUFFICES ASSUME NEW x \in Members[d]
                 PROVE  /\ f[x] \in DOMAIN g
                        /\ g[f[x]] = IF Link[x] = NULL THEN NULL ELSE f[Link[x]]
      BY <2>1 DEF Renames
    <3>1. /\ x \in Live /\ x \in DOMAIN binding /\ Link[x] = binding[x].link
          /\ Link[x] \in Live \cup {NULL}
      BY <1>4, <1>5, <1>6
    <3>2. f[x] = r(x) /\ r(x) \in 1..n /\ o[r(x)] = x
      BY <1>2, <3>1
    <3>3. g[r(x)] = r(Link[x])
      BY <1>16, <3>1, <3>2
    <3>4. Link[x] # NULL => f[Link[x]] = r(Link[x])
      BY <3>1
    <3> QED
      BY <1>2, <1>16, <3>2, <3>3, <3>4
  <2>4. buckets'[d] = IF a = NULL THEN NULL ELSE f[a]
    <3>1. a \in Live \cup {NULL}
      BY <1>5
    <3> QED
      BY <1>2, <1>13, <3>1
  <2>5. \A x \in Members[d] : f[x] = r(x)
    BY <1>5
  <2> DEFINE h == buckets'[d]
  <2> HIDE DEF c, a, g, f, h
  <2>6. PICK t : /\ Spells(t, g, NULL, h)
                 /\ Range(t) = NewNames(f, Range(c))
    <3>1. NULL \notin DOMAIN Link /\ Spells(c, Link, NULL, a)
      BY <1>4, <2>1
    <3>2. h = IF a = NULL THEN NULL ELSE f[a]
      BY <2>4 DEF h
    <3> QED
      BY <2>2, <2>3, <3>1, <3>2, SpellsRename
  <2>7. Spells(t, Link', NULL, buckets'[d]) /\ d \in DOMAIN buckets'
    BY <1>13, <2>6 DEF g, h
  <2>8. Chain(d)' = t /\ Members'[d] = Range(t)
    BY <1>15, <2>7 DEF ChainsRead
  <2>9. \A q : q \in Range(t) <=> \E p \in Members[d] : q = f[p]
    BY <2>1, <2>6 DEF NewNames
  <2> QED
    BY <2>5, <2>7, <2>8, <2>9
<1>18. ASSUME NEW d \in DOMAIN buckets
       PROVE  \A q \in Members'[d] : q \in 1..n /\ o[q] \in Members[d]
  BY <1>2, <1>5, <1>17
<1>19. Live' = 1..n
  <2>1. Live' = {q \in 1..n : \E d \in DOMAIN buckets : q \in Members'[d]}
    BY <1>7, <1>13 DEF Live
  <2>2. ASSUME NEW q \in 1..n PROVE \E d \in DOMAIN buckets : q \in Members'[d]
    <3>1. o[q] \in Live /\ r(o[q]) = q
      BY <1>2
    <3>2. PICK d \in DOMAIN buckets : o[q] \in Members[d]
      BY <1>6, <3>1
    <3> QED
      BY <1>17, <3>1, <3>2
  <2> QED
    BY <2>1, <2>2
<1>20. \A j \in 1..n : KeyId'[j] = KeyId[o[j]] /\ ValId'[j] = ValId[o[j]]
  <2>1. WhereKept' => IdsRead'
    BY IdIs, PTL
  <2>2. IdsRead'
    BY <1>8, <2>1
  <2> QED
    BY <1>7, <1>9, <1>10, <2>2 DEF IdsRead
<1>21. ListsKept'
  <2>1. ASSUME NEW d \in DOMAIN buckets, NEW e \in DOMAIN buckets, d # e
        PROVE  Members'[d] \cap Members'[e] = {}
    <3>1. Members[d] \cap Members[e] = {}
      BY <1>0, <2>1 DEF ListsKept
    <3> QED
      BY <1>18, <3>1
  <2> QED
    BY <1>13, <1>17, <2>1 DEF ListsKept
<1>22. ArgsKept'
  BY <1>7, <1>10 DEF ArgsKept
<1>23. PlacesKept'
  <2> SUFFICES ASSUME NEW d \in DOMAIN buckets, NEW q \in Members'[d]
               PROVE  d = Hash(KeyId'[q]) % size
    BY <1>13 DEF PlacesKept
  <2>1. q \in 1..n /\ o[q] \in Members[d]
    BY <1>18
  <2> QED
    BY <1>0, <1>20, <2>1 DEF PlacesKept
<1>24. KeysKept'
  <2> SUFFICES ASSUME NEW p \in 1..n, NEW q \in 1..n, KeyId'[p] = KeyId'[q],
                      KeyId'[p] # NotANumber
               PROVE  p = q
    BY <1>19 DEF KeysKept
  <2>1. o[p] = o[q]
    BY <1>0, <1>2, <1>20 DEF KeysKept
  <2> QED
    BY <1>2, <2>1
<1>25. CountKept' /\ SizeKept'
  <2>1. Cardinality(1..n) = n
    <3>1. \A a, b \in Int : Cardinality(a..b) = IF a > b THEN 0 ELSE b - a + 1
      BY FS_Interval
    <3>2. 1 > n => n = 0
      BY <1>3
    <3> QED
      BY <1>3, <3>1, <3>2
  <2> QED
    BY <1>0, <1>1, <1>2, <1>3, <1>12, <1>13, <1>19, <2>1 DEF CountKept, SizeKept
<1>26. Bindings' = Bindings
  <2>1. Bindings' = {<<KeyId[o[j]], ValId[o[j]]>> : j \in 1..n}
    BY <1>19, <1>20 DEF Bindings
  <2>2. ASSUME NEW p \in Live PROVE \E j \in 1..n : o[j] = p
    BY <1>2
  <2> QED
    BY <1>2, <2>1, <2>2 DEF Bindings
<1> QED
  BY <1>8, <1>14, <1>21, <1>22, <1>23, <1>24, <1>25, <1>26 DEF IInv

-----------------------------------------------------------------------------
(* The invariant *)

\* No operation and no collection disturbs the invariant.
LEMMA NextIInv == IInv /\ [Next]_vars => IInv'
<1> SUFFICES ASSUME IInv, [Next]_vars PROVE IInv'
  OBVIOUS
<1>0. outcome \in {"running", "crashed"}
  BY DEF IInv, TypeOK
<1>1. ASSUME NEW x \in Arg, VTable_get(x) PROVE IInv'
  <2>1. UNCHANGED <<where, binding, table>> /\ outcome' = outcome
    BY <1>1 DEF VTable_get
  <2> QED
    BY <1>0, <2>1, StutterStep
<1>2. ASSUME NEW x \in Arg, VTable_remove(x), outcome = "running" PROVE IInv'
  BY <1>2, RemoveStep
<1>3. ASSUME NEW x \in Arg, NEW y \in Bound, VTable_put(x, y) PROVE IInv'
  <2>1. where' = where /\ outcome' = outcome
    BY <1>3 DEF VTable_put
  <2>2. CASE Rebind(x, y)
    BY <2>1, <2>2, RebindStep
  <2>3. CASE Prepend(x, y)
    BY <2>1, <2>3, PrependStep
  <2> QED
    BY <1>3, <2>2, <2>3 DEF VTable_put
<1>4. CASE VTable_length
  <2>1. UNCHANGED <<where, binding, table>> /\ outcome' = outcome
    BY <1>4 DEF VTable_length
  <2> QED
    BY <1>0, <2>1, StutterStep
<1>5. CASE Collect
  BY <1>5, CollectStep
<1>6. CASE UNCHANGED vars
  <2>1. UNCHANGED <<where, binding, table>> /\ outcome' = outcome
    BY <1>6 DEF vars
  <2> QED
    BY <1>0, <2>1, StutterStep
<1> QED
  BY <1>1, <1>2, <1>3, <1>4, <1>5, <1>6 DEF Next, Running

\* The inductive invariant.
THEOREM Invariance == Spec => []IInv
BY InitIInv, NextIInv, PTL DEF Spec

\* The table and its bindings have their types; the length stays an int that
\* VTable_length can return.
THEOREM TypeCorrectness == Spec => []TypeOK
<1>1. IInv => TypeOK
  BY DEF IInv
<1> QED
  BY <1>1, Invariance, PTL

\* Every binding is where a search for its key looks, and no key has two,
\* however keys collide and wherever collections have moved them.
THEOREM BindingsFound == Spec => []BindingsAreFound
<1>1. IInv => BindingsAreFound
  <2> SUFFICES ASSUME IInv PROVE BindingsAreFound
    OBVIOUS
  <2> DEFINE o == CopyOrder
  <2>1. /\ TypeOK /\ WhereKept /\ SizeKept /\ ListsKept /\ ArgsKept /\ PlacesKept /\ KeysKept
    BY DEF IInv
  <2>2. Live \subseteq DOMAIN binding
    BY <2>1, MembersLive
  <2>3. ASSUME NEW p \in DOMAIN binding
        PROVE  \E x \in Keys : binding[p].key = Value(x) /\ KeyId[p] = IdOf(x)
    <3>1. \A x \in Arg : x \in Keys
      BY DEF Keys
    <3> QED
      BY <2>1, <3>1, IdentitiesAre
  <2>4. ASSUME NEW b \in DOMAIN buckets, NEW p \in Range(Chain(b))
        PROVE  Bucket(binding[p].key) = b
    <3>1. p \in Members[b] /\ p \in DOMAIN binding
      BY <2>1, <2>2, MembersLive
    <3>2. PICK x \in Keys : binding[p].key = Value(x) /\ KeyId[p] = IdOf(x)
      BY <2>3, <3>1
    <3>3. b = Hash(IdOf(x)) % size
      BY <2>1, <3>1, <3>2 DEF PlacesKept
    <3>4. Bucket(Value(x)) = Hash(x) % size /\ Hash(IdOf(x)) = Hash(x)
      BY FoundIs, HashIs
    <3> QED
      BY <3>2, <3>3, <3>4
  <2>5. ASSUME NEW i \in DOMAIN o, NEW j \in DOMAIN o, i # j,
               identical(binding[o[i]].key, binding[o[j]].key)
        PROVE  FALSE
    <3>1. o[i] \in Live /\ o[j] \in Live /\ Copied(o, o[i]) = i /\ Copied(o, o[j]) = j
      BY <2>1, CopiedIs
    <3>2. PICK x \in Keys : binding[o[i]].key = Value(x) /\ KeyId[o[i]] = IdOf(x)
      BY <2>2, <2>3, <3>1
    <3>3. PICK y \in Keys : binding[o[j]].key = Value(y) /\ KeyId[o[j]] = IdOf(y)
      BY <2>2, <2>3, <3>1
    <3>4. IdOf(x) = IdOf(y) /\ IdOf(x) # NotANumber
      BY <2>1, <2>5, <3>2, <3>3, IdenticalIs
    <3>5. o[i] = o[j]
      BY <2>1, <3>1, <3>2, <3>3, <3>4 DEF KeysKept
    <3> QED
      BY <2>5, <3>1, <3>5
  <2> QED
    BY <2>4, <2>5 DEF BindingsAreFound
<1> QED
  BY <1>1, Invariance, PTL

-----------------------------------------------------------------------------
(* The table implements a map, as long as no key is NaN *)

NoNaN == NotANumber \notin Unboxed

\* What map is in ImplementsMap.
MapOf == [k \in Identities |-> Identity(Lookup(Value(k)))]

\* A key's binding tells what a search for the key returns.
MapRead ==
  /\ \A x \in Keys :
       /\ \A p \in Live : KeyId[p] = IdOf(x) => Identity(Lookup(Value(x))) = ValId[p]
       /\ (\A p \in Live : KeyId[p] # IdOf(x)) => Identity(Lookup(Value(x))) = nilValue
  /\ \A k \in Identities : /\ \A p \in Live : KeyId[p] = k => MapOf[k] = ValId[p]
                           /\ (\A p \in Live : KeyId[p] # k) => MapOf[k] = nilValue
  /\ \A p \in Live : KeyId[p] \in Identities /\ ValId[p] # nilValue

\* No identity is NaN.
LEMMA NoNaNKeys == NoNaN => \A x \in Keys : IdOf(x) # NotANumber
<1> SUFFICES ASSUME NoNaN, NEW x \in Keys PROVE IdOf(x) # NotANumber
  OBVIOUS
<1>1. CASE x \in Obj
  BY <1>1, ObjAssumption DEF IdOf, NotANumber
<1>2. CASE x \notin Obj
  <2>1. PICK u \in Unboxed : IdOf(x) = Canonical(u)
    <3>1. IdOf(x) = Canonical(x) /\ Canonical(Canonical(x)) = Canonical(x)
      BY <1>2, PlainKeys DEF IdOf
    <3>2. CASE x \in Unboxed
      BY <3>1, <3>2
    <3>3. CASE x \notin Unboxed
      <4>1. PICK u \in Unboxed : x = Canonical(u)
        BY <1>2, <3>3 DEF Keys, Arg, Identities
      <4>2. u \in Keys /\ u \notin Obj
        BY ObjAssumption DEF Keys, Arg
      <4> QED
        BY <3>1, <4>1, <4>2, PlainKeys
    <3> QED
      BY <3>2, <3>3
  <2>2. u # NotANumber
    BY DEF NoNaN
  <2>3. CASE u.tag # "Number"
    BY <2>1, <2>2, <2>3 DEF Canonical
  <2>4. CASE u.tag = "Number"
    <3>1. u = mkNumberValue(u.n)
      <4>1. emptylistValue.tag = "Emptylist"
        BY DEF emptylistValue
      <4> QED
        BY <2>4, <4>1, TagAssumption, Zenon
    <3>2. Canonical(u) = mkNumberValue(Truncate(u.n))
      BY <2>4 DEF Canonical
    <3>3. \A m, n : mkNumberValue(m) = mkNumberValue(n) <=> m = n
      BY DEF mkNumberValue
    <3>4. Truncate(u.n) \in {0, u.n}
      BY DEF Truncate
    <3> QED
      BY <2>1, <2>2, <3>1, <3>2, <3>3, <3>4, TagAssumption DEF NotANumber
  <2> QED
    BY <2>3, <2>4
<1> QED
  BY <1>1, <1>2

\* The value nil is itself, and no value that a binding holds.
LEMMA NilIs == /\ Identity(nilValue) = nilValue
               /\ \A x \in Keys : IdOf(x) # nilValue
<1>1. nilValue.tag = "Nil"
  BY DEF nilValue
<1>2. nilValue.tag \notin {ObjTag[o] : o \in Obj}
  BY <1>1, TagAssumption
<1>3. Identity(nilValue) = nilValue
  BY <1>1, <1>2 DEF Identity, Canonical
<1>4. ASSUME NEW x \in Keys PROVE IdOf(x) # nilValue
  <2>1. CASE x \in Obj
    BY <2>1, ObjAssumption DEF IdOf
  <2>2. CASE x \notin Obj
    BY <1>1, <2>2, PlainKeys DEF IdOf
  <2> QED
    BY <2>1, <2>2
<1> QED
  BY <1>3, <1>4

\* What the invariant says of the map.
LEMMA MapIs == NoNaN /\ IInv => MapRead
<1> SUFFICES ASSUME NoNaN, IInv PROVE MapRead
  OBVIOUS
<1>0. TypeOK /\ WhereKept /\ SizeKept /\ ListsKept /\ ArgsKept /\ PlacesKept /\ KeysKept
  BY DEF IInv
<1>1. Live \subseteq DOMAIN binding /\ NULL \notin Live
  BY <1>0, MembersLive, CopiedIs
<1>2. ASSUME NEW x \in Keys
      PROVE  /\ \A p \in Live : KeyId[p] = IdOf(x) => Identity(Lookup(Value(x))) = ValId[p]
             /\ (\A p \in Live : KeyId[p] # IdOf(x)) => Identity(Lookup(Value(x))) = nilValue
  <2> DEFINE f == Found(Value(x))
  <2>1. Lookup(Value(x)) = IF f = NULL THEN nilValue ELSE binding[f].value
    BY DEF Lookup
  <2>2. IdOf(x) # NotANumber
    BY NoNaNKeys
  <2>3. \/ f = NULL /\ \A p \in Live : KeyId[p] # IdOf(x)
        \/ f \in Live /\ KeyId[f] = IdOf(x)
    BY <2>2, FoundIs
  <2> HIDE DEF f
  <2>4. CASE f = NULL /\ \A p \in Live : KeyId[p] # IdOf(x)
    BY <2>1, <2>4, NilIs
  <2>5. CASE f \in Live /\ KeyId[f] = IdOf(x)
    <3>1. Identity(Lookup(Value(x))) = ValId[f]
      BY <1>1, <2>1, <2>5 DEF ValId
    <3>2. \A p \in Live : KeyId[p] = IdOf(x) => p = f
      BY <1>0, <2>2, <2>5 DEF KeysKept
    <3> QED
      BY <2>5, <3>1, <3>2
  <2> QED
    BY <2>3, <2>4, <2>5
<1>3. ASSUME NEW k \in Identities
      PROVE  /\ \A p \in Live : KeyId[p] = k => MapOf[k] = ValId[p]
             /\ (\A p \in Live : KeyId[p] # k) => MapOf[k] = nilValue
  <2>1. k \in Keys /\ IdOf(k) = k
    <3>1. k \in Keys
      BY DEF Keys
    <3>2. CASE k \in Obj
      BY <3>1, <3>2 DEF IdOf
    <3>3. CASE k \notin Obj
      <4>1. PICK u \in Unboxed : k = Canonical(u)
        BY <3>3 DEF Identities
      <4>2. u \in Keys /\ u \notin Obj
        BY ObjAssumption DEF Keys, Arg
      <4> QED
        BY <3>1, <3>3, <4>1, <4>2, PlainKeys DEF IdOf
    <3> QED
      BY <3>2, <3>3
  <2>2. MapOf[k] = Identity(Lookup(Value(k)))
    BY DEF MapOf
  <2> QED
    BY <1>2, <2>1, <2>2
<1>4. ASSUME NEW p \in Live PROVE KeyId[p] \in Identities /\ ValId[p] # nilValue
  <2>1. KeyId[p] \in Identities /\ \E y \in Bound : ValId[p] = IdOf(y)
    BY <1>0, <1>1, IdentitiesAre
  <2>2. \A y \in Bound : y \in Keys
    BY ObjAssumption DEF Keys, Arg
  <2> QED
    BY <2>1, <2>2, NilIs
<1> QED
  BY <1>2, <1>3, <1>4 DEF MapRead

\* The length of the table is the number of keys that are not nil.
LEMMA LengthIs ==
  ASSUME NoNaN, IInv
  PROVE  length = Cardinality({k \in Identities : MapOf[k] # nilValue})
<1> DEFINE K == {k \in Identities : MapOf[k] # nilValue}
           f == [p \in Live |-> KeyId[p]]
<1>1. MapRead
  BY MapIs
<1>2. IsFiniteSet(Live) /\ length = Cardinality(Live)
  BY MembersLive DEF IInv, CountKept
<1>3. f \in [Live -> K]
  BY <1>1 DEF MapRead
<1>4. ASSUME NEW p \in Live, NEW q \in Live, f[p] = f[q] PROVE p = q
  <2>1. KeyId[p] = KeyId[q] /\ KeyId[p] \in Identities
    BY <1>1, <1>4 DEF MapRead
  <2>2. \A k \in Identities : k # NotANumber
    <3>1. \A k \in Identities : k \in Keys
      BY DEF Keys
    <3>2. NotANumber \notin Obj
      BY ObjAssumption DEF NotANumber
    <3>3. \A k \in Identities : k \notin Obj => \E x \in Keys : k = IdOf(x)
      <4>1. \A u \in Unboxed : u \in Keys /\ u \notin Obj
        BY ObjAssumption DEF Keys, Arg
      <4> QED
        BY <4>1 DEF Identities, IdOf
    <3> QED
      BY <3>1, <3>2, <3>3, NoNaNKeys
  <2> QED
    BY <2>1, <2>2 DEF IInv, KeysKept
<1>5. ASSUME NEW k \in K PROVE \E p \in Live : f[p] = k
  BY <1>1 DEF MapRead
<1> HIDE DEF f, K
<1>6. f \in Bijection(Live, K)
  <2>1. f \in Injection(Live, K)
    BY <1>3, <1>4 DEF Injection, IsInjective
  <2>2. f \in Surjection(Live, K)
    BY <1>3, <1>5 DEF Surjection
  <2> QED
    BY <2>1, <2>2 DEF Bijection
<1>7. Cardinality(K) = Cardinality(Live)
  <2>1. ExistsBijection(Live, K)
    BY <1>6 DEF ExistsBijection
  <2> QED
    BY <1>2, <2>1, FS_Bijection
<1> QED
  BY <1>2, <1>7 DEF K


\* The same of the next state.
LEMMA MapIsNext == NoNaN /\ IInv' => MapRead'
<1>1. (NoNaN /\ IInv => MapRead)'
  BY MapIs, PTL
<1>2. NoNaN' <=> NoNaN
  BY DEF NoNaN, NotANumber
<1> QED
  BY <1>1, <1>2

\* The map is no more than its bindings.
LEMMA SameBindings ==
  ASSUME MapRead, MapRead', Bindings' = Bindings
  PROVE  MapOf' = MapOf
<1>1. MapOf' = [k \in Identities |-> MapOf'[k]] /\ MapOf = [k \in Identities |-> MapOf[k]]
  BY DEF MapOf
<1>2. ASSUME NEW k \in Identities PROVE MapOf'[k] = MapOf[k]
  <2>1. CASE \E p \in Live : KeyId[p] = k
    <3>1. PICK p \in Live : KeyId[p] = k
      BY <2>1
    <3>2. <<k, ValId[p]>> \in Bindings'
      BY <3>1 DEF Bindings
    <3>3. Bindings' = {<<KeyId'[q], ValId'[q]>> : q \in Live'}
      BY DEF Bindings
    <3>4. PICK q \in Live' : KeyId'[q] = k /\ ValId'[q] = ValId[p]
      BY <3>2, <3>3
    <3> QED
      BY <3>1, <3>4 DEF MapRead
  <2>2. CASE ~\E p \in Live : KeyId[p] = k
    <3>1. \A q \in Live' : KeyId'[q] # k
      <4> SUFFICES ASSUME NEW q \in Live', KeyId'[q] = k PROVE FALSE
        OBVIOUS
      <4>1. Bindings' = {<<KeyId'[r], ValId'[r]>> : r \in Live'}
        BY DEF Bindings
      <4>2. <<k, ValId'[q]>> \in Bindings
        BY <4>1
      <4> QED
        BY <2>2, <4>2 DEF Bindings
    <3> QED
      BY <2>2, <3>1 DEF MapRead
  <2> QED
    BY <2>1, <2>2
<1> QED
  BY <1>1, <1>2, Zenon

\* What changes one key's binding binds that key, in the map.
LEMMA BindStep ==
  ASSUME MapRead, MapRead', NEW k \in Identities, NEW v,
         \A q \in Live : KeyId[q] # k =>
           q \in Live' /\ KeyId'[q] = KeyId[q] /\ ValId'[q] = ValId[q],
         \A q \in Live' : KeyId'[q] # k => q \in Live /\ KeyId[q] = KeyId'[q],
         \/ v = nilValue /\ \A q \in Live' : KeyId'[q] # k
         \/ \E q \in Live' : KeyId'[q] = k /\ ValId'[q] = v
  PROVE  MapOf' = [MapOf EXCEPT ![k] = v]
<1>1. MapOf' = [i \in Identities |-> MapOf'[i]] /\ DOMAIN MapOf = Identities
  BY DEF MapOf
<1>2. MapOf'[k] = v
  BY DEF MapRead
<1>3. ASSUME NEW i \in Identities, i # k PROVE MapOf'[i] = MapOf[i]
  <2>1. CASE \E p \in Live : KeyId[p] = i
    BY <1>3, <2>1 DEF MapRead
  <2>2. CASE \A p \in Live : KeyId[p] # i
    <3>1. \A q \in Live' : KeyId'[q] # i
      BY <1>3, <2>2
    <3> QED
      BY <2>2, <3>1 DEF MapRead
  <2> QED
    BY <2>1, <2>2
<1> DEFINE m == [MapOf EXCEPT ![k] = v]
<1>4. m = [i \in Identities |-> IF i = k THEN v ELSE MapOf[i]]
  BY <1>1
<1> HIDE DEF m
<1>5. \A i \in Identities : MapOf'[i] = IF i = k THEN v ELSE MapOf[i]
  BY <1>2, <1>3
<1>6. MapOf' = m
  BY <1>1, <1>4, <1>5
<1> QED
  BY <1>6 DEF m

\* A new table binds no key.
LEMMA InitMaps == ASSUME NoNaN, Init PROVE Map!Init
<1>1. MapRead
  BY MapIs, InitIInv
<1>2. Live = {}
  BY DEF Init, Live
<1>3. MapOf = [k \in Identities |-> nilValue]
  <2>1. \A k \in Identities : MapOf[k] = nilValue
    BY <1>1, <1>2 DEF MapRead
  <2>2. MapOf = [k \in Identities |-> MapOf[k]]
    BY DEF MapOf
  <2> QED
    BY <2>1, <2>2, Zenon
<1>4. last = <<"new">>
  BY DEF Init
<1> QED
  BY <1>3, <1>4 DEF Map!Init, MapOf

\* Each operation is the one of that name of the map, and a collection none.
LEMMA NextMaps == ASSUME NoNaN, IInv, [Next]_vars PROVE [Map!Next]_Map!vars
<1>0. /\ WhereKept /\ IInv' /\ MapRead /\ MapRead' /\ outcome \in {"running", "crashed"}
  BY NextIInv, MapIs, MapIsNext DEF IInv, TypeOK
<1>a. \A x \in Arg \cup Bound : x \in Keys /\ x \in Arg /\ Identity(Value(x)) = IdOf(x) /\ IdOf(x) \in Identities
  <2>1. \A x \in Arg \cup Bound : x \in Keys /\ x \in Arg
    BY ObjAssumption DEF Keys, Arg
  <2> QED
    BY <1>0, <2>1, ValueIs, IdOfKey
<1>b. Identities = {Canonical(x) : x \in Unboxed} \cup Obj
  BY DEF Identities
<1>c. /\ Map!vars = <<MapOf, last>>
      /\ \A k : Map!Get(k) <=> last' = <<"get", k, MapOf[k]>> /\ MapOf' = MapOf
      /\ \A k, v : Map!Bind(k, v) <=> last' = <<"put", k, v>> /\ MapOf' = [MapOf EXCEPT ![k] = v]
      /\ Map!Length <=> /\ last' = <<"length", Cardinality({k \in Identities : MapOf[k] # nilValue})>>
                        /\ MapOf' = MapOf
  <2>1. Map!vars = <<MapOf, last>>
    BY DEF Map!vars, MapOf
  <2>2. ASSUME NEW k PROVE Map!Get(k) <=> last' = <<"get", k, MapOf[k]>> /\ MapOf' = MapOf
    BY DEF Map!Get, MapOf
  <2>3. ASSUME NEW k, NEW v
        PROVE  Map!Bind(k, v) <=> last' = <<"put", k, v>> /\ MapOf' = [MapOf EXCEPT ![k] = v]
    BY DEF Map!Bind, MapOf
  <2>4. Map!Length <=> /\ last' = <<"length", Cardinality({k \in Identities : MapOf[k] # nilValue})>>
                       /\ MapOf' = MapOf
    <3>1. \A S : Map!Cardinality(S) = Cardinality(S)
      BY Zenon DEF Map!Cardinality, Cardinality
    <3> QED
      BY <3>1 DEF Map!Length, MapOf
  <2> QED
    BY <2>1, <2>2, <2>3, <2>4
<1>d. ASSUME UNCHANGED <<where, binding, table>>, outcome' = outcome PROVE MapOf' = MapOf
  <2>1. Live' = Live /\ \A q \in Live : KeyId'[q] = KeyId[q] /\ ValId'[q] = ValId[q]
    BY <1>0, <1>d, StutterStep
  <2>2. Bindings' = Bindings
    BY <2>1 DEF Bindings
  <2> QED
    BY <1>0, <2>2, SameBindings
<1>1. ASSUME NEW x \in Arg, VTable_get(x) PROVE Map!Next
  <2>1. MapOf' = MapOf
    BY <1>1, <1>d DEF VTable_get
  <2>2. last' = <<"get", IdOf(x), Identity(Lookup(Value(x)))>>
    BY <1>1, <1>a DEF VTable_get
  <2>3. Identity(Lookup(Value(x))) = MapOf[IdOf(x)]
    BY <1>0, <1>a DEF MapRead
  <2>4. Map!Get(IdOf(x)) /\ IdOf(x) \in Identities
    BY <1>a, <1>c, <2>1, <2>2, <2>3
  <2> QED
    BY <2>4 DEF Map!Next
<1>2. ASSUME NEW x \in Arg, VTable_remove(x), outcome = "running" PROVE Map!Next
  <2> DEFINE k == IdOf(x)
  <2>1. /\ Live' = {q \in Live : ~(KeyId[q] = k /\ k # NotANumber)}
        /\ \A q \in Live : KeyId'[q] = KeyId[q] /\ ValId'[q] = ValId[q]
    BY <1>2, RemoveStep
  <2>2. k # NotANumber /\ k \in Identities
    BY <1>a, NoNaNKeys
  <2>3. last' = <<"put", k, nilValue>>
    BY <1>2, <1>a DEF VTable_remove
  <2> HIDE DEF k
  <2>4. MapOf' = [MapOf EXCEPT ![k] = nilValue]
    <3>1. \A q \in Live : KeyId[q] # k =>
            q \in Live' /\ KeyId'[q] = KeyId[q] /\ ValId'[q] = ValId[q]
      BY <2>1
    <3>2. \A q \in Live' : KeyId'[q] # k /\ q \in Live /\ KeyId[q] = KeyId'[q]
      BY <2>1, <2>2
    <3> QED
      BY <1>0, <2>2, <3>1, <3>2, BindStep
  <2>5. Map!Bind(k, nilValue)
    BY <1>c, <2>3, <2>4
  <2> QED
    BY <2>2, <2>5 DEF Map!Next
<1>3. ASSUME NEW x \in Arg, NEW y \in Bound, VTable_put(x, y) PROVE Map!Next
  <2> DEFINE k == IdOf(x)
             v == IdOf(y)
  <2>1. k # NotANumber /\ k \in Identities /\ v \in Identities
    BY <1>a, NoNaNKeys
  <2>2. last' = <<"put", k, v>> /\ where' = where /\ outcome' = outcome
    BY <1>3, <1>a DEF VTable_put
  <2>3. ASSUME Rebind(x, y) PROVE MapOf' = [MapOf EXCEPT ![k] = v]
    <3>1. /\ Live' = Live /\ KeyId' = KeyId
          /\ \E p \in Live : /\ KeyId[p] = k /\ ValId'[p] = v
                             /\ \A q \in DOMAIN binding : q # p => ValId'[q] = ValId[q]
      BY <2>2, <2>3, RebindStep
    <3>2. Live \subseteq DOMAIN binding
      BY DEF Live
    <3> HIDE DEF k, v
    <3>3. \A q \in Live : KeyId[q] # k =>
            q \in Live' /\ KeyId'[q] = KeyId[q] /\ ValId'[q] = ValId[q]
      BY <3>1, <3>2
    <3>4. \A q \in Live' : KeyId'[q] # k => q \in Live /\ KeyId[q] = KeyId'[q]
      BY <3>1
    <3>5. \E q \in Live' : KeyId'[q] = k /\ ValId'[q] = v
      BY <3>1
    <3> QED
      BY <1>0, <2>1, <3>3, <3>4, <3>5, BindStep
  <2>4. ASSUME Prepend(x, y) PROVE MapOf' = [MapOf EXCEPT ![k] = v]
    <3>1. PICK n : n \notin Live /\ Live' = Live \cup {n} /\ KeyId'[n] = k /\ ValId'[n] = v
      BY <2>2, <2>4, PrependStep
    <3>2. \A q \in Live : KeyId'[q] = KeyId[q] /\ ValId'[q] = ValId[q]
      BY <2>2, <2>4, PrependStep
    <3> HIDE DEF k, v
    <3>3. \A q \in Live : KeyId[q] # k =>
            q \in Live' /\ KeyId'[q] = KeyId[q] /\ ValId'[q] = ValId[q]
      BY <3>1, <3>2
    <3>4. \A q \in Live' : KeyId'[q] # k => q \in Live /\ KeyId[q] = KeyId'[q]
      BY <3>1, <3>2
    <3>5. \E q \in Live' : KeyId'[q] = k /\ ValId'[q] = v
      BY <3>1
    <3> QED
      BY <1>0, <2>1, <3>3, <3>4, <3>5, BindStep
  <2>5. MapOf' = [MapOf EXCEPT ![k] = v]
    BY <1>3, <2>3, <2>4 DEF VTable_put
  <2> HIDE DEF k, v
  <2>6. Map!Bind(k, v) /\ v \in {Canonical(z) : z \in Unboxed} \cup Obj
    BY <1>b, <1>c, <2>1, <2>2, <2>5
  <2> QED
    BY <2>1, <2>6 DEF Map!Next
<1>4. ASSUME VTable_length PROVE Map!Next
  <2>1. MapOf' = MapOf /\ last' = <<"length", length>>
    BY <1>4, <1>d DEF VTable_length
  <2>2. length = Cardinality({k \in Identities : MapOf[k] # nilValue})
    BY LengthIs
  <2>3. Map!Length
    BY <1>c, <2>1, <2>2
  <2> QED
    BY <2>3 DEF Map!Next
<1>5. ASSUME Collect PROVE UNCHANGED Map!vars
  <2>1. MapOf' = MapOf
    BY <1>0, <1>5, CollectStep, SameBindings
  <2>2. last' = last
    BY <1>5 DEF Collect
  <2> QED
    BY <1>c, <2>1, <2>2 DEF Map!vars, MapOf
<1>6. ASSUME UNCHANGED vars PROVE UNCHANGED Map!vars
  <2>1. MapOf' = MapOf /\ last' = last
    BY <1>6, <1>d DEF vars
  <2> QED
    BY <2>1 DEF Map!vars, MapOf
<1> QED
  BY <1>1, <1>2, <1>3, <1>4, <1>5, <1>6 DEF Next, Running

\* Unless a key is NaN, which no search finds, the table is a map from
\* identities to identities, whatever the hash function, however many keys
\* collide and however often the collector moves table, keys and values.
THEOREM Refinement == ASSUME NotANumber \notin Unboxed PROVE Spec => ImplementsMap
<1>0. NoNaN
  BY DEF NoNaN
<1>1. Init => Map!Init
  BY <1>0, InitMaps
<1>2. IInv /\ [Next]_vars => [Map!Next]_Map!vars
  BY <1>0, NextMaps
<1> QED
  BY <1>1, <1>2, Invariance, PTL DEF Spec, ImplementsMap, Map!Spec

=============================================================================
