-------------------------- MODULE LinkedListProofs --------------------------
(***************************************************************************)
(* Facts about linked lists, for every set of nodes: which sequence a list  *)
(* is, and how it changes when one link does.                              *)
(***************************************************************************)
EXTENDS LinkedLists, FiniteSetTheorems, SequenceTheorems, WellFoundedInduction, TLAPS

\* Following the links from a, one finds the nodes s in this order, then null.
Spells(s, next, null, a) ==
  /\ s \in Seq(DOMAIN next)
  /\ s = <<>> <=> a = null
  /\ s # <<>> => s[1] = a
  /\ \A k \in 1..Len(s) : next[s[k]] = IF k = Len(s) THEN null ELSE s[k + 1]

-----------------------------------------------------------------------------
(* Induction and recursion over the natural numbers *)

\* A set that holds 0 and the successor of each of its members holds them all.
LEMMA SetInduction ==
  ASSUME NEW T, 0 \in T, \A n \in Nat : n \in T => n + 1 \in T
  PROVE  \A n \in Nat : n \in T
<1> SUFFICES ASSUME NEW k \in Nat, k \notin T PROVE FALSE
  OBVIOUS
<1> DEFINE U == Nat \ T
<1>1. PICK n \in U : \A m \in U : ~(<<m, n>> \in OpToRel(<, Nat))
  BY NatLessThanWellFounded, WFMin
<1>2. \A m \in U : ~(m < n)
  BY <1>1 DEF OpToRel
<1>3. n # 0 /\ n - 1 \in Nat
  OBVIOUS
<1>4. n - 1 \in T
  BY <1>2, <1>3
<1> QED
  BY <1>3, <1>4

\* The first n nodes of every list, given the first n - 1.
Step(next, null, n, rest) ==
  [a \in DOMAIN next \cup {null} |->
     IF n = 0 \/ a = null THEN <<>> ELSE <<a>> \o rest[next[a]]]

\* No step leads to itself.
LEMMA StepZero ==
  ASSUME NEW next, NEW null, NEW f, NEW g
  PROVE  Step(next, null, 0, f) = Step(next, null, 0, g)
BY Zenon DEF Step

\* The recursion that defines Links is well founded.
LEMMA LinksRecursion ==
  ASSUME NEW next, NEW null
  PROVE  Links(next, null) = [n \in Nat |-> Step(next, null, n, Links(next, null)[n - 1])]
<1> DEFINE St(n, rest) == Step(next, null, n, rest)
           Up(G, n) == G = [m \in 0..n |-> St(m, G[m - 1])]
<1>0. \A f, g : St(0, f) = St(0, g)
  BY StepZero
<1> HIDE DEF St
<1>1. \A n \in Nat : \E G : Up(G, n)
  <2> DEFINE T == {n \in Nat : \E G : Up(G, n)}
  <2>1. 0 \in T
    <3> DEFINE G == [m \in 0..0 |-> St(0, <<>>)]
    <3>1. \A m \in 0..0 : St(m, G[m - 1]) = St(0, <<>>)
      BY <1>0
    <3>2. Up(G, 0)
      BY <3>1
    <3> QED
      BY <3>2
  <2>2. ASSUME NEW n \in Nat, n \in T PROVE n + 1 \in T
    <3>1. PICK G : Up(G, n)
      BY <2>2
    <3> DEFINE H == [m \in 0..n + 1 |-> IF m = n + 1 THEN St(n + 1, G[n]) ELSE G[m]]
    <3>2. \A m \in 0..n + 1 : H[m] = St(m, H[m - 1])
      <4>1. ASSUME NEW m \in 1..n PROVE H[m] = St(m, H[m - 1])
        BY <3>1
      <4>2. H[0] = St(0, H[0 - 1])
        BY <1>0, <3>1
      <4>3. H[n + 1] = St(n + 1, H[n + 1 - 1])
        OBVIOUS
      <4> HIDE DEF H
      <4>4. \A m \in 0..n + 1 : m = 0 \/ m \in 1..n \/ m = n + 1
        OBVIOUS
      <4> QED
        BY <4>1, <4>2, <4>3, <4>4
    <3>3. Up(H, n + 1)
      BY <3>2
    <3> HIDE DEF H
    <3> QED
      BY <3>3
  <2> HIDE DEF T
  <2>3. \A n \in Nat : n \in T
    BY <2>1, <2>2, SetInduction
  <2> QED
    BY <2>3 DEF T
<1>2. ASSUME NEW n \in Nat, NEW m \in Nat, NEW G, NEW H, Up(G, n), Up(H, m)
      PROVE  \A k \in Nat : k <= n /\ k <= m => G[k] = H[k]
  <2> DEFINE T == {k \in Nat : k <= n /\ k <= m => G[k] = H[k]}
  <2>1. 0 \in T
    BY <1>0, <1>2
  <2>2. ASSUME NEW k \in Nat, k \in T PROVE k + 1 \in T
    <3>1. CASE k + 1 <= n /\ k + 1 <= m
      <4>1. G[k] = H[k] /\ k + 1 \in 0..n /\ k + 1 \in 0..m /\ k + 1 - 1 = k
        BY <2>2, <3>1
      <4>2. G[k + 1] = St(k + 1, G[k]) /\ H[k + 1] = St(k + 1, H[k])
        BY <1>2, <4>1
      <4> QED
        BY <4>1, <4>2
    <3> QED
      BY <3>1
  <2> HIDE DEF T
  <2>3. \A k \in Nat : k \in T
    BY <2>1, <2>2, SetInduction
  <2> QED
    BY <2>3 DEF T
<1> DEFINE Approx(n) == CHOOSE G : Up(G, n)
           F == [n \in Nat |-> Approx(n)[n]]
<1>3. \A n \in Nat : Up(Approx(n), n)
  BY <1>1
<1> HIDE DEF Approx
<1>4. ASSUME NEW n \in Nat PROVE F[n] = St(n, F[n - 1])
  <2>1. Approx(n)[n] = St(n, Approx(n)[n - 1])
    BY <1>3
  <2>2. CASE n = 0
    BY <1>0, <2>1, <2>2
  <2>3. CASE n # 0
    <3>1. n - 1 \in Nat
      BY <2>3
    <3>2. Approx(n)[n - 1] = Approx(n - 1)[n - 1]
      BY <1>2, <1>3, <3>1
    <3> QED
      BY <2>1, <3>1, <3>2
  <2> QED
    BY <2>2, <2>3
<1>5. F = [n \in Nat |-> St(n, F[n - 1])]
  BY <1>4
<1>6. Links(next, null) = CHOOSE G : G = [n \in Nat |-> St(n, G[n - 1])]
  BY DEF Links, St, Step
<1> HIDE DEF F
<1> QED
  BY <1>5, <1>6 DEF St

\* The nodes of a list are its first and those of the list after it.
LEMMA LinksUnfold ==
  ASSUME NEW next, NEW null, NEW n \in Nat, NEW a \in DOMAIN next \cup {null}
  PROVE  Links(next, null)[n][a] =
           IF n = 0 \/ a = null THEN <<>> ELSE <<a>> \o Links(next, null)[n - 1][next[a]]
<1> DEFINE L == Links(next, null)
<1> HIDE DEF L
<1>1. L = [m \in Nat |-> Step(next, null, m, L[m - 1])]
  BY LinksRecursion DEF L
<1>2. L[n] = Step(next, null, n, L[n - 1])
  BY <1>1
<1>3. Step(next, null, n, L[n - 1])[a] =
        IF n = 0 \/ a = null THEN <<>> ELSE <<a>> \o L[n - 1][next[a]]
  BY Zenon DEF Step
<1> QED
  BY <1>2, <1>3 DEF L

-----------------------------------------------------------------------------
(* What a list spells *)

\* A list of nodes begins with a node or is empty.
LEMMA SpellsHead ==
  ASSUME NEW next, NEW null, NEW s, NEW a, Spells(s, next, null, a)
  PROVE  s \in Seq(DOMAIN next) /\ Len(s) \in Nat /\ a \in DOMAIN next \cup {null}
<1>1. s \in Seq(DOMAIN next) /\ Len(s) \in Nat
  BY DEF Spells
<1>2. CASE s = <<>>
  BY <1>1, <1>2 DEF Spells
<1>3. CASE s # <<>>
  <2>1. 1 \in 1..Len(s)
    BY <1>1, <1>3, EmptySeq
  <2> QED
    BY <1>1, <1>3, <2>1, ElementOfSeq DEF Spells
<1> QED
  BY <1>2, <1>3

\* The sequence of the links after the first.
LEMMA SpellsTail ==
  ASSUME NEW next, NEW null, NEW s, NEW a, Spells(s, next, null, a), a # null,
         null \notin DOMAIN next
  PROVE  /\ a \in DOMAIN next
         /\ Spells(Tail(s), next, null, next[a])
         /\ s = <<a>> \o Tail(s)
         /\ Len(Tail(s)) = Len(s) - 1
         /\ Range(s) = {a} \cup Range(Tail(s))
<1> DEFINE N == DOMAIN next
<1>1. s \in Seq(N) /\ s # <<>> /\ s[1] = a /\ Len(s) \in Nat /\ Len(s) # 0
  BY DEF Spells
<1>2. a \in N
  BY <1>1, ElementOfSeq
<1>3. /\ Tail(s) \in Seq(N) /\ Len(Tail(s)) = Len(s) - 1 /\ Len(Tail(s)) \in Nat
      /\ \A k \in 1..Len(Tail(s)) : Tail(s)[k] = s[k + 1]
  BY <1>1, HeadTailProperties
<1>4. next[a] = IF Len(s) = 1 THEN null ELSE s[2]
  <2>1. 1 \in 1..Len(s) /\ 1 + 1 = 2
    BY <1>1
  <2>2. next[s[1]] = IF 1 = Len(s) THEN null ELSE s[1 + 1]
    BY <2>1 DEF Spells
  <2> QED
    BY <1>1, <2>1, <2>2
<1>5. Tail(s) = <<>> <=> Len(s) = 1
  <2>1. Len(Tail(s)) = 0 <=> Tail(s) = <<>>
    BY <1>3, EmptySeq
  <2> QED
    BY <1>1, <1>3, <2>1
<1>6. Tail(s) = <<>> <=> next[a] = null
  <2>1. Len(s) # 1 => 2 \in 1..Len(s)
    <3>1. PICK n \in Nat : n = Len(s)
      BY <1>1
    <3>2. n # 0
      BY <1>1, <3>1
    <3> QED
      BY <3>1, <3>2
  <2>2. Len(s) # 1 => s[2] \in N
    BY <1>1, <2>1, ElementOfSeq
  <2> QED
    BY <1>4, <1>5, <2>2
<1>7. Tail(s) # <<>> => Tail(s)[1] = next[a]
  BY <1>1, <1>3, <1>4, <1>5
<1>8. ASSUME NEW k \in 1..Len(Tail(s))
      PROVE  next[Tail(s)[k]] = IF k = Len(Tail(s)) THEN null ELSE Tail(s)[k + 1]
  <2>1. k + 1 \in 1..Len(s) /\ Tail(s)[k] = s[k + 1]
    BY <1>1, <1>3
  <2>2. next[s[k + 1]] = IF k + 1 = Len(s) THEN null ELSE s[k + 1 + 1]
    BY <2>1 DEF Spells
  <2>3. CASE k = Len(Tail(s))
    BY <1>1, <1>3, <2>1, <2>2, <2>3
  <2>4. CASE k # Len(Tail(s))
    <3>0. PICK n \in Nat : n = Len(Tail(s)) /\ Len(s) = n + 1
      <4>1. PICK m \in Nat : m = Len(s) /\ m # 0 /\ Len(Tail(s)) = m - 1
        BY <1>1, <1>3
      <4>2. m - 1 \in Nat /\ m = m - 1 + 1
        BY <4>1
      <4> QED
        BY <4>1, <4>2
    <3>1. k + 1 \in 1..Len(Tail(s))
      BY <2>4, <3>0
    <3>2. Tail(s)[k + 1] = s[k + 1 + 1]
      BY <1>3, <3>1
    <3>3. k + 1 # Len(s)
      BY <2>4, <3>0
    <3> QED
      BY <2>1, <2>2, <2>4, <3>2, <3>3
  <2> QED
    BY <2>3, <2>4
<1>9. Spells(Tail(s), next, null, next[a])
  BY <1>3, <1>6, <1>7, <1>8 DEF Spells
<1>10. s = <<a>> \o Tail(s)
  BY <1>1, <1>2, <1>3
<1>11. Range(s) = {a} \cup Range(Tail(s))
  <2>1. <<a>> \in Seq(N) /\ Range(<<a>>) = {a}
    BY <1>2 DEF Range
  <2>2. Range(<<a>> \o Tail(s)) = Range(<<a>>) \cup Range(Tail(s))
    BY <1>3, <2>1, RangeConcatenation
  <2> QED
    BY Zenon, <1>10, <2>1, <2>2
<1> QED
  BY <1>2, <1>3, <1>9, <1>10, <1>11

\* A node before a list makes a longer list.
LEMMA SpellsCons ==
  ASSUME NEW next, NEW null, NEW s, NEW b, Spells(s, next, null, b),
         null \notin DOMAIN next, NEW a \in DOMAIN next, next[a] = b
  PROVE  /\ Spells(<<a>> \o s, next, null, a)
         /\ Range(<<a>> \o s) = {a} \cup Range(s)
<1> DEFINE N == DOMAIN next
           t == <<a>> \o s
<1>1. s \in Seq(N) /\ <<a>> \in Seq(N) /\ Len(s) \in Nat /\ a # null
  BY DEF Spells
<1>2. /\ t \in Seq(N) /\ Len(t) = Len(s) + 1 /\ t[1] = a
      /\ \A k \in 2..Len(t) : t[k] = s[k - 1]
  BY <1>1
<1> HIDE DEF t
<1>3. t # <<>>
  BY <1>1, <1>2
<1>4. ASSUME NEW k \in 1..Len(t)
      PROVE  next[t[k]] = IF k = Len(t) THEN null ELSE t[k + 1]
  <2>1. CASE k = 1
    <3>1. CASE s = <<>>
      BY <1>1, <1>2, <2>1, <3>1 DEF Spells
    <3>2. CASE s # <<>>
      <4>1. t[2] = s[1] /\ Len(t) # 1 /\ s[1] = b
        BY <1>1, <1>2, <3>2 DEF Spells
      <4> QED
        BY <1>2, <2>1, <4>1
    <3> QED
      BY <3>1, <3>2
  <2>2. CASE k # 1
    <3>1. k - 1 \in 1..Len(s) /\ t[k] = s[k - 1]
      BY <1>1, <1>2, <2>2
    <3>2. next[s[k - 1]] = IF k - 1 = Len(s) THEN null ELSE s[k - 1 + 1]
      BY <3>1 DEF Spells
    <3>3. k - 1 # Len(s) => t[k + 1] = s[k + 1 - 1]
      <4>1. k - 1 # Len(s) => k + 1 \in 2..Len(t)
        BY <1>1, <1>2, <3>1
      <4> QED
        BY <1>2, <4>1
    <3> QED
      BY <1>1, <1>2, <3>1, <3>2, <3>3
  <2> QED
    BY <2>1, <2>2
<1>5. Spells(t, next, null, a)
  BY <1>1, <1>2, <1>3, <1>4 DEF Spells
<1>6. Range(t) = {a} \cup Range(s)
  <2>1. Range(<<a>>) = {a}
    BY DEF Range
  <2>2. Range(<<a>> \o s) = Range(<<a>>) \cup Range(s)
    BY <1>1, RangeConcatenation
  <2> QED
    BY Zenon, <2>1, <2>2 DEF t
<1> QED
  BY <1>5, <1>6 DEF t

\* The list that ends at once.
LEMMA SpellsNull ==
  ASSUME NEW next, NEW null
  PROVE  Spells(<<>>, next, null, null) /\ Range(<<>>) = {}
BY DEF Spells, Range

\* Only the links of a list's own nodes matter.
LEMMA SpellsAgree ==
  ASSUME NEW f, NEW g, NEW null, NEW s, NEW a, Spells(s, f, null, a),
         \A x \in Range(s) : x \in DOMAIN g /\ g[x] = f[x]
  PROVE  Spells(s, g, null, a)
<1>1. s \in Seq(DOMAIN f) /\ Len(s) \in Nat
  BY DEF Spells
<1>2. \A k \in 1..Len(s) : s[k] \in Range(s)
  BY <1>1, RangeEquality
<1>3. s \in Seq(DOMAIN g)
  <2>1. s \in Seq(Range(s)) /\ Range(s) \subseteq DOMAIN g
    BY <1>1, SeqOfRange
  <2> QED
    BY <2>1, SeqMonotonic
<1> QED
  BY <1>2, <1>3 DEF Spells

\* No list has a cycle: a node occurs in it once.
LEMMA SpellsInjective ==
  ASSUME NEW next, NEW null, NEW s, NEW a, Spells(s, next, null, a),
         null \notin DOMAIN next
  PROVE  \A j, k \in 1..Len(s) : s[j] = s[k] => j = k
<1>1. s \in Seq(DOMAIN next) /\ Len(s) \in Nat
  BY DEF Spells
<1> DEFINE n == Len(s)
           T == {d \in Nat : \A j, k \in 1..n : j <= k /\ k + d = n /\ s[j] = s[k] => j = k}
<1>2. \A k \in 1..n : s[k] \in DOMAIN next
  BY <1>1, ElementOfSeq
<1>3. \A k \in 1..n : next[s[k]] = IF k = n THEN null ELSE s[k + 1]
  BY DEF Spells
<1> HIDE DEF n
<1>4. 0 \in T
  <2> SUFFICES ASSUME NEW j \in 1..n, s[j] = s[n], j # n, n \in 1..n
               PROVE  FALSE
    BY <1>1 DEF n
  <2>1. j + 1 \in 1..n
    BY <1>1 DEF n
  <2> QED
    BY <1>2, <1>3, <2>1
<1>5. ASSUME NEW d \in Nat, d \in T PROVE d + 1 \in T
  <2> SUFFICES ASSUME NEW j \in 1..n, NEW k \in 1..n, j <= k, k + (d + 1) = n, s[j] = s[k]
               PROVE  j = k
    OBVIOUS
  <2>1. /\ n \in Nat /\ j # n /\ k # n /\ j + 1 \in 1..n /\ k + 1 \in 1..n
        /\ j + 1 <= k + 1 /\ (k + 1) + d = n
    BY <1>1 DEF n
  <2>2. s[j + 1] = s[k + 1]
    BY <1>3, <2>1
  <2>3. j + 1 = k + 1
    BY <1>5, <2>1, <2>2
  <2> QED
    BY <2>3
<1> HIDE DEF T
<1>6. \A d \in Nat : d \in T
  BY <1>4, <1>5, SetInduction
<1>7. ASSUME NEW j \in 1..n, NEW k \in 1..n, j <= k, s[j] = s[k] PROVE j = k
  <2>1. n - k \in Nat /\ k + (n - k) = n
    BY <1>1 DEF n
  <2>2. n - k \in T
    BY <1>6, <2>1
  <2> QED
    BY <1>7, <2>1, <2>2 DEF T
<1> QED
  BY <1>1, <1>7 DEF n

\* So the first is not among the others.
LEMMA SpellsFirst ==
  ASSUME NEW next, NEW null, NEW s, NEW a, Spells(s, next, null, a), a # null,
         null \notin DOMAIN next
  PROVE  a \notin Range(Tail(s))
<1>1. s \in Seq(DOMAIN next) /\ s # <<>> /\ s[1] = a /\ Len(s) \in Nat
  BY DEF Spells
<1>2. /\ Tail(s) \in Seq(DOMAIN next) /\ Len(Tail(s)) = Len(s) - 1
      /\ \A k \in 1..Len(Tail(s)) : Tail(s)[k] = s[k + 1]
  BY <1>1, HeadTailProperties
<1> SUFFICES ASSUME a \in Range(Tail(s)) PROVE FALSE
  OBVIOUS
<1>3. PICK k \in 1..Len(Tail(s)) : Tail(s)[k] = a
  <2>1. Range(Tail(s)) = {Tail(s)[k] : k \in 1..Len(Tail(s))}
    BY <1>2, RangeEquality
  <2> QED
    BY <2>1
<1>4. 1 \in 1..Len(s) /\ k + 1 \in 1..Len(s) /\ s[1] = s[k + 1]
  BY <1>1, <1>2, <1>3
<1>5. 1 = k + 1
  BY <1>4, SpellsInjective
<1> QED
  BY <1>5

\* A list is no longer than there are nodes.
LEMMA SpellsBounded ==
  ASSUME NEW next, NEW null, NEW s, NEW a, Spells(s, next, null, a),
         null \notin DOMAIN next, IsFiniteSet(DOMAIN next)
  PROVE  /\ Len(s) \in Nat /\ Cardinality(DOMAIN next) \in Nat
         /\ Len(s) <= Cardinality(DOMAIN next)
<1> DEFINE N == DOMAIN next
<1>1. s \in Seq(N) /\ Len(s) \in Nat
  BY DEF Spells
<1>2. s \in [1..Len(s) -> N]
  BY <1>1, LenProperties
<1>3. s \in Injection(1..Len(s), N)
  BY <1>2, SpellsInjective DEF Injection, IsInjective
<1>4. Cardinality(1..Len(s)) <= Cardinality(N)
  BY <1>3, FS_Injection
<1>5. Cardinality(1..Len(s)) = Len(s)
  <2>1. \A n \in Nat : Cardinality(1..n) = IF 1 > n THEN 0 ELSE n - 1 + 1
    BY FS_Interval
  <2>2. \A n \in Nat : 1 > n => n = 0
    OBVIOUS
  <2> QED
    BY <1>1, <2>1, <2>2
<1> QED
  BY <1>1, <1>4, <1>5, FS_CardinalityType

\* What a list spells is the list.
LEMMA ListIs ==
  ASSUME NEW next, NEW null, NEW s, NEW a, Spells(s, next, null, a),
         null \notin DOMAIN next, IsFiniteSet(DOMAIN next)
  PROVE  List(next, null, a) = s
<1> DEFINE L == Links(next, null)
           N == DOMAIN next
           T == {n \in Nat : \A t \in Seq(N), b \in N \cup {null} :
                   Spells(t, next, null, b) /\ Len(t) <= n => L[n][b] = t}
<1> HIDE DEF T
<1>0. ASSUME NEW n \in Nat, NEW b \in N \cup {null}
      PROVE  L[n][b] = IF n = 0 \/ b = null THEN <<>> ELSE <<b>> \o L[n - 1][next[b]]
  BY LinksUnfold
<1> HIDE DEF L
<1> USE DEF T
<1>1. 0 \in T
  <2> SUFFICES ASSUME NEW t \in Seq(N), NEW b \in N \cup {null}, Len(t) <= 0
               PROVE  L[0][b] = t
    OBVIOUS
  <2>1. L[0][b] = <<>>
    BY <1>0
  <2> QED
    BY <2>1
<1>2. ASSUME NEW n \in Nat, n \in T PROVE n + 1 \in T
  <2> SUFFICES ASSUME NEW t \in Seq(N), NEW b \in N \cup {null},
                      Spells(t, next, null, b), Len(t) <= n + 1
               PROVE  L[n + 1][b] = t
    OBVIOUS
  <2>1. L[n + 1][b] = IF n + 1 = 0 \/ b = null THEN <<>> ELSE <<b>> \o L[n + 1 - 1][next[b]]
    BY <1>0
  <2>2. CASE b = null
    BY <2>1, <2>2 DEF Spells
  <2>3. CASE b # null
    <3>1. /\ Spells(Tail(t), next, null, next[b]) /\ t = <<b>> \o Tail(t)
          /\ Len(Tail(t)) = Len(t) - 1
      BY <2>3, SpellsTail
    <3>2. Tail(t) \in Seq(N) /\ next[b] \in N \cup {null}
      BY <3>1, SpellsHead
    <3>3. Len(Tail(t)) <= n
      BY <3>1
    <3>4. L[n][next[b]] = Tail(t)
      BY <1>2, <3>1, <3>2, <3>3
    <3>5. n + 1 - 1 = n /\ n + 1 # 0
      OBVIOUS
    <3> QED
      BY <2>1, <2>3, <3>1, <3>4, <3>5
  <2> QED
    BY <2>2, <2>3
<1> HIDE DEF T
<1>3. \A n \in Nat : n \in T
  BY <1>1, <1>2, SetInduction
<1>4. Len(s) \in Nat /\ Cardinality(N) \in Nat /\ Len(s) <= Cardinality(N)
  BY SpellsBounded
<1>5. s \in Seq(N) /\ a \in N \cup {null}
  BY SpellsHead
<1>6. Cardinality(N) + 1 \in T /\ Len(s) <= Cardinality(N) + 1
  BY <1>3, <1>4
<1> QED
  BY <1>5, <1>6 DEF T, L, List

\* A list is a sequence of nodes, even one that is cut short.
LEMMA ListType ==
  ASSUME NEW next, NEW null, NEW a \in DOMAIN next \cup {null}, IsFiniteSet(DOMAIN next),
         \A x \in DOMAIN next : next[x] \in DOMAIN next \cup {null}
  PROVE  List(next, null, a) \in Seq(DOMAIN next)
<1> DEFINE L == Links(next, null)
           N == DOMAIN next
           T == {n \in Nat : \A b \in N \cup {null} : L[n][b] \in Seq(N)}
<1> HIDE DEF T
<1>0. ASSUME NEW n \in Nat, NEW b \in N \cup {null}
      PROVE  L[n][b] = IF n = 0 \/ b = null THEN <<>> ELSE <<b>> \o L[n - 1][next[b]]
  BY LinksUnfold
<1> HIDE DEF L
<1>1. 0 \in T
  <2>1. \A b \in N \cup {null} : L[0][b] = <<>>
    BY <1>0
  <2>2. <<>> \in Seq(N)
    BY EmptySeq
  <2> HIDE DEF L, N
  <2> QED
    BY <2>1, <2>2 DEF T
<1>2. ASSUME NEW n \in Nat, n \in T PROVE n + 1 \in T
  <2>1. ASSUME NEW b \in N \cup {null} PROVE L[n + 1][b] \in Seq(N)
    <3>1. L[n + 1][b] = IF n + 1 = 0 \/ b = null THEN <<>> ELSE <<b>> \o L[n + 1 - 1][next[b]]
      BY <1>0
    <3>2. CASE b = null
      BY <3>1, <3>2
    <3>3. CASE b # null
      <4>1. n + 1 - 1 = n /\ n + 1 # 0 /\ next[b] \in N \cup {null}
        BY <3>3
      <4>2. L[n][next[b]] \in Seq(N)
        BY <1>2, <4>1 DEF T
      <4>3. <<b>> \o L[n][next[b]] \in Seq(N)
        BY <3>3, <4>2, ConcatProperties
      <4>4. L[n + 1][b] = <<b>> \o L[n][next[b]]
        BY <3>1, <3>3, <4>1
      <4> QED
        BY <4>3, <4>4
    <3> QED
      BY <3>2, <3>3
  <2> QED
    BY <2>1 DEF T
<1>3. \A n \in Nat : n \in T
  BY <1>1, <1>2, SetInduction
<1>4. Cardinality(N) + 1 \in T
  BY <1>3, FS_CardinalityType
<1> QED
  BY <1>4 DEF T, L, List

\* When a node that is not the first is passed over, the list is the one without it.
LEMMA SpellsRemove ==
  ASSUME NEW next, NEW null, NEW s, NEW a, Spells(s, next, null, a), null \notin DOMAIN next,
         NEW j \in 2..Len(s), NEW g, DOMAIN g = DOMAIN next,
         g[s[j - 1]] = next[s[j]], \A x \in DOMAIN next : x # s[j - 1] => g[x] = next[x]
  PROVE  \E t : Spells(t, g, null, a) /\ Range(t) = Range(s) \ {s[j]}
<1> DEFINE N == DOMAIN next
           t == [k \in 1..Len(s) - 1 |-> IF k < j THEN s[k] ELSE s[k + 1]]
<1>1. s \in Seq(N) /\ Len(s) \in Nat
  BY DEF Spells
<1>2. PICK n \in Nat : n = Len(s)
  BY <1>1
<1>3. j \in 2..n /\ n - 1 \in Nat /\ n - 1 >= 1
  BY <1>2
<1>4. /\ \A k \in 1..n : s[k] \in N
      /\ \A k \in 1..n : next[s[k]] = IF k = n THEN null ELSE s[k + 1]
      /\ \A k, l \in 1..n : s[k] = s[l] => k = l
  <2>1. \A k \in 1..n : s[k] \in N
    BY <1>1, <1>2, ElementOfSeq
  <2>2. \A k \in 1..n : next[s[k]] = IF k = n THEN null ELSE s[k + 1]
    BY <1>2 DEF Spells
  <2>3. \A k, l \in 1..n : s[k] = s[l] => k = l
    BY <1>2, SpellsInjective
  <2> QED
    BY <2>1, <2>2, <2>3
<1>5. /\ t = [k \in 1..n - 1 |-> IF k < j THEN s[k] ELSE s[k + 1]]
      /\ \A k \in 1..n - 1 : t[k] = IF k < j THEN s[k] ELSE s[k + 1]
  BY <1>2
<1>6. \A k \in 1..n - 1 : t[k] \in N
  BY <1>3, <1>4, <1>5
<1> HIDE DEF t
<1>7. t \in Seq(N) /\ Len(t) = n - 1
  <2>1. t \in [1..n - 1 -> N]
    BY <1>5, <1>6
  <2> QED
    BY <1>3, <2>1
<1>8. t # <<>>
  BY <1>3, <1>7
<1>9. t[1] = a
  <2>1. s[1] = a
    BY <1>2, <1>3 DEF Spells
  <2> QED
    BY <1>3, <1>5, <2>1
<1>10. a # null
  BY <1>3, <1>4, <1>5, <1>6, <1>9
<1>11. ASSUME NEW k \in 1..n - 1 PROVE g[t[k]] = IF k = n - 1 THEN null ELSE t[k + 1]
  <2>1. CASE k < j - 1
    <3>1. /\ k \in 1..n /\ k # n /\ k # n - 1 /\ k + 1 \in 1..n - 1 /\ j - 1 \in 1..n
          /\ t[k] = s[k] /\ t[k + 1] = s[k + 1] /\ k # j - 1
      BY <1>3, <1>5, <2>1
    <3>2. s[k] # s[j - 1] /\ next[s[k]] = s[k + 1]
      BY <1>4, <3>1
    <3> QED
      BY <1>4, <3>1, <3>2
  <2>2. CASE k = j - 1
    <3>1. t[k] = s[j - 1] /\ j \in 1..n
      BY <1>3, <1>5, <2>2
    <3>2. g[t[k]] = IF j = n THEN null ELSE s[j + 1]
      BY <1>4, <3>1
    <3>3. k # n - 1 => k + 1 \in 1..n - 1 /\ t[k + 1] = s[j + 1] /\ j # n
      BY <1>3, <1>5, <2>2
    <3>4. k = n - 1 => j = n
      BY <1>3, <2>2
    <3> QED
      BY <3>2, <3>3, <3>4
  <2>3. CASE k > j - 1
    <3>0. k + 1 \in 1..n /\ j - 1 \in 1..n /\ k + 1 # j - 1 /\ ~(k < j)
      BY <1>3, <2>3
    <3>1. /\ k + 1 \in 1..n /\ t[k] = s[k + 1] /\ j - 1 \in 1..n /\ k + 1 # j - 1
          /\ (k + 1 = n <=> k = n - 1)
      BY <1>5, <3>0
    <3>2. s[k + 1] # s[j - 1] /\ s[k + 1] \in N
      BY <1>4, <3>1
    <3>3. g[t[k]] = IF k + 1 = n THEN null ELSE s[k + 1 + 1]
      BY <1>4, <3>1, <3>2
    <3>4. k # n - 1 => k + 1 \in 1..n - 1 /\ t[k + 1] = s[k + 1 + 1]
      BY <1>3, <1>5, <2>3
    <3> QED
      BY <3>1, <3>3, <3>4
  <2> QED
    BY <1>3, <2>1, <2>2, <2>3
<1>12. Spells(t, g, null, a)
  BY <1>7, <1>8, <1>9, <1>10, <1>11 DEF Spells
<1>13. Range(t) = Range(s) \ {s[j]}
  <2>1. Range(t) = {t[k] : k \in 1..n - 1} /\ Range(s) = {s[k] : k \in 1..n}
    BY <1>1, <1>2, <1>7, RangeEquality
  <2>2. ASSUME NEW k \in 1..n - 1 PROVE t[k] \in Range(s) \ {s[j]}
    <3>1. PICK l \in 1..n : t[k] = s[l] /\ l # j
      BY <1>3, <1>5
    <3>2. j \in 1..n
      BY <1>3
    <3> QED
      BY <1>4, <2>1, <3>1, <3>2
  <2>3. ASSUME NEW l \in 1..n, l # j PROVE \E k \in 1..n - 1 : t[k] = s[l]
    <3>1. CASE l < j
      BY <1>3, <1>5, <3>1
    <3>2. CASE l > j
      <4>1. l - 1 \in 1..n - 1 /\ ~(l - 1 < j) /\ l - 1 + 1 = l
        BY <1>3, <3>2
      <4> QED
        BY <1>5, <4>1
    <3> QED
      BY <1>3, <2>3, <3>1, <3>2
  <2>4. Range(t) \subseteq Range(s) \ {s[j]}
    BY <2>1, <2>2
  <2>5. ASSUME NEW x \in Range(s) \ {s[j]} PROVE x \in Range(t)
    <3>1. PICK l \in 1..n : x = s[l]
      BY <2>1
    <3>2. PICK k \in 1..n - 1 : t[k] = s[l]
      BY <2>3, <3>1
    <3> QED
      BY <2>1, <3>1, <3>2
  <2> QED
    BY <2>4, <2>5
<1> QED
  BY <1>12, <1>13

\* The new names of some nodes.
NewNames(r, S) == {r[x] : x \in S}

\* The links g lead from the nodes of a list, by their new names, to where next led.
Renames(r, s, next, g, null) ==
  \A x \in Range(s) : /\ r[x] \in DOMAIN g
                      /\ g[r[x]] = IF next[x] = null THEN null ELSE r[next[x]]

\* A list whose nodes get other names, and links that say the same, is the same list.
LEMMA SpellsRename ==
  ASSUME NEW next, NEW null, NEW s, NEW a, Spells(s, next, null, a), null \notin DOMAIN next,
         NEW g, null \notin DOMAIN g, NEW r, NEW b, b = IF a = null THEN null ELSE r[a],
         Renames(r, s, next, g, null)
  PROVE  \E t : /\ Spells(t, g, null, b)
                /\ Range(t) = NewNames(r, Range(s))
<1> DEFINE N == DOMAIN next
           t == [k \in 1..Len(s) |-> r[s[k]]]
<1>1. s \in Seq(N) /\ Len(s) \in Nat
  BY DEF Spells
<1>2. PICK n \in Nat : n = Len(s)
  BY <1>1
<1>3. /\ \A k \in 1..n : s[k] \in N /\ s[k] \in Range(s)
      /\ \A k \in 1..n : next[s[k]] = IF k = n THEN null ELSE s[k + 1]
      /\ Range(s) = {s[k] : k \in 1..n}
  <2>1. Range(s) = {s[k] : k \in 1..n}
    BY <1>1, <1>2, RangeEquality
  <2>2. \A k \in 1..n : s[k] \in N
    BY <1>1, <1>2, ElementOfSeq
  <2>3. \A k \in 1..n : next[s[k]] = IF k = n THEN null ELSE s[k + 1]
    BY <1>2 DEF Spells
  <2> QED
    BY <2>1, <2>2, <2>3
<1>4. t = [k \in 1..n |-> r[s[k]]] /\ \A k \in 1..n : t[k] = r[s[k]]
  BY <1>2
<1>5. t \in Seq(DOMAIN g) /\ Len(t) = n
  BY <1>3, <1>4 DEF Renames
<1> HIDE DEF t
<1>6. CASE n = 0
  <2>1. s = <<>> /\ t = <<>> /\ a = null
    <3>1. s = <<>>
      BY <1>1, <1>2, <1>6, EmptySeq
    <3>2. t = <<>>
      BY <1>5, <1>6, EmptySeq
    <3> QED
      BY <3>1, <3>2 DEF Spells
  <2>2. Spells(t, g, null, null) /\ Range(t) = {}
    BY <2>1, SpellsNull
  <2>3. Range(s) = {}
    BY <1>3, <1>6
  <2> QED
    BY <2>1, <2>2, <2>3 DEF NewNames
<1>7. CASE n # 0
  <2>1. 1 \in 1..n /\ s # <<>> /\ t # <<>>
    BY <1>2, <1>5, <1>7
  <2>2. s[1] = a /\ a # null
    BY <2>1 DEF Spells
  <2>3. t[1] = r[a]
    BY <1>4, <2>1, <2>2
  <2>4. ASSUME NEW k \in 1..n PROVE g[t[k]] = IF k = n THEN null ELSE t[k + 1]
    <3>1. g[t[k]] = IF next[s[k]] = null THEN null ELSE r[next[s[k]]]
      BY <1>3, <1>4 DEF Renames
    <3>2. k # n => k + 1 \in 1..n /\ next[s[k]] = s[k + 1] /\ s[k + 1] # null
      BY <1>3
    <3>3. k = n => next[s[k]] = null
      BY <1>3
    <3> QED
      BY <1>4, <3>1, <3>2, <3>3
  <2>5. r[a] \in DOMAIN g
    BY <1>3, <2>1, <2>2 DEF Renames
  <2>6. Spells(t, g, null, r[a])
    BY <1>5, <2>1, <2>3, <2>4, <2>5 DEF Spells
  <2>7. Range(t) = NewNames(r, Range(s))
    <3>1. Range(t) = {t[k] : k \in 1..n}
      BY <1>5, RangeEquality
    <3>2. \A x : x \in Range(t) <=> \E k \in 1..n : x = r[s[k]]
      BY <1>4, <3>1
    <3>3. \A x : (\E y \in Range(s) : x = r[y]) <=> \E k \in 1..n : x = r[s[k]]
      BY <1>3
    <3> QED
      BY <3>2, <3>3 DEF NewNames
  <2> QED
    BY <2>2, <2>6, <2>7
<1> QED
  BY <1>6, <1>7

\* No link leads from a list's nodes to one that is not in the list.
LEMMA SpellsClosed ==
  ASSUME NEW next, NEW null, NEW s, NEW a, Spells(s, next, null, a)
  PROVE  /\ a \in Range(s) \cup {null}
         /\ \A x \in Range(s) : x \in DOMAIN next /\ next[x] \in Range(s) \cup {null}
<1>1. s \in Seq(DOMAIN next) /\ Len(s) \in Nat
  BY DEF Spells
<1>2. PICK n \in Nat : n = Len(s)
  BY <1>1
<1>3. Range(s) = {s[k] : k \in 1..n}
  BY <1>1, <1>2, RangeEquality
<1>4. a \in Range(s) \cup {null}
  <2>1. CASE s = <<>>
    BY <2>1 DEF Spells
  <2>2. CASE s # <<>>
    <3>1. s[1] = a /\ 1 \in 1..n
      BY <1>1, <1>2, <2>2 DEF Spells
    <3> QED
      BY <1>3, <3>1
  <2> QED
    BY <2>1, <2>2
<1>5. ASSUME NEW k \in 1..n PROVE s[k] \in DOMAIN next /\ next[s[k]] \in Range(s) \cup {null}
  <2>1. s[k] \in DOMAIN next
    BY <1>1, <1>2, ElementOfSeq
  <2>2. next[s[k]] = IF k = n THEN null ELSE s[k + 1]
    BY <1>2 DEF Spells
  <2>3. k # n => k + 1 \in 1..n
    OBVIOUS
  <2> QED
    BY <1>3, <2>1, <2>2, <2>3
<1> QED
  BY <1>3, <1>4, <1>5

-----------------------------------------------------------------------------
(* Least numbers *)

\* A set of natural numbers with an element has a least one.
LEMMA LeastExists ==
  ASSUME NEW S \in SUBSET Nat, S # {}
  PROVE  \E m \in S : \A n \in S : m <= n
<1>1. PICK m \in S : \A n \in S : ~(<<n, m>> \in OpToRel(<, Nat))
  BY NatLessThanWellFounded, WFMin
<1>2. \A n \in S : ~(n < m)
  BY <1>1 DEF OpToRel
<1> QED
  BY <1>2

=============================================================================
