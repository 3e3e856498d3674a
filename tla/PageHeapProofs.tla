---------------------------- MODULE PageHeapProofs ----------------------------
(***************************************************************************)
(* Safety of the page heap for every set of pages, page size, alignment,   *)
(* object sizes and settings of &gamma.                                    *)
(***************************************************************************)
EXTENDS PageHeap, TLAPS

-----------------------------------------------------------------------------
(* Lists of pages *)

\* Pushing a page that is not on the list.
LEMMA Push ==
  ASSUME NEW s \in Seq(Page), NEW p \in Page
  PROVE  /\ <<p>> \o s \in Seq(Page)
         /\ Len(<<p>> \o s) = Len(s) + 1
         /\ <<p>> \o s # <<>>
         /\ Head(<<p>> \o s) = p
         /\ Range(<<p>> \o s) = {p} \cup Range(s)
         /\ Distinct(s) /\ p \notin Range(s) => Distinct(<<p>> \o s)
<1> DEFINE t == <<p>> \o s
<1>1. /\ t \in Seq(Page) /\ Len(t) = Len(s) + 1 /\ Len(s) \in Nat
      /\ DOMAIN t = 1..Len(s) + 1 /\ DOMAIN s = 1..Len(s)
      /\ t[1] = p /\ \A i \in DOMAIN s : t[i + 1] = s[i]
  OBVIOUS
<1>2. t # <<>> /\ Head(t) = p
  BY <1>1
<1>3. \A i \in DOMAIN t : i = 1 \/ (i - 1 \in DOMAIN s /\ t[i] = s[i - 1])
  <2> SUFFICES ASSUME NEW i \in DOMAIN t, i # 1 PROVE i - 1 \in DOMAIN s /\ t[i] = s[i - 1]
    OBVIOUS
  <2>1. i - 1 \in DOMAIN s /\ (i - 1) + 1 = i
    BY <1>1
  <2> QED
    BY <1>1, <2>1
<1> HIDE DEF t
<1>4. Range(t) = {p} \cup Range(s)
  <2>1. \A x \in Range(t) : x \in {p} \cup Range(s)
    BY <1>1, <1>3 DEF Range
  <2>2. p \in Range(t)
    BY <1>1 DEF Range
  <2>3. \A x \in Range(s) : x \in Range(t)
    <3> SUFFICES ASSUME NEW i \in DOMAIN s PROVE s[i] \in Range(t)
      BY DEF Range
    <3>1. i + 1 \in DOMAIN t /\ t[i + 1] = s[i]
      BY <1>1
    <3> QED
      BY <3>1 DEF Range
  <2> QED
    BY <2>1, <2>2, <2>3
<1>5. Distinct(s) /\ p \notin Range(s) => Distinct(t)
  BY <1>1, <1>3 DEF Distinct, Range
<1> QED
  BY <1>1, <1>2, <1>4, <1>5 DEF t

\* Popping a list.
LEMMA Pop ==
  ASSUME NEW s \in Seq(Page), s # <<>>
  PROVE  /\ Head(s) \in Page /\ Tail(s) \in Seq(Page)
         /\ Len(Tail(s)) = Len(s) - 1 /\ Len(s) \in Nat \ {0}
         /\ Range(s) = {Head(s)} \cup Range(Tail(s))
         /\ Distinct(s) => Distinct(Tail(s)) /\ Head(s) \notin Range(Tail(s))
<1> DEFINE t == Tail(s)
<1>1. /\ Head(s) \in Page /\ t \in Seq(Page)
      /\ Len(s) \in Nat \ {0} /\ Len(t) = Len(s) - 1
      /\ DOMAIN t = 1..Len(s) - 1 /\ DOMAIN s = 1..Len(s)
      /\ s[1] = Head(s) /\ \A i \in DOMAIN t : t[i] = s[i + 1]
  OBVIOUS
<1> HIDE DEF t
<1>2. \A i \in DOMAIN t : i + 1 \in DOMAIN s /\ i + 1 # 1
  BY <1>1
<1>3. \A i \in DOMAIN s : i = 1 \/ (i - 1 \in DOMAIN t /\ s[i] = t[i - 1])
  <2> SUFFICES ASSUME NEW i \in DOMAIN s, i # 1 PROVE i - 1 \in DOMAIN t /\ s[i] = t[i - 1]
    OBVIOUS
  <2>1. i - 1 \in DOMAIN t /\ (i - 1) + 1 = i
    BY <1>1
  <2> QED
    BY <1>1, <2>1
<1>4. Range(s) = {Head(s)} \cup Range(t)
  <2>1. \A x \in Range(s) : x \in {Head(s)} \cup Range(t)
    BY <1>1, <1>3 DEF Range
  <2>2. Head(s) \in Range(s)
    BY <1>1 DEF Range
  <2>3. \A x \in Range(t) : x \in Range(s)
    BY <1>1, <1>2 DEF Range
  <2> QED
    BY <2>1, <2>2, <2>3
<1>5. Distinct(s) => Distinct(t) /\ Head(s) \notin Range(t)
  <2> SUFFICES ASSUME Distinct(s) PROVE Distinct(t) /\ Head(s) \notin Range(t)
    OBVIOUS
  <2>1. Distinct(t)
    <3> SUFFICES ASSUME NEW i \in DOMAIN t, NEW j \in DOMAIN t, t[i] = t[j] PROVE i = j
      BY DEF Distinct
    <3>1. i + 1 = j + 1
      BY <1>1, <1>2 DEF Distinct
    <3> QED
      BY <3>1, <1>1
  <2>2. Head(s) \notin Range(t)
    <3> SUFFICES ASSUME NEW i \in DOMAIN t, t[i] = s[1] PROVE FALSE
      BY <1>1 DEF Range
    <3>1. i + 1 = 1
      BY <1>1, <1>2 DEF Distinct
    <3> QED
      BY <3>1, <1>2
  <2> QED
    BY <2>1, <2>2
<1> QED
  BY <1>1, <1>4, <1>5 DEF t

\* Nothing is on the empty list.
LEMMA Empty == <<>> \in Seq(Page) /\ Len(<<>>) = 0 /\ Range(<<>>) = {} /\ Distinct(<<>>)
BY DEF Range, Distinct

\* Sizes are rounded up to natural numbers.
LEMMA RoundUpType == \A n \in Nat : RoundUp(n, Alignment) \in Nat
<1> SUFFICES ASSUME NEW n \in Nat PROVE RoundUp(n, Alignment) \in Nat
  OBVIOUS
<1> DEFINE q == (n + Alignment - 1) \div Alignment
<1>1. q \in Nat
  BY SizesAssumption
<1> HIDE DEF q
<1>2. q * Alignment \in Nat
  BY <1>1, SizesAssumption
<1> QED
  BY <1>2 DEF RoundUp, q

-----------------------------------------------------------------------------
(* Taking a page *)

\* take_available_page keeps every page on one list and the counters accurate;
\* the page taken comes from `available` or from malloc and holds no object.
LEMMA PageTaken ==
  ASSUME TypeOK, EachPageOnOneList,
         count.available = Len(available),
         NEW cur \in {current, <<>>}, NEW fl \in Int,
         TakeAvailablePage(cur, Len(cur), fl),
         fromspace' = (IF cur = <<>> THEN current ELSE fromspace),
         cur = <<>> => fromspace = <<>>
  PROVE  /\ current' \in Seq(Page) /\ available' \in Seq(Page) /\ fromspace' \in Seq(Page)
         /\ gc_needed' \in BOOLEAN
         /\ current' # <<>>
         /\ Head(current') \notin Range(current) /\ Head(current') \notin Range(fromspace)
         /\ Range(current') = {Head(current')} \cup Range(cur)
         /\ EachPageOnOneList'
         /\ count' = [current |-> Len(current'), available |-> Len(available')]
         /\ count' \in [current : Nat, available : Nat]
<1>0. /\ current \in Seq(Page) /\ available \in Seq(Page) /\ fromspace \in Seq(Page)
      /\ count.available \in Nat /\ gc_needed \in BOOLEAN
  BY DEF TypeOK
<1>1. PICK page \in Page :
        /\ IF available = <<>> THEN page \notin Held ELSE page = Head(available)
        /\ available' = Tail(Stocked(page))
        /\ count' = [current |-> Len(cur) + 1, available |-> StockedCount - 1]
        /\ gc_needed' = (gc_needed \/ count'.available <= fl)
        /\ current' = <<page>> \o cur
  BY DEF TakeAvailablePage
<1>2. cur \in Seq(Page) /\ Len(cur) \in Nat /\ Distinct(cur) /\ Range(cur) \subseteq Range(current)
  <2>1. CASE cur = current
    <3>1. Len(current) \in Nat
      BY <1>0
    <3> QED
      BY <2>1, <3>1, <1>0 DEF EachPageOnOneList
  <2>2. CASE cur = <<>>
    BY <2>2, Empty
  <2> QED
    BY <2>1, <2>2
<1>3. /\ available' \in Seq(Page)
      /\ Distinct(available') /\ page \notin Range(available')
      /\ Range(available') \subseteq Range(available)
      /\ page \notin Range(current) /\ page \notin Range(fromspace)
      /\ Len(available') = StockedCount - 1 /\ Len(available') \in Nat
  <2>1. CASE available = <<>>
    <3>1. available' = <<>>
      BY <1>1, <2>1 DEF Stocked
    <3>2. page \notin Held
      BY <1>1, <2>1
    <3>3. StockedCount = 1
      BY <2>1, Empty DEF StockedCount
    <3> QED
      BY <3>1, <3>2, <3>3, Empty DEF Held
  <2>2. CASE available # <<>>
    <3>1. available' = Tail(available) /\ page = Head(available)
      BY <1>1, <2>2 DEF Stocked
    <3>2. page \in Range(available)
      BY <1>0, <2>2, <3>1, Pop
    <3> QED
      <4>1. StockedCount = Len(available)
        BY <2>2 DEF StockedCount
      <4>2. /\ Tail(available) \in Seq(Page) /\ Len(Tail(available)) = Len(available) - 1
            /\ Len(available) \in Nat \ {0}
            /\ Range(available) = {page} \cup Range(Tail(available))
            /\ Distinct(Tail(available)) /\ page \notin Range(Tail(available))
        BY <1>0, <2>2, <3>1, Pop DEF EachPageOnOneList
      <4>3. Len(available') \in Nat
        BY <3>1, <4>2
      <4> QED
        BY <3>1, <3>2, <4>1, <4>2, <4>3 DEF EachPageOnOneList
  <2> QED
    BY <2>1, <2>2
<1>4. /\ current' \in Seq(Page) /\ current' # <<>> /\ Head(current') = page
      /\ Range(current') = {page} \cup Range(cur) /\ Len(current') = Len(cur) + 1
      /\ Distinct(current')
  BY <1>1, <1>2, <1>3, Push
<1>5. fromspace' \in Seq(Page) /\ Distinct(fromspace')
      /\ page \notin Range(fromspace') /\ Range(fromspace') \cap Range(cur) = {}
      /\ Range(fromspace') \cap Range(available) = {}
  <2>1. CASE cur = <<>>
    BY <1>0, <1>3, <2>1, Empty DEF EachPageOnOneList
  <2>2. CASE cur # <<>>
    BY <1>0, <1>3, <2>2 DEF EachPageOnOneList
  <2> QED
    BY <2>1, <2>2
<1>6. EachPageOnOneList'
  BY <1>2, <1>3, <1>4, <1>5 DEF EachPageOnOneList
<1>7. /\ gc_needed' \in BOOLEAN
      /\ count' = [current |-> Len(current'), available |-> Len(available')]
      /\ count' \in [current : Nat, available : Nat]
  BY <1>0, <1>1, <1>2, <1>3, <1>4
<1> QED
  BY <1>3, <1>4, <1>5, <1>6, <1>7

-----------------------------------------------------------------------------
(* The steps *)

\* Where an object ends is a natural number.
LEMMA LimitType ==
  ASSUME NEW e \in [page : Page, at : Nat, n : Nat \ {0}] PROVE Limit(e) \in Nat
<1>1. RoundUp(e.n, Alignment) \in Nat /\ e.at \in Nat
  BY RoundUpType
<1> QED
  BY <1>1 DEF Limit

\* A step that changes neither the lists nor the objects, and leads to a stage
\* that the lists fit.
LEMMA SameHeap ==
  ASSUME IInv, phase # "exited", UNCHANGED <<lists, hp, objects>>,
         availability_floor' \in Nat, gc_needed' \in BOOLEAN, nlive' \in Nat,
         gamma' \in GammaSetting,
         \/ phase' = phase
         \/ phase' \in {"no fit", "large object", "no memory"}
         \/ phase = "copy" /\ phase' = "reclaim"
         \/ phase = "reclaim" /\ phase' = "grow" /\ fromspace = <<>>
         \/ phase = "grow" /\ phase' = "mutator"
  PROVE  IInv'
<1>1. TypeOK'
  BY DEF IInv, TypeOK, lists, objects
<1>2. EachPageOnOneList'
  BY DEF IInv, EachPageOnOneList, lists, Distinct
<1>3. CountsAccurate'
  BY DEF IInv, CountsAccurate, lists
<1>4. ObjectsInTheirOwnBytes'
  BY DEF IInv, ObjectsInTheirOwnBytes, lists, objects
<1>5. StageInv'
  BY DEF IInv, StageInv, lists, objects, Collecting, Stopped
<1> QED
  BY <1>1, <1>2, <1>3, <1>4, <1>5 DEF IInv

\* An object is placed behind the others of its page, or alone on a new page.
LEMMA AllocSmallStep ==
  ASSUME IInv, phase \in {"mutator", "copy"},
         NEW n \in Nat \ {0}, NEW old \in SUBSET extents, AllocSmall(n, old),
         \A e \in old : e.page \in Range(fromspace)
  PROVE  IInv'
<1> DEFINE nbytes == RoundUp(n, Alignment)
           Extents == [page : Page, at : Nat, n : Nat \ {0}]
<1>0. /\ current \in Seq(Page) /\ available \in Seq(Page) /\ fromspace \in Seq(Page)
      /\ hp \in Nat /\ extents \subseteq Extents /\ forwarded \subseteq extents
      /\ availability_floor \in Nat /\ nlive \in Nat /\ gamma \in GammaSetting
      /\ gc_needed \in BOOLEAN /\ count \in [current : Nat, available : Nat]
      /\ current # <<>> /\ hp <= Payload
      /\ count = [current |-> Len(current), available |-> Len(available)]
  BY DEF IInv, TypeOK, StageInv, CountsAccurate
<1>1. nbytes \in Nat /\ Payload \in Nat /\ \A e \in extents : Limit(e) \in Nat
  BY <1>0, RoundUpType, LimitType, LayoutAssumption
<1>2. /\ UNCHANGED <<fromspace, availability_floor, nlive, gamma, phase>>
      /\ forwarded' = forwarded \cup old
      /\ nbytes < Payload
  BY DEF AllocSmall
<1>3. \A p \in Page, at \in Nat :
         /\ Extent(p, at, n) \in Extents
         /\ Limit(Extent(p, at, n)) = at + nbytes
         /\ Extent(p, at, n).page = p /\ Extent(p, at, n).at = at
  BY DEF Extent, Limit
<1> HIDE DEF nbytes, Extents
<1>6. \A e \in forwarded' : e.page \in Range(fromspace')
  BY <1>2 DEF IInv, StageInv
<1>4. CASE /\ hp + nbytes <= Payload
           /\ hp' = hp + nbytes
           /\ extents' = extents \cup {Extent(Head(current), hp, n)}
           /\ UNCHANGED <<current, available, count, gc_needed>>
  <2> DEFINE x == Extent(Head(current), hp, n)
  <2>1. /\ Head(current) \in Page /\ Head(current) \in Range(current)
    BY <1>0, Pop
  <2>2. x \in Extents /\ Limit(x) = hp + nbytes /\ x.page = Head(current) /\ x.at = hp
    BY <1>0, <1>3, <2>1
  <2> HIDE DEF x
  <2>3. extents' = extents \cup {x}
    BY <1>4 DEF x
  <2>4. TypeOK'
    <3>1. hp' \in Nat /\ extents' \subseteq Extents /\ forwarded' \subseteq extents'
      BY <1>0, <1>1, <1>2, <1>4, <2>2, <2>3
    <3>2. phase' \in {"mutator", "copy"}
      BY <1>2
    <3> QED
      BY <1>0, <1>2, <1>4, <3>1, <3>2 DEF TypeOK, Extents
  <2>5. EachPageOnOneList'
    BY <1>2, <1>4 DEF IInv, EachPageOnOneList, Distinct
  <2>6. CountsAccurate'
    BY <1>2, <1>4 DEF IInv, CountsAccurate
  <2>7. ObjectsInTheirOwnBytes'
    <3>1. ASSUME NEW e \in extents
          PROVE  /\ e.page \in Range(current) \cup Range(fromspace)
                 /\ Limit(e) <= Payload
                 /\ e.page = Head(current) => Limit(e) <= hp
      BY <1>0 DEF IInv, ObjectsInTheirOwnBytes
    <3>2. \A e \in extents' :
            /\ e.page \in Range(current) \cup Range(fromspace)
            /\ Limit(e) <= Payload
            /\ e.page = Head(current) => Limit(e) <= hp'
      BY <1>0, <1>1, <1>4, <2>1, <2>2, <2>3, <3>1
    <3>3. \A e, f \in extents : e # f /\ e.page = f.page => Limit(e) <= f.at \/ Limit(f) <= e.at
      BY DEF IInv, ObjectsInTheirOwnBytes
    <3>4. \A e, f \in extents' : e # f /\ e.page = f.page => Limit(e) <= f.at \/ Limit(f) <= e.at
      BY <2>2, <2>3, <3>1, <3>3
    <3> QED
      BY <1>2, <1>4, <3>2, <3>4 DEF ObjectsInTheirOwnBytes
  <2>8. StageInv'
    <3>1. hp' <= Payload /\ current' # <<>>
      BY <1>0, <1>1, <1>2, <1>4
    <3>2. fromspace' = fromspace /\ phase' = phase /\ (phase = "copy" \/ fromspace = <<>>)
      BY <1>2 DEF IInv, StageInv, Collecting, Stopped
    <3> QED
      BY <1>6, <3>1, <3>2 DEF StageInv, Collecting, Stopped
  <2> QED
    BY <2>4, <2>5, <2>6, <2>7, <2>8 DEF IInv
<1>5. CASE /\ hp + nbytes > Payload
           /\ TakeAvailablePage(current, count.current, availability_floor)
           /\ hp' = nbytes
           /\ extents' = extents \cup {Extent(Head(current'), 0, n)}
  <2> DEFINE x == Extent(Head(current'), 0, n)
  <2>1. /\ current' \in Seq(Page) /\ available' \in Seq(Page) /\ fromspace' \in Seq(Page)
        /\ gc_needed' \in BOOLEAN
        /\ current' # <<>>
        /\ Head(current') \notin Range(current) /\ Head(current') \notin Range(fromspace)
        /\ Range(current') = {Head(current')} \cup Range(current)
        /\ EachPageOnOneList'
        /\ count' = [current |-> Len(current'), available |-> Len(available')]
        /\ count' \in [current : Nat, available : Nat]
    <3>1. TypeOK /\ EachPageOnOneList
      BY DEF IInv
    <3>2. count.current = Len(current) /\ count.available = Len(available)
      BY <1>0
    <3>3. TakeAvailablePage(current, Len(current), availability_floor)
      BY <1>5, <3>2
    <3>4. fromspace' = (IF current = <<>> THEN current ELSE fromspace)
      BY <1>0, <1>2
    <3> QED
      BY <1>0, <3>1, <3>2, <3>3, <3>4, PageTaken
  <2>2. Head(current') \in Page
    BY <2>1, Pop
  <2>3. x \in Extents /\ Limit(x) = nbytes /\ x.page = Head(current') /\ x.at = 0
    BY <1>1, <1>3, <2>2
  <2> HIDE DEF x
  <2>4. extents' = extents \cup {x}
    BY <1>5 DEF x
  <2>5. TypeOK'
    <3>1. hp' \in Nat /\ extents' \subseteq Extents /\ forwarded' \subseteq extents'
      BY <1>0, <1>1, <1>2, <1>5, <2>3, <2>4
    <3>2. phase' \in {"mutator", "copy"}
      BY <1>2
    <3> QED
      BY <1>0, <1>2, <2>1, <3>1, <3>2 DEF TypeOK, Extents
  <2>6. CountsAccurate'
    BY <2>1 DEF CountsAccurate
  <2>7. ObjectsInTheirOwnBytes'
    <3>1. \A e \in extents : /\ e.page \in Range(current) \cup Range(fromspace)
                             /\ Limit(e) <= Payload
      BY DEF IInv, ObjectsInTheirOwnBytes
    <3>2. \A e \in extents : e.page # Head(current')
      BY <2>1, <3>1
    <3>3. \A e \in extents' :
            /\ e.page \in Range(current') \cup Range(fromspace')
            /\ Limit(e) <= Payload
            /\ e.page = Head(current') => Limit(e) <= hp'
      BY <1>1, <1>2, <1>5, <2>1, <2>3, <2>4, <3>1, <3>2
    <3>4. \A e, f \in extents : e # f /\ e.page = f.page => Limit(e) <= f.at \/ Limit(f) <= e.at
      BY DEF IInv, ObjectsInTheirOwnBytes
    <3>5. \A e, f \in extents' : e # f /\ e.page = f.page => Limit(e) <= f.at \/ Limit(f) <= e.at
      BY <2>3, <2>4, <3>2, <3>4
    <3> QED
      BY <3>3, <3>5 DEF ObjectsInTheirOwnBytes
  <2>8. StageInv'
    <3>1. hp' <= Payload
      BY <1>1, <1>2, <1>5
    <3>2. fromspace' = fromspace /\ phase' = phase /\ (phase = "copy" \/ fromspace = <<>>)
      BY <1>2 DEF IInv, StageInv, Collecting, Stopped
    <3> QED
      BY <1>6, <2>1, <3>1, <3>2 DEF StageInv, Collecting, Stopped
  <2> QED
    BY <2>1, <2>5, <2>6, <2>7, <2>8 DEF IInv
<1> QED
  BY <1>4, <1>5 DEF AllocSmall, nbytes

\* vmalloc_raw and alloc_small stop the program without touching the heap.
LEMMA AllocFailsStep ==
  ASSUME IInv, phase \in {"mutator", "copy"}, NEW n \in Nat \ {0}, AllocFails(n)
  PROVE  IInv'
<1>1. /\ UNCHANGED <<lists, hp, policy, objects>>
      /\ phase' \in {"no fit", "large object", "no memory"}
  BY DEF AllocFails, NoMemory
<1>2. /\ availability_floor \in Nat /\ gc_needed \in BOOLEAN
      /\ nlive \in Nat /\ gamma \in GammaSetting
  BY DEF IInv, TypeOK
<1> QED
  BY <1>1, <1>2, SameHeap DEF policy

\* malloc has no page left.
LEMMA NoMemoryStep ==
  ASSUME IInv, phase # "exited", NoMemory PROVE IInv'
<1>1. UNCHANGED <<lists, hp, policy, objects>> /\ phase' = "no memory"
  BY DEF NoMemory
<1>2. /\ availability_floor \in Nat /\ gc_needed \in BOOLEAN
      /\ nlive \in Nat /\ gamma \in GammaSetting
  BY DEF IInv, TypeOK
<1> QED
  BY <1>1, <1>2, SameHeap DEF policy

\* Half of the pages of the heap is a number of pages.
LEMMA HalfHeapType == ASSUME TypeOK PROVE HalfHeap \in Nat
<1>1. count.current \in Nat /\ count.available \in Nat
  BY DEF TypeOK
<1> QED
  BY <1>1 DEF HalfHeap, HeapPages

\* A step that takes a page on which nothing is placed yet: the first page of
\* the heap, the first page of to-space, and a page that growheap asks for.
LEMMA FreshPageStep ==
  ASSUME IInv, NEW cur \in {current, <<>>}, NEW fl \in Nat,
         TakeAvailablePage(cur, Len(cur), fl),
         fromspace' = (IF cur = <<>> THEN current ELSE fromspace),
         cur = <<>> => fromspace = <<>>,
         phase # "exited", hp' = 0, availability_floor' \in Nat,
         UNCHANGED <<nlive, gamma, objects>>,
         \/ phase = "start" /\ phase' = "mutator" /\ fromspace' = <<>>
         \/ phase = "mutator" /\ phase' = "copy"
         \/ phase = "grow" /\ phase' = "grow" /\ fromspace' = <<>>
  PROVE  IInv'
<1>1. TypeOK /\ EachPageOnOneList /\ count.available = Len(available)
  BY DEF IInv, CountsAccurate
<1>2. /\ current' \in Seq(Page) /\ available' \in Seq(Page) /\ fromspace' \in Seq(Page)
      /\ gc_needed' \in BOOLEAN
      /\ current' # <<>>
      /\ Head(current') \notin Range(current) /\ Head(current') \notin Range(fromspace)
      /\ Range(current') = {Head(current')} \cup Range(cur)
      /\ EachPageOnOneList'
      /\ count' = [current |-> Len(current'), available |-> Len(available')]
      /\ count' \in [current : Nat, available : Nat]
  BY <1>1, PageTaken
<1>3. TypeOK'
  <2>1. hp' \in Nat /\ phase' \in {"mutator", "copy", "grow"}
    OBVIOUS
  <2>2. /\ nlive' \in Nat /\ gamma' \in GammaSetting /\ forwarded' \subseteq extents'
        /\ extents' \subseteq [page : Page, at : Nat, n : Nat \ {0}]
    BY <1>1 DEF TypeOK, objects
  <2> QED
    BY <1>2, <2>1, <2>2 DEF TypeOK
<1>4. CountsAccurate'
  BY <1>2 DEF CountsAccurate
<1>5. ObjectsInTheirOwnBytes'
  <2>1. extents' = extents
    BY DEF objects
  <2>2. Range(current) \cup Range(fromspace) \subseteq Range(current') \cup Range(fromspace')
    <3>1. CASE cur = <<>>
      BY <3>1, Empty
    <3>2. CASE cur # <<>>
      BY <1>2, <3>2
    <3> QED
      BY <3>1, <3>2
  <2>3. \A e \in extents :
          e.page \in Range(current) \cup Range(fromspace) /\ Limit(e) <= Payload
    BY DEF IInv, ObjectsInTheirOwnBytes
  <2>4. \A e \in extents : e.page # Head(current')
    BY <1>2, <2>3
  <2>5. \A e, f \in extents : e # f /\ e.page = f.page => Limit(e) <= f.at \/ Limit(f) <= e.at
    BY DEF IInv, ObjectsInTheirOwnBytes
  <2> QED
    BY <2>1, <2>2, <2>3, <2>4, <2>5 DEF ObjectsInTheirOwnBytes
<1>6. StageInv'
  <2>1. hp' <= Payload
    BY LayoutAssumption
  <2>2. \A e \in forwarded' : e.page \in Range(fromspace')
    <3>1. forwarded' = forwarded /\ \A e \in forwarded : e.page \in Range(fromspace)
      BY DEF objects, IInv, StageInv
    <3>2. CASE cur = <<>>
      BY <3>1, <3>2, Empty
    <3>3. CASE cur # <<>>
      BY <3>1, <3>3
    <3> QED
      BY <3>2, <3>3
  <2> QED
    BY <1>2, <2>1, <2>2 DEF StageInv, Collecting, Stopped
<1> QED
  BY <1>2, <1>3, <1>4, <1>5, <1>6 DEF IInv

LEMMA HeapInitStep == ASSUME IInv, HeapInit PROVE IInv'
<1>1. CASE /\ TakeAvailablePage(current, count.current, availability_floor)
           /\ hp' = 0
           /\ phase' = "mutator"
           /\ UNCHANGED <<fromspace, availability_floor, nlive, gamma, objects>>
  <2>1. phase = "start" /\ fromspace = <<>> /\ count.current = Len(current)
        /\ availability_floor \in Nat
    BY DEF HeapInit, IInv, TypeOK, StageInv, CountsAccurate, Collecting, Stopped
  <2>2. fromspace' = <<>> /\ fromspace' = (IF current = <<>> THEN current ELSE fromspace)
    BY <1>1, <2>1
  <2>3. TakeAvailablePage(current, Len(current), availability_floor)
    BY <1>1, <2>1
  <2> QED
    BY <1>1, <2>1, <2>2, <2>3, FreshPageStep
<1> QED
  BY <1>1, NoMemoryStep DEF HeapInit

LEMMA StartCollectionStep == ASSUME IInv, StartCollection PROVE IInv'
<1>1. CASE /\ availability_floor' = HalfHeap
           /\ fromspace' = current
           /\ TakeAvailablePage(<<>>, 0, HalfHeap)
           /\ hp' = 0
           /\ phase' = "copy"
           /\ UNCHANGED <<nlive, gamma, objects>>
  <2>1. phase = "mutator" /\ fromspace = <<>>
    BY DEF StartCollection, IInv, StageInv, Collecting, Stopped
  <2>2. HalfHeap \in Nat
    BY HalfHeapType DEF IInv
  <2>3. TakeAvailablePage(<<>>, Len(<<>>), HalfHeap)
    BY <1>1, Empty
  <2> QED
    BY <1>1, <2>1, <2>2, <2>3, FreshPageStep
<1> QED
  BY <1>1, NoMemoryStep DEF StartCollection

LEMMA GrowHeapStep == ASSUME IInv, GrowHeap PROVE IInv'
<1>1. CASE /\ TakeAvailablePage(current, count.current, availability_floor)
           /\ hp' = 0
           /\ UNCHANGED <<fromspace, availability_floor, nlive, gamma, objects, phase>>
  <2>1. /\ phase = "grow" /\ fromspace = <<>> /\ current # <<>>
        /\ count.current = Len(current) /\ availability_floor \in Nat
    BY DEF GrowHeap, IInv, TypeOK, StageInv, CountsAccurate
  <2>2. fromspace' = <<>> /\ fromspace' = (IF current = <<>> THEN current ELSE fromspace)
    BY <1>1, <2>1
  <2>3. TakeAvailablePage(current, Len(current), availability_floor)
    BY <1>1, <2>1
  <2> QED
    BY <1>1, <2>1, <2>2, <2>3, FreshPageStep
<1> QED
  BY <1>1, NoMemoryStep DEF GrowHeap

\* The page that leaves from-space takes its objects with it.
LEMMA MakeAvailableStep == ASSUME IInv, MakeAvailable PROVE IInv'
<1>0. /\ phase = "reclaim"
      /\ UNCHANGED <<hp, availability_floor, gc_needed, gamma>>
      /\ current \in Seq(Page) /\ available \in Seq(Page) /\ fromspace \in Seq(Page)
      /\ hp \in Nat /\ availability_floor \in Nat /\ gc_needed \in BOOLEAN
      /\ gamma \in GammaSetting /\ nlive \in Nat
      /\ extents \subseteq [page : Page, at : Nat, n : Nat \ {0}]
      /\ forwarded \subseteq extents
      /\ count = [current |-> Len(current), available |-> Len(available)]
      /\ current # <<>> /\ hp <= Payload
  BY DEF MakeAvailable, IInv, TypeOK, CountsAccurate, StageInv
<1>1. CASE /\ fromspace # <<>>
           /\ available' = <<Head(fromspace)>> \o available
           /\ fromspace' = Tail(fromspace)
           /\ count' = [count EXCEPT !.available = @ + 1]
           /\ extents' = {e \in extents : e.page # Head(fromspace)}
           /\ forwarded' = {e \in forwarded : e.page # Head(fromspace)}
           /\ UNCHANGED <<current, nlive, phase>>
  <2> DEFINE h == Head(fromspace)
  <2>1. /\ h \in Page /\ fromspace' \in Seq(Page)
        /\ Range(fromspace) = {h} \cup Range(fromspace')
        /\ Distinct(fromspace') /\ h \notin Range(fromspace')
    BY <1>0, <1>1, Pop DEF IInv, EachPageOnOneList
  <2>2. h \notin Range(available) /\ h \notin Range(current)
    BY <2>1 DEF IInv, EachPageOnOneList
  <2>3. /\ available' \in Seq(Page) /\ Distinct(available')
        /\ Range(available') = {h} \cup Range(available)
        /\ Len(available') = Len(available) + 1
    BY <1>0, <1>1, <2>1, <2>2, Push DEF IInv, EachPageOnOneList
  <2>4. count' = [current |-> Len(current'), available |-> Len(available')]
    BY <1>0, <1>1, <2>3
  <2> HIDE DEF h
  <2>5. Len(current') \in Nat /\ Len(available') \in Nat
    BY <1>0, <1>1, <2>3
  <2>6. TypeOK'
    <3>1. extents' \subseteq [page : Page, at : Nat, n : Nat \ {0}] /\ forwarded' \subseteq extents'
      BY <1>0, <1>1
    <3>2. count' \in [current : Nat, available : Nat]
      BY <2>4, <2>5
    <3> QED
      BY <1>0, <1>1, <2>1, <2>3, <3>1, <3>2 DEF TypeOK
  <2>7. EachPageOnOneList'
    <3>1. Distinct(current') /\ Range(current') = Range(current)
      BY <1>1 DEF IInv, EachPageOnOneList
    <3> QED
      BY <2>1, <2>2, <2>3, <3>1 DEF IInv, EachPageOnOneList
  <2>8. CountsAccurate'
    BY <2>4 DEF CountsAccurate
  <2>9. ObjectsInTheirOwnBytes'
    <3>1. extents' = {e \in extents : e.page # h}
      BY <1>1 DEF h
    <3> QED
      BY <1>0, <1>1, <2>1, <3>1 DEF IInv, ObjectsInTheirOwnBytes
  <2>10. StageInv'
    <3>1. \A e \in forwarded' : e.page \in Range(fromspace')
      BY <1>1, <2>1 DEF h, IInv, StageInv
    <3> QED
      BY <1>0, <1>1, <3>1 DEF StageInv, Collecting, Stopped
  <2> QED
    BY <2>6, <2>7, <2>8, <2>9, <2>10 DEF IInv
<1>2. CASE /\ fromspace = <<>>
           /\ nlive' = count.current
           /\ phase' = "grow"
           /\ UNCHANGED <<lists, objects>>
  <2>1. Len(current) \in Nat
    BY <1>0
  <2>2. nlive' \in Nat
    BY <1>0, <1>2, <2>1
  <2> QED
    BY <1>0, <1>2, <2>2, SameHeap
<1> QED
  BY <1>1, <1>2 DEF MakeAvailable

LEMMA EndCollectionStep == ASSUME IInv, EndCollection PROVE IInv'
<1>1. HalfHeap \in Nat /\ nlive \in Nat /\ gamma \in GammaSetting
  BY HalfHeapType DEF IInv, TypeOK
<1> QED
  BY <1>1, SameHeap DEF EndCollection

LEMMA HeapShutdownStep == ASSUME IInv, HeapShutdown PROVE IInv'
<1>1. fromspace = <<>>
  BY DEF HeapShutdown, IInv, StageInv, Collecting, Stopped
<1>2. /\ current' = <<>> /\ available' = <<>> /\ fromspace' = <<>>
      /\ extents' = {} /\ phase' = "exited"
      /\ UNCHANGED <<count, hp, policy>>
  BY <1>1 DEF HeapShutdown
<1>3. forwarded' = forwarded /\ forwarded = {}
  BY <1>1, Empty DEF HeapShutdown, IInv, StageInv
<1>4. TypeOK'
  <2>1. TypeOK /\ <<>> \in Seq(Page)
    BY Empty DEF IInv
  <2> QED
    BY <1>2, <1>3, <2>1 DEF TypeOK, policy
<1>5. EachPageOnOneList'
  BY <1>2, Empty DEF EachPageOnOneList
<1>6. CountsAccurate' /\ ObjectsInTheirOwnBytes'
  BY <1>2 DEF CountsAccurate, ObjectsInTheirOwnBytes
<1>7. StageInv'
  BY <1>2, <1>3 DEF IInv, StageInv, Collecting, Stopped
<1> QED
  BY <1>4, <1>5, <1>6, <1>7 DEF IInv

\* Initially no page is on a list.
LEMMA InitIInv == Init => IInv
<1> SUFFICES ASSUME Init PROVE IInv
  OBVIOUS
<1>1. TypeOK
  BY Empty, LayoutAssumption DEF Init, TypeOK
<1>2. EachPageOnOneList
  BY Empty DEF Init, EachPageOnOneList
<1>3. CountsAccurate /\ ObjectsInTheirOwnBytes
  BY Empty DEF Init, CountsAccurate, ObjectsInTheirOwnBytes
<1>4. StageInv
  <2>1. hp <= Payload
    BY LayoutAssumption DEF Init
  <2> QED
    BY <2>1 DEF Init, StageInv
<1> QED
  BY <1>1, <1>2, <1>3, <1>4 DEF IInv

\* Every step keeps the inductive invariant.
LEMMA NextIInv == IInv /\ [Next]_vars => IInv'
<1> SUFFICES ASSUME IInv, [Next]_vars PROVE IInv'
  OBVIOUS
<1>1. CASE HeapInit
  BY <1>1, HeapInitStep
<1>2. ASSUME NEW n \in Request, Vmalloc(n) PROVE IInv'
  <2>1. n \in Nat \ {0}
    BY SizesAssumption
  <2>2. phase = "mutator" /\ (AllocSmall(n, {}) \/ AllocFails(n))
    BY <1>2 DEF Vmalloc
  <2> QED
    BY <2>1, <2>2, AllocSmallStep, AllocFailsStep
<1>3. ASSUME NEW g \in GammaSetting, SetGamma(g) PROVE IInv'
  <2>1. availability_floor \in Nat /\ gc_needed \in BOOLEAN /\ nlive \in Nat
    BY DEF IInv, TypeOK
  <2> QED
    BY <1>3, <2>1, SameHeap DEF SetGamma
<1>4. CASE StartCollection
  BY <1>4, StartCollectionStep
<1>5. CASE HeapShutdown
  BY <1>5, HeapShutdownStep
<1>6. ASSUME NEW e \in extents, Forward(e) PROVE IInv'
  <2>1. e.n \in Nat \ {0}
    BY DEF IInv, TypeOK
  <2>2. /\ phase = "copy" /\ e.page \in Range(fromspace)
        /\ AllocSmall(e.n, {e}) \/ AllocFails(e.n)
    BY <1>6 DEF Forward
  <2> QED
    BY <2>1, <2>2, AllocSmallStep, AllocFailsStep
<1>7. CASE EndScan
  <2>1. /\ availability_floor \in Nat /\ gc_needed \in BOOLEAN
        /\ nlive \in Nat /\ gamma \in GammaSetting
    BY DEF IInv, TypeOK
  <2> QED
    BY <1>7, <2>1, SameHeap DEF EndScan, policy
<1>8. CASE MakeAvailable
  BY <1>8, MakeAvailableStep
<1>9. CASE GrowHeap
  BY <1>9, GrowHeapStep
<1>10. CASE EndCollection
  BY <1>10, EndCollectionStep
<1>11. CASE UNCHANGED vars
  BY <1>11 DEF IInv, TypeOK, EachPageOnOneList, Distinct, CountsAccurate,
     ObjectsInTheirOwnBytes, StageInv, Collecting, Stopped, vars, lists, policy, objects
<1> QED
  BY <1>1, <1>2, <1>3, <1>4, <1>5, <1>6, <1>7, <1>8, <1>9, <1>10, <1>11
     DEF Next, MutatorStep, CollectorStep, Terminated

-----------------------------------------------------------------------------
(* The theorems *)

\* The inductive invariant holds in every reachable state.
THEOREM Invariance == Spec => []IInv
BY InitIInv, NextIInv, PTL DEF Spec

\* Every variable keeps its type.
THEOREM TypeCorrectness == Spec => []TypeOK
<1>1. IInv => TypeOK
  BY DEF IInv
<1> QED
  BY <1>1, Invariance, PTL

\* The page invariant in the comment of vmheap.c: a page is never on two of the
\* lists `current`, `available` and gc()'s `fromspace`, nor twice on one.
THEOREM PagesOnOneList == Spec => []EachPageOnOneList
<1>1. IInv => EachPageOnOneList
  BY DEF IInv
<1> QED
  BY <1>1, Invariance, PTL

\* heap_shutdown's assertions on count.current.pages and count.available.pages
\* hold whenever it is called, and on every way out of a collection.
THEOREM Counts == Spec => []CountsAccurate
<1>1. IInv => CountsAccurate
  BY DEF IInv
<1> QED
  BY <1>1, Invariance, PTL

\* The bump allocator never overlaps two objects, nor places one past the end of
\* its page or on a page of the list `available`.
THEOREM NoOverlap == Spec => []ObjectsInTheirOwnBytes
<1>1. IInv => ObjectsInTheirOwnBytes
  BY DEF IInv
<1> QED
  BY <1>1, Invariance, PTL

=============================================================================
