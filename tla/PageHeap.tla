------------------------------ MODULE PageHeap ------------------------------
(***************************************************************************)
(* The page layer of the managed heap, src/svm/vmheap.c: pages obtained    *)
(* from the operating system, the lists `current` and `available`, the     *)
(* bump allocator, and what a collection does to the lists.                *)
(*                                                                         *)
(* An object is abstracted to the extent of bytes it occupies; which       *)
(* objects survive a collection is left open (module CopyingGC decides it  *)
(* from the roots).  A list of pages is the sequence of its pages, head    *)
(* first.  `hp` is an offset from the first byte of the current page's     *)
(* payload, and `heaplimit` the constant Payload.                          *)
(***************************************************************************)
EXTENDS Integers, Sequences, FiniteSets, Functions

CONSTANTS Page,          \* addresses at which malloc can place a page
          PAGESIZE,      \* bytes in one page
          Alignment,     \* sizeof (union align)
          PointerSize,   \* sizeof (struct page *)
          Request,       \* the sizes passed to vmalloc_raw
          GammaSetting,  \* values a program stores in &gamma, in hundredths
          NotANumber     \* a value of &gamma that is not a number

ASSUME SizesAssumption ==
  /\ PAGESIZE \in Nat
  /\ Alignment \in Nat \ {0}
  /\ PointerSize \in Nat
  /\ Request \subseteq Nat \ {0}

ASSUME GammaAssumption == GammaSetting \ {NotANumber} \subseteq Nat

VARIABLES
  current,            \* pages in use: the head is the allocation page
  available,          \* empty pages
  fromspace,          \* gc()'s local list of the pages being evacuated
  hp,                 \* where the next object goes in the current page
  count,              \* the counters count.current.pages, count.available.pages
  availability_floor, \* at this many available pages a collection is due
  gc_needed,          \* tells the VM to call gc() at its next safe point
  nlive,              \* growheap's parameter: pages that held live data
  gamma,              \* the global variable &gamma
  extents,            \* the objects: where each lies and how long it is
  forwarded,          \* the from-space objects gc() has copied
  phase               \* where the program is in the code below

lists == <<current, available, fromspace, count>>
policy == <<availability_floor, gc_needed, nlive, gamma>>
objects == <<extents, forwarded>>
vars == <<lists, hp, policy, objects, phase>>

-----------------------------------------------------------------------------
(* Sizes and layout *)

RoundUp(n, block) == ((n + block - 1) \div block) * block

\* Offset of the first payload byte: struct page is a link and a union align.
FirstByte == RoundUp(PointerSize, Alignment)

\* Bytes between &page->a and the end of the page.
Payload == PAGESIZE - FirstByte

\* What vmalloc_raw takes for the largest object a page can hold.
SMALL_OBJECT_LIMIT == PAGESIZE - PointerSize - Alignment

ASSUME LayoutAssumption == Payload \in Nat

Extent(page, at, n) == [page |-> page, at |-> at, n |-> n]

\* One past the last byte of an extent, alignment included.
Limit(e) == e.at + RoundUp(e.n, Alignment)

Held == Range(current) \cup Range(available) \cup Range(fromspace)

Collecting == phase \in {"copy", "reclaim", "grow"}
Stopped == phase \in {"exited", "no fit", "large object", "no memory"}

-----------------------------------------------------------------------------
(* Taking pages *)

\* acquire_available_page fails its assertion when malloc returns NULL.
NoMemory ==
  /\ available = <<>>
  /\ Page \subseteq Held
  /\ phase' = "no memory"
  /\ UNCHANGED <<lists, hp, policy, objects>>

\* acquire_available_page: what is on `available`, and its length, once newpage
\* has made sure that the list is not empty.
Stocked(page) == IF available = <<>> THEN <<page>> ELSE available
StockedCountUnchanged == count.available   \* mutant: a new page is not counted
StockedCount == IF available = <<>> THEN count.available + 1 ELSE count.available

\* newpage and take_available_page, when `current` is the sequence cur of n
\* pages and the floor is fl; the caller says what becomes of hp.
TakeAvailablePage(cur, n, fl) ==
  \E page \in Page :
    /\ IF available = <<>> THEN page \notin Held ELSE page = Head(available)
    /\ available' = Tail(Stocked(page))
    /\ count' = [current |-> n + 1, available |-> StockedCount - 1]
    /\ gc_needed' = (gc_needed \/ count'.available <= fl)
    /\ current' = <<page>> \o cur

-----------------------------------------------------------------------------
(* Allocation *)

\* Mutant: hp moves on by the size requested, not by the size rounded up.
AllocSmallUnaligned(n, old) ==
  /\ RoundUp(n, Alignment) < Payload
  /\ \/ /\ hp + n <= Payload
        /\ hp' = hp + n
        /\ extents' = extents \cup {Extent(Head(current), hp, n)}
        /\ UNCHANGED <<current, available, count, gc_needed>>
     \/ /\ hp + n > Payload
        /\ TakeAvailablePage(current, count.current, availability_floor)
        /\ hp' = n
        /\ extents' = extents \cup {Extent(Head(current'), 0, n)}
  /\ forwarded' = forwarded \cup old
  /\ UNCHANGED <<fromspace, availability_floor, nlive, gamma, phase>>

\* alloc_small: the object goes at hp, on a new page if it does not fit there.
\* An object already in from-space is copied: old is {} or the extent copied.
AllocSmall(n, old) ==
  LET nbytes == RoundUp(n, Alignment) IN
  /\ nbytes < Payload
  /\ \/ /\ hp + nbytes <= Payload
        /\ hp' = hp + nbytes
        /\ extents' = extents \cup {Extent(Head(current), hp, n)}
        /\ UNCHANGED <<current, available, count, gc_needed>>
     \/ /\ hp + nbytes > Payload
        /\ TakeAvailablePage(current, count.current, availability_floor)
        /\ hp' = nbytes
        /\ extents' = extents \cup {Extent(Head(current'), 0, n)}
  /\ forwarded' = forwarded \cup old
  /\ UNCHANGED <<fromspace, availability_floor, nlive, gamma, phase>>

\* The ways vmalloc_raw and alloc_small stop the program.
AllocFails(n) ==
  LET nbytes == RoundUp(n, Alignment) IN
  \/ /\ \/ n > SMALL_OBJECT_LIMIT /\ phase' = "large object"
        \/ n <= SMALL_OBJECT_LIMIT /\ nbytes >= Payload /\ phase' = "no fit"
     /\ UNCHANGED <<lists, hp, policy, objects>>
  \/ /\ n <= SMALL_OBJECT_LIMIT
     /\ nbytes < Payload
     /\ hp + nbytes > Payload
     /\ NoMemory

\* vmalloc_raw, called by the mutator.
Vmalloc(n) ==
  /\ phase = "mutator"
  /\ \/ n <= SMALL_OBJECT_LIMIT /\ AllocSmall(n, {})
     \/ AllocFails(n)

-----------------------------------------------------------------------------
(* Collection *)

\* target_gamma, in hundredths: a setting of 100 or more is a percentage, and
\* the heap is never allowed to be less than twice the live data.
target_gamma ==
  LET setting == IF gamma = NotANumber THEN 210 ELSE gamma
      ratio == IF setting >= 10000 THEN setting \div 100 ELSE setting
  IN  IF ratio < 200 THEN 200 ELSE ratio

HeapPages == count.current + count.available

HalfHeap == (HeapPages + 1) \div 2

\* Mutant: `current` is not reset before the first page of to-space is taken.
StartCollectionKeepsCurrent ==
  /\ phase = "mutator"
  /\ \/ /\ availability_floor' = HalfHeap
        /\ fromspace' = current
        /\ TakeAvailablePage(current, 0, HalfHeap)
        /\ hp' = 0
        /\ phase' = "copy"
        /\ UNCHANGED <<nlive, gamma, objects>>
     \/ NoMemory

\* gc(), steps 1 to 3: everything allocated becomes from-space, and the floor is
\* set before the first to-space page is taken.
StartCollection ==
  /\ phase = "mutator"
  /\ \/ /\ availability_floor' = HalfHeap
        /\ fromspace' = current
        /\ TakeAvailablePage(<<>>, 0, HalfHeap)
        /\ hp' = 0
        /\ phase' = "copy"
        /\ UNCHANGED <<nlive, gamma, objects>>
     \/ NoMemory

\* gc(), steps 4 and 5: a forward_ function copies a live object, once.
Forward(e) ==
  /\ phase = "copy"
  /\ e.page \in Range(fromspace) /\ e \notin forwarded
  /\ AllocSmall(e.n, {e}) \/ AllocFails(e.n)

\* The gray stack is empty: no other from-space object is live.
EndScan ==
  /\ phase = "copy"
  /\ phase' = "reclaim"
  /\ UNCHANGED <<lists, hp, policy, objects>>

\* Mutant: make_available does not count the pages it makes available.
MakeAvailableUncounted ==
  /\ phase = "reclaim"
  /\ \/ /\ fromspace # <<>>
        /\ available' = <<Head(fromspace)>> \o available
        /\ fromspace' = Tail(fromspace)
        /\ extents' = {e \in extents : e.page # Head(fromspace)}
        /\ forwarded' = {e \in forwarded : e.page # Head(fromspace)}
        /\ UNCHANGED <<current, count, nlive, phase>>
     \/ /\ fromspace = <<>>
        /\ nlive' = count.current
        /\ phase' = "grow"
        /\ UNCHANGED <<lists, objects>>
  /\ UNCHANGED <<hp, availability_floor, gc_needed, gamma>>

\* gc(), step 7: one iteration of make_available's loop, then the call of
\* growheap once from-space has no page left.
MakeAvailable ==
  /\ phase = "reclaim"
  /\ \/ /\ fromspace # <<>>
        /\ available' = <<Head(fromspace)>> \o available
        /\ fromspace' = Tail(fromspace)
        /\ count' = [count EXCEPT !.available = @ + 1]
        /\ extents' = {e \in extents : e.page # Head(fromspace)}
        /\ forwarded' = {e \in forwarded : e.page # Head(fromspace)}
        /\ UNCHANGED <<current, nlive, phase>>
     \/ /\ fromspace = <<>>
        /\ nlive' = count.current
        /\ phase' = "grow"
        /\ UNCHANGED <<lists, objects>>
  /\ UNCHANGED <<hp, availability_floor, gc_needed, gamma>>

HeapTooSmall == HeapPages * 100 < target_gamma * nlive

\* Mutant: a page is asked of the system only when none is available.
GrowHeapSpins ==
  /\ phase = "grow"
  /\ HeapTooSmall
  /\ \/ /\ available = <<>>
        /\ TakeAvailablePage(current, count.current, availability_floor)
        /\ hp' = 0
        /\ UNCHANGED <<fromspace, availability_floor, nlive, gamma, objects, phase>>
     \/ available # <<>> /\ UNCHANGED vars
     \/ NoMemory

\* gc(), step 8: one iteration of growheap's loop.
GrowHeap ==
  /\ phase = "grow"
  /\ HeapTooSmall
  /\ \/ /\ TakeAvailablePage(current, count.current, availability_floor)
        /\ hp' = 0
        /\ UNCHANGED <<fromspace, availability_floor, nlive, gamma, objects, phase>>
     \/ NoMemory

\* The end of growheap, and gc(), step 9.
EndCollection ==
  /\ phase = "grow"
  /\ ~HeapTooSmall
  /\ availability_floor' = HalfHeap
  /\ gc_needed' = FALSE
  /\ phase' = "mutator"
  /\ UNCHANGED <<lists, hp, nlive, gamma, objects>>

-----------------------------------------------------------------------------
(* The program *)

\* heap_init, when every static variable is zero.
HeapInit ==
  /\ phase = "start"
  /\ \/ /\ TakeAvailablePage(current, count.current, availability_floor)
        /\ hp' = 0
        /\ phase' = "mutator"
        /\ UNCHANGED <<fromspace, availability_floor, nlive, gamma, objects>>
     \/ NoMemory

\* The program assigns the global variable &gamma.
SetGamma(g) ==
  /\ phase = "mutator"
  /\ gamma' = g
  /\ UNCHANGED <<lists, hp, availability_floor, gc_needed, nlive, objects, phase>>

\* heap_shutdown frees both lists, after which nothing is allocated.
HeapShutdown ==
  /\ phase = "mutator"
  /\ current' = <<>>
  /\ available' = <<>>
  /\ extents' = {}
  /\ phase' = "exited"
  /\ UNCHANGED <<fromspace, count, hp, policy, forwarded>>

\* The process is gone.
Terminated == Stopped /\ UNCHANGED vars

Init ==
  /\ current = <<>> /\ available = <<>> /\ fromspace = <<>>
  /\ hp = Payload
  /\ count = [current |-> 0, available |-> 0]
  /\ availability_floor = 0
  /\ gc_needed = FALSE
  /\ nlive = 0
  /\ gamma \in GammaSetting
  /\ extents = {} /\ forwarded = {}
  /\ phase = "start"

CollectorStep ==
  \/ \E e \in extents : Forward(e)
  \/ EndScan
  \/ MakeAvailable
  \/ GrowHeap
  \/ EndCollection

MutatorStep ==
  \/ \E n \in Request : Vmalloc(n)
  \/ \E g \in GammaSetting : SetGamma(g)
  \/ StartCollection
  \/ HeapShutdown

Next == HeapInit \/ MutatorStep \/ CollectorStep \/ Terminated

\* gc() runs to its end without leaving the processor: its steps are taken.
Spec == Init /\ [][Next]_vars /\ WF_vars(CollectorStep)

-----------------------------------------------------------------------------
(* Properties *)

TypeOK ==
  /\ current \in Seq(Page) /\ available \in Seq(Page) /\ fromspace \in Seq(Page)
  /\ hp \in Nat
  /\ count \in [current : Nat, available : Nat]
  /\ availability_floor \in Nat
  /\ gc_needed \in BOOLEAN
  /\ nlive \in Nat
  /\ gamma \in GammaSetting
  /\ extents \subseteq [page : Page, at : Nat, n : Nat \ {0}]
  /\ forwarded \subseteq extents
  /\ phase \in {"start", "mutator", "copy", "reclaim", "grow", "exited",
                "no fit", "large object", "no memory"}

Distinct(s) == \A i, j \in DOMAIN s : s[i] = s[j] => i = j

\* "Except during a collection, every page in the managed heap is on exactly
\* one of the two lists" (vmheap.c), and during one on exactly one of the three.
EachPageOnOneList ==
  /\ Distinct(current) /\ Distinct(available) /\ Distinct(fromspace)
  /\ Range(current) \cap Range(available) = {}
  /\ Range(current) \cap Range(fromspace) = {}
  /\ Range(available) \cap Range(fromspace) = {}

\* "The fields of the `count` struct accurately reflect the number of pages in
\* each list": what heap_shutdown asserts just before the process exits.
CountsAccurate ==
  phase # "exited"
    => count = [current |-> Len(current), available |-> Len(available)]

\* No two objects share a byte, no object runs past its page, and none lies
\* on a page that the allocator may hand out again or beyond hp.
ObjectsInTheirOwnBytes ==
  /\ \A e \in extents :
       /\ e.page \in Range(current) \cup Range(fromspace)
       /\ Limit(e) <= Payload
       /\ current # <<>> /\ e.page = Head(current) => Limit(e) <= hp
  /\ \A e, f \in extents :
       e # f /\ e.page = f.page => Limit(e) <= f.at \/ Limit(f) <= e.at

\* What makes the invariants above inductive: the stage each list belongs to.
StageInv ==
  /\ hp <= Payload
  /\ Collecting \/ Stopped \/ fromspace = <<>>
  /\ phase \in {"mutator", "copy", "reclaim", "grow"} => current # <<>>
  /\ phase = "start" => extents = {}
  /\ phase = "grow" => fromspace = <<>>
  /\ \A e \in forwarded : e.page \in Range(fromspace)

IInv ==
  /\ TypeOK
  /\ EachPageOnOneList
  /\ CountsAccurate
  /\ ObjectsInTheirOwnBytes
  /\ StageInv

\* A collection ends, or fails to get the memory that growheap asks for.
CollectionEnds == Collecting ~> (phase = "mutator" \/ Stopped)

=============================================================================
