# Verification of the SVM virtual machine and its compiler

The repository holds two programs. **SVM** (`src/src/svm`, C) loads virtual object
code and runs it on a register machine with a copying garbage collector. **UFT**
(`src/src/uft`, Standard ML) translates a Scheme dialect, vScheme, through a
chain of intermediate languages, into that object code. This directory models
both in TLA+, checks the models with TLC and proves theorems about them with
TLAPS.

Checking a module: `tlc -config X.cfg MCM.tla`; proving one: `tlapm MProofs.tla`.

## 1. Inventory

### SVM

| Component | State | Operations | What makes it correct |
|---|---|---|---|
| Page heap (`vmheap.c`) | lists `current`, `available`, counters `count`, bump pointer `hp`, `availability_floor`, `gc_needed` | `heap_init`, `vmalloc_raw`, `gc`'s work on the lists, `growheap`, `heap_shutdown` | a page is on one list, the counters match, objects do not overlap, a collection ends |
| Copying collector (`vmheap.c`, `vstack.c`) | from-space, to-space, forwarding pointers, the gray stack | `gc`, `scan_vmstate`, `scan_value`, `forward_*`, `scan_forwarded_payload` | the color invariants that `vmheap.c` documents, no dangling pointer, invisible to the program |
| String table (`vmstring.c`) | buckets, links inside the strings, `population` | `intern_short`, `resize`, buffers, long strings, `VMString_drop_dead_strings` | equal short strings are one string, lists intact, weak |
| Run loop (`vmrun.c`, `svm.c`, `vmerror.c`, `check-expect.c`) | `fun`, `pc`, register window, frame stack, error mode, test counters, a `jmp_buf` | call, tail call, return, jumps, check, expect, check-error, `runerror` + `longjmp`, one module after the other | callers' registers survive, a test is marked by its frame, counted once, and resumed where it stood |
| Data instructions (`vmrun.c`, `value.c`, `value.h`) | registers, blocks and closures, globals | loads, stores, allocation, arithmetic, comparison, `goto-vcon`, printing | they compute what the program means |
| Loader (`loader.c`, `iparsers.c`, `tokens.c`, `iformat.c`, `instructions.c`, `itable.c`) | a line buffer, the functions being loaded, the largest register seen | `loadmodule`, `loadfun`, `get_instruction`, one parser for each format | an instruction is the one its line shows, `nregs` covers every register used |
| Literal pool and globals (`vmstate.c`) | the pool, the names of globals | `newstate`, `literal_slot`, `global_slot` | identical literals share a slot, no other two do |
| Hash tables (`vtable.c`) | buckets and lists of bindings | put, get, remove, length, the copy that a collection makes | it is a map, whatever collides and wherever objects move |
| Argument list, printing, disassembly, debugging | none that the rest reads | | |

### UFT

Every pass is a function from one language to the next, with little state.

| Component | From, to | What makes it correct |
|---|---|---|
| Name resolution (`disambiguate.sml`) | names to locals, globals and primitives | not modelled |
| Match compiler (`match-compiler.sml`) | the choices of a case expression to a decision tree | the tree ends in the first choice that matches |
| Closure conversion (`closure-convert.sml`) | vScheme to closed Scheme | a captured variable is found in its slot |
| K-normalization (`knormalize.sml`) | closed Scheme to K-normal form, with an environment of registers and the set of those that are available | no register that is still needed is set |
| A-normal form | an optional route | not modelled |
| Code generator (`codegen.sml`) | K-normal form to instructions with labels, in three contexts | control comes out where the expression ends |
| Assembler (`assembler.sml`) | labels to offsets | an offset leads to its label |
| Driver (`uft.sml`) | the order of the passes | what is refused and what runs |
| Reference interpreter (`src/vscheme/vscheme.sml`) | evaluates vScheme | it is what the compiler is measured by |

What makes all of them correct together is that the object code computes what
the interpreter does. `PROJECT.json` lists the files of each.

### How they interact

UFT and SVM meet in the object code. The machine checks some of it (tags, arities,
the room for a window) and trusts the rest: that jumps stay in their function, that a
closure has the slots its function reads, that a new object is filled before anything
else happens. Module `ObjectCode` says what that is; `Compiler` checks that the
translator's code is so, and `VMDataProofs` proves that such code runs without a fault.
`VMControl` has the part of it that control needs as an assumption on its programs. Within SVM, the run loop calls
the allocator in the middle of instructions; the allocator never collects but
sets `gc_needed`, and the run loop collects at its safe points (calls, tail
calls, backward jumps, the `gc` instruction). The collector reads and writes the
run loop's state (registers, frames, `vm->fun`, the literal pool, globals) and
calls the string table before it frees from-space; the string table allocates
while it may be about to resize. Errors leave any of these calls by `longjmp`.

Nothing runs concurrently. What is hard is *order*: state saved before a
collection and used after it, a non-local exit between two halves of a protocol,
tables modified while they are walked, limits (of frames, registers, pages,
buckets) reached in the middle of an operation, and, in the compiler, a register
or a label that one part of an expression uses and another part changes.
`PROJECT.json` lists these hazards at their lines with the properties that cover
them.

## 2. The modules

| Module | What it models | Checked by | Proved in |
|---|---|---|---|
| `PageHeap` | the page layer of `vmheap.c` | `MCPageHeap` | `PageHeapProofs` |
| `ObjectGraph` | abstract: what the heap promises the machine | (through `CopyingGC`) | `CopyingGCProofs` |
| `CopyingGC` | the collector, the instructions that touch objects, the weak table | `MCCopyingGC` | `CopyingGCProofs` |
| `LinkedLists` | lists of nodes with links, as C has them | | `LinkedListProofs` |
| `StringTable` | `vmstring.c` step by step | `MCStringTable` | `StringTableProofs` |
| `VMControl` | the run loop's control, errors, tests | `MCVMControl` | `VMControlProofs` |
| `Values` | `value.h` and the relations of `value.c` | (through the next three) | |
| `KeyValueMap` | abstract: what `vtable.h` promises | (through `VTable`) | `VTableProofs` |
| `VTable` | `vtable.c`, with the collector's copy | `MCVTable` | `VTableProofs` |
| `Loader` | object code to functions, literals and globals | `MCLoader` | `LoaderProofs` |
| `Lists` | the list functions of the Standard ML basis | | |
| `ClosureConvert`, `MatchCompiler`, `KNormalize`, `Codegen`, `Assembler` | the passes of UFT | `MCCompiler` | |
| `VMData` | what the instructions of `vmrun.c` do to values | `MCCompiler` | `VMDataProofs` |
| `ObjectCode` | what the machine takes on trust of the code it runs | `MCCompiler` | (hypothesis of `VMDataProofs`) |
| `VScheme` | the reference interpreter | `MCCompiler` | |
| `Compiler` | UFT, then the machine on the code it makes | `MCCompiler` | |

### PageHeap

The two lists of pages are sequences, head first; an object is the extent of
bytes it occupies. `AllocSmall` is `alloc_small` with `take_available_page`,
`acquire_page` and the assertion on the size; a collection is the sequence
`StartCollection`, copies in any order, the reclaiming of from-space
(`make_available`), and `growheap` one page at a time. Which objects survive is
left open here: `CopyingGC` decides it from the roots. `phase` names the place
in the C code; "no fit", "large object" and "no memory" are the assertions that
stop the program.

### ObjectGraph and CopyingGC

`ObjectGraph` has no addresses: identities, what each refers to and what the
roots see. Its only action besides the program's instructions drops objects
that no root reaches. `CopyingGC` has two spaces, forwarding pointers, the gray
stack and one step for each value that `scan_value` visits, so that the color
invariants are checked between any two steps of a collection and not only
before and after. It refines `ObjectGraph` by the mapping `Identity`: an
address stands for the object there, whichever space holds it. Leaf objects
(strings, functions) are forwarded without being remembered on the gray stack,
as in the code; registers above the running function's window are cleared and
not scanned (`ClearStaleRegisters`); the table is dropped before from-space is
freed (`DropDeadStrings`, then `Reclaim`).

### StringTable

Buckets are heads of lists linked through `next_interned`, as in the code: a
list is not a TLA+ sequence but is followed link by link (`LinkedLists`), so that a
lost link or a cycle is expressible. `resize` is cut into `TakeBucket`, `Rehash` (one
string) and `EndResize`. Buffers (`Vmstring_buffer` ... `Vmstring_of_buffer`)
keep their byte count in the hash field until they are interned, as the code
does. The machine is the set `held` of the strings it refers to.

### VMControl

A program is data: a `code` in `Programs` gives every function its instructions,
so one run covers many programs. State: `fun`, `pc`, `counter` (`vm->counter`),
`R_window_start`, `registers`, `Stack`, `mode` (`vmerror.c`), the counters of
`check-expect.c`, `gc_needed`, dofile's `module` and `next`. A pointer to a
function carries a bit that says whether a collection left it behind, which is
all that control sees of memory. `RunError` is `runerror`, `runerror_p` and
`typeerror` with `stackunwind` and the `longjmp`; `EnterModule` and
`ReenterModule` are the two branches at the head of `vmrun`. The activation
frame has two history fields (`base`, `kept`) and there is one history variable
(`trial`); no guard reads them. Undefined behaviour in C ends a behaviour in
the state "undefined".

### KeyValueMap and VTable

`KeyValueMap` is the promise of `vtable.h`: a total map in which a missing entry
is nil. `VTable` has the array of buckets, the bindings linked through `link` in
the order of their allocation, and `where`, the address of each object. A key
is a value as the machine has it, so a pointer with an address; `hashvalue` and
`identical` are those of the code. `Collect` gives every object another address
and rebuilds the table as `VTable_copy` and the scan of its values do. The
refinement mapping forgets addresses: the abstract map takes the *identity* of
a key to the identity of the value that `VTable_get` finds. The steps of
`VTable_remove` after the one that unlinks are modelled to their end: through
the next binding, or through a null pointer ("crashed").

### Loader

`ReadLine` is one `getline`: between modules it begins a module
(`LoadModule`), within one it is `get_instruction`, whose `.load` case
(`LoadNested`) pushes a call of `loadfun` on `frames`; `EndNested` is that call's
return, which takes a literal slot and completes the parent's instruction. Lines
are chosen as they are read, so a run covers every file of its length. A word is
a symbol, an integer or a double, the result of the scanner's work on its
characters; `Token` and the parsers decide the rest, with fields as wide as in
the code (a byte is `ByteSize`, a word four of them) and negative jumps stored
in them. A line with an integer that is no `long long` stops the program, in
whatever place it stands (`Overflows`). The properties compare the result with the lines by an independent
reading of the file, which counts: `Owed` is how many instructions the first
lines announce beyond the lines that there are, so the i-th instruction of a
function is on the line before which i - 1 fewer are owed (`After`), whatever
is nested between; `Says` and `Loads` are what that line says. What `loader.c` says of
`nregs`, that it counts every register that an instruction mentions, is
`RegistersCovered`, and is not so (run `loader_nregs`): `OwnRegistersCovered` is what
holds, with the registers of `.load` lines neither required nor excluded.

### The compiler

A program of unambiguous vScheme is a sequence of definitions; expressions are
tuples, with the constructor's name first. `ClosureConvert`, `KNormalize`,
`Codegen` and `Assembler` are operators, one for each function of the source,
recursive over expressions; `MatchCompiler` is what K-normalization calls for a
case expression. The source of K-normalization is in continuation-passing style;
the model returns the bindings instead and wraps them around what the
continuation makes of the registers, in the same order. The set of available
registers is always "all from n on", so it is the number n. Labels, which the
source draws from a counter, are the place of the expression that asks for
them.

`VMData` executes what the assembler makes, one instruction in a step, on values:
it is the half of `vmrun` that `VMControl` leaves open. `VScheme` gives the
meaning of a program, on the source's expressions with a store of locations.
An error ends the machine, as the comment on `abort` in `vmerror.c:78` says; the
interpreter reports it, goes on with the next definition, and runs the unit tests after all the
definitions (`readEvalPrintWith`). So `EvalProgram` is the sequence of the
states after each definition, and `ComputesWhatItMeans` compares the machine's end with the
first of them that an error ended, if there is one, and with the last if not. What the
interpreter does after an error has no counterpart in the machine and is not compared.
`Compiler` composes them. `Init` chooses a program; `TranslateSource` runs the passes
and refuses it or loads it; then `Run` goes on until the machine stops.

`ObjectCode` stands between the two. A *certificate* of a function says what holds before
each instruction that control can reach: which slots of which new objects are yet to be
set, whether register 0 still holds the function's own closure, which literal was just
loaded, whether a check awaits its expect. `IsCertified` is that one instruction after the
other respects it (`Allowed`), and leads to a place where what it leaves is certified
(`After`, `Leads`). It is a condition on the text of the code only, as a bytecode
verifier's is. `CodeIsCertified` computes a certificate (`Compiler!Certificate`) for every
function of every program and checks it.

## 3. The runs

| Run | Bounds | Distinct states | Shows |
|---|---|---|---|
| `page_heap` | 4 pages of 8192 bytes, requests of 4070, 8000, 8168 and 8169 bytes, three settings of `&gamma` | 260,901 | lists, counters and objects stay apart; a collection ends or stops for want of memory |
| `copying_gc` | 3 objects a space, 1 register and 1 other root, 2 slots, 1 string, 2 labels | 898,689 | color invariants, no dangling pointer, identity, termination, refinement of `ObjectGraph` |
| `string_table` | 4 strings a space, 5 ever interned, 3 short contents that collide, 1 long, a table of 2 doubled up to `MaxDoubled` = 4 | 1,128,659 | lists, uniqueness, weakness, size |
| `vm_control` | 3 frames, 5 registers, two modules, two functions, 9,609 programs | 260,257 | frames, windows, tests and errors |
| `vtable` | a string that collides with the two zeros, two blocks, at most 3 bindings between collections, tables of 5 and 11 buckets | 29,076 | refinement of `KeyValueMap`, across collections |
| `loader` | 35 lines, files of up to 5, bytes of 4 values, 2 globals | 116,538 | every instruction is the one its line shows; slots; registers |
| `compiler` | 6,654 programs, 24 registers | 118,203 | compiled code has certificates, runs without a fault, computes what it means, and ends |
| `vm_start`, `vm_fun`, `vtable_remove`, `loader_nregs` | as above | | findings of section 5 |
| `compiler_wrong` | one program | 73 | findings of section 5: each of its lines is compiled to something else |

Why the bounds are enough for the cases that matter:

- Four pages are one that is current, one that a collection needs for to-space,
  one available and one to be acquired; the sizes are those at which the
  comparisons in `vmalloc_raw` and `alloc_small` change their answer, with the page
  size of the program as built.
- Three objects make shared children, cycles, and an object that two paths
  reach; two slots distinguish the first, last and middle of a scan.
- Hashes 1, 3 and 5 fall into one bucket of two and into two of four; the table
  doubles twice and then meets the guard on `INT_MAX/2`.
- Three frames are a caller, a test and a call inside it, and a full stack is
  reached; five registers make windows that overlap and one that does not fit.
  The programs are all bodies of three instructions for `f` over an alphabet of
  loads, calls, allocation, an error, a collection, a jump forward over an
  instruction and one backward, with four bodies for `g` that fail, tail-call, allocate
  and nest a check-error, and eight modules that break a rule or loop (return at top
  level, call a number under check-error, check twice, loop through a call).
- Three bindings make a list whose first, middle or last binding is rebound or
  removed. The two blocks always collide, because every block has one hash;
  the zeros are one key with two representations.
- Five lines hold a module, a function nested in it and one nested in that, with
  instructions before and after; bytes of four values put the ends of every
  range (a byte, 24 bits, a signed and an unsigned word) within reach of lines
  with small numbers. The lines have every parser, every kind of literal and
  one refusal of each kind.
- The programs of `compiler` come in families: every primitive on every kind of
  operand; pairs of expressions (variables, calls, conditionals, lets, sequences
  with output) in every context that the compiler treats by a rule of its own,
  inside a function and at top level; contexts inside contexts; closures and
  letrecs; loops; case expressions of three choices, from ten patterns, on
  ten values; unit tests. 24 registers are more than any of them needs.

What the programs of `compiler` leave out, because the translation is known to
be wrong or to differ there (section 5): a case expression at top level, a
default of a case expression outside return context, a letrec in which two
closures capture captured variables, an assignment to a local variable in an
operand or to a captured variable, wildcards below the top of a pattern where
another choice tests, a primitive that fails while its value is not used, `printu` of a
number that is no code point, `idiv` and `mod` with a remainder and different signs, `/` by
zero, a check-assert of a value that is neither a boolean nor nil, a call of what is no
function with arguments that have effects, and a primitive that has an effect where its
value is used (the compiler makes an error of it). All before `idiv` but the wildcards
are in the program of `compiler_wrong`, line by line: in its last state `out` has 10, (2 . 2),
10, 1 and 40, where the program means 20, (1 . 2), 6, 2 and an error.

`CHECK_DEADLOCK` is never turned off: a program that stops is in a state that
says so and stutters there.

**Fairness.** `PageHeap` and `CopyingGC` assume weak fairness of `CollectorStep`:
`gc` is a C function that is called and returns; nothing in it waits, so a step
that is enabled is taken. The mutator is never assumed to do anything.
`Compiler` assumes weak fairness of `Run`, a step of the machine: it waits for
nothing either, so a program ends unless it loops; `Ends` says that none of
these programs is compiled into a loop. The other modules assume none.

## 4. The proofs

All are for every value of the constants that satisfies the module's assumptions.

**PageHeap** (any number of pages, any page size, alignment, object sizes and
settings of `&gamma`). `IInv` adds `StageInv`, which ties the lists to the
phase: from-space is empty outside a collection, `hp` is within the page,
forwarded objects lie on from-space pages. It is needed because the distinctness
of the lists alone does not survive the step in which a page moves from one to
another. Proved: `TypeCorrectness`, `PagesOnOneList`, `Counts`, `NoOverlap`.

**CopyingGC** (any number of registers, roots, slots and objects, any allocation
policy that takes free memory). The color invariants are not inductive: a step
of the scan needs to know that what the object holds beyond `next` still points
into from-space, that forwarding is a bijection, and that the roots before
`next` are done. `IInv` says so (`RootsInv`, `FromSpaceInv`, `ForwardingInv`,
`IdentityInv`, `TableInv`, `StageInv`). Proved: `TypeCorrectness`,
`ColorCorrectness`, `NoDangling`, `PointerEquality`.

**CopyingGC implements ObjectGraph** (`Refinement`, for the same constants). An
instruction is a step of the graph, a step of a collection is a stutter, but for
two: `ClearStaleRegisters` is the graph's `Forget` and `Reclaim` its `Collect`. The
refinement mapping finds an object by its identity, in either space, so a copy
must show what its original does (`AgreeInv`): the slots of a copy that have
been scanned point to copies, the others to originals, and the identities are
the same. That a collection keeps no more than the graph does needs `ReachInv`:
what has been copied is in every set of objects that holds what the roots refer
to and is closed under reference. That it keeps no less is `RootsInv` and
`BlackPointsToToSpace` at the end of a collection, when no object is gray:
to-space is then itself such a set. So to-space is the smallest one, which is
what `Collect` keeps. Both conjuncts are part of an inductive invariant with `IInv`.
The assumption `NilAssumption` says that a value without a payload is neither an
address nor an identity.

**StringTable** (any set of strings and addresses, any hash function whose hashes
are positive, any sizes, any allocator). `ListsIntact` speaks of what one finds by following
links, and that is not inductive as it stands: one assignment to a link can change
what is found in every list. So the proof works with sequences. `LinkedListProofs`
says what it is for a sequence to *spell* a list (`Spells`: each element's link is the
next one, the last one's is null, none occurs twice), that a list is spelled by at most
one sequence, that following links finds that sequence, and how it changes
when a node is put in front or taken off. The facts about the recursive function
`Links` are proved by induction over sets of natural numbers (`SetInduction`): a set
of counterexamples would have a least element, which the library's
`NatLessThanWellFounded` gives without an operator for a parameter. `IInv` is

1. `ListsKept`: the list of every bucket, and that of `p`, is spelled by what `Chain`
   finds, so it has no cycle; the sets of their strings are disjoint.
2. `PlacesKept`: a string of the table has the hash of its bytes and is in the bucket that
   hash leads to, by the old size in the buckets that `resize` has yet to take and by
   the new size in the others. That `resize` breaks no list it has yet to take
   needs that the new size is a multiple of the old one (`Multiple`).
3. `StringsKept`: the bytes of the table's strings, those of `p`'s list included, are
   short and pairwise different, and none has the bytes that are in `wanted`. There
   are no more of these strings than `population` counts.
4. `HeldKept`, `PendingKept`: what the machine holds, and the buffer, is in use;
   a short string it holds is in the table or on `p`'s list.
5. `CopiesKept`: during a collection forwarding is injective, a copy has the bytes
   and the hash of its original, and the original of a short one is in the table. So `DropDeadStrings` leaves, in every bucket, the copies of a subsequence
   of its list.
6. `StagesKept`: `population` is at most the number of buckets, unless the table is
   too large to be doubled. With item 3, that is `EnoughBuckets`.

Proved: `TypeCorrectness`, `ListsStayIntact`, `UniqueShortStrings`, `WeakTable`,
`BucketsSuffice`, all from `Invariance`. `MemoryAssumption`: there are finitely many
addresses, so that a list without a cycle ends.

**VTable** (any objects and unboxed values, any hash functions with hashes that are
not negative, any argument of `VTable_new`, any number of collections). `IInv` speaks
of identities: `KeyId` and `ValId` are those of a binding's key and value.

1. `ListsKept`: a sequence spells the list of every bucket, and no two share a binding
   (with `LinkedListProofs`, as for the string table).
2. `WhereKept`, `ArgsKept`: no two objects are at one address, and every binding's key
   and value is what some argument's value is *now*, so that a pointer that a
   collection forgot to forward would break it. Hence `ValueIs` and `IdenticalIs`: two keys
   are `identical` if and only if they have one identity, which is not NaN; and `HashIs`: what is
   identical has one hash, wherever it is.
3. `PlacesKept`, `KeysKept`: a live binding is in the bucket that the hash of its key
   leads to; no two live bindings have one identity, unless it is NaN.
4. `CountKept`: `length` is the number of live bindings.

`UnlinkStep` takes a binding out of the middle of a list (`SpellsRemove`); `CollectStep`
shows that copying in the order of the buckets (`CopyOrder`, a `FlattenSeq`, whose
recursion `FlattenIs` unfolds) is a one-to-one renaming of the live bindings, under
which every list is spelled as before (`SpellsRename`).

Proved: `TypeCorrectness`, `BindingsFound`, and `Refinement`, that `VTable` implements
`KeyValueMap`: the map is what `MapRead` reads from the live bindings; a put or a remove
changes one key's entry (`BindStep`), a collection none (`SameBindings`), and the keys
that are not nil are as many as `length` says (`LengthIs`). `Refinement` has a
hypothesis, that no argument is NaN, and is false without it: no search finds such
a key, so each put of it makes another binding, which counts, and a get returns nil.

**VMControl** (any program, any number of frames and registers). The argument:

1. `WindowsNested`: the bases of the frames' windows ascend and the running
   window is above them all. Hence a write to the running window is to a
   register at or above the base of every frame (`Written`), and so
   `CallersRegistersKept` is kept. A return writes its result at or above the
   *caller's* window, which is above the bases of the frames below.
2. `CodeIsClosed`: control in a function stays in it and never reaches the
   sentinel, and the frames' return addresses have a next instruction. Hence
   `Halt` is executed by a module only, with no frame on the stack.
3. `ErrorFrameMarksTest` then says where `stackunwind` stops (`UnwoundStack`): at
   the frame of the test in `TESTING` mode, at the bottom in `NORMAL`.
4. `TrialIsRemembered`: that frame, and the stack under it, are what the
   check-error found. So both ways in which a test ends (`ReenterModule`, `Return`)
   restore the machine (`CheckErrorResumption`, an action property).

Proved: `TypeCorrectness`, `TestIsMarked`, `RegistersOfCallers`,
`EveryTestCounted`, `CheckErrorResumption`, all from `Invariance`.

Assumptions: `ProgramsAssumption` (no function contains `halt` or runs off its
end, which the code generator sees to; object code written by hand may: a
`halt` inside a function under check-error leaves the frame of the test on the
stack for the next module) and `MessagesAreNotInSlotZero`, a hypothesis of the
theorems: a check-error whose message is in literal slot 0, where `newstate` puts
the string `cons`, pushes a frame that is not marked as a test (`vmrun.c:187`),
and without the hypothesis the theorems are false. TLC evaluates the `ASSUME`s in
every run.

**Loader** (any lines, any byte size, any number of globals). `UniqueSlots`: all
that a step does to the literal pool and to the names of globals is to look
something up (`PoolsOnlyGrow`), which adds a literal only if none is identical,
where `identical` is symmetric, and a global only if none has its name. The
inductive invariant adds to `SlotsAreUnique` that both pools are sequences.

`TypeCorrectness` and `RegistersCorrectness` rest on `RInv`. The argument:

1. The encodings can be undone: division of `q * n + r` (`Division`) gives back the
   bytes and the index (`Operands`, `IndexOperands`) that a parser put together.
2. The entry that a name finds in the instruction table and the entry that its opcode
   finds have the same parser (`TableParsers`, `OpcodeEntry`), although four opcodes and
   three names have several entries. So the registers that an instruction mentions are the bytes that its
   parser saw (`MentionedIs`, `ParseMakes`), and `See` keeps the largest.
3. Literals are never moved (`Extends`), and each `loadliteral` has its literal
   (`LiteralsHeld`); so what it loads, a function or something else, stays the same while
   other functions and modules are loaded (`FunctionStays`). A literal that a line shows
   is never a function (`ShownLiteralTag`); one that a nested function becomes always is.
4. The frames belong to different functions (`FramesDiffer`), each lacks an instruction
   while it waits for a nested one, and its `maxreg` is the largest register that its
   own instructions mention, those of `.load` lines apart (`AllLoading`); every other
   function is complete, and its `nregs` is one more (`OthersWhole`).

`RegistersCorrectness` is about `OwnRegistersCovered`: the stronger `RegistersCovered` is
false, as run `loader_nregs` shows.

`LoadingCorrectness` says that every instruction is the one its own line shows. Its
invariant is `LInv`, beside `RInv`:

1. Each line takes one instruction off what is owed, and one that begins a function
   adds as many as it announces (`OwedNext`). So n instructions that follow a line end
   where n fewer are owed for the first time (`Reaches`), and a nested function, which
   `Reaches` its own end, is one instruction of its parent (`ReachesOver`, `ReachesNext`).
   What a reader finds by `After` is the one line that is reached (`AfterIs`).
2. `FramesAtLines`: the function of a frame is the one that its line begins. If the frame is
   the last, its instructions so far reach the end of what has been read; if not, they
   reach the line before the one that begins the function nested in it, and stay there while it is
   read. So when `EndNested` completes the parent's instruction, it is that line's.
3. `EveryFunctionRead`: each instruction that a function has is on a line after its
   own that its predecessors reach, and that line shows it. That is kept because text and
   both pools only grow (`Grows`): neither the lines found nor what an index refers to
   can change. Stated with `After` it would not be inductive, since `After` has no
   value while the lines are not there.
4. `ParseSays` is the step from the tokens to the operands: bytes, an integer with its sign
   (`SignedRemainder`), a literal, the name of a global.

The proof found an error in the property, which no line of the run had shown: an integer from
2^31 up to 2^32 is a token of the scanner and is stored as a negative one, so `goto 255` with
bytes of four values is not a jump by 255. `ShownNumber` says so now, and the run has that line.

Assumptions: a byte has more than one value and `MAX_GLOBALS` fits in two bytes
(`SizeAssumption`; 256 and 4096 in the code). `LineAssumption`: lines are sequences of
words, and the integers of a `.load` line are nonnegative ints, since `loadfun` allocates
for any number that it is given. The index of a literal is checked only by the assertion
of `eR1U16` (`Fits`): the bound `MAX_LITERALS` is not, see section 5.

**VMData** (any module and any set of functions with certificates, any number of
registers, any globals, any run). The hypotheses are of two kinds. `Trusted`: the module
and the functions have certificates, and whatever function the code loads is one of these.
`CodeIsCertified` shows that of every program of the run `compiler`, so it is met by what
the translator makes. `InFile`: the registers of the running instruction are within the
register file. At a call `vmrun` checks that the callee's `nregs` registers, which cover
those that it uses (`OwnRegistersCovered`, and for `.load` lines the instructions that the
compiler puts after them), fit above its window (`VMControl!HasRoom`). At a
tail call it checks that the arguments fit, and at a check-error nothing, so deep in the
stack a function may be entered whose other registers do not, and C leaves undefined what
they hold. The theorems are about the behaviours in which that does not happen: hence
`[]InFile`, a hypothesis on the behaviour and not on the code.

None of `TypeOK`, `CollectionsFindValues` and `NoFault` is inductive: an access outside
of a closure comes of a `mkclosure` long before, in another function. `IInv` is

1. `ControlInv`: where control is, and where each activation returns to, is a certified
   place; the module is at the bottom, functions are above it, and a test is the
   module's only. So the next instruction is `Allowed`, and a step leads to a certified place.
2. `WindowsInv`: the window of every activation begins below that of the next, at or
   before the register of the function it called. So what runs above leaves the registers
   below its window alone.
3. `RegistersInv`: a register holds a value that is safe to use (`IsPlain`: a function in
   it reads no captured variable), but for the function just loaded for the `mkclosure`
   that comes next.
4. `ObjectsInv`: every object has as many slots as its function reads; its slots hold
   plain values but those that the certificate names, whose object is in a register of
   the running window. Calls, jumps and `gc` are not `Allowed` while there are any, which
   is `CollectionsFindValues`.
5. `ClosureInv`: in a function that reads captured variables register 0 holds a closure of
   that function when the certificate says so, and will again when an activation returns
   to one that does, since item 2 keeps it.
6. `TestsInv`: a check awaits its expect exactly when the module's certificate, at the
   place where the module is or will go on, says so. An error in a test resumes after the
   check-error, where none awaits.

There is a lemma for each instruction (`CallStep`, `GetClSlotStep`, ...), and one for what most of
them have in common. Proved: `TypeCorrect`, `CollectionsAreSafe`, `Faultless`, all from
`Invariance`. `VMDataAssumption`: there is a register.

`Faultless` says that there is no fault but one (`FaultsInPrintu`): `printu` of a number
that is no code point goes through a null pointer, whatever the code, since no
certificate knows what number a register will hold. `NoFault` without the exception is false of
certified code, and run `compiler_wrong` shows that it is; in run `compiler` it holds because
no program of it prints such a number.

**Only model-checked:** termination of a collection and of compiled programs
(liveness under fairness), and what the compiler makes: `CodeIsCertified` and
`ComputesWhatItMeans`. The compiler's operators recur over expressions: facts about them
need induction over data and RECURSIVE operators, which the prover does not have. So the
chain from source to machine is proved from the certificates on, and checked up to there.

## 5. Findings

Each is a run in which TLC finds the violation, with the line of the source or of
its comments that says otherwise in `PROJECT.json`.

1. `vm_start`: after a collection in one module the next module starts in the
   middle: `vm->counter` is never reset (`vmrun.c:84`).
2. `vm_fun`: after a collection in a check-error test that ends in an error,
   `vm->fun` is a stale pointer, and possibly to another function than the one
   that runs (`vmrun.c:68`, `svm.c:43`).
3. `vtable_remove`: removing the binding that is the last of its list goes through a
   null pointer (`vtable.c:164`). Nothing in the machine calls `VTable_remove` yet.
4. `loader_nregs`: the register that a `.load` line sets does not count toward `nregs`
   (`loader.c:94`), although the comments on `loadfun` and `get_instruction` say that
   every register mentioned does. Compiled code mentions it again.

The others are lines of the one program of `compiler_wrong`:

5. The default of a case expression whose value is bound or dropped runs on into the
   first choice (`codegen.sml:99`).
6. Two closures of a letrec that capture a captured variable each both get the second
   one (`knormalize.sml:180`).
7. A name in an operand is read when the operation runs, after the later operands,
   which may have set it (`knormalize.sml:60`).
8. The check for variables that are set and captured is off (`mutability.sml:59`), and
   a closure keeps the value that such a variable had.
9. Label positions are those before `goto-vcon` is expanded, so the jumps of a case
   expression at top level have wrong offsets (`assembler.sml:126`).
10. A primitive whose value is not used is not compiled, even if it could fail
    (`codegen.sml:197`).
11. `printu` of a number that is no code point passes `runerror` a null pointer, which
    `stackunwind` follows (`print.c:122`).

Met while modelling, where no document says otherwise, or the model has the
behaviour as it is and no property is about it:

- A tail call checks the room for its arguments but not for the registers of the function
  that it enters, as a call does (`vmrun.c:549`, `vmrun.c:480`).
- `growheap` takes pages out of `available` and puts them on `current`
  (`vmheap.c:765`): its comment speaks of available pages.
- An object of 8161 to 8168 bytes is small to `vmalloc_raw`, then fails the
  assertion of `alloc_small` (`vmheap.c:294`).
- `population` counts strings ever interned, not strings stored (`vmstring.c:105`).
- Equal strings longer than `VM_MAXSHORTLEN` are unequal (`value.c:90`).
- A key that is NaN is never found, so each put of it makes another binding
  (`value.c:24`).
- A check-error whose message is in literal slot 0 is not recognized as a test
  (`vmrun.c:187`).
- The literal pool has no check against `MAX_LITERALS` (`vmstate.c:69`).
- `idiv` and `mod` truncate in the machine and round down in the interpreter
  (`vmrun.c:235`).
- A wildcard inside a pattern at a path that another choice tests stops the match
  compiler, which calls it impossible (`match-compiler.sml:228`).
- A check-assert passes in the interpreter for any value but false and nil
  (`projectBool`, `vscheme.sml:1922`), in the machine for true only (`vmrun.c:149`).
- The interpreter reports an operator that is no function before it evaluates the
  arguments (`vscheme.sml:1709`), the machine after.

## 6. Not modelled

- Tables (`VTable`) as objects of `CopyingGC`: no instruction makes one. What a
  collection does to a table is in `VTable`.
- The `hash` instruction, doubles that are not integers (but NaN and -0.0 as
  literals and keys), and `vmrun-big.c` with `bignums.c`, a variant of the run
  loop that the build does not install.
- Where the values of `VMData` lie in memory and the limits of its stack:
  `CopyingGC` and `VMControl` have those. The composition is by what they share,
  the safe points and the window, and is not itself checked: the product of
  the three is out of TLC's reach with programs of any interest.
- Statistics and Valgrind annotations of the heap; printing as text; disassembly
  and debugging output; test programs and unused variants.
- The scanners and parsers of all languages, and their printers: text processing.
- Name resolution: its output is what `Compiler` starts from.
- First-order Scheme and the readers of K-normal form, by which other source
  languages enter the route in the middle; A-normal form, from which the driver
  makes no code.
- ONEOF patterns, on which the match compiler stops.
- Arrays and the predefined functions of the reference interpreter.

## 7. What remains

In the order of what would add most: a composition of `VMControl` and `CopyingGC` at
the safe points; the limits of `VMControl` in `VMData`, so that the hypothesis `InFile`
is about tail calls only; name resolution in front of `Compiler`.
