# TLA+ models of mymalloc

mymalloc is a thread-safe `malloc` in the style of Hoard: every thread
allocates from the heap its identifier hashes to, memory moves between heaps in
*superblocks*, and heaps that have become too empty give superblocks to a global
heap.  This directory holds models of it, the TLC configurations that check
them on small instances, and theorems about them checked by TLAPS.  Paths such
as `src/heap.c` are relative to the repository.

    tlc -workers 2 -config shared.cfg MCHeap      # one of the runs below
    tlc -workers 2 -config interface.cfg MCMyMalloc
    tlc -workers 2 -config spurious.cfg Barrier
    tlapm HeapProofs.tla                          # proofs (4 minutes; ListProofs 8)

## 1. The system

| component | source | state | operations | what makes it correct |
|---|---|---|---|---|
| superblocks | `src/superblock.c`, `include/superblock.h` | a header per 256K chunk: owner, block size, cursor ("reap") and counts, list of freed blocks, links, mutex | `init_superblock`, `reset_superblock`, `superblock_alloc`, `superblock_free`, `is_superblock_empty`, `used_bytes` | a block is handed out once until freed, inside the buffer, overlapping no other; the counts agree with the blocks |
| bin manager | `src/binmanager.c`, `include/binmanager.h` | per heap and block size, five circular lists of superblocks by fullness and a count of those with room; the table of block sizes | `push_into_bin`, `delete_from_bin`, `update_emptiness_class`, `get_eidx`, `size2idx`, `idx2class`, `init_size_table` | lists are well linked, disjoint, and hold exactly the superblocks of that heap, size and class; the count is their number |
| heaps | `src/heap.c`, `include/heap.h` | `thread_heaps`, `global_heap`: bins, recycling bin of empty superblocks, usage statistics, mutex | `heap_alloc`, `heap_free` and what they call: `bin_alloc`, `get_sb_from_global`, `bin_free`, `transfer_sb_to_global`, `find_emptiest_sb`, `is_empty_enough` | no interleaving corrupts lists or hands memory out twice; no deadlock; statistics follow the superblocks; a transfer is made by one thread's hands, and one per free is enough for a heap that was not too empty before |
| malloc interface | `src/mymalloc.c`, `include/mymalloc.h` | none of its own; the contents of blocks | `malloc`, `calloc`, `realloc`, `free` | what a program may rely on: held blocks are disjoint, large enough, and keep what was written into them, and stay the program's until freed; whatever fails, every block still in use has one owner |
| large allocations | `src/largealloc.c`, `include/largealloc.h` | a magic number and a size in front of every mapped region | `large_alloc`, `large_realloc`, `large_free`, `is_large_alloc` | the bytes before a pointer tell large blocks from small ones; a header keeps the length that `munmap` needs; `realloc` copies no more than fits |
| pthread barrier | `include/ptbarrier.h` | needed, called, a mutex, a condition variable | `pthread_barrier_init/wait` | nobody passes before all have arrived |
| tuning constants | `include/macros.h` | | | |
| tests, benchmarks | `test/`, `benchmarks/` | | programs that call the allocator | |

**How they interact.**  `malloc` initialises the size table on first use and
calls `heap_alloc`, or `large_alloc` above `max_block_size`; `free` reads the
bytes before the pointer to choose between `heap_free` and `large_free`.
`heap_alloc` locks the thread's heap and, when neither its bins nor its recycling
bin has anything, the global heap inside it.  `heap_free` locks the superblock
of the block, then the heap that owns it, and in a transfer the global heap: a
nesting three deep.  The bins and the recycling bin of a heap are threaded
through the same two link fields of the superblocks' headers, so every component
writes the header another one relies on.

**What is hard.**  There is no I/O, persistence or time-out; the difficulty is
concurrency, memory whose contents decide what the code does, and long sequences
of calls.

* The owner of a superblock is read under the superblock's mutex, and changed
  without it by transfers and adoptions (`heap.c:128`, `heap.c:175`).
* A superblock leaves the global heap's lists in one critical section and gets
  its new owner after it.
* Frees of other threads' blocks work on a heap while its own thread allocates.
* Link fields, class and counters are kept by hand and are stale between lists.
* The usage statistics are unsigned and decide about transfers.
* `mmap` may fail in the middle of `bin_alloc`, and of `realloc`; a `realloc` that
  fails frees the old block (`mymalloc.c:58`), except between two large sizes.
* The size table is computed by every thread whose first call finds the flag
  unset, at the same time, without synchronisation (`mymalloc.c:11`).
* Small and large blocks are told apart by bytes in front of the pointer, which
  for a small block belong to another block (`largealloc.c:72`), and twice in one
  `realloc` (`mymalloc.c:49`, `:82`).

`PROJECT.json` lists these hazards at their lines, with the properties that
watch over each.

## 2. The modules

| module | models |
|---|---|
| `Superblock` | the header and the operations of `superblock.c`, as operators from header to header |
| `BinManager` | the bins: list operations as operators on (headers, bin manager), the emptiness class, the table lookup |
| `Heap` | the state machine: all threads in `malloc`/`free` of sizes up to `max_block_size` |
| `HeapProperties` | what has to hold of `Heap`, the comments of the code as predicates, the refinement mapping |
| `Allocator` | the abstract specification: what `malloc` and `free` promise |
| `TableInit` | `init_size_table` run by several threads at once, store by store, and the binary search of `size2idx` |
| `LargeAlloc` | large blocks: headers, lengths, pages, `is_large_alloc`, as operators on memory |
| `MyMalloc` | the state machine of the interface: all threads in `malloc`, `calloc`, `realloc` and `free`, from the first call on; extends `TableInit` and `LargeAlloc` |
| `MyMallocProperties` | what a program may rely on, and exactly where it may not |
| `Barrier` | `pthread_barrier_wait` of `include/ptbarrier.h` |
| `MCHeap`, `MCMyMalloc` | small instances for TLC; `MCMyMalloc` also the size table of the real build |
| `BinManagerProofs` | lemmas about the operators of `Superblock` and `BinManager` |
| `HeapProofs` | types, mutexes, pointers and deadlock of `Heap`, for every execution |
| `BlockProofs` | the blocks inside superblocks, and the refinement of `Allocator` |
| `ListProofs` | the lists of superblocks and the statistics, given what the code assumes of them |
| `RegimeProofs` | where the code keeps those assumptions, the usage of the heaps, and whether one transfer is enough |
| `MyMallocProofs` | the interface: who has which block, and what is in memory |
| `TableInitProofs`, `BarrierProofs` | the theorems about the modules they are named after |

Each proof module of the heap extends the one before it: `BinManagerProofs`,
`HeapProofs`, `BlockProofs`, `ListProofs`, `RegimeProofs`.

The heap below the interface and the interface above it are composed through
their contract: `Heap` implements `Allocator` (run `shared`), and in `MyMalloc`
`heap_alloc` returns `NULL` or some block that is not in use and `heap_free` takes
it back.  `MyMalloc` assumes two things beyond what `Allocator` says: a superblock
keeps one size class (`ChunkBin` is a constant), and its blocks lie side by side
and have the size of the class.  `Heap` gives a superblock another class when it
recycles it, which to the interface is another chunk; and findings 1 and 3 break
both assumptions outside the regimes below, so what is said of the interface is
said of a program that does not run into them.

### The heap

**State.**  `sb` holds the headers (`owner = NULL` until the superblock is
mapped), `heap` the records of the thread heaps and the global heap, `lock` who
holds each mutex, `th` each thread's place in the code and its locals, named as
in the source, `held` the blocks the program has.  A pointer to a block is its
byte offset in the buffer: when a superblock is recut for other sizes, blocks
move as they do in memory, and overlaps can be seen.  The list through freed
blocks is the sequence of their offsets.

**Actions.**  One action per stretch of code between two points where another
thread can interfere: acquiring a mutex, reading state the held mutexes do not
protect, the work under a mutex, releasing.

| code | actions |
|---|---|
| `malloc` to `lock_heap` | `Malloc`, `LockHeap` |
| `bin_alloc`: a bin, the recycling bin, or neither | `ChooseInBin`, `Recycle`, `AskGlobal` |
| `get_sb_from_global` | `LockGlobal`, then `TakeNonfull`, `TakeRecycled` or `TakeNothing` |
| `bin_alloc`: adopting, mapping, failing | `Adopt`, `MapSuperblock`, `MmapFails` |
| the end of `bin_alloc` and `heap_alloc` | `SuperblockAlloc` |
| `heap_free` | `Free`, `LockSuperblock` (reads the owner), `LockOwner`, `BinFree` |
| statistics and the end of `heap_free` | `FreeFromGlobal`, `FreeAndKeep` |
| `transfer_sb_to_global` | `GiveRecycled` or `GiveEmptiest`, `LockGlobalForTransfer`, `InsertRecycled` or `InsertIntoBin` |

*Why this grain is enough.*  Code under a mutex that guards all it touches can be
taken as one step.  Code that touches a superblock which another thread may
touch under another mutex cannot; the places where this happens (the owner read,
the adoption, the transfer) are steps of their own.  Once a stale owner has led
two threads into one superblock, the build has data races inside those stretches
that the model does not split further: from there on it shows some of the
corruptions, not all.  The runs that draw conclusions about lists and blocks look
at executions in which no owner is stale: in `shared` none can be, `transfer` and
`fullness` stop where one is; and so do the theorems of `BlockProofs`, `ListProofs`
and `RegimeProofs`, by their hypotheses.  The conclusions of `race`, the theorems of `HeapProofs`, and those on
the threshold without such a hypothesis do not look at what the lists contain.

*Undefined behaviour.*  Where the code would follow a null pointer or index
outside `emptiness_bins`, the step is not defined (`PushDefined`,
`DeleteDefined`, `AllocDefined`, ...), and `Crash` sets `crashed` instead.

*Arithmetic.*  `unsigned` and `size_t` wrap (`UINT_MOD`, `SIZE_MOD`):
`get_eidx`, the counters, the statistics, the sum in `is_empty_enough`.

*Left out.*  `magic` tags, `DPRINT` and `ASSERT` (empty unless `MYMALLOC_DEBUG` is
defined, and then they print), the trimming of a mapping to an
aligned superblock (the choice of a superblock not mapped yet), the hash of
`get_thread_heap` (the constant `HeapOf`, any function), the contents of blocks.
In `Heap` the size table is a constant with what the assertions of
`init_size_table` promise as its assumption; `TableInit` is about how it comes
about.

*Assumptions on constants* say what the code relies on: two blocks of any size
fit into a superblock (the assertion of `binmanager.c:50`), the header's size is
a multiple of the alignment (`SizesAssumption`), and an `unsigned` counts the
superblocks of an address space and a `size_t` their bytes
(`AddressSpaceAssumption`), and the threshold in bytes times the number of
emptiness classes (`ThresholdAssumption`; 2^22 in the real build).

### The interface

**State.**  `mem` is memory in cells of 8 bytes, by superblock and by mapping;
`mapped` the length of each mapping; `small` the blocks the heaps have handed
out; `held` the blocks the program has, each with the size it asked for, the word
it expects in it and how far; `th` each thread's call with its locals; `tl` its
place in `init_size_table`.  `size_table`, `num_size_bins`, `max_block_size` and
`size_table_initialized` are the globals of `binmanager.c`.

| code | actions |
|---|---|
| `malloc` up to line 13 | `EnterMalloc` reads the flag; `StoreSize`, `StoreExtra`, `StoreNumBins`, `StoreLargest`, `StoreFlag` are the stores of `init_size_table` |
| the rest of `malloc` | `HeapAlloc`, `large_alloc`, `MallocFails` |
| `calloc` | `CallCalloc`, the above, `Zero` |
| `realloc` | `CallRealloc` (reads the tag), the above, `Copy`, then as `free`; between large sizes `CallReallocLarge`, then `LargeMap` or `LargeMapFails`, `LargeCopy` |
| `free` | `CallFree`, then `HeapFree` or `large_free`, by the tag as it is then |
| the program | `Write` fills a block; sizes come from sets of requests |

Calls that return at once (`malloc(0)`, `free(NULL)`, `realloc(NULL, n)`, which
returns `NULL`, a `calloc` whose product would wrap around) change nothing and
have no action.  `realloc(p, 0)` is `CallFree`.

*The stores of `init_size_table`* take effect in program order.  C does not
promise that for globals without synchronisation; compilers were found to keep it
(gcc -O0 to -O3 on this code), and x86 does.  On another build the flag may be
seen before the table, and nothing below applies.

*Memory.*  An `MmapHeader` is two cells, the tag and the size.  `MAGIC` is a cell
whose first four bytes are the magic number; `LINK` is what `superblock_free`
writes into a freed block.  The cells in front of the first block of a superblock
are the end of its header, `reap_position` and padding: an aligned pointer and
zero, never the odd magic number, so they stay 0.  The program may write any
word, and `MAGIC` is the one that matters.

*Unmapping.*  `munmap` is given the length in the header, rounded up to pages, so
`Unmap` releases what that length covers: all of the mapping if the header is
right (`HeadersKept`), a piece of it or more than it otherwise, and more than it is
a fault.

*Undefined behaviour* is `Faults`: copying, clearing or unmapping beyond a block or
mapping, a small block treated as large or the reverse.  `Crash` then stops the
process, so that the properties speak of executions up to that point, and
`OnlyKnownFaults` says which causes there are.

### The barrier

One action per stretch between two points where a thread can wait; `SpuriousWakeup`
is the wake-up POSIX allows `pthread_cond_wait` to make.  `Spec` has it, `QuietSpec`
does not.

## 3. The runs

The first four and the last four use `MCHeap`; there N = `NUM_EMPTINESS_CLASSES` = 5 as in the code, K =
`FREE_SB_THRESH`.  `MaxInFlight` bounds the calls in progress at once (1 is a
program that serialises its calls), `MaxInUse` the usage at which a program stops
allocating from a heap.  `mmap` may fail at any time (`MmapMayFail`) except in
`in_use`, where it fails only when every superblock is mapped: a failed `malloc`
inflates the statistic too (`heap.c:241`), and that run is about transfers.

| run | instance | shows |
|---|---|---|
| `shared` | 2 threads, 2 heaps, 2 superblocks, two block sizes with two blocks each, K = 4, concurrent | no interleaving of calls and of frees of the other thread's blocks corrupts the lists, loses a block or hands one out twice; `Heap` implements `Allocator` |
| `transfer` | 2 heaps, 3 superblocks of two blocks, K = 0, concurrent, up to findings 1 and 3 | superblocks, empty or partly used, move between two heaps and the global heap through one pair of hands at a time, and lists, blocks and statistics stay sound |
| `fullness` | 2 heaps, 2 superblocks of three blocks, K = 1, concurrent, up to the same findings | superblocks of several emptiness classes are searched, given away and adopted; lists, counts and blocks stay right |
| `race` | 2 threads that share a heap, 3 superblocks, K = 0, concurrent, fair, nothing cut off | in the corrupting executions too: mutexes follow the code, no circular wait, no pointer to unmapped memory, one transfer per free enough for a heap that was not too empty, and some call in progress always returns |
| `interface` | `MCMyMalloc`: 2 threads, three block sizes, superblocks for the smallest and for the largest with one and two blocks, 2 mappings, up to 2 blocks at once | see below |
| `shrink` | the same, sizes 9 and 13 | **violation**, finding 5 |
| `tags` | the same, sizes 8 and 9 | **violation**, finding 7 |
| `spurious` | `Barrier`: 3 threads, two rounds | **violation**, finding 6 |
| `stale_owner` | as `race`, with 2 heaps and 2 superblocks | **violation**, finding 1 |
| `lost_recycled` | 1 heap, serialised | **violation**, finding 2 |
| `wrong_size` | 2 heaps, two block sizes, serialised | **violation**, finding 3 |
| `in_use` | serialised | **violation**, finding 4 |

**Why the bounds are enough.**  Two threads, two heaps and the global heap
exercise every pair of roles (owner, foreign freer, adopter, giver); a third
thread adds no role.  Two blocks per superblock give the three states that the
list code tells apart (full, partly used, empty); `fullness` adds classes in
between.  The lists of these runs reach two members, so that head, tail and sole
member are deleted; a deletion from the middle of three is left to the theorems of
`ListProofs`, which hold for lists of any length.  Byte sizes are tiny but keep the
relations of the code: two blocks of the largest size fit
(`binmanager.c:49`), sizes are aligned, the header is not empty.

**`interface`** starts before the first call, so the two threads compute the table
while one of them may already allocate, free and write.  It shows that

* whoever goes on in `malloc` finds the whole table (`TableReady`), and again
  until the end (`TableStable`); the search finds the first bin that fits
  (`LookupFindsFirst`);
* what the program wrote is there until it frees the block, through any number of
  moves between small and large blocks, next to headers, free lists and other
  threads' blocks (`ContentsKept`); what `calloc` returns is zero;
* blocks are as large as asked for, but for sizes that wrap around when the
  header is added (`LargeEnough`): `malloc(SIZE_MAX)` returns a block of less
  than a page;
* whatever fails and whenever, each block in use has one owner, and none is lost
  (`NothingLeaked`); a `realloc` that fails keeps the old block between large
  sizes and frees it otherwise, as the code does;
* the header of a large block keeps its tag and length while the program fills the
  block and moves it (`HeadersKept`), so that `munmap` releases the whole mapping;
* undefined behaviour has three causes: a small block taken for a large one
  (finding 7), a size that wraps around, and finding 5 (`OnlyKnownFaults`).

Its bounds: sizes count cells of 8 bytes.  A ratio of 2.5 and a superblock of 16
cells make a table of three sizes, 2, 4 and 8, in which the loop of
`init_size_table` and the size added after it both have a part; the real table
(23 sizes, ratio 1.5) is checked against the same recurrence, and the search on it
one below, at and one above each size, by the assumptions `RealTableIsRight` and
`RealLookups` of `MCMyMalloc`.  8 is the largest small size, 9 and 13 are large and
need mappings of 12 and 16 cells, 63 wraps around at `SIZE_MOD` = 64.  `calloc` is
asked for 1 times 2, and for 13 times 5, whose product wraps around.  Two blocks at once
are what the properties relate: a block and its neighbour, an old and a new one.
`Words = {MAGIC}` lets the program write the worst word only; zeros and links
come from `calloc` and `free`.  Two blocks with the same word cannot be told apart,
so that `ContentsKept` sees less in this run than `WordsStay` proves, which holds for
any set of words.  Both threads, and both mappings, are interchangeable.

**`spurious`** allows each thread two rounds and then stops, hence
`CHECK_DEADLOCK FALSE`.  That `QuietSpec` keeps the property is a theorem.

**The regimes.**  Concurrent transfers reach findings 1 and 3, after which nothing
about lists or blocks holds.  What the code gets right is therefore checked where
the two do not happen.  In `shared`, with K = 4 and two superblocks, nothing is ever
given away.  `transfer` and `fullness` run the specification `UpToFindings`: calls
are concurrent, and an execution ends where `DeletedFromItsList` or
`AllocatesFromItsBin` (`AsAssumed`) becomes false, that is, where
a thread is about to make the first list operation on the wrong list, or in the wrong
bin.  Nothing that comes before is cut off.  With
K = 4 the actions of a transfer are out of reach of a small instance, hence the
smaller K elsewhere; K only shifts a comparison.

**Deadlock** is checked in every other run; `Stopped` allows a program that makes no
calls, or a process that has died, to stop.

**Fairness.**  `FairSpec`, which `race` checks, has weak fairness on `Continue(t)` for each
thread: the operating system runs a thread that can run.  Nothing is assumed of the mutexes
(pthread mutexes are not fair), so a call may starve; `CallsReturn` only says
that some call returns, and nothing is assumed of the program's calls.

**Symmetry.**  Superblocks are interchangeable, and so are the two threads
together with their heaps (`Pairs_alike`), or that share one (`Threads_alike`).
`race`, which has a liveness property, does not use symmetry.

## 4. The theorems

All of them hold for any number of threads, heaps and superblocks, any size
table, any K and any bounds, under the assumptions on constants that the modules
name.

### The heap, whatever happens

`HeapProofs`:

| theorem | states |
|---|---|
| `TypeCorrect` | `Spec => []TypeOK` |
| `MutexesFollowTheCode` | `Spec => []LockDiscipline` |
| `PointersStayMapped` | `Spec => []OnlyMappedReachable` |
| `DeadlockFree` | `Spec => []NoDeadlock` |

**The argument.**  `LockDiscipline` is inductive but for the values of the locals:
that `th[t].heap` is a heap when a free locks it depends on the owner read from a
header, hence on the superblock being mapped, hence on every pointer the thread
may have found it through.  `IInv` closes this circle: headers, heaps, threads and
held blocks are well typed and point only to mapped superblocks (`HeadersOK`,
`HeapsOK`, `ThreadsOK`, `HeldOK`), each thread's locals are what its place
requires (`PlaceIn`), and each mutex is held by the thread whose place says so
(`LocksOK`).  There is one lemma per action (`LockHeapKeeps`, ...,
`InsertIntoBinKeeps`), resting on the lemmas of `BinManagerProofs`: list
operations, where they are defined, write no pointer that leads out of the set
they found, whatever the lists look like.  That is why the theorems also cover
the executions finding 1 corrupts.  Whether a search finds something is decided by
well-foundedness (`LeastExists`), not by induction.

`DisciplineAvoidsDeadlock` takes from any set of threads one that holds the
innermost mutex of the order superblock, heap, global heap: what it waits for is
further in, so nobody in the set holds it.  It needs that a free into the global
heap stops before `transfer_sb_to_global`, which `PlaceIn` records.

### Blocks

`BlockProofs`:

| theorem | states |
|---|---|
| `BlocksApart` | `Spec /\ []RecycledEmpty /\ []AllocatesFromItsBin => []BlocksDisjoint` |
| `NoBlockLost` | the same hypotheses `=> []EveryBlockAccounted` |
| `HeapImplementsAllocator` | the same hypotheses `=> ImplementsAllocator` |

**The argument.**  Blocks of one superblock are slots at multiples of its block
size.  `BlocksInv` says of each mapped superblock (`BlocksOK`) that the slots on
its free list, those the program holds and those a call of `free` is bringing back
are all different and below the cursor, and that the last two together number
`total_blocks - num_free_blocks`.  `superblock_alloc` and `superblock_free` move
one slot from one of these sets to another; that two slots do not overlap is
arithmetic (`SlotsApart`).  Two steps need more than a superblock knows of itself:
`reset_superblock` cuts it anew, which is only right if it is empty, and the
block that `superblock_alloc` returns has the superblock's size, not the one asked
for.  These are the two hypotheses.  `RecycledEmpty` is itself a property of the
runs, and follows from the lists (below).

For the refinement the mapping takes `held` to the abstract blocks and each
thread's place to an abstract call.  Every step but three kinds is a stutter:
`Malloc` and `Free` begin a call, `SuperblockAlloc`, `MmapFails` and the ends of
`heap_free` return from it.  That the block returned overlaps none in use, which
`Allocator` demands, is `BlocksInv`.

### Lists

`ListProofs`, under the hypotheses `[]DeletedFromItsList` and
`[]AllocatesFromItsBin`:

| theorem | states |
|---|---|
| `ListsSound` | `[]BinsSound`: rings of the right owner, size and class, exact counts |
| `OneListEach` | `[]OnOneListOnly` |
| `HandsAreApart` | `[]HandedOver`: what moves between lists is in one thread's hands, and on no list |
| `RecyclingIsSafe` | `[]RecycledEmpty` |
| `AllocedIsExact` | `[]AllocedExact` |
| `NothingCrashes` | `[]NoCrash` |
| `BlocksInOrder` | `[]BlocksDisjoint` |

**The argument.**  What a list holds is the least set that contains its head and
is closed under `next` (`ListFrom` of `HeapProperties`, `Reach` in the proofs), so
that what follows from a change of links can be shown without induction along the
list: the set that the code intends is closed, and nothing smaller is.
`ListInv` has seven parts: each list is a ring, or a stack for the recycling
bins, of superblocks that fit it (`ListsOK`); what a thread has found is still as
it found it, and what it is moving is on no list (`PlacesOK`); no two threads move
the same one (`HandsApart`); every superblock is cut for a size of the table
(`AllCut`); one that is neither empty nor being moved is on the list of its class
(`Placed`); `alloced` follows the owners (`AllocedOK`); nothing was undefined.
`Placed` is what makes a count positive exactly when a search finds something, and
`find_emptiest_sb` find something whenever a heap is empty enough.  It is proved
together with `IInv` and `BlocksInv`: the classes of the lists are computed from
the counts in the headers, and `RecycledEmpty`, which the blocks need, is a
property of the lists.

**The hypotheses** are predicates of `HeapProperties` that translate comments and
assertions of the code.  `delete_from_bin` "assumes that the superblock is in this
list" (`include/binmanager.h:27`), and a bin has blocks of its size.  The first
fails where an owner was stale (runs `stale_owner`, `race`), the second where a
recycled superblock of another size was taken from the global heap (run
`wrong_size`).  The next theorems show where the code does guarantee them.

### The regimes

`RegimeProofs`:

| theorem | where | states |
|---|---|---|
| `SmallHeapsFindTheirLists` | no heap owns more than K superblocks (`KeepsAll`) | both hypotheses |
| `SmallHeapsAreSafe`, `SmallHeapsImplementAllocator` | the same | all of `Safe`, and `ImplementsAllocator` |
| `FewSuperblocksAreSafe` | at most K superblocks | the same, with no hypothesis left |
| `SerialCallsAreSafe` | `MaxInFlight <= 1` | `DeletedFromItsList` and `Safe`, given `[]AllocatesFromItsBin` |
| `OneBinIsItsOwn` | one bin serves all requests | `[]AllocatesFromItsBin`, in racing executions too |
| `SerialOneBinIsSafe` | both | `Safe` and `ImplementsAllocator`, with no hypothesis left |
| `FewSuperblocksAreCovered`, `SerialOneBinIsCovered` | as named | `[]InUseCovers`, given `[]UsageFits` |

`shared` is an instance of `FewSuperblocksAreSafe`, with the K of `macros.h`;
`transfer` and `fullness` check, with concurrent calls, what `ListProofs` proves under
the two hypotheses, and contain the executions of `SerialOneBinIsSafe`.  With few
superblocks `is_empty_enough` is false whenever it is asked, so the global heap
stays empty and what `heap_free` has read without the heap's mutex stays true
(`Still`).  With serialised calls the only one in progress is the one that read it
(`AllCurrent`).  Outside of them, concurrent
calls in heaps that give superblocks away, or several sizes with transfers, the
hypotheses do fail: findings 1 and 3.

### Usage

`UsageCovers`, under the hypotheses of `ListProofs` and `[]UsageFits`, is `[]InUseCovers`:
`in_use` of a heap is at least the bytes of its blocks in use.  `UsageOK` adds what
makes this inductive: between `BinFree` and `dec_usage` the statistic covers the
block that was just freed as well.  `SizesRead` says that what `heap_free` will
subtract is a size of the table, so that the list in which it finds the superblock
has blocks of that very size.  Adopting adds the same to both sides, giving away
takes from one side only (finding 4), which is why this is an inequality.
`UsedBytes` is the cardinality of a set of pairs rather than a recursive sum, so
that the provers can take one superblock out of it (`BytesSplit`).  `UsageFits`
says that `in_use` has not grown to within a superblock of the width of `size_t`;
it is a hypothesis since the drift of finding 4 is not bounded.

### The threshold

`heap_free` asks once whether the heap has become too empty, and transfers one
superblock (`heap.c:270`).  `OneTransferIsEnough` says that this is enough: a heap
that was not too empty before a free is not so after.

| theorem | states |
|---|---|
| `OneGivenIsEnough` | `FREE_SB_THRESH > 0` implies `Spec => OneTransferIsEnough` |
| `OneOwnedIsEnough` | any threshold, under the hypotheses of `ListProofs`: `OneTransferIsEnough` |

The first speaks of all executions, those that corrupt the lists included; the code
has `FREE_SB_THRESH` 4.  A free subtracts one block of at most a superblock from
`in_use` and, if that makes the heap too empty, a superblock from `alloced`.  The
share of `in_use` in `alloced` falls with the one less than it rises with the other
(`ShareFalls`, `GivenIsEnough`).  This needs that `alloced` is at least a
superblock, or else the subtraction wraps around: a heap that `is_empty_enough` has
more than `FREE_SB_THRESH` superblocks, so at least one when the threshold is not 0
(`GivenCounted`), and otherwise `alloced` counts the superblock that is given away by
`ListInv` (`GivenIsOwned`).  `Giving` says that a heap is still too empty when the
transfer comes to `dec_alloced`, since its mutex is held.  That the sum in
`is_empty_enough` does not wrap around where it matters is `EmptyIsLow`, from
`ThresholdAssumption`: where it could, the heap is too full for the other condition.

The premise is needed, and ordinary programs do not meet it.  An allocation never
gives anything away, so with K = 4 a program that asks one heap for blocks of six
sizes has six superblocks there with a few bytes in use, which is emptier than the
threshold; with seven, one free gives one superblock away and leaves six.  No line
of the repository says that this cannot be; the frees that follow give away one
superblock each.

### The size table

`TableInitProofs`, for any number of threads and any tuning constants with which
the table fits into its array: that is an assumption (`TableAssumption`), which
`MCMyMalloc` checks for the constants of the real build:

| theorem | states |
|---|---|
| `TableIsReady` | `TableSpec => []TableReady` |
| `TableIsStable` | `TableSpec => TableStable` |
| `SizesServeBins` | sizes increase, and two blocks of any fit into a superblock (the assertion of `binmanager.c:50`) |

The threads race, but all compute the same values from constants.  The invariant
`IInv` says that every thread's `sz` is `Table[idx]`, that what lies below the
`idx` of any thread is stored, and that what is stored never changes to anything
else; the flag follows the last store of the thread that sets it.

### The interface

`MyMallocProofs`, for any number of threads, superblocks,
mappings, sizes and bounds:

| theorem | states |
|---|---|
| `InterfaceUsesTable` | `Spec => TableSpec` |
| `CallsFindTable` | `Spec => []TableReady` |
| `CallsFindSameTable` | `Spec => TableStable` |
| `NoLeaks` | `Spec => []NothingLeaked` |
| `LookupIsRight` | `Spec => []LookupFindsFirst` |
| `TypesHold` | `Spec => []TypeOK` |
| `WordsStay` | `Spec => []ContentsKept` |
| `SizesHold` | `Spec => []LargeEnough` |
| `TagsHold` | `Spec => []HeadersKept` |
| `FaultsKnown` | `Spec => []OnlyKnownFaults` |

For `NoLeaks`, `UseInv` says that the places of the blocks in use (`InUse`) are
those of the blocks the program and the calls have (`Places`), which are all
apart, and that where a call is determines which blocks it has (`Shape`).  A
thread's step changes what that thread reaches (`Reach`) and leaves the others'
blocks alone, so it is enough to show that it changes both sides alike and takes
only free places (`ReachStep`).  The steps come in five kinds: a call keeps, takes,
gets or hands over a block, or returns none (`KeepStep`, ..., `ReturnStep`).
`NoLeaks` does not need the tags to be right: where they are wrong the step is a
fault, not an action.

The other six rest on `AllInv`, which adds `MemInv`: a block has the room it was
asked for and the words the program expects (`Sound`), a large one its header
(`Tagged`), a call the sizes its place implies (`CallOK`), cells outside all
blocks are 0 (`Outside`), and the largest size is known before there is a block
(`LargestKnown`).  Each store is shown to go into a block of the thread that
makes it, or into a free one; `UseInv` says that these are not blocks of anybody
else.  From `AllInv` the length `munmap` is given is that of the mapping, a small block
that passes for a large one is behind a neighbour, and every fault has one of the three
causes.  The binary search, a recursive function, needs no induction: a
counterexample with the narrowest interval has a narrower one.

The assumptions about the heaps are in `InterfaceAssumption`: small blocks have
room for their size, lie side by side after a header's width, and the magic
number is not 0.

### The barrier

`BarrierProofs` proves `QuietBarrierHolds`, `QuietSpec => []BarrierHolds`, for any
finite set of threads: while fewer than all have come to a round, `called` is the
number of threads counted in it, so the thread that broadcasts is the last.

### Only model-checked

* Liveness, `CallsReturn`: temporal formulas with fairness and `ENABLED` are out
  of the prover's reach.
* The violations, which are counterexamples.

## 5. Findings

1. **Stale owner** (`stale_owner`).  `heap_free` reads the owner (`heap.c:260`)
   before it has that heap's mutex (`heap.c:264`); a transfer (`heap.c:128`) or
   an adoption (`heap.c:175`) in between makes it free into the wrong heap's
   lists, against "Assumes that the superblock is in this list"
   (`include/binmanager.h:27`).
2. **Lost recycled superblocks** (`lost_recycled`).  `reset_superblock` clears
   `next` (`heap.c:162`) before it is read (`heap.c:164`): recycling one
   superblock drops all others from the recycling bin.
3. **Wrong block size** (`wrong_size`).  A recycled superblock taken from the
   global heap (`heap.c:75`) is not reset, and goes into the bin of the size asked
   for with the block size it had.
4. **in_use drifts** (`in_use`).  Adoption adds the used bytes of a superblock
   (`heap.c:176`), giving it away does not subtract them (`heap.c:139`, `:272`).
5. **Copy beyond the new mapping** (`shrink`).  `large_realloc` copies the old size
   whatever the new one (`largealloc.c:45`); the other branches copy "min(old_size,
   new_size)" (`mymalloc.c:67`), and `test/malloc_test.c:80` makes blocks smaller.
6. **Unlooped wait** (`spurious`).  `pthread_barrier_wait` does not check why
   `pthread_cond_wait` returned (`ptbarrier.h:46`): a spurious wake-up lets a thread
   through before the others have come, against "use barriers so all threads start
   at the same time" (`benchmarks/linux-scalability/linux-scalability.c:14-15`), a program with an
   identical copy of the header beside it.

7. **Misleading tag** (`tags`).  `is_large_alloc` looks at the bytes in front of the
   pointer (`largealloc.c:72`), which for a small block are the last bytes of its
   neighbour: if the program wrote the magic number there, `free` and `realloc`
   take the block for a large one, while `include/largealloc.h:14` says "Determine if a
   pointer was allocated using large_alloc".

Two more observations, which have no run of their own.

* The assertion `recycling_bin->header.next != NULL` (`heap.c:76`) fails whenever
  the recycled superblock that is taken from the global heap is the last one.
  `ASSERT` is empty unless `MYMALLOC_DEBUG` is defined and prints a message then; the
  statements after it are right either way, so the assertion is what is wrong, and
  `TakeRecycled` models the statements.  `transfer` reaches this state.
* Sizes within 16 bytes of `SIZE_MAX` wrap around (`largealloc.c:14`): `malloc`
  returns a block of less than a page.  No line of the repository says otherwise.

## 6. Not modelled, and the plan

* Tests and benchmarks: programs that call the allocator, and the calls of the
  models are those of any program.
* `pthread_barrier_destroy`, which nothing calls.
* Failures of `munmap`, of which the code only prints a message.
* The lock operations of `pthread`, but for what the code relies on: a mutex has
  one holder.
* A failed `malloc` that stays counted in `in_use` (`heap.c:241`): the drift is
  upwards, which `InUseCovers` allows, and finding 4 is about the same statistic.

What is left to prove, in this order:

1. `UsageFits` from `MaxInUse`, for serialised calls.
2. Action properties: a block handed out stays in its superblock until it is
   freed; a superblock changes heaps only by way of the global heap.
