-------------------------------- MODULE Heap --------------------------------
(***************************************************************************)
(* The concurrent heap of src/src/heap.c.  Every thread allocates from the *)
(* heap its identifier hashes to; a block is freed into the heap that owns *)
(* its superblock, whichever thread frees it; a heap that has become empty *)
(* enough gives a superblock to the global heap, from which any other heap *)
(* may adopt it.                                                           *)
(*                                                                         *)
(* A thread takes one step per stretch of code between two points where    *)
(* another thread can affect it: acquiring a mutex, reading state that the *)
(* mutexes it holds do not protect, working under a mutex.  A mutex is     *)
(* released in the last step of the stretch it protects.                   *)
(*                                                                         *)
(* A step that would dereference a null pointer or index out of bounds     *)
(* sets `crashed' instead, and nothing happens after that.                 *)
(***************************************************************************)
EXTENDS BinManager

CONSTANTS
    Threads,
    ThreadHeaps,       \* thread_heaps
    GlobalHeap,        \* global_heap
    HeapOf,            \* the hash of get_thread_heap: [Threads -> ThreadHeaps]
    Requests,          \* the sizes programs ask for
    FREE_SB_THRESH,
    SIZE_MOD,          \* 2^w for the width w of a size_t
    MmapMayFail,       \* FALSE: mmap fails only when no memory is left
    MaxInFlight,       \* bound: calls in progress at once; 1 = serialised program
    MaxInUse           \* bound: a program stops allocating at this in_use

Heaps == ThreadHeaps \cup {GlobalHeap}
Locks == Heaps \cup Superblocks

ASSUME HeapAssumption ==
    /\ GlobalHeap \notin ThreadHeaps
    /\ Heaps \cap Superblocks = {}
    /\ NULL \notin Heaps \cup Threads
    /\ HeapOf \in [Threads -> ThreadHeaps]
    /\ Requests \subseteq 1 .. max_block_size
    /\ FREE_SB_THRESH \in Nat
    /\ SIZE_MOD \in Nat /\ SIZE_MOD > SUPERBLOCK_SIZE
    /\ MmapMayFail \in BOOLEAN
    /\ MaxInFlight \in Nat /\ MaxInUse \in Nat

(* The threshold in bytes, times the emptiness classes, is far below what  *)
(* a size_t holds (2^22 in the real build).                                *)
ASSUME ThresholdAssumption ==
    FREE_SB_THRESH * SUPERBLOCK_SIZE * (NUM_EMPTINESS_CLASSES - 1) < SIZE_MOD

(* An unsigned int counts the superblocks of the address space (2^47 bytes *)
(* hold 2^29) and does the arithmetic of get_eidx, a size_t their bytes.   *)
ASSUME AddressSpaceAssumption ==
    /\ IsFiniteSet(Superblocks)
    /\ Cardinality(Superblocks) < UINT_MOD
    /\ SUPERBLOCK_SIZE * Cardinality(Superblocks) < SIZE_MOD
    /\ SUPERBLOCK_SIZE * (NUM_EMPTINESS_CLASSES - 1) < UINT_MOD

VARIABLES
    sb,        \* headers of the superblocks; owner = NULL until it is mapped
    heap,      \* the heaps
    lock,      \* lock[l]: the thread that holds the mutex l, or NULL
    th,        \* each thread's place in malloc or free, and its local variables
    held,      \* the blocks the program holds: [sb, off, size asked for]
    crashed    \* the process has run into undefined behaviour

vars == << sb, heap, lock, th, held, crashed >>

-----------------------------------------------------------------------------
(* State *)

Block == [sb : Superblocks, off : Nat, size : Nat]

(* Where a thread can be: outside the allocator; in heap_alloc, from       *)
(* lock_heap to unlock_heap; in heap_free, from lock_superblock on.        *)
AllocPlaces == { "lock_heap", "bin_alloc", "lock_global", "get_sb_from_global",
                 "adopt", "map", "sb_alloc" }
FreePlaces  == { "lock_superblock", "lock_owner", "bin_free", "account",
                 "transfer", "insert_global" }

Thread == [ pc      : {"idle"} \cup AllocPlaces \cup FreePlaces,
            heap    : Heaps \cup {NULL},        \* heap
            size    : Nat,                      \* size asked for; block size
            s_ptr   : Superblocks \cup {NULL},  \* the superblock
            in_bin  : BOOLEAN,                  \* sb_already_in_bin
            off     : Nat,                      \* the block being freed
            victim  : Superblocks \cup {NULL},  \* s_ptr of transfer_sb_to_global
            bin_idx : Bins \cup {-1},           \* where the victim was, or -1 for
            eidx    : NonfullClasses \cup {-1} ] \* the recycling bin

IdleThread == [ pc |-> "idle", heap |-> NULL, size |-> 0, s_ptr |-> NULL,
                in_bin |-> FALSE, off |-> 0,
                victim |-> NULL, bin_idx |-> -1, eidx |-> -1 ]

HeapRecord == [ recycled_superblock : Superblocks \cup {NULL},
                size_bins           : [Bins -> BinManagerRecord],
                in_use              : 0 .. SIZE_MOD - 1,
                alloced             : 0 .. SIZE_MOD - 1,
                max_in_use          : 0 .. SIZE_MOD - 1,
                max_alloced         : 0 .. SIZE_MOD - 1 ]

(* HEAP_INITIALIZER: everything zero *)
EmptyHeap == [ recycled_superblock |-> NULL,
               size_bins           |-> [b \in Bins |-> EmptyBinManager],
               in_use |-> 0, alloced |-> 0, max_in_use |-> 0, max_alloced |-> 0 ]

(* What stands for the header of a superblock before it is mapped.         *)
Unmapped == [ owner |-> NULL, block_size |-> 1, total_blocks |-> 0,
              prev |-> NULL, next |-> NULL,
              reapable_blocks |-> 0, num_free_blocks |-> 0,
              free_list |-> << >>, reap_position |-> 0 ]

Init ==
    /\ sb      = [s \in Superblocks |-> Unmapped]
    /\ heap    = [h \in Heaps |-> EmptyHeap]
    /\ lock    = [l \in Locks |-> NULL]
    /\ th      = [t \in Threads |-> IdleThread]
    /\ held    = {}
    /\ crashed = FALSE

TypeOK ==
    /\ sb      \in [Superblocks -> SuperblockHeader(Heaps)]
    /\ heap    \in [Heaps -> HeapRecord]
    /\ lock    \in [Locks -> Threads \cup {NULL}]
    /\ th      \in [Threads -> Thread]
    /\ held    \subseteq Block
    /\ crashed \in BOOLEAN

-----------------------------------------------------------------------------
(* Usage statistics: each maps a heap to the heap with the new statistics. *)

inc_usage(h, added_usage) ==
    LET in_use == (h.in_use + added_usage) % SIZE_MOD
    IN  [h EXCEPT !.in_use     = in_use,
                  !.max_in_use = IF in_use > @ THEN in_use ELSE @]

inc_alloced(h, added_alloc) ==
    LET alloced == (h.alloced + added_alloc) % SIZE_MOD
    IN  [h EXCEPT !.alloced     = alloced,
                  !.max_alloced = IF alloced > @ THEN alloced ELSE @]

(* Mutant: a superblock given away still counts as allocated.              *)
dec_alloced_Not(h, bytes) == h

dec_usage(h, bytes)   == [h EXCEPT !.in_use  = (@ - bytes) % SIZE_MOD]
dec_alloced(h, bytes) == [h EXCEPT !.alloced = (@ - bytes) % SIZE_MOD]

(* The sum may wrap around; 1 - EMPTY_FRAC = (N - 2) / (N - 1), and the    *)
(* product is truncated to whole bytes.                                    *)
is_empty_enough(h) ==
    /\ (h.in_use + FREE_SB_THRESH * SUPERBLOCK_SIZE) % SIZE_MOD < h.alloced
    /\ h.in_use < ((NUM_EMPTINESS_CLASSES - 2) * h.alloced)
                     \div (NUM_EMPTINESS_CLASSES - 1)

-----------------------------------------------------------------------------
(* Choosing a superblock *)

(* The search of bin_alloc and get_sb_from_global: fullest class first.    *)
HasNonfull(bm) == \E e \in NonfullClasses : bm.emptiness_bins[e] # NULL

FullestNonfull(bm) ==
    CHOOSE e \in NonfullClasses :
        /\ bm.emptiness_bins[e] # NULL
        /\ \A f \in NonfullClasses : f < e => bm.emptiness_bins[f] = NULL

(* find_emptiest_sb: emptiest class first, then the smallest block size.   *)
Candidates(h) ==
    { c \in Bins \X NonfullClasses : h.size_bins[c[1]].emptiness_bins[c[2]] # NULL }

find_emptiest_sb(h) ==
    CHOOSE c \in Candidates(h) :
        \A d \in Candidates(h) : d[2] < c[2] \/ (d[2] = c[2] /\ c[1] <= d[1])

-----------------------------------------------------------------------------
(* Steps of a thread *)

At(t, pc)      == ~crashed /\ th[t].pc = pc    \* nothing runs after a crash
Goto(t, pc)    == th' = [th EXCEPT ![t].pc = pc]
Return(t)      == th' = [th EXCEPT ![t] = IdleThread]
Acquire(t, l)  == lock[l] = NULL /\ lock' = [lock EXCEPT ![l] = t]
Release(ls)    == lock' = [l \in Locks |-> IF l \in ls THEN NULL ELSE lock[l]]
InFlight       == { t \in Threads : th[t].pc # "idle" }

(* malloc of a size heap_alloc serves, up to the call of lock_heap         *)
Malloc(t, size) ==
    /\ At(t, "idle")
    /\ Cardinality(InFlight) < MaxInFlight
    /\ heap[HeapOf[t]].in_use < MaxInUse
    /\ th' = [th EXCEPT ![t].pc = "lock_heap", ![t].heap = HeapOf[t],
                        ![t].size = size]
    /\ UNCHANGED << sb, heap, lock, held, crashed >>

(* Mutant: heap_alloc runs without the heap's mutex.                       *)
LockHeap_Unlocked(t) ==
    /\ At(t, "lock_heap")
    /\ Goto(t, "bin_alloc")
    /\ UNCHANGED << sb, heap, lock, held, crashed >>

LockHeap(t) ==
    /\ At(t, "lock_heap")
    /\ Acquire(t, th[t].heap)
    /\ Goto(t, "bin_alloc")
    /\ UNCHANGED << sb, heap, held, crashed >>

(* bin_alloc looks in the bin, then in the heap's recycling bin, then in   *)
(* the global heap.                                                        *)
ChooseInBin(t) ==
    LET bm == heap[th[t].heap].size_bins[size2idx(th[t].size)]
    IN  /\ At(t, "bin_alloc")
        /\ HasNonfull(bm)
        /\ th' = [th EXCEPT ![t].pc = "sb_alloc", ![t].in_bin = TRUE,
                            ![t].s_ptr = bm.emptiness_bins[FullestNonfull(bm)]]
        /\ UNCHANGED << sb, heap, lock, held, crashed >>

(* reset_superblock clears the link to the next recycled superblock before *)
(* that link is read.                                                      *)
Recycle(t) ==
    LET h     == th[t].heap
        bin   == size2idx(th[t].size)
        s     == heap[h].recycled_superblock
        sbNew == [sb EXCEPT ![s] = reset_superblock(@, idx2class(bin))]
    IN  /\ At(t, "bin_alloc")
        /\ ~HasNonfull(heap[h].size_bins[bin])
        /\ s # NULL
        /\ sb'   = sbNew
        /\ heap' = [heap EXCEPT ![h].recycled_superblock = sbNew[s].next]
        /\ th'   = [th EXCEPT ![t].pc = "sb_alloc", ![t].s_ptr = s]
        /\ UNCHANGED << lock, held, crashed >>

AskGlobal(t) ==
    LET h == heap[th[t].heap]
    IN  /\ At(t, "bin_alloc")
        /\ ~HasNonfull(h.size_bins[size2idx(th[t].size)])
        /\ h.recycled_superblock = NULL
        /\ Goto(t, "lock_global")
        /\ UNCHANGED << sb, heap, lock, held, crashed >>

LockGlobal(t) ==
    /\ At(t, "lock_global")
    /\ Acquire(t, GlobalHeap)
    /\ Goto(t, "get_sb_from_global")
    /\ UNCHANGED << sb, heap, held, crashed >>

(* get_sb_from_global, under the global heap's mutex, which it releases.   *)
GlobalBin(t) == heap[GlobalHeap].size_bins[size2idx(th[t].size)]

TakeDefined(t) ==
    LET bm == GlobalBin(t)
        e  == FullestNonfull(bm)
    IN  bm.num_nonfull_superblocks > 0 =>
          HasNonfull(bm) /\ DeleteDefined(sb, e, bm.emptiness_bins[e])

TakeNonfull(t) ==
    LET bm  == GlobalBin(t)
        e   == FullestNonfull(bm)
        s   == bm.emptiness_bins[e]
        del == delete_from_bin(sb, bm, e, s)
    IN  /\ At(t, "get_sb_from_global")
        /\ bm.num_nonfull_superblocks > 0 /\ TakeDefined(t)
        /\ sb'   = del.sb
        /\ heap' = [heap EXCEPT
                      ![GlobalHeap].size_bins[size2idx(th[t].size)] = del.bm]
        /\ th'   = [th EXCEPT ![t].pc = "adopt", ![t].s_ptr = s]
        /\ Release({GlobalHeap})
        /\ UNCHANGED << held, crashed >>

(* Mutant: the superblock taken stays at the head of the recycling bin.    *)
TakeRecycled_HeadStays(t) ==
    LET s == heap[GlobalHeap].recycled_superblock
    IN  /\ At(t, "get_sb_from_global")
        /\ GlobalBin(t).num_nonfull_superblocks = 0
        /\ s # NULL
        /\ th' = [th EXCEPT ![t].pc = "adopt", ![t].s_ptr = s]
        /\ Release({GlobalHeap})
        /\ UNCHANGED << sb, heap, held, crashed >>

(* With or without another superblock behind the one taken: the assertion  *)
(* in between (heap.c:76), which no build but the debug build has, asks    *)
(* for one; the assignment after it does not.                              *)
TakeRecycled(t) ==
    LET s == heap[GlobalHeap].recycled_superblock
    IN  /\ At(t, "get_sb_from_global")
        /\ GlobalBin(t).num_nonfull_superblocks = 0
        /\ s # NULL
        /\ heap' = [heap EXCEPT ![GlobalHeap].recycled_superblock = sb[s].next]
        /\ th'   = [th EXCEPT ![t].pc = "adopt", ![t].s_ptr = s]
        /\ Release({GlobalHeap})
        /\ UNCHANGED << sb, held, crashed >>

(* Mutant: the global heap is not unlocked when it had nothing to give.    *)
TakeNothing_StaysLocked(t) ==
    /\ At(t, "get_sb_from_global")
    /\ GlobalBin(t).num_nonfull_superblocks = 0
    /\ heap[GlobalHeap].recycled_superblock = NULL
    /\ Goto(t, "map")
    /\ UNCHANGED << sb, heap, lock, held, crashed >>

TakeNothing(t) ==
    /\ At(t, "get_sb_from_global")
    /\ GlobalBin(t).num_nonfull_superblocks = 0
    /\ heap[GlobalHeap].recycled_superblock = NULL
    /\ Goto(t, "map")
    /\ Release({GlobalHeap})
    /\ UNCHANGED << sb, heap, held, crashed >>

(* Mutants: an adopted superblock is reset, whatever is in it; its blocks  *)
(* are not added to the usage of the heap.                                 *)
Adopt_Resets(t) ==
    LET h == th[t].heap
        s == th[t].s_ptr
    IN  /\ At(t, "adopt")
        /\ sb'   = [sb EXCEPT ![s] = [reset_superblock(@,
                                        idx2class(size2idx(th[t].size)))
                                      EXCEPT !.owner = h]]
        /\ heap' = [heap EXCEPT ![h] = inc_alloced(inc_usage(@, used_bytes(sb[s])),
                                                   SUPERBLOCK_SIZE)]
        /\ Goto(t, "sb_alloc")
        /\ UNCHANGED << lock, held, crashed >>

Adopt_UsageIgnored(t) ==
    /\ At(t, "adopt")
    /\ sb'   = [sb EXCEPT ![th[t].s_ptr].owner = th[t].heap]
    /\ heap' = [heap EXCEPT ![th[t].heap] = inc_alloced(@, SUPERBLOCK_SIZE)]
    /\ Goto(t, "sb_alloc")
    /\ UNCHANGED << lock, held, crashed >>

(* The global mutex is no longer held when the new owner is recorded.      *)
Adopt(t) ==
    LET h == th[t].heap
        s == th[t].s_ptr
    IN  /\ At(t, "adopt")
        /\ sb'   = [sb EXCEPT ![s].owner = h]
        /\ heap' = [heap EXCEPT ![h] = inc_alloced(inc_usage(@, used_bytes(sb[s])),
                                                   SUPERBLOCK_SIZE)]
        /\ Goto(t, "sb_alloc")
        /\ UNCHANGED << lock, held, crashed >>

(* Mutant: a new superblock is given no owner.                             *)
MapSuperblock_NoOwner(t, s) ==
    /\ At(t, "map")
    /\ sb[s].owner = NULL
    /\ sb'   = [sb EXCEPT ![s] = reset_superblock(@, idx2class(size2idx(th[t].size)))]
    /\ heap' = [heap EXCEPT ![th[t].heap] = inc_alloced(@, SUPERBLOCK_SIZE)]
    /\ th'   = [th EXCEPT ![t].pc = "sb_alloc", ![t].s_ptr = s]
    /\ UNCHANGED << lock, held, crashed >>

(* init_superblock: mmap provides a superblock...                          *)
MapSuperblock(t, s) ==
    LET h == th[t].heap
    IN  /\ At(t, "map")
        /\ sb[s].owner = NULL
        /\ sb'   = [sb EXCEPT ![s] = [reset_superblock(@,
                                        idx2class(size2idx(th[t].size)))
                                      EXCEPT !.owner = h]]
        /\ heap' = [heap EXCEPT ![h] = inc_alloced(@, SUPERBLOCK_SIZE)]
        /\ th'   = [th EXCEPT ![t].pc = "sb_alloc", ![t].s_ptr = s]
        /\ UNCHANGED << lock, held, crashed >>

(* ... or mmap fails, which it may do with memory left when MmapMayFail.   *)
MmapCanFail == MmapMayFail \/ \A s \in Superblocks : sb[s].owner # NULL

(* Mutant: the early return leaves the heap locked.                        *)
MmapFails_StaysLocked(t) ==
    LET h == th[t].heap
    IN  /\ At(t, "map") /\ MmapCanFail
        /\ heap' = [heap EXCEPT ![h] =
                      inc_usage(@, idx2class(size2idx(th[t].size)))]
        /\ Return(t)
        /\ UNCHANGED << sb, lock, held, crashed >>

(* bin_alloc returns NULL early; heap_alloc counts the block all the same, *)
(* and unlocks its heap.                                                   *)
MmapFails(t) ==
    LET h == th[t].heap
    IN  /\ At(t, "map") /\ MmapCanFail
        /\ heap' = [heap EXCEPT ![h] =
                      inc_usage(@, idx2class(size2idx(th[t].size)))]
        /\ Release({h})
        /\ Return(t)
        /\ UNCHANGED << sb, held, crashed >>

(* The end of bin_alloc; heap_alloc then ends as in MmapFails.             *)
AllocDefined(t) ==
    LET s     == th[t].s_ptr
        bm    == heap[th[t].heap].size_bins[size2idx(th[t].size)]
        sbNew == [sb EXCEPT ![s] = superblock_alloc(@)]
    IN  /\ HasBlock(sb[s])
        /\ IF th[t].in_bin
             THEN UpdateDefined(sbNew, bm, get_eidx(sb[s]), s)
             ELSE PushDefined(sbNew, bm, get_eidx(sbNew[s]))

SuperblockAlloc(t) ==
    LET h     == th[t].heap
        s     == th[t].s_ptr
        bin   == size2idx(th[t].size)
        bm    == heap[h].size_bins[bin]
        sbNew == [sb EXCEPT ![s] = superblock_alloc(@)]
        upd   == IF th[t].in_bin
                   THEN update_emptiness_class(sbNew, bm, get_eidx(sb[s]), s)
                   ELSE push_into_bin(sbNew, bm, get_eidx(sbNew[s]), s)
    IN  /\ At(t, "sb_alloc") /\ AllocDefined(t)
        /\ sb'   = upd.sb
        /\ heap' = [heap EXCEPT ![h] =
                      inc_usage([@ EXCEPT !.size_bins[bin] = upd.bm],
                                idx2class(bin))]
        /\ held' = held \cup {[sb |-> s, off |-> AllocatedPtr(sb[s]),
                               size |-> th[t].size]}
        /\ Release({h})
        /\ Return(t)
        /\ UNCHANGED crashed

-----------------------------------------------------------------------------
(* free of a block the program holds, up to the call of lock_superblock    *)
Free(t, p) ==
    /\ At(t, "idle")
    /\ Cardinality(InFlight) < MaxInFlight
    /\ held' = held \ {p}
    /\ th'   = [th EXCEPT ![t].pc = "lock_superblock", ![t].s_ptr = p.sb,
                          ![t].off = p.off]
    /\ UNCHANGED << sb, heap, lock, crashed >>

(* heap_free reads the owner under the superblock's mutex.  That mutex     *)
(* does not protect the owner: transfers and adoptions change it without.  *)
LockSuperblock(t) ==
    LET s == th[t].s_ptr
    IN  /\ At(t, "lock_superblock")
        /\ Acquire(t, s)
        /\ th' = [th EXCEPT ![t].pc = "lock_owner", ![t].heap = sb[s].owner,
                            ![t].size = sb[s].block_size]
        /\ UNCHANGED << sb, heap, held, crashed >>

LockOwner(t) ==
    /\ At(t, "lock_owner")
    /\ Acquire(t, th[t].heap)
    /\ Goto(t, "bin_free")
    /\ UNCHANGED << sb, heap, held, crashed >>

BinFreeDefined(t) ==
    LET s     == th[t].s_ptr
        bm    == heap[th[t].heap].size_bins[size2idx(th[t].size)]
        old   == get_eidx(sb[s])
        sbNew == [sb EXCEPT ![s] = superblock_free(@, th[t].off)]
    IN  IF is_superblock_empty(sbNew[s])
          THEN DeleteDefined(sbNew, old, s)
          ELSE UpdateDefined(sbNew, bm, old, s)

BinFree(t) ==
    LET h     == th[t].heap
        s     == th[t].s_ptr
        bin   == size2idx(th[t].size)
        bm    == heap[h].size_bins[bin]
        old   == get_eidx(sb[s])
        sbNew == [sb EXCEPT ![s] = superblock_free(@, th[t].off)]
        del   == delete_from_bin(sbNew, bm, old, s)
        upd   == update_emptiness_class(sbNew, bm, old, s)
    IN  /\ At(t, "bin_free") /\ BinFreeDefined(t)
        /\ IF is_superblock_empty(sbNew[s])
             THEN /\ sb'   = [del.sb EXCEPT ![s].next = heap[h].recycled_superblock]
                  /\ heap' = [heap EXCEPT ![h].size_bins[bin]      = del.bm,
                                          ![h].recycled_superblock = s]
             ELSE /\ sb'   = upd.sb
                  /\ heap' = [heap EXCEPT ![h].size_bins[bin] = upd.bm]
        /\ Goto(t, "account")
        /\ UNCHANGED << lock, held, crashed >>

(* The rest of heap_free: the global heap keeps no account of its usage    *)
(* and gives nothing away.                                                 *)
FreeFromGlobal(t) ==
    /\ At(t, "account")
    /\ th[t].heap = GlobalHeap
    /\ Release({th[t].heap, th[t].s_ptr})
    /\ Return(t)
    /\ UNCHANGED << sb, heap, held, crashed >>

(* Mutant: the superblock is not unlocked.                                 *)
FreeAndKeep_StaysLocked(t) ==
    LET h   == th[t].heap
        dec == dec_usage(heap[h], th[t].size)
    IN  /\ At(t, "account")
        /\ h # GlobalHeap
        /\ ~is_empty_enough(dec)
        /\ heap' = [heap EXCEPT ![h] = dec]
        /\ Release({h})
        /\ Return(t)
        /\ UNCHANGED << sb, held, crashed >>

FreeAndKeep(t) ==
    LET h   == th[t].heap
        dec == dec_usage(heap[h], th[t].size)
    IN  /\ At(t, "account")
        /\ h # GlobalHeap
        /\ ~is_empty_enough(dec)
        /\ heap' = [heap EXCEPT ![h] = dec]
        /\ Release({h, th[t].s_ptr})
        /\ Return(t)
        /\ UNCHANGED << sb, held, crashed >>

(* transfer_sb_to_global takes a superblock out of the heap...             *)
GiveRecycled(t) ==
    LET h   == th[t].heap
        dec == dec_usage(heap[h], th[t].size)
        s   == dec.recycled_superblock
    IN  /\ At(t, "account")
        /\ h # GlobalHeap
        /\ is_empty_enough(dec)
        /\ s # NULL
        /\ heap' = [heap EXCEPT ![h] = [dec EXCEPT !.recycled_superblock = sb[s].next]]
        /\ th'   = [th EXCEPT ![t].pc = "transfer", ![t].victim = s]
        /\ UNCHANGED << sb, lock, held, crashed >>

GiveDefined(t) ==
    LET h == heap[th[t].heap]
        c == find_emptiest_sb(h)
    IN  /\ Candidates(h) # {}
        /\ DeleteDefined(sb, c[2], h.size_bins[c[1]].emptiness_bins[c[2]])

(* Mutant: the superblock given away stays in its bin.                     *)
GiveEmptiest_StaysListed(t) ==
    LET h   == th[t].heap
        dec == dec_usage(heap[h], th[t].size)
        c   == find_emptiest_sb(dec)
    IN  /\ At(t, "account")
        /\ h # GlobalHeap
        /\ is_empty_enough(dec)
        /\ dec.recycled_superblock = NULL
        /\ GiveDefined(t)
        /\ heap' = [heap EXCEPT ![h] = dec]
        /\ th'   = [th EXCEPT ![t].pc = "transfer",
                              ![t].victim = dec.size_bins[c[1]].emptiness_bins[c[2]],
                              ![t].bin_idx = c[1], ![t].eidx = c[2]]
        /\ UNCHANGED << sb, lock, held, crashed >>

GiveEmptiest(t) ==
    LET h   == th[t].heap
        dec == dec_usage(heap[h], th[t].size)
        c   == find_emptiest_sb(dec)
        s   == dec.size_bins[c[1]].emptiness_bins[c[2]]
        del == delete_from_bin(sb, dec.size_bins[c[1]], c[2], s)
    IN  /\ At(t, "account")
        /\ h # GlobalHeap
        /\ is_empty_enough(dec)
        /\ dec.recycled_superblock = NULL
        /\ GiveDefined(t)
        /\ sb'   = del.sb
        /\ heap' = [heap EXCEPT ![h] = [dec EXCEPT !.size_bins[c[1]] = del.bm]]
        /\ th'   = [th EXCEPT ![t].pc = "transfer", ![t].victim = s,
                              ![t].bin_idx = c[1], ![t].eidx = c[2]]
        /\ UNCHANGED << lock, held, crashed >>

LockGlobalForTransfer(t) ==
    /\ At(t, "transfer")
    /\ Acquire(t, GlobalHeap)
    /\ Goto(t, "insert_global")
    /\ UNCHANGED << sb, heap, held, crashed >>

(* ... and puts it into the global heap; heap_free ends.                   *)
InsertDefined(t) ==
    th[t].eidx # -1 =>
      PushDefined(sb, heap[GlobalHeap].size_bins[th[t].bin_idx], th[t].eidx)

(* Mutants of the two ways to insert: the heap keeps counting the          *)
(* superblock as allocated; the superblock keeps its old owner.            *)
InsertRecycled_StaysCounted(t) ==
    LET s == th[t].victim
    IN  /\ At(t, "insert_global")
        /\ th[t].eidx = -1
        /\ sb'   = [sb EXCEPT ![s].owner = GlobalHeap,
                              ![s].next  = heap[GlobalHeap].recycled_superblock]
        /\ heap' = [heap EXCEPT ![GlobalHeap].recycled_superblock = s]
        /\ Release({GlobalHeap, th[t].heap, th[t].s_ptr})
        /\ Return(t)
        /\ UNCHANGED << held, crashed >>

InsertIntoBin_OldOwner(t) ==
    LET b    == th[t].bin_idx
        push == push_into_bin(sb, heap[GlobalHeap].size_bins[b], th[t].eidx,
                              th[t].victim)
    IN  /\ At(t, "insert_global")
        /\ th[t].eidx # -1 /\ InsertDefined(t)
        /\ sb'   = push.sb
        /\ heap' = [heap EXCEPT ![GlobalHeap].size_bins[b] = push.bm,
                                ![th[t].heap] = dec_alloced(@, SUPERBLOCK_SIZE)]
        /\ Release({GlobalHeap, th[t].heap, th[t].s_ptr})
        /\ Return(t)
        /\ UNCHANGED << held, crashed >>

InsertRecycled(t) ==
    LET h == th[t].heap
        s == th[t].victim
    IN  /\ At(t, "insert_global")
        /\ th[t].eidx = -1
        /\ sb'   = [sb EXCEPT ![s].owner = GlobalHeap,
                              ![s].next  = heap[GlobalHeap].recycled_superblock]
        /\ heap' = [heap EXCEPT ![GlobalHeap].recycled_superblock = s,
                                ![h] = dec_alloced(@, SUPERBLOCK_SIZE)]
        /\ Release({GlobalHeap, h, th[t].s_ptr})
        /\ Return(t)
        /\ UNCHANGED << held, crashed >>

InsertIntoBin(t) ==
    LET h    == th[t].heap
        s    == th[t].victim
        b    == th[t].bin_idx
        push == push_into_bin([sb EXCEPT ![s].owner = GlobalHeap],
                              heap[GlobalHeap].size_bins[b], th[t].eidx, s)
    IN  /\ At(t, "insert_global")
        /\ th[t].eidx # -1 /\ InsertDefined(t)
        /\ sb'   = push.sb
        /\ heap' = [heap EXCEPT ![GlobalHeap].size_bins[b] = push.bm,
                                ![h] = dec_alloced(@, SUPERBLOCK_SIZE)]
        /\ Release({GlobalHeap, h, th[t].s_ptr})
        /\ Return(t)
        /\ UNCHANGED << held, crashed >>

-----------------------------------------------------------------------------
(* Undefined behaviour in the step a thread is about to take.              *)
Faults(t) ==
    \/ At(t, "get_sb_from_global") /\ ~TakeDefined(t)
    \/ At(t, "sb_alloc") /\ ~AllocDefined(t)
    \/ At(t, "bin_free") /\ ~BinFreeDefined(t)
    \/ /\ At(t, "account")
       /\ th[t].heap # GlobalHeap
       /\ is_empty_enough(dec_usage(heap[th[t].heap], th[t].size))
       /\ heap[th[t].heap].recycled_superblock = NULL
       /\ ~GiveDefined(t)
    \/ At(t, "insert_global") /\ ~InsertDefined(t)

Crash(t) ==
    /\ Faults(t)
    /\ crashed' = TRUE
    /\ UNCHANGED << sb, heap, lock, th, held >>

(* A call in progress goes on.                                             *)
Continue(t) ==
    \/ LockHeap(t) \/ ChooseInBin(t) \/ Recycle(t) \/ AskGlobal(t)
    \/ LockGlobal(t) \/ TakeNonfull(t) \/ TakeRecycled(t) \/ TakeNothing(t)
    \/ Adopt(t) \/ (\E s \in Superblocks : MapSuperblock(t, s)) \/ MmapFails(t)
    \/ SuperblockAlloc(t)
    \/ LockSuperblock(t) \/ LockOwner(t) \/ BinFree(t)
    \/ FreeFromGlobal(t) \/ FreeAndKeep(t) \/ GiveRecycled(t) \/ GiveEmptiest(t)
    \/ LockGlobalForTransfer(t) \/ InsertRecycled(t) \/ InsertIntoBin(t)
    \/ Crash(t)

(* The program calls the allocator.                                        *)
Call(t) ==
    \/ \E size \in Requests : Malloc(t, size)
    \/ \E p \in held : Free(t, p)

(* The process has died, or the program has stopped calling.               *)
Stopped == (crashed \/ InFlight = {}) /\ UNCHANGED vars

Next ==
    \/ \E t \in Threads : Call(t) \/ Continue(t)
    \/ Stopped

Spec == Init /\ [][Next]_vars

(* A thread that can run goes on with its call.  The mutexes need not be   *)
(* fair, and the program need not call.                                    *)
FairSpec == Spec /\ \A t \in Threads : WF_vars(Continue(t))

=============================================================================
