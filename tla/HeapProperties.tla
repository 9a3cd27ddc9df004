--------------------------- MODULE HeapProperties ---------------------------
(***************************************************************************)
(* What has to be true of the concurrent heap, and what its comments and   *)
(* assertions say of it.                                                   *)
(***************************************************************************)
EXTENDS Heap

-----------------------------------------------------------------------------
(* Mutexes *)

(* The mutexes that the code a thread is in has acquired and not released. *)
LocksOf(t) ==
    CASE th[t].pc \in { "bin_alloc", "lock_global", "adopt", "map", "sb_alloc" }
           -> { th[t].heap }
      [] th[t].pc = "get_sb_from_global" -> { th[t].heap, GlobalHeap }
      [] th[t].pc = "lock_owner" -> { th[t].s_ptr }
      [] th[t].pc \in { "bin_free", "account", "transfer" }
           -> { th[t].s_ptr, th[t].heap }
      [] th[t].pc = "insert_global" -> { th[t].s_ptr, th[t].heap, GlobalHeap }
      [] OTHER -> { }

(* The mutex a thread needs to go on, if any.                              *)
WaitsFor(t) ==
    CASE th[t].pc \in { "lock_heap", "lock_owner" }     -> { th[t].heap }
      [] th[t].pc = "lock_superblock"                   -> { th[t].s_ptr }
      [] th[t].pc \in { "lock_global", "transfer" }     -> { GlobalHeap }
      [] OTHER -> { }

(* A mutex is held by the thread whose position in the code says so, and   *)
(* by nobody else: every path through heap_alloc and heap_free, failing    *)
(* ones included, releases what it acquired, and nothing more.             *)
LockDiscipline ==
    \A t \in Threads : { l \in Locks : lock[l] = t } = LocksOf(t)

(* No set of threads ever waits in a circle, whatever the program does:    *)
(* heap_free nests superblock, heap and global heap, heap_alloc heap and   *)
(* global heap, and a free into the global heap itself stops short of the  *)
(* transfer that would lock it twice.                                      *)
NoDeadlock ==
    \A D \in (SUBSET Threads) \ {{}} :
        \E t \in D : \A l \in WaitsFor(t) : lock[l] \notin D

(* No pointer the allocator may still follow leads to memory that mmap     *)
(* has not provided.                                                       *)
OnlyMappedReachable ==
    LET Mapped == { s \in Superblocks : sb[s].owner # NULL } \cup {NULL}
    IN  /\ \A s \in Superblocks : sb[s].prev \in Mapped /\ sb[s].next \in Mapped
        /\ \A h \in Heaps :
             /\ heap[h].recycled_superblock \in Mapped
             /\ \A b \in Bins, e \in EmptinessClasses :
                  heap[h].size_bins[b].emptiness_bins[e] \in Mapped
        /\ \A t \in Threads : th[t].s_ptr \in Mapped /\ th[t].victim \in Mapped
        /\ \A p \in held : p.sb \in Mapped

-----------------------------------------------------------------------------
(* Blocks *)

(* The blocks of superblock s on their way back, in calls of free that     *)
(* have not reached superblock_free.                                       *)
BeingFreed(s) ==
    { t \in Threads : th[t].s_ptr = s /\
        th[t].pc \in { "lock_superblock", "lock_owner", "bin_free" } }

HeldIn(s) == { p \in held : p.sb = s }

(* The memory of a block the program holds lies in its superblock's buffer *)
(* and overlaps no other such block and no block that superblock_alloc can *)
(* still hand out or that is being freed.                                  *)
BlocksDisjoint ==
    \A s \in Superblocks : \A p \in HeldIn(s) :
        /\ p.off + p.size <= BufferSize
        /\ \A q \in HeldIn(s) \ {p} :
              p.off + p.size <= q.off \/ q.off + q.size <= p.off
        /\ \A off \in FreeBlocks(sb[s]) \cup { th[t].off : t \in BeingFreed(s) } :
              p.off + p.size <= off \/ off + sb[s].block_size <= p.off

(* No block is lost or counted twice: those that num_free_blocks says are  *)
(* used are the ones the program holds or is handing back, and the free    *)
(* ones can all be handed out.                                             *)
EveryBlockAccounted ==
    \A s \in Superblocks : sb[s].owner # NULL =>
        /\ sb[s].total_blocks - sb[s].num_free_blocks
             = Cardinality(HeldIn(s)) + Cardinality(BeingFreed(s))
        /\ sb[s].num_free_blocks = Cardinality(FreeBlocks(sb[s]))

-----------------------------------------------------------------------------
(* Lists *)

(* Everything reached from `head' by next links, head included: what is in *)
(* every set that has the head and is closed under next.                   *)
ListFrom(head) ==
    LET Closed(T) == \A s \in T : sb[s].next \in T \cup {NULL}
    IN  IF head = NULL THEN {}
        ELSE { s \in Superblocks :
                 \A T \in SUBSET Superblocks : head \in T /\ Closed(T) => s \in T }

ListOf(h, b, e) == ListFrom(heap[h].size_bins[b].emptiness_bins[e])
RecycledBy(h)   == ListFrom(heap[h].recycled_superblock)
Quiet(h)        == lock[h] = NULL

(* Between critical sections, the lists of a heap are circular, linked     *)
(* both ways, and hold superblocks of that heap, of the bin's block size   *)
(* and of the class their fullness gives; and the count that               *)
(* get_sb_from_global trusts is the number of superblocks with room.       *)
BinsSound ==
    \A h \in Heaps : Quiet(h) => \A b \in Bins :
        /\ \A e \in EmptinessClasses : \A s \in ListOf(h, b, e) :
             /\ sb[s].owner = h
             /\ sb[s].block_size = SizeTable[b]
             /\ get_eidx(sb[s]) = e
             /\ sb[s].next # NULL /\ sb[sb[s].next].prev = s
             /\ sb[s].prev # NULL /\ sb[sb[s].prev].next = s
        /\ heap[h].size_bins[b].num_nonfull_superblocks =
             Cardinality(UNION { ListOf(h, b, e) : e \in NonfullClasses })

(* No superblock is on two lists, of one heap or of two.  The header has   *)
(* one pair of links for the bins and the recycling bin alike.             *)
OnOneListOnly ==
    LET Lists == { l \in Heaps \X Bins \X EmptinessClasses :
                     heap[l[1]].size_bins[l[2]].emptiness_bins[l[3]] # NULL }
        Members(l) == ListOf(l[1], l[2], l[3])
    IN  /\ \A k, l \in Lists : k # l => Members(k) \cap Members(l) = {}
        /\ \A h, g \in Heaps : h # g => RecycledBy(h) \cap RecycledBy(g) = {}
        /\ \A h \in Heaps, l \in Lists : RecycledBy(h) \cap Members(l) = {}

(* The superblock thread t has taken off a list, or mapped, and not yet    *)
(* put into another.                                                       *)
InHandOf(t) ==
    CASE th[t].pc = "adopt" \/ (th[t].pc = "sb_alloc" /\ ~th[t].in_bin) -> { th[t].s_ptr }
      [] th[t].pc \in { "transfer", "insert_global" }                   -> { th[t].victim }
      [] OTHER                                                          -> { }

(* A superblock goes from list to list through one thread's hands: from    *)
(* delete_from_bin to push_into_bin, over the unlock at heap.c:82 and the  *)
(* lock at heap.c:127, no list of any heap has it and no other thread      *)
(* moves it, although its owner is still the heap it came from and other   *)
(* threads may be freeing its blocks.                                      *)
HandedOver == \A t \in Threads : \A s \in InHandOf(t) :
    /\ \A h \in Heaps :
         /\ s \notin RecycledBy(h)
         /\ \A b \in Bins, e \in EmptinessClasses : s \notin ListOf(h, b, e)
    /\ \A u \in Threads \ {t} : s \notin InHandOf(u)

(* A superblock in a recycling bin is empty, so that reset_superblock      *)
(* ("reuse an existing (and empty) superblock", include/superblock.h:50)   *)
(* never cuts up memory the program holds.                                 *)
RecycledEmpty ==
    \A h \in Heaps : \A s \in RecycledBy(h) :
        is_superblock_empty(sb[s]) /\ HeldIn(s) = {} /\ BeingFreed(s) = {}

(* The process never dereferences a null pointer or leaves an array:       *)
(* whenever a superblock is asked for one is there, find_emptiest_sb and   *)
(* the search behind num_nonfull_superblocks included.                     *)
NoCrash == ~crashed

-----------------------------------------------------------------------------
(* Usage statistics *)

Owned(h) == { s \in Superblocks : sb[s].owner = h }

(* The bytes used in its superblocks.  Each is paired with its superblock, *)
(* so that the number of pairs is the sum.                                 *)
UsedBytes(h) == Cardinality(UNION { {s} \X (1 .. used_bytes(sb[s])) : s \in Owned(h) })

(* Between critical sections, in_use never falls below what is used in the *)
(* heap's superblocks: so dec_usage never wraps around, and a heap is not  *)
(* taken to be emptier than it is.                                         *)
InUseCovers ==
    \A h \in ThreadHeaps : Quiet(h) => heap[h].in_use >= UsedBytes(h)

(* Between critical sections, alloced is exactly the memory of the         *)
(* superblocks a heap owns: mapping, adopting and giving away a superblock *)
(* each move the owner and the statistic together.                         *)
AllocedExact ==
    \A h \in ThreadHeaps :
        Quiet(h) => heap[h].alloced = SUPERBLOCK_SIZE * Cardinality(Owned(h))

(* "Usage statistics" (include/heap.h:20): in_use is what is used.         *)
InUseExact ==
    \A h \in ThreadHeaps : Quiet(h) => heap[h].in_use = UsedBytes(h)

-----------------------------------------------------------------------------
(* What comments and assertions of the code say *)

(* delete_from_bin "assumes that the superblock is in this list"           *)
(* (include/binmanager.h:27): true of every call heap_free is about to     *)
(* make.                                                                   *)
DeletedFromItsList ==
    \A t \in Threads : At(t, "bin_free") =>
        LET s == th[t].s_ptr
        IN  s \in ListOf(th[t].heap, size2idx(th[t].size), get_eidx(sb[s]))

(* "Recycling bin for empty superblocks" (include/heap.h:11): an empty     *)
(* superblock is in a recycling bin unless a thread has it in hand.        *)
EmptyAreRecyclable ==
    \A h \in Heaps : \A s \in Owned(h) :
        is_superblock_empty(sb[s]) =>
            \/ s \in RecycledBy(h)
            \/ \E t \in Threads : s \in { th[t].s_ptr, th[t].victim }

(* "Stores block size for each bin" (src/binmanager.c:12): the superblock  *)
(* a thread is about to put into a bin is cut into blocks of that size.    *)
AllocatesFromItsBin ==
    \A t \in Threads : At(t, "sb_alloc") =>
        sb[th[t].s_ptr].block_size = idx2class(size2idx(th[t].size))

(* Both assumptions the list operations rest on. The code breaks each, and *)
(* has undefined behaviour from then on; these are the executions that are *)
(* followed up to there.                                                   *)
AsAssumed == DeletedFromItsList /\ AllocatesFromItsBin

UpToFindings ==
    Init /\ [][(AsAssumed /\ Next) \/ (~AsAssumed /\ UNCHANGED vars)]_vars

-----------------------------------------------------------------------------
(* Steps and progress *)

(* A call of free returns whose heap may be giving away superblocks; the   *)
(* heap it frees into, as it was before dec_usage.                         *)
FreeReturns(t) ==
    /\ th[t].pc \in { "account", "insert_global" } /\ th'[t].pc = "idle"
    /\ th[t].heap # GlobalHeap

BeforeFree(t) ==
    LET h == heap[th[t].heap]
    IN  IF th[t].pc = "account" THEN h
        ELSE [h EXCEPT !.in_use = (@ + th[t].size) % SIZE_MOD]

(* heap_free looks once whether the heap has become too empty and          *)
(* transfers one superblock (heap.c:270). That is enough: if the heap was  *)
(* not emptier than the threshold before, it is not so after.              *)
TransferSuffices == \A t \in Threads :
    FreeReturns(t) /\ ~is_empty_enough(BeforeFree(t))
    => ~is_empty_enough(heap'[th[t].heap])
OneTransferIsEnough == [][TransferSuffices]_vars

(* Some call always returns: as long as threads are in the allocator, the  *)
(* set of those that are changes.                                          *)
CallsReturn ==
    \A busy \in (SUBSET Threads) \ {{}} : (InFlight = busy) ~> (InFlight # busy \/ crashed)

-----------------------------------------------------------------------------
(* The heap as an implementation of malloc and free: a call is in progress *)
(* from the step that enters the allocator to the one that leaves it.      *)

CallOf(t) ==
    IF th[t].pc \in AllocPlaces THEN [op |-> "malloc", size |-> th[t].size]
    ELSE IF th[t].pc \in FreePlaces THEN [op |-> "free", size |-> 0]
    ELSE [op |-> "none", size |-> 0]

Abstract == INSTANCE Allocator WITH
    Chunks    <- Superblocks,
    ChunkSize <- BufferSize,
    Sizes     <- Requests,
    calls     <- [t \in Threads |-> CallOf(t)]

(* Every behaviour of the heap is one the promise of malloc and free       *)
(* allows.                                                                 *)
ImplementsAllocator == Abstract!AbsSpec

=============================================================================
