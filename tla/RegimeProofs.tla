---------------------------- MODULE RegimeProofs ----------------------------
(***************************************************************************)
(* Where the code guarantees what the theorems of ListProofs assume, and   *)
(* what follows from the lists.                                            *)
(*                                                                         *)
(* The first sections prove the two hypotheses of ListProofs when no heap  *)
(* gives a superblock away, when one call runs at a time, and when there   *)
(* is one bin. The next prove, from the lists, that the statistic in_use   *)
(* covers the blocks in use (UsageOK); the last, that a free which gives   *)
(* one superblock to the global heap does not leave its heap too empty if  *)
(* it was not so before.                                                   *)
(***************************************************************************)
EXTENDS ListProofs

-----------------------------------------------------------------------------
(* When delete_from_bin finds the superblock in its list                   *)

(* A block size of the table has its own bin.                              *)
LEMMA BinOfItsSize ==
    ASSUME NEW b \in Bins
    PROVE  size2idx(SizeTable[b]) = b
<1>1. SizeTable[b] \in Nat /\ b \in Int
  BY SizeTableAssumption DEF Bins
<1>2. ASSUME NEW j \in Bins, SizeTable[b] <= SizeTable[j] PROVE b <= j
  <2>1. j < b => SizeTable[j] < SizeTable[b]
    BY SizeTableAssumption
  <2>2. SizeTable[j] \in Nat /\ j \in Int
    BY SizeTableAssumption DEF Bins
  <2> QED BY <1>1, <1>2, <2>1, <2>2
<1>3. ASSUME NEW i \in Bins, SizeTable[b] <= SizeTable[i],
             \A j \in Bins : SizeTable[b] <= SizeTable[j] => i <= j
      PROVE  i = b
  <2>1. SizeTable[b] <= SizeTable[b]
    BY <1>1
  <2>2. i <= b /\ b <= i
    BY <1>2, <1>3, <2>1
  <2>3. i \in Int
    BY DEF Bins
  <2> QED BY <1>1, <2>2, <2>3
<1>4. SizeTable[b] <= SizeTable[b]
  BY <1>1
<1> QED BY <1>2, <1>3, <1>4 DEF size2idx

(* What heap_free has read of the header is still so.                      *)
Current(f, x) == x.pc \in { "lock_owner", "bin_free" } =>
    x.heap = f[x.s_ptr].owner /\ x.size = f[x.s_ptr].block_size

(* A superblock with a block on its way back is not empty.                 *)
LEMMA NotEmpty ==
    ASSUME IInv, BlocksInv, NEW t \in Threads, th[t].pc \in Returning
    PROVE  ~is_superblock_empty(sb[th[t].s_ptr])
<1> DEFINE s == th[t].s_ptr
<1>1. s \in Mapped /\ s \in Superblocks /\ sb[s] \in SuperblockHeader(Heaps)
  BY Facts DEF PlaceIn, Returning, FreePlaces
<1>2. t \in BeingFreed(s)
  BY DEF BeingFreed, Returning
<1> HIDE DEF s
<1>3. /\ IsFiniteSet(HeldIn(s)) /\ IsFiniteSet(BeingFreed(s))
      /\ sb[s].total_blocks - sb[s].num_free_blocks
           = Cardinality(HeldIn(s)) + Cardinality(BeingFreed(s))
  BY <1>1 DEF BlocksInv, BlocksOK
<1>4. Cardinality(HeldIn(s)) \in Nat /\ Cardinality(BeingFreed(s)) \in Nat
  BY <1>3, FS_CardinalityType
<1>5. Cardinality(BeingFreed(s)) # 0
  BY <1>2, <1>3, FS_EmptySet
<1> QED BY <1>1, <1>3, <1>4, <1>5, HeaderTypes DEF is_superblock_empty, s

(* The superblock is in the list that heap_free looks in if the owner is   *)
(* the one it read, and no thread has taken the superblock off its list.   *)
LEMMA FoundOnItsList ==
    ASSUME IInv, BlocksInv, ListInv, NEW t \in Threads, th[t].pc = "bin_free",
           Current(sb, th[t]), \A u \in Threads : th[t].s_ptr \notin InHand(th[u])
    PROVE  th[t].s_ptr \in ListOf(th[t].heap, size2idx(th[t].size), get_eidx(sb[th[t].s_ptr]))
<1> DEFINE s == th[t].s_ptr
           e == get_eidx(sb[s])
<1>1. s \in Mapped /\ th[t].heap = sb[s].owner /\ th[t].size = sb[s].block_size
  BY Facts DEF PlaceIn, FreePlaces, Current
<1>2. ~is_superblock_empty(sb[s])
  BY NotEmpty DEF Returning
<1>3. OnItsList(sb, heap, s)
  BY <1>1, <1>2 DEF ListInv, Placed
<1>4. PICK b \in Bins : s \in InBin(sb, heap, sb[s].owner, b, e)
  BY <1>3 DEF OnItsList
<1>5. sb[s].owner \in Heaps /\ e \in EmptinessClasses
  BY <1>1, Facts, MappedClass DEF ListInv, SuperblockHeader, Mapped
<1>6. sb[s].block_size = SizeTable[b]
  <2> HIDE DEF e, s
  <2> QED BY <1>4, <1>5 DEF ListInv, ListsOK, BinOK, Fits
<1>7. size2idx(th[t].size) = b
  BY <1>1, <1>6, BinOfItsSize
<1> QED BY <1>1, <1>4, <1>7, ListIsReach DEF InBin

-----------------------------------------------------------------------------
(* When a heap is empty enough                                             *)

(* is_empty_enough as a fact of numbers, with m = NUM_EMPTINESS_CLASSES - 1 *)
(* and the threshold in bytes.                                             *)
Low(u, a, m, bytes) == u + bytes < a /\ u < ((m - 1) * a) \div m

(* The sum does not wrap around where the share decides: u is so small     *)
(* that m times the sum stays below m times M.                             *)
LEMMA SumFits ==
    ASSUME NEW m \in Nat \ {0}, NEW M \in Nat, NEW bytes \in Nat, bytes * m < M,
           NEW u \in Nat, NEW a \in Nat, a < M,
           NEW q \in Nat, q * m <= (m - 1) * a, u < q
    PROVE  u + bytes < M
<1>1. (m - 1) * a \in Nat /\ (m - 1) * a <= (m - 1) * (M - 1)
  BY SMT
<1>2. (u + 1) * m <= q * m
  BY TimesMonotone
<1>3. (u + 1) * m <= (m - 1) * (M - 1)
  BY <1>1, <1>2, SMT
<1>4. (u + bytes) * m < m * M
  <2>1. (u + 1) * m = u * m + m /\ (m - 1) * (M - 1) = m * M - m - M + 1
    BY SMT
  <2>2. (u + bytes) * m = u * m + bytes * m /\ u * m \in Nat /\ bytes * m \in Nat /\ m * M \in Nat
    BY SMT
  <2> QED BY <1>3, <2>1, <2>2
<1> SUFFICES ASSUME M <= u + bytes PROVE FALSE
  OBVIOUS
<1>5. M * m <= (u + bytes) * m
  BY TimesMonotone
<1>6. M * m = m * M /\ (u + bytes) * m \in Nat
  BY SMT
<1> QED BY <1>4, <1>5, <1>6

LEMMA EmptyIsLow ==
    ASSUME NEW y, y.in_use \in 0 .. SIZE_MOD - 1, y.alloced \in 0 .. SIZE_MOD - 1
    PROVE  is_empty_enough(y) <=> Low(y.in_use, y.alloced, NUM_EMPTINESS_CLASSES - 1,
                                      FREE_SB_THRESH * SUPERBLOCK_SIZE)
<1> DEFINE m     == NUM_EMPTINESS_CLASSES - 1
           bytes == FREE_SB_THRESH * SUPERBLOCK_SIZE
<1>1. NUM_EMPTINESS_CLASSES - 2 = m - 1 /\ m \in Nat \ {0}
  BY SizeTableAssumption
<1>2. bytes \in Nat /\ SIZE_MOD \in Nat
  BY HeapAssumption, SizesAssumption
<1>3. bytes * m < SIZE_MOD
  BY ThresholdAssumption
<1>4. is_empty_enough(y) <=> /\ (y.in_use + bytes) % SIZE_MOD < y.alloced
                             /\ y.in_use < ((m - 1) * y.alloced) \div m
  BY <1>1 DEF is_empty_enough
<1> HIDE DEF m, bytes
<1>5. y.in_use < ((m - 1) * y.alloced) \div m
      => (y.in_use + bytes) % SIZE_MOD = y.in_use + bytes
  <2>1. PICK u \in Nat, a \in Nat : u = y.in_use /\ a = y.alloced /\ a < SIZE_MOD
    BY <1>2
  <2>2. PICK q \in Nat : q = ((m - 1) * a) \div m /\ q * m <= (m - 1) * a
    BY <1>1, SMT
  <2>3. u < q => u + bytes < SIZE_MOD
    BY <1>1, <1>2, <1>3, <2>1, <2>2, SumFits
  <2>4. u + bytes < SIZE_MOD => (u + bytes) % SIZE_MOD = u + bytes
    BY <1>2, <2>1
  <2> QED BY <2>1, <2>2, <2>3, <2>4
<1>6. is_empty_enough(y) <=> Low(y.in_use, y.alloced, m, bytes)
  BY <1>4, <1>5 DEF Low
<1> QED BY <1>6 DEF m, bytes

-----------------------------------------------------------------------------
(* A heap that is never emptier than it may be gives nothing away          *)

(* Every heap has at most K superblocks.                                   *)
KeepsAll == \A h \in ThreadHeaps : Cardinality(Owned(h)) <= FREE_SB_THRESH

(* so that in_use + K * SUPERBLOCK_SIZE never falls below what it has.     *)
LEMMA NeverEmptyEnough ==
    ASSUME IInv, ListInv, KeepsAll, NEW h \in ThreadHeaps, NEW n \in Int
    PROVE  ~is_empty_enough(dec_usage(heap[h], n))
<1> DEFINE y == dec_usage(heap[h], n)
           z == SUPERBLOCK_SIZE
           k == Cardinality(Owned(h))
<1>1. h \in Heaps /\ heap[h] \in HeapRecord
  BY TypedNow DEF Heaps
<1>2. y.alloced = z * k
  BY <1>1, StatisticsLists DEF ListInv, AllocedOK
<1>3. y.in_use \in 0 .. SIZE_MOD - 1 /\ y.alloced \in 0 .. SIZE_MOD - 1 /\ y.in_use \in Nat
  <2>1. y.in_use = (heap[h].in_use - n) % SIZE_MOD /\ y.alloced = heap[h].alloced
    BY <1>1 DEF dec_usage, HeapRecord
  <2>2. /\ heap[h].in_use \in Int /\ SIZE_MOD \in Nat \ {0}
        /\ heap[h].alloced \in 0 .. SIZE_MOD - 1
    BY <1>1, HeapAssumption, SizesAssumption DEF HeapRecord
  <2> QED BY <2>1, <2>2
<1>4. k \in Nat /\ k <= FREE_SB_THRESH /\ z \in Nat /\ FREE_SB_THRESH \in Nat
  <2>1. IsFiniteSet(Owned(h))
    BY AddressSpaceAssumption, FS_Subset DEF Owned
  <2> QED BY <2>1, FS_CardinalityType, SizesAssumption, HeapAssumption DEF KeepsAll
<1>5. k * z <= FREE_SB_THRESH * z /\ k * z \in Nat /\ FREE_SB_THRESH * z \in Nat
      /\ z * k = k * z
  <2> HIDE DEF k, z
  <2> QED BY <1>4, TimesMonotone
<1> HIDE DEF y, k
<1>6. ~(y.in_use + FREE_SB_THRESH * z < y.alloced)
  <2> DEFINE a == k * z
             c == FREE_SB_THRESH * z
  <2>1. a <= c /\ a \in Nat /\ c \in Nat /\ y.alloced = a
    BY <1>2, <1>5
  <2> HIDE DEF a, c
  <2>2. ~(y.in_use + c < y.alloced)
    BY <1>3, <2>1
  <2> QED BY <2>2 DEF c
<1> QED BY <1>3, <1>6, EmptyIsLow DEF Low, y

-----------------------------------------------------------------------------
(* What a step does to a header                                            *)

(* reset_superblock is for a new superblock, or for the head of a          *)
(* recycling bin.                                                          *)
Resets(t, s) ==
    \/ th[t].pc = "bin_alloc" /\ s = heap[th[t].heap].recycled_superblock
    \/ th[t].pc = "map" /\ sb[s].owner = NULL

(* The owner changes in adopt, insert_global and map only; the block size  *)
(* where reset_superblock runs; and the count of free blocks there and     *)
(* where a thread has the superblock to allocate from or to free into.     *)
HeaderMoves(t, s) ==
    /\ \/ sb'[s].owner = sb[s].owner
       \/ th[t].pc = "adopt" /\ s = th[t].s_ptr /\ sb'[s].owner = th[t].heap
       \/ th[t].pc = "insert_global" /\ s = th[t].victim /\ sb'[s].owner = GlobalHeap
       \/ /\ th[t].pc = "map" /\ sb[s].owner = NULL
          /\ sb'[s].owner = th[t].heap
          /\ sb'[s].block_size = SizeTable[size2idx(th[t].size)]
    /\ \/ sb'[s].block_size = sb[s].block_size
       \/ sb'[s].block_size = SizeTable[size2idx(th[t].size)] /\ Resets(t, s)
    /\ \/ SameBlocks(sb[s], sb'[s])
       \/ th[t].pc \in { "sb_alloc", "bin_free" } /\ s = th[t].s_ptr
       \/ Resets(t, s)
    /\ sb'[s].owner = NULL => sb[s].owner = NULL

(* The footprint of each step that writes headers.                         *)
LEMMA ResetMoves ==
    ASSUME IInv, NEW t \in Threads, NEW s \in Superblocks,
           \/ Recycle(t)
           \/ \E y \in Superblocks : MapSuperblock(t, y)
    PROVE  HeaderMoves(t, s)
<1> DEFINE c == SizeTable[size2idx(th[t].size)]
<1>1. c \in Nat \ {0} /\ sb \in [Superblocks -> SuperblockHeader(Heaps)]
  BY ThreadBin, SizeTableAssumption, TypedNow
<1> HIDE DEF c
<1>2. \A y \in Superblocks : /\ reset_superblock(sb[y], c) \in SuperblockHeader(Heaps)
                             /\ reset_superblock(sb[y], c).owner = sb[y].owner
                             /\ reset_superblock(sb[y], c).block_size = c
  <2> TAKE y \in Superblocks
  <2>1. sb[y] \in SuperblockHeader(Heaps)
    BY <1>1
  <2> QED BY <1>1, <2>1, ResetTyped
<1>3. CASE Recycle(t)
  <2> DEFINE z == heap[th[t].heap].recycled_superblock
             r == reset_superblock(sb[z], c)
  <2>1. sb' = [sb EXCEPT ![z] = r] /\ th[t].pc = "bin_alloc"
    BY <1>3 DEF Recycle, At, idx2class, c
  <2>2. s = z => r.owner = sb[s].owner /\ r.block_size = c
    BY <1>2
  <2> HIDE DEF z, r
  <2>3. sb'[s] = IF s = z THEN r ELSE sb[s]
    BY <1>1, <2>1
  <2> QED BY <2>1, <2>2, <2>3 DEF HeaderMoves, Resets, SameBlocks, z, c
<1>4. ASSUME NEW y \in Superblocks, MapSuperblock(t, y) PROVE HeaderMoves(t, s)
  <2> DEFINE q == reset_superblock(sb[y], c)
             r == [q EXCEPT !.owner = th[t].heap]
  <2>1. sb' = [sb EXCEPT ![y] = r] /\ th[t].pc = "map" /\ sb[y].owner = NULL
    BY <1>4 DEF MapSuperblock, At, idx2class, c
  <2>2. r.block_size = c /\ r.owner = th[t].heap
    <3>1. q \in SuperblockHeader(Heaps) /\ q.block_size = c
      BY <1>2
    <3> HIDE DEF q
    <3> QED BY <3>1 DEF SuperblockHeader
  <2> HIDE DEF r
  <2>3. sb'[s] = IF s = y THEN r ELSE sb[s]
    BY <1>1, <2>1
  <2> QED BY <2>1, <2>2, <2>3 DEF HeaderMoves, Resets, SameBlocks, c
<1> QED BY <1>3, <1>4

LEMMA GlobalMoves ==
    ASSUME IInv, NEW t \in Threads, NEW s \in Superblocks,
           Adopt(t) \/ InsertRecycled(t) \/ InsertIntoBin(t)
    PROVE  HeaderMoves(t, s)
<1>1. sb \in [Superblocks -> SuperblockHeader(Heaps)] /\ NULL \notin Heaps /\ GlobalHeap \in Heaps
  BY TypedNow, HeapAssumption
<1>2. CASE Adopt(t)
  <2>1. /\ sb' = [sb EXCEPT ![th[t].s_ptr].owner = th[t].heap] /\ th[t].pc = "adopt"
        /\ th[t].heap \in Heaps
    <3>1. th[t].pc = "adopt"
      BY <1>2 DEF Adopt, At
    <3> QED BY <1>2, <3>1, Facts DEF Adopt, PlaceIn, AllocPlaces, Heaps
  <2> QED BY <1>1, <2>1 DEF HeaderMoves, SameBlocks, SuperblockHeader
<1>3. CASE InsertRecycled(t)
  <2> DEFINE v == heap[GlobalHeap].recycled_superblock
  <2>1. /\ sb' = [sb EXCEPT ![th[t].victim].owner = GlobalHeap, ![th[t].victim].next = v]
        /\ th[t].pc = "insert_global"
    BY <1>3 DEF InsertRecycled, At
  <2> HIDE DEF v
  <2>2. sb'[s] = IF s = th[t].victim THEN [sb[s] EXCEPT !.owner = GlobalHeap, !.next = v]
                                     ELSE sb[s]
    BY <1>1, <2>1
  <2>3. sb[s] \in SuperblockHeader(Heaps)
    BY <1>1
  <2>4. CASE s = th[t].victim
    <3> DEFINE r == [sb[s] EXCEPT !.owner = GlobalHeap, !.next = v]
    <3>1. r.owner = GlobalHeap /\ r.block_size = sb[s].block_size
      BY <2>3 DEF SuperblockHeader
    <3>2. SameBlocks(sb[s], r)
      BY <2>3 DEF SameBlocks, SuperblockHeader
    <3> HIDE DEF r
    <3>3. sb'[s] = r
      BY <2>2, <2>4 DEF r
    <3> QED BY <1>1, <2>1, <2>4, <3>1, <3>2, <3>3 DEF HeaderMoves
  <2>5. CASE s # th[t].victim
    BY <2>2, <2>5 DEF HeaderMoves, SameBlocks
  <2> QED BY <2>4, <2>5
<1>4. CASE InsertIntoBin(t)
  <2>1. th[t].pc = "insert_global"
    BY <1>4 DEF InsertIntoBin, At
  <2> QED BY <1>1, <1>4, <2>1, InsertIntoBinHeaders DEF HeaderMoves, SameBlocks
<1> QED BY <1>2, <1>3, <1>4

LEMMA HeadersMove ==
    ASSUME IInv, NEW t \in Threads, NEW s \in Superblocks, Call(t) \/ Continue(t)
    PROVE  HeaderMoves(t, s)
<1>1. ASSUME sb' = sb PROVE HeaderMoves(t, s)
  BY <1>1 DEF HeaderMoves, SameBlocks
<1>2. CASE Call(t)
  BY <1>1, <1>2 DEF Call, Malloc, Free
<1>3. CASE Recycle(t) \/ (\E y \in Superblocks : MapSuperblock(t, y))
  BY <1>3, ResetMoves
<1>4. CASE Adopt(t) \/ InsertRecycled(t) \/ InsertIntoBin(t)
  BY <1>4, GlobalMoves
<1>5. CASE TakeNonfull(t) \/ GiveEmptiest(t)
  BY <1>5, TakeNonfullHeaders, GiveEmptiestHeaders DEF HeaderMoves, SameButLinks, SameBlocks
<1>6. CASE SuperblockAlloc(t)
  BY <1>6, SuperblockAllocHeaders DEF HeaderMoves, SuperblockAlloc, At
<1>7. CASE BinFree(t)
  BY <1>7, BinFreeHeaders DEF HeaderMoves, BinFree, At
<1>8. CASE \/ LockHeap(t) \/ ChooseInBin(t) \/ AskGlobal(t) \/ LockGlobal(t) \/ TakeRecycled(t)
           \/ TakeNothing(t) \/ MmapFails(t) \/ LockSuperblock(t) \/ LockOwner(t)
           \/ FreeFromGlobal(t) \/ FreeAndKeep(t) \/ GiveRecycled(t)
           \/ LockGlobalForTransfer(t) \/ Crash(t)
  BY <1>1, <1>8 DEF LockHeap, ChooseInBin, AskGlobal, LockGlobal, TakeRecycled, TakeNothing,
     MmapFails, LockSuperblock, LockOwner, FreeFromGlobal, FreeAndKeep, GiveRecycled,
     LockGlobalForTransfer, Crash
<1> QED BY <1>2, <1>3, <1>4, <1>5, <1>6, <1>7, <1>8 DEF Continue

-----------------------------------------------------------------------------
(* A program that asks for blocks of one bin                               *)

OneBin == \A m, n \in Requests : size2idx(m) = size2idx(n)

(* Every superblock is cut for a size the program asks for.                *)
CutForRequests ==
    /\ SizesAsked
    /\ \A s \in Mapped : \E n \in Requests : sb[s].block_size = SizeTable[size2idx(n)]

(* New superblocks and recycled ones are cut for the size of a call.       *)
LEMMA CutInductive ==
    IInv /\ CutForRequests /\ SizesAsked' /\ [Next]_vars => CutForRequests'
<1> SUFFICES ASSUME IInv, CutForRequests, SizesAsked', [Next]_vars, NEW s \in Mapped'
             PROVE  \E n \in Requests : sb'[s].block_size = SizeTable[size2idx(n)]
  BY DEF CutForRequests
<1>1. s \in Superblocks /\ sb'[s].owner # NULL
  BY DEF Mapped
<1>2. ASSUME NEW t \in Threads, Call(t) \/ Continue(t)
      PROVE  \E n \in Requests : sb'[s].block_size = SizeTable[size2idx(n)]
  <2>1. HeaderMoves(t, s)
    BY <1>1, <1>2, HeadersMove
  <2>2. CASE /\ sb'[s].block_size = SizeTable[size2idx(th[t].size)]
             /\ th[t].pc \in { "bin_alloc", "map" }
    <3>1. th[t].size \in Requests
      BY <2>2 DEF CutForRequests, SizesAsked, AllocPlaces
    <3> QED BY <2>2, <3>1
  <2>3. CASE sb'[s].block_size = sb[s].block_size /\ s \in Mapped
    BY <2>3 DEF CutForRequests
  <2>4. CASE s \notin Mapped
    <3>1. /\ th[t].pc = "adopt" => th[t].s_ptr \in Mapped
          /\ th[t].pc = "insert_global" => th[t].victim \in Mapped
      BY ThreadFacts
    <3>2. /\ sb'[s].block_size = SizeTable[size2idx(th[t].size)]
          /\ th[t].pc = "map"
      BY <1>1, <2>1, <2>4, <3>1 DEF HeaderMoves, Mapped
    <3> QED BY <2>2, <3>2
  <2> QED BY <2>1, <2>2, <2>3, <2>4 DEF HeaderMoves, Resets
<1>3. CASE UNCHANGED vars
  BY <1>3 DEF vars, Mapped, CutForRequests
<1> QED BY <1>2, <1>3 DEF Next, Stopped

LEMMA OneBinAllocates ==
    ASSUME OneBin, IInv, CutForRequests
    PROVE  AllocatesFromItsBin
<1> SUFFICES ASSUME NEW t \in Threads, At(t, "sb_alloc")
             PROVE  sb[th[t].s_ptr].block_size = idx2class(size2idx(th[t].size))
  BY DEF AllocatesFromItsBin
<1>1. th[t].s_ptr \in Mapped /\ th[t].size \in Requests
  BY Facts DEF PlaceIn, At, CutForRequests, SizesAsked, AllocPlaces
<1>2. PICK n \in Requests : sb[th[t].s_ptr].block_size = SizeTable[size2idx(n)]
  BY <1>1 DEF CutForRequests
<1> QED BY <1>1, <1>2 DEF OneBin, idx2class

LEMMA CutForRequestsHolds == Spec => []CutForRequests
<1>1. Init => CutForRequests
  <2> SUFFICES ASSUME Init PROVE \A s \in Superblocks : s \notin Mapped
    BY ImplementsInitially DEF CutForRequests, Mapped
  <2> QED BY DEF Init, Unmapped, Mapped
<1> QED BY <1>1, InvariantHolds, CutInductive, SizesStayAsked, PTL DEF Spec, CutForRequests

-----------------------------------------------------------------------------
(* A program that makes one call at a time                                 *)

(* At most one thread is in the allocator.                                 *)
Alone == \A t, u \in Threads : t # u => th[t].pc = "idle" \/ th[u].pc = "idle"

OneCall == IsFiniteSet(InFlight) /\ Cardinality(InFlight) <= 1

(* Two threads in the allocator are two calls.                             *)
LEMMA OneCallAlone == OneCall => Alone
<1> SUFFICES ASSUME OneCall, NEW t \in Threads, NEW u \in Threads, t # u,
                    th[t].pc # "idle", th[u].pc # "idle"
             PROVE  FALSE
  BY DEF Alone
<1>1. t \in InFlight /\ u \in InFlight
  BY DEF InFlight
<1>2. IsFiniteSet({t, u}) /\ Cardinality({t, u}) = 2
  <2>1. IsFiniteSet({t}) /\ Cardinality({t}) = 1
    BY FS_Singleton
  <2>2. Cardinality({t} \cup {u}) = Cardinality({t}) + 1 /\ IsFiniteSet({t} \cup {u})
    BY <2>1, FS_AddElement
  <2>3. {t} \cup {u} = {t, u}
    OBVIOUS
  <2> QED BY <2>1, <2>2, <2>3
<1>3. Cardinality({t, u}) <= Cardinality(InFlight)
  BY <1>1, FS_Subset DEF OneCall
<1>4. Cardinality(InFlight) \in Nat
  BY FS_CardinalityType DEF OneCall
<1> QED BY <1>2, <1>3, <1>4 DEF OneCall

(* MaxInFlight bounds the calls in progress.                               *)
LEMMA OneCallInductive ==
    IInv /\ MaxInFlight <= 1 /\ OneCall /\ [Next]_vars => OneCall'
<1> SUFFICES ASSUME IInv, MaxInFlight <= 1, OneCall, [Next]_vars PROVE OneCall'
  OBVIOUS
<1>1. ASSUME InFlight' \subseteq InFlight PROVE OneCall'
  BY <1>1, FS_Subset, FS_CardinalityType DEF OneCall
<1>2. ASSUME NEW t \in Threads, Call(t) PROVE OneCall'
  <2>1. PICK x : th' = [th EXCEPT ![t] = x] /\ Cardinality(InFlight) < MaxInFlight
    BY <1>2 DEF Call, Malloc, Free
  <2>2. InFlight = {}
    <3>1. Cardinality(InFlight) \in Nat /\ MaxInFlight \in Nat
      BY FS_CardinalityType, HeapAssumption DEF OneCall
    <3>2. Cardinality(InFlight) = 0
      BY <2>1, <3>1
    <3> QED BY <3>2, FS_EmptySet DEF OneCall
  <2>3. InFlight' \subseteq {t}
    BY <2>1, <2>2, OthersStay DEF InFlight
  <2>4. IsFiniteSet({t}) /\ Cardinality({t}) = 1
    BY FS_Singleton
  <2> QED BY <2>3, <2>4, FS_Subset, FS_CardinalityType DEF OneCall
<1>3. ASSUME NEW t \in Threads, Continue(t) PROVE OneCall'
  <2>1. th[t].pc # "idle" \/ th' = th
    BY <1>3, PlacesApart, CallContinues DEF Inside, Crash
  <2>2. (\E x : th' = [th EXCEPT ![t] = x]) \/ th' = th
    BY <1>3, CallContinues DEF Inside, Crash
  <2>3. \A u \in Threads : th'[u].pc # "idle" => th[u].pc # "idle"
    BY <2>1, <2>2, OthersStay
  <2> QED BY <1>1, <2>3 DEF InFlight
<1>4. CASE UNCHANGED vars
  BY <1>1, <1>4 DEF vars, InFlight
<1> QED BY <1>2, <1>3, <1>4 DEF Next, Stopped

(* Nobody changes the header between reading it and using it.              *)
AllCurrent == \A t \in Threads : Current(sb, th[t])

(* heap_free reads the header, and waits for the heap's mutex.             *)
LEMMA OwnCurrent ==
    ASSUME IInv, NEW t \in Threads, Call(t) \/ Continue(t), Current(sb, th[t])
    PROVE  Current(sb', th'[t])
<1>1. th[t] \in Thread
  BY Facts DEF PlaceIn
<1>2. CASE LockSuperblock(t)
  <2> DEFINE s == th[t].s_ptr
             x == [th[t] EXCEPT !.pc = "lock_owner", !.heap = sb[s].owner,
                                !.size = sb[s].block_size]
  <2>1. th' = [th EXCEPT ![t] = x] /\ sb' = sb
    BY <1>2 DEF LockSuperblock
  <2>2. x.heap = sb[s].owner /\ x.size = sb[s].block_size /\ x.s_ptr = s
    BY <1>1 DEF Thread
  <2> HIDE DEF x
  <2> QED BY <2>1, <2>2, OthersStay DEF Current
<1>3. CASE LockOwner(t)
  <2> DEFINE x == [th[t] EXCEPT !.pc = "bin_free"]
  <2>1. th' = [th EXCEPT ![t] = x] /\ sb' = sb /\ th[t].pc = "lock_owner"
    BY <1>3 DEF LockOwner, Goto, At
  <2>2. x.heap = th[t].heap /\ x.size = th[t].size /\ x.s_ptr = th[t].s_ptr
    BY <1>1 DEF Thread
  <2> HIDE DEF x
  <2> QED BY <2>1, <2>2, OthersStay DEF Current
<1> SUFFICES ASSUME ~LockSuperblock(t), ~LockOwner(t)
             PROVE  th'[t].pc \notin { "lock_owner", "bin_free" } \/ (th' = th /\ sb' = sb)
  BY <1>2, <1>3 DEF Current
<1>4. CASE Call(t)
  <2>1. PICK x : th' = [th EXCEPT ![t] = x] /\ x.pc \in { "lock_heap", "lock_superblock" }
    BY <1>1, <1>4, CallBegins
  <2> QED BY <2>1, OthersStay
<1>5. CASE \/ LockHeap(t) \/ AskGlobal(t) \/ LockGlobal(t) \/ TakeNothing(t) \/ Adopt(t)
           \/ BinFree(t) \/ LockGlobalForTransfer(t)
  <2>1. PICK x : th' = [th EXCEPT ![t] = x] /\ x.pc \notin { "lock_owner", "bin_free" }
    BY <1>1, <1>5, PlaceMoves
  <2> QED BY <2>1, OthersStay
<1>6. CASE \/ MmapFails(t) \/ SuperblockAlloc(t) \/ FreeFromGlobal(t) \/ FreeAndKeep(t)
           \/ InsertRecycled(t) \/ InsertIntoBin(t)
  <2>1. th' = [th EXCEPT ![t] = IdleThread]
    BY <1>6, ReturnMoves
  <2>2. IdleThread.pc = "idle"
    BY DEF IdleThread
  <2> QED BY <2>1, <2>2, OthersStay
<1>7. CASE Crash(t)
  BY <1>7 DEF Crash
<1>8. CASE ChooseInBin(t) \/ Recycle(t) \/ TakeNonfull(t) \/ TakeRecycled(t)
           \/ \E s \in Superblocks : MapSuperblock(t, s)
  <2>1. PICK x : th' = [th EXCEPT ![t] = x] /\ x.pc \in { "sb_alloc", "adopt" }
    BY <1>1, <1>8, FoundKeeps
  <2> QED BY <2>1, OthersStay
<1>9. CASE GiveRecycled(t) \/ GiveEmptiest(t)
  <2>1. PICK x : th' = [th EXCEPT ![t] = x] /\ x.pc = "transfer"
    BY <1>1, <1>9, GivesMove
  <2> QED BY <2>1, OthersStay
<1> QED BY <1>4, <1>5, <1>6, <1>7, <1>8, <1>9 DEF Continue

(* A step of t moves no other thread.                                      *)
LEMMA OthersWait ==
    ASSUME IInv, NEW t \in Threads, Call(t) \/ Continue(t), NEW u \in Threads \ {t}
    PROVE  th'[u] = th[u]
<1>1. (\E x : th' = [th EXCEPT ![t] = x]) \/ th' = th
  <2>1. CASE Call(t)
    BY <2>1 DEF Call, Malloc, Free
  <2>2. CASE Continue(t)
    BY <2>2, CallContinues DEF Inside, Crash
  <2> QED BY <2>1, <2>2
<1> QED BY <1>1, OthersStay

(* While one thread is in the allocator nobody writes headers behind it.   *)
LEMMA SerialInductive ==
    IInv /\ Alone /\ AllCurrent /\ [Next]_vars => AllCurrent'
<1> SUFFICES ASSUME IInv, Alone, AllCurrent, [Next]_vars, NEW u \in Threads
             PROVE  Current(sb', th'[u])
  BY DEF AllCurrent
<1>1. Current(sb, th[u])
  BY DEF AllCurrent
<1>2. ASSUME NEW t \in Threads, t # u, Call(t) \/ Continue(t) PROVE Current(sb', th'[u])
  <2>1. th'[u] = th[u]
    BY <1>2, OthersWait
  <2>2. sb' = sb \/ th[t].pc # "idle"
    BY <1>2, CallContinues, PlacesApart DEF Call, Malloc, Free, Inside, Crash
  <2>3. CASE sb' = sb
    BY <1>1, <2>1, <2>3
  <2>4. CASE th[t].pc # "idle"
    BY <1>2, <2>1, <2>4 DEF Alone, Current
  <2> QED BY <2>2, <2>3, <2>4
<1>3. ASSUME Call(u) \/ Continue(u) PROVE Current(sb', th'[u])
  BY <1>1, <1>3, OwnCurrent
<1>4. CASE UNCHANGED vars
  BY <1>1, <1>4 DEF vars
<1> QED BY <1>2, <1>3, <1>4 DEF Next, Stopped

(* It finds the superblock in the list.                                    *)
LEMMA SerialDeletes ==
    ASSUME IInv, BlocksInv, ListInv, Alone, AllCurrent
    PROVE  DeletedFromItsList
<1> SUFFICES ASSUME NEW t \in Threads, At(t, "bin_free")
             PROVE  th[t].s_ptr \in ListOf(th[t].heap, size2idx(th[t].size),
                                           get_eidx(sb[th[t].s_ptr]))
  BY DEF DeletedFromItsList
<1>1. th[t].pc = "bin_free" /\ Current(sb, th[t])
  BY DEF At, AllCurrent
<1>2. \A u \in Threads : InHand(th[u]) = {}
  BY <1>1 DEF Alone, InHand
<1> QED BY <1>1, <1>2, FoundOnItsList

-----------------------------------------------------------------------------
(* Heaps that keep what they have                                          *)

(* No superblock moves: what a thread has read of a header stays so, and   *)
(* what it allocates from is cut for its size.                             *)
StillPlace(f, x) ==
    /\ x.pc \notin { "adopt", "transfer", "insert_global" }
    /\ Current(f, x)
    /\ x.pc = "sb_alloc" => f[x.s_ptr].block_size = SizeTable[size2idx(x.size)]
    /\ x.pc = "sb_alloc" /\ ~x.in_bin => is_superblock_empty(f[x.s_ptr])

Still == /\ \A s \in Superblocks : sb[s].owner # GlobalHeap
         /\ \A t \in Threads : StillPlace(sb, th[t])

(* The global heap has nothing to give, and no heap gives it anything.     *)
LEMMA NothingMoves ==
    ASSUME IInv, ListInv, Still, KeepsAll, NEW t \in Threads
    PROVE  /\ ~TakeNonfull(t) /\ ~TakeRecycled(t) /\ ~GiveRecycled(t) /\ ~GiveEmptiest(t)
           /\ ~Adopt(t) /\ ~LockGlobalForTransfer(t) /\ ~InsertRecycled(t) /\ ~InsertIntoBin(t)
<1>1. ASSUME TakeNonfull(t) PROVE FALSE
  <2> DEFINE b  == size2idx(th[t].size)
             bm == heap[GlobalHeap].size_bins[b]
             e  == FullestNonfull(bm)
             s  == bm.emptiness_bins[e]
  <2>1. b \in Bins /\ GlobalHeap \in Heaps /\ NonfullClasses \subseteq EmptinessClasses
    BY ThreadBin, TypedNow, NonfullClass
  <2>2. HasNonfull(bm)
    BY <1>1 DEF TakeNonfull, TakeDefined, GlobalBin
  <2>3. e \in NonfullClasses /\ s # NULL
    <3> HIDE DEF bm
    <3> QED BY <2>2, FullestFound
  <2> HIDE DEF b, e
  <2>4. s \in Mapped /\ Fits(sb[s], GlobalHeap, b, e)
    BY <2>1, <2>3, HeadListed
  <2> QED BY <2>4 DEF Still, Fits, Mapped
<1>2. ASSUME TakeRecycled(t) PROVE FALSE
  BY <1>2, TypedNow, RecycledHead DEF TakeRecycled, Still
<1>3. ASSUME GiveRecycled(t) \/ GiveEmptiest(t) PROVE FALSE
  <2>1. th[t].pc = "account" /\ th[t].heap # GlobalHeap
        /\ is_empty_enough(dec_usage(heap[th[t].heap], th[t].size))
    BY <1>3 DEF GiveRecycled, GiveEmptiest, At
  <2>2. th[t].heap \in ThreadHeaps /\ th[t].size \in Int
    BY <2>1, Facts DEF PlaceIn, Thread, FreePlaces, Heaps
  <2> QED BY <2>1, <2>2, NeverEmptyEnough
<1>4. ASSUME Adopt(t) \/ LockGlobalForTransfer(t) \/ InsertRecycled(t) \/ InsertIntoBin(t)
      PROVE  FALSE
  BY <1>4 DEF Adopt, LockGlobalForTransfer, InsertRecycled, InsertIntoBin, At, Still, StillPlace
<1> QED BY <1>1, <1>2, <1>3, <1>4

(* The global heap never becomes an owner.                                 *)
LEMMA OwnersStill ==
    ASSUME IInv, Still, NEW t \in Threads, Call(t) \/ Continue(t), NEW s \in Superblocks
    PROVE  sb'[s].owner # GlobalHeap
<1>1. HeaderMoves(t, s)
  BY HeadersMove
<1>2. th[t].pc = "map" => th[t].heap \in ThreadHeaps
  BY Facts DEF PlaceIn, AllocPlaces
<1>3. th[t].pc \notin { "adopt", "insert_global" } /\ sb[s].owner # GlobalHeap
  BY DEF Still, StillPlace
<1> QED BY <1>1, <1>2, <1>3, HeapAssumption DEF HeaderMoves

(* Where reset_superblock runs, nobody has a block or the superblock.      *)
LEMMA ResetsUnused ==
    ASSUME IInv, BlocksInv, ListInv, NEW t \in Threads, Continue(t),
           NEW s \in Mapped, Resets(t, s), HeaderMoves(t, s), ~SameBlocks(sb[s], sb'[s]),
           NEW u \in Threads \ {t}
    PROVE  /\ th[u].pc \in Returning => th[u].s_ptr # s
           /\ th[u].pc = "sb_alloc" => th[u].s_ptr # s
<1>1. th[t].pc = "bin_alloc" /\ s = heap[th[t].heap].recycled_superblock /\ s # NULL
  BY Facts DEF Resets, Mapped
<1>2. th[t].heap \in Heaps
  BY <1>1, Facts DEF PlaceIn, AllocPlaces, Heaps
<1>3. Listed(sb, heap, s) /\ is_superblock_empty(sb[s])
  BY <1>1, <1>2, RecycledHead
<1>4. ASSUME th[u].pc \in Returning, th[u].s_ptr = s PROVE FALSE
  BY <1>3, <1>4, NotEmpty
<1>5. ASSUME th[u].pc = "sb_alloc", th[u].s_ptr = s PROVE FALSE
  <2> DEFINE b == size2idx(th[u].size)
             e == get_eidx(sb[s])
  <2>1. PlaceOK(sb, heap, th[u])
    BY DEF ListInv, PlacesOK
  <2>2. th[u].in_bin
    BY <1>3, <1>5, <2>1 DEF PlaceOK, InHand
  <2>3. s \in InBin(sb, heap, th[u].heap, b, e)
    BY <1>5, <2>1, <2>2 DEF PlaceOK
  <2>4. th[u].heap \in Heaps /\ b \in Bins /\ e \in EmptinessClasses
    BY <1>5, Facts, ThreadBin, MappedClass DEF PlaceIn, AllocPlaces, Heaps, ListInv
  <2> HIDE DEF b, e
  <2>5. Fits(sb[s], th[u].heap, b, e)
    BY <2>3, <2>4 DEF ListInv, ListsOK, BinOK
  <2> QED BY <1>3, <2>5 DEF Fits
<1> QED BY <1>4, <1>5

(* A step of t leaves what another thread has read as it was.              *)
LEMMA OthersStill ==
    ASSUME IInv, BlocksInv, ListInv, Still, NEW t \in Threads, Continue(t),
           NEW u \in Threads \ {t}
    PROVE  StillPlace(sb', th[u])
<1> DEFINE y == th[u]
           s == y.s_ptr
<1>1. StillPlace(sb, y)
  BY DEF Still
<1>2. y.pc \in Returning \cup { "sb_alloc" } => s \in Mapped
  BY Facts DEF PlaceIn, FreePlaces, Returning
<1> SUFFICES ASSUME y.pc \in Returning \cup { "sb_alloc" } PROVE StillPlace(sb', y)
  BY <1>1 DEF StillPlace, Current, Returning
<1>3. s \in Mapped /\ s \in Superblocks /\ sb[s].owner # NULL
  BY <1>2 DEF Mapped
<1>4. HeaderMoves(t, s)
  BY <1>3, HeadersMove
<1>5. SameBlocks(sb[s], sb'[s]) \/ ~Resets(t, s)
  <2> HIDE DEF s
  <2> QED BY <1>3, <1>4, ResetsUnused DEF s
<1>6. sb'[s].owner = sb[s].owner
  BY <1>3, <1>4 DEF HeaderMoves, Still, StillPlace
<1>7. sb'[s].block_size = sb[s].block_size
  BY <1>4, <1>5 DEF HeaderMoves, SameBlocks
<1>8. ASSUME y.pc = "sb_alloc", ~y.in_bin PROVE is_superblock_empty(sb'[s])
  <2>1. is_superblock_empty(sb[s])
    BY <1>1, <1>8 DEF StillPlace
  <2>2. ~(th[t].pc = "bin_free" /\ s = th[t].s_ptr)
    BY <2>1, NotEmpty DEF Returning
  <2>3. ~(th[t].pc = "sb_alloc" /\ s = th[t].s_ptr)
    <3>1. s \in InHand(th[u])
      BY <1>8 DEF InHand
    <3> HIDE DEF s
    <3>2. NobodyElse(u, s)
      BY <3>1, NobodyElseHolds
    <3> QED BY <3>2 DEF NobodyElse
  <2>4. SameBlocks(sb[s], sb'[s])
    BY <1>4, <1>5, <2>2, <2>3 DEF HeaderMoves
  <2> QED BY <2>1, <2>4 DEF SameBlocks, is_superblock_empty
<1> QED BY <1>1, <1>6, <1>7, <1>8 DEF StillPlace, Current

(* A superblock that was just cut is for the thread that cut it.           *)
LEMMA CutStill ==
    ASSUME IInv, NEW t \in Threads, Recycle(t) \/ (\E s \in Superblocks : MapSuperblock(t, s))
    PROVE  StillPlace(sb', th'[t])
<1> DEFINE b == size2idx(th[t].size)
           c == SizeTable[b]
<1>1. /\ b \in Bins /\ c \in Nat \ {0} /\ sb \in [Superblocks -> SuperblockHeader(Heaps)]
      /\ th[t] \in Thread
  BY ThreadBin, SizeTableAssumption, Facts DEF PlaceIn, HeadersIn
<1>2. PICK s, r :
        /\ s \in Superblocks
        /\ th' = [th EXCEPT ![t] = [th[t] EXCEPT !.pc = "sb_alloc", !.s_ptr = s]]
        /\ sb' = [sb EXCEPT ![s] = r] /\ SameBlocks(reset_superblock(sb[s], c), r)
  <2>1. CASE Recycle(t)
    <3> DEFINE z == heap[th[t].heap].recycled_superblock
    <3>1. z # NULL /\ th[t].pc = "bin_alloc"
      BY <2>1 DEF Recycle, At
    <3>2. z \in Superblocks
      <4>1. th[t].heap \in Heaps
        BY <3>1, Facts DEF PlaceIn, AllocPlaces, Heaps
      <4> QED BY <3>1, <4>1, Facts DEF HeapIn
    <3>3. sb' = [sb EXCEPT ![z] = reset_superblock(sb[z], c)]
          /\ th' = [th EXCEPT ![t] = [th[t] EXCEPT !.pc = "sb_alloc", !.s_ptr = z]]
      BY <2>1 DEF Recycle, idx2class
    <3> HIDE DEF z
    <3> QED BY <3>2, <3>3 DEF SameBlocks
  <2>2. ASSUME NEW z \in Superblocks, MapSuperblock(t, z)
        PROVE  \E s, r :
                 /\ s \in Superblocks
                 /\ th' = [th EXCEPT ![t] = [th[t] EXCEPT !.pc = "sb_alloc", !.s_ptr = s]]
                 /\ sb' = [sb EXCEPT ![s] = r] /\ SameBlocks(reset_superblock(sb[s], c), r)
    <3> DEFINE d == idx2class(size2idx(th[t].size))
               q == reset_superblock(sb[z], d)
               r == [q EXCEPT !.owner = th[t].heap]
    <3>1. sb' = [sb EXCEPT ![z] = [reset_superblock(sb[z], d) EXCEPT !.owner = th[t].heap]]
      BY <2>2 DEF MapSuperblock
    <3>2. th' = [th EXCEPT ![t] = [th[t] EXCEPT !.pc = "sb_alloc", !.s_ptr = z]]
      BY <2>2 DEF MapSuperblock
    <3>3. d = c
      BY DEF idx2class
    <3> HIDE DEF d
    <3>4. SameBlocks(q, r)
      <4>1. q \in SuperblockHeader(Heaps)
        BY <1>1, <3>3, ResetTyped
      <4> HIDE DEF q
      <4> QED BY <4>1 DEF SameBlocks, SuperblockHeader
    <3>5. q = reset_superblock(sb[z], c)
      BY <3>3
    <3>6. sb' = [sb EXCEPT ![z] = r]
      BY <3>1
    <3> HIDE DEF q, r
    <3> QED BY <3>2, <3>4, <3>5, <3>6
  <2> QED BY <2>1, <2>2
<1>3. sb'[s] = r /\ sb[s] \in SuperblockHeader(Heaps)
  BY <1>1, <1>2
<1>4. is_superblock_empty(r) /\ r.block_size = c
  <2>1. reset_superblock(sb[s], c).block_size = c
    BY <1>1, <1>3, ResetTyped
  <2> QED BY <1>1, <1>2, <1>3, <2>1, ResetCut DEF SameBlocks
<1> DEFINE x == [th[t] EXCEPT !.pc = "sb_alloc", !.s_ptr = s]
<1>5. x.pc = "sb_alloc" /\ x.s_ptr = s /\ x.size = th[t].size
  BY <1>1 DEF Thread
<1>6. th'[t] = x
  BY <1>2, OthersStay
<1> HIDE DEF x
<1> QED BY <1>3, <1>4, <1>5, <1>6 DEF StillPlace, Current

(* A step of t leaves t where it has read or cut what it goes on with.     *)
LEMMA OwnStill ==
    ASSUME IInv, BlocksInv, ListInv, Still, KeepsAll, NEW t \in Threads,
           Call(t) \/ Continue(t)
    PROVE  StillPlace(sb', th'[t])
<1>1. Current(sb', th'[t])
  BY OwnCurrent DEF Still, StillPlace
<1>2. CASE Recycle(t) \/ (\E s \in Superblocks : MapSuperblock(t, s))
  BY <1>2, CutStill
<1>3. CASE ChooseInBin(t)
  <2> DEFINE b  == size2idx(th[t].size)
             bm == heap[th[t].heap].size_bins[b]
             e  == FullestNonfull(bm)
             s  == bm.emptiness_bins[e]
             x  == [th[t] EXCEPT !.pc = "sb_alloc", !.in_bin = TRUE, !.s_ptr = s]
  <2>1. th' = [th EXCEPT ![t] = x] /\ sb' = sb /\ th[t].pc = "bin_alloc" /\ HasNonfull(bm)
    BY <1>3 DEF ChooseInBin, At
  <2>2. b \in Bins /\ th[t].heap \in Heaps /\ NonfullClasses \subseteq EmptinessClasses
    <3>1. th[t].heap \in Heaps
      BY <2>1, Facts DEF PlaceIn, AllocPlaces, Heaps
    <3> QED BY <3>1, ThreadBin, NonfullClass
  <2>3. e \in NonfullClasses /\ s # NULL
    <3> HIDE DEF bm
    <3> QED BY <2>1, FullestFound
  <2>4. x.pc = "sb_alloc" /\ x.in_bin = TRUE /\ x.s_ptr = s /\ x.size = th[t].size
    BY Facts DEF PlaceIn, Thread
  <2> HIDE DEF e, x, b
  <2>5. Fits(sb[s], th[t].heap, b, e)
    BY <2>2, <2>3, HeadListed
  <2>6. sb[s].block_size = SizeTable[size2idx(th[t].size)]
    BY <2>5 DEF Fits, b
  <2>7. th'[t] = x
    BY <2>1, OthersStay
  <2> HIDE DEF s
  <2> QED BY <1>1, <2>1, <2>4, <2>6, <2>7 DEF StillPlace
<1>4. CASE Crash(t)
  BY <1>4 DEF Crash, Still
<1>5. ASSUME th'[t].pc \notin { "adopt", "transfer", "insert_global", "sb_alloc" }
      PROVE  StillPlace(sb', th'[t])
  BY <1>1, <1>5 DEF StillPlace
<1>6. CASE Call(t)
  <2>1. th[t] \in Thread
    BY Facts DEF PlaceIn
  <2>2. PICK x : th' = [th EXCEPT ![t] = x] /\ x.pc \in { "lock_heap", "lock_superblock" }
    BY <1>6, <2>1, CallBegins
  <2>3. th'[t] = x
    BY <2>2, OthersStay
  <2> QED BY <1>5, <2>2, <2>3
<1>7. CASE \/ LockHeap(t) \/ AskGlobal(t) \/ LockGlobal(t) \/ TakeNothing(t) \/ LockOwner(t)
           \/ BinFree(t)
  <2>1. \E pc \in { "bin_alloc", "lock_global", "get_sb_from_global", "map", "bin_free",
                     "account" } : th' = [th EXCEPT ![t].pc = pc]
    <3>1. /\ LockHeap(t) => Goto(t, "bin_alloc")
          /\ AskGlobal(t) => Goto(t, "lock_global")
          /\ LockGlobal(t) => Goto(t, "get_sb_from_global")
          /\ TakeNothing(t) => Goto(t, "map")
          /\ LockOwner(t) => Goto(t, "bin_free")
          /\ BinFree(t) => Goto(t, "account")
      BY DEF LockHeap, AskGlobal, LockGlobal, TakeNothing, LockOwner, BinFree
    <3> QED BY <1>7, <3>1 DEF Goto
  <2>2. PICK pc : /\ th' = [th EXCEPT ![t].pc = pc]
                  /\ pc \notin { "adopt", "transfer", "insert_global", "sb_alloc" }
    BY <2>1
  <2> DEFINE x == [th[t] EXCEPT !.pc = pc]
  <2>3. x.pc = pc
    BY Facts DEF PlaceIn, Thread
  <2>4. th' = [th EXCEPT ![t] = x]
    BY <2>2
  <2> HIDE DEF x
  <2>5. th'[t] = x
    BY <2>4, OthersStay
  <2> QED BY <1>5, <2>2, <2>3, <2>5
<1>8. CASE LockSuperblock(t)
  <2> DEFINE x == [th[t] EXCEPT !.pc = "lock_owner", !.heap = sb[th[t].s_ptr].owner,
                                !.size = sb[th[t].s_ptr].block_size]
  <2>1. th' = [th EXCEPT ![t] = x]
    BY <1>8 DEF LockSuperblock
  <2>2. x.pc = "lock_owner"
    BY Facts DEF PlaceIn, Thread
  <2> HIDE DEF x
  <2> QED BY <1>5, <2>1, <2>2, OthersStay
<1>9. CASE MmapFails(t) \/ SuperblockAlloc(t) \/ FreeFromGlobal(t) \/ FreeAndKeep(t)
  <2>1. th' = [th EXCEPT ![t] = IdleThread]
    BY <1>9, ReturnMoves
  <2>2. IdleThread.pc = "idle"
    BY DEF IdleThread
  <2> QED BY <1>5, <2>1, <2>2, OthersStay
<1> QED BY <1>2, <1>3, <1>4, <1>6, <1>7, <1>8, <1>9, NothingMoves DEF Continue

LEMMA StillInductive ==
    IInv /\ BlocksInv /\ ListInv /\ Still /\ KeepsAll /\ [Next]_vars => Still'
<1> SUFFICES ASSUME IInv, BlocksInv, ListInv, Still, KeepsAll, [Next]_vars PROVE Still'
  OBVIOUS
<1>1. ASSUME NEW t \in Threads, Call(t) \/ Continue(t) PROVE Still'
  <2>1. \A s \in Superblocks : sb'[s].owner # GlobalHeap
    BY <1>1, OwnersStill
  <2>2. StillPlace(sb', th'[t])
    BY <1>1, OwnStill
  <2>3. ASSUME NEW u \in Threads \ {t} PROVE StillPlace(sb', th'[u])
    <3>1. th'[u] = th[u]
      BY <1>1, OthersWait
    <3>2. CASE Call(t)
      BY <3>1, <3>2 DEF Call, Malloc, Free, Still
    <3>3. CASE Continue(t)
      BY <3>1, <3>3, OthersStill
    <3> QED BY <1>1, <3>2, <3>3
  <2> QED BY <2>1, <2>2, <2>3 DEF Still
<1>2. CASE UNCHANGED vars
  BY <1>2 DEF vars, Still
<1> QED BY <1>1, <1>2 DEF Next, Stopped

(* heap_free finds its superblock, and heap_alloc its block size.          *)
LEMMA StillSound ==
    ASSUME IInv, BlocksInv, ListInv, Still
    PROVE  DeletedFromItsList /\ AllocatesFromItsBin
<1>1. AllocatesFromItsBin
  BY DEF AllocatesFromItsBin, At, Still, StillPlace, idx2class
<1>2. ASSUME NEW t \in Threads, At(t, "bin_free")
      PROVE  th[t].s_ptr \in ListOf(th[t].heap, size2idx(th[t].size),
                                    get_eidx(sb[th[t].s_ptr]))
  <2>1. th[t].pc = "bin_free" /\ Current(sb, th[t])
    BY <1>2 DEF At, Still, StillPlace
  <2>2. \A u \in Threads : th[t].s_ptr \notin InHand(th[u])
    <3>1. ~is_superblock_empty(sb[th[t].s_ptr])
      BY <2>1, NotEmpty DEF Returning
    <3> QED BY <3>1 DEF Still, StillPlace, InHand
  <2> QED BY <2>1, <2>2, FoundOnItsList
<1> QED BY <1>1, <1>2 DEF DeletedFromItsList

(* The joint induction for small heaps...                                  *)
LEMMA StillHolds == Spec /\ []KeepsAll => [](IInv /\ BlocksInv /\ ListInv /\ Still)
<1>1. Init => IInv /\ BlocksInv /\ ListInv /\ Still
  <2>1. Init => Still
    <3> SUFFICES ASSUME Init PROVE Still
      OBVIOUS
    <3>1. /\ \A s \in Superblocks : sb[s].owner = NULL
          /\ \A t \in Threads : th[t] = IdleThread
      BY DEF Init, Unmapped
    <3>2. IdleThread.pc = "idle" /\ GlobalHeap # NULL
      BY HeapAssumption DEF IdleThread, Heaps
    <3> QED BY <3>1, <3>2 DEF Still, StillPlace, Current
  <2> QED BY <2>1, Initially, BlocksInitially, ListInitially
<1>2. IInv /\ BlocksInv /\ ListInv /\ Still /\ KeepsAll /\ [Next]_vars
      => (IInv /\ BlocksInv /\ ListInv /\ Still)'
  <2>1. IInv /\ BlocksInv /\ ListInv => RecycledEmpty
    BY ListInvEmpty
  <2>2. IInv /\ BlocksInv /\ ListInv /\ Still => DeletedFromItsList /\ AllocatesFromItsBin
    BY StillSound
  <2> QED BY <2>1, <2>2, Inductive, BlocksInductive, ListInductive, StillInductive
<1> QED BY <1>1, <1>2, PTL DEF Spec

(* ... and for one call at a time.                                         *)
LEMMA SerialHolds ==
    ASSUME MaxInFlight <= 1
    PROVE  Spec /\ []AllocatesFromItsBin
           => [](IInv /\ BlocksInv /\ ListInv /\ DeletedFromItsList)
<1>1. Init => IInv /\ BlocksInv /\ ListInv /\ OneCall /\ AllCurrent
  <2> SUFFICES ASSUME Init PROVE OneCall /\ AllCurrent
    BY Initially, BlocksInitially, ListInitially
  <2>1. \A t \in Threads : th[t].pc = "idle"
    BY DEF Init, IdleThread
  <2>2. InFlight = {}
    BY <2>1 DEF InFlight
  <2> QED BY <2>1, <2>2, FS_EmptySet DEF OneCall, AllCurrent, Current
<1>2. IInv /\ BlocksInv /\ ListInv /\ OneCall /\ AllCurrent => DeletedFromItsList
  BY OneCallAlone, SerialDeletes
<1>3. IInv /\ BlocksInv /\ ListInv /\ OneCall /\ AllCurrent
      /\ AllocatesFromItsBin /\ [Next]_vars
      => (IInv /\ BlocksInv /\ ListInv /\ OneCall /\ AllCurrent)'
  <2>1. IInv /\ BlocksInv /\ ListInv => RecycledEmpty
    BY ListInvEmpty
  <2> QED BY <1>2, <2>1, OneCallAlone, Inductive, BlocksInductive, ListInductive,
             OneCallInductive, SerialInductive
<1> QED BY <1>1, <1>2, <1>3, PTL DEF Spec

-----------------------------------------------------------------------------
(* Where the hypotheses hold                                               *)

(* All that is proved of a state: no two blocks overlap and none is lost,  *)
(* the lists and `alloced' are exact, what is recycled is empty, and no    *)
(* pointer is followed to nowhere.                                         *)
Safe == /\ BlocksDisjoint /\ EveryBlockAccounted
        /\ BinsSound /\ OnOneListOnly /\ RecycledEmpty
        /\ AllocedExact /\ NoCrash

LEMMA InvariantsAreSafe == IInv /\ BlocksInv /\ ListInv => Safe
  BY BlocksInvImplies, ListInvSound, ListInvApart, ListInvEmpty, ListInvExact DEF Safe

(* As long as no heap has more than FREE_SB_THRESH superblocks, any number *)
(* of threads may allocate and free blocks of any sizes.                   *)
THEOREM SmallHeapsAreSafe == Spec /\ []KeepsAll => []Safe
<1> QED BY StillHolds, InvariantsAreSafe, PTL

(* Such heaps delete what is in the list, and allocate from the right bin: *)
(* heap_free's unprotected read of the owner is harmless there.            *)
THEOREM SmallHeapsFindTheirLists ==
    Spec /\ []KeepsAll => [](DeletedFromItsList /\ AllocatesFromItsBin)
<1>1. IInv /\ BlocksInv /\ ListInv /\ Still => DeletedFromItsList /\ AllocatesFromItsBin
  BY StillSound
<1> QED BY <1>1, StillHolds, PTL

(* To the program such heaps are malloc and free.                          *)
THEOREM SmallHeapsImplementAllocator == Spec /\ []KeepsAll => ImplementsAllocator
<1>1. Safe => RecycledEmpty
  BY DEF Safe
<1> QED BY <1>1, SmallHeapsAreSafe, SmallHeapsFindTheirLists, HeapImplementsAllocator, PTL

LEMMA FewKeepAll ==
    ASSUME Cardinality(Superblocks) <= FREE_SB_THRESH
    PROVE  KeepsAll
<1> SUFFICES ASSUME NEW h \in ThreadHeaps
             PROVE  Cardinality(Owned(h)) <= FREE_SB_THRESH
  BY DEF KeepsAll
<1>1. /\ IsFiniteSet(Superblocks) /\ IsFiniteSet(Owned(h))
      /\ Cardinality(Owned(h)) <= Cardinality(Superblocks)
  BY AddressSpaceAssumption, FS_Subset DEF Owned
<1>2. Cardinality(Owned(h)) \in Nat /\ Cardinality(Superblocks) \in Nat
      /\ FREE_SB_THRESH \in Nat
  BY <1>1, FS_CardinalityType, HeapAssumption
<1> QED BY <1>1, <1>2

(* With no more superblocks than that, the code needs no other hypothesis. *)
THEOREM FewSuperblocksAreSafe ==
    ASSUME Cardinality(Superblocks) <= FREE_SB_THRESH
    PROVE  Spec => []Safe /\ ImplementsAllocator
<1> QED BY FewKeepAll, SmallHeapsAreSafe, SmallHeapsImplementAllocator, PTL

(* A program that makes one call at a time deletes what is in the list,    *)
(* provided that blocks come from the right bin.                           *)
THEOREM SerialCallsAreSafe ==
    ASSUME MaxInFlight <= 1
    PROVE  Spec /\ []AllocatesFromItsBin => [](DeletedFromItsList /\ Safe)
<1> QED BY SerialHolds, InvariantsAreSafe, PTL

(* They do if all sizes that the program asks for have the same bin, in    *)
(* whatever order threads call and superblocks move.                       *)
THEOREM OneBinIsItsOwn ==
    ASSUME OneBin
    PROVE  Spec => []AllocatesFromItsBin
<1>1. IInv /\ CutForRequests => AllocatesFromItsBin
  BY OneBinAllocates
<1> QED BY <1>1, InvariantHolds, CutForRequestsHolds, PTL

(* One call at a time and one bin: the code needs no other hypothesis,     *)
(* though superblocks go to the global heap and come back.                 *)
THEOREM SerialOneBinIsSafe ==
    ASSUME MaxInFlight <= 1, OneBin
    PROVE  Spec => []Safe /\ ImplementsAllocator
<1>1. Safe => RecycledEmpty
  BY DEF Safe
<1> QED BY <1>1, SerialCallsAreSafe, OneBinIsItsOwn, HeapImplementsAllocator, PTL

-----------------------------------------------------------------------------
(* Usage statistics                                                        *)

(* What one superblock with header r adds to the used bytes of heap h.     *)
Part(r, h) == IF r.owner = h THEN used_bytes(r) ELSE 0

Bytes(f, h, S) ==
    UNION { {q} \X (1 .. used_bytes(f[q])) : q \in { q \in S : f[q].owner = h } }

LEMMA UsedIsBytes == \A h : UsedBytes(h) = Cardinality(Bytes(sb, h, Superblocks))
  BY DEF UsedBytes, Owned, Bytes

(* What blocks in use leave of the buffer.                                 *)
LEMMA UsedInBuffer ==
    ASSUME NEW r \in SuperblockHeader(Heaps), NEW P, NEW B, NEW T, BlocksOK(r, P, B, T)
    PROVE  /\ used_bytes(r) \in 0 .. SUPERBLOCK_SIZE
           /\ used_bytes(r) = (Cardinality(P) + Cardinality(B)) * r.block_size
           /\ is_superblock_empty(r) => used_bytes(r) = 0
<1> DEFINE n == Cardinality(P) + Cardinality(B)
<1>1. /\ r.total_blocks \in Nat /\ r.block_size \in Nat \ {0} /\ r.num_free_blocks \in Nat
      /\ n \in Nat
  BY HeaderTypes, FS_CardinalityType DEF BlocksOK
<1>2. r.total_blocks - r.num_free_blocks = n
  BY DEF BlocksOK
<1> HIDE DEF n
<1>3. n <= r.total_blocks /\ used_bytes(r) = n * r.block_size
  BY <1>1, <1>2 DEF used_bytes
<1>4. n * r.block_size <= r.total_blocks * r.block_size
  BY <1>1, <1>3, TimesMonotone
<1>5. r.total_blocks * r.block_size <= BufferSize /\ BufferSize <= SUPERBLOCK_SIZE
      /\ BufferSize \in Nat /\ SUPERBLOCK_SIZE \in Nat
  BY SizesAssumption DEF BlocksOK, HeaderOK, BufferSize
<1>6. n * r.block_size \in Nat /\ r.total_blocks * r.block_size \in Nat
  BY <1>1
<1>7. is_superblock_empty(r) => n = 0
  BY <1>1, <1>2 DEF is_superblock_empty
<1>8. 0 * r.block_size = 0
  BY <1>1
<1> QED BY <1>3, <1>4, <1>5, <1>6, <1>7, <1>8 DEF n

(* The used bytes are finite, and those of one superblock can be told from *)
(* the others'.                                                            *)
LEMMA BytesSplit ==
    ASSUME NEW f, NEW h, NEW s \in Superblocks,
           \A q \in Superblocks : f[q].owner = h => used_bytes(f[q]) \in 0 .. SUPERBLOCK_SIZE
    PROVE  /\ Cardinality(Bytes(f, h, Superblocks \ {s})) \in Nat /\ Part(f[s], h) \in Nat
           /\ Cardinality(Bytes(f, h, Superblocks))
                = Cardinality(Bytes(f, h, Superblocks \ {s})) + Part(f[s], h)
<1> DEFINE Rest == Bytes(f, h, Superblocks \ {s})
           n    == used_bytes(f[s])
           Own  == {s} \X (1 .. n)
<1>1. ASSUME NEW q \in Superblocks, f[q].owner = h
      PROVE  IsFiniteSet({q} \X (1 .. used_bytes(f[q])))
             /\ Cardinality({q} \X (1 .. used_bytes(f[q]))) = used_bytes(f[q])
  <2> DEFINE m == used_bytes(f[q])
             A == {q}
             D == 1 .. m
  <2>1. m \in Nat
    BY <1>1, SizesAssumption
  <2> HIDE DEF m
  <2>2. IsFiniteSet(A) /\ Cardinality(A) = 1
    BY FS_Singleton
  <2>3. IsFiniteSet(D) /\ Cardinality(D) = m
    BY <2>1, FS_Interval
  <2> HIDE DEF A, D
  <2>4. IsFiniteSet(A \X D) /\ Cardinality(A \X D) = Cardinality(A) * Cardinality(D)
    BY <2>2, <2>3, FS_Product
  <2>5. Cardinality(A \X D) = m
    BY <2>1, <2>2, <2>3, <2>4
  <2> QED BY <2>4, <2>5 DEF m, A, D
<1>2. IsFiniteSet(Rest)
  <2> DEFINE I == 1 .. SUPERBLOCK_SIZE
  <2>1. IsFiniteSet(I)
    BY SizesAssumption, FS_Interval
  <2>2. Rest \subseteq Superblocks \X I
    BY SizesAssumption DEF Bytes
  <2> HIDE DEF I, Rest
  <2>3. IsFiniteSet(Superblocks \X I)
    BY <2>1, AddressSpaceAssumption, FS_Product
  <2> QED BY <2>2, <2>3, FS_Subset
<1>3. Cardinality(Rest) \in Nat
  BY <1>2, FS_CardinalityType
<1>4. CASE f[s].owner = h
  <2>1. Bytes(f, h, Superblocks) = Rest \cup Own
    BY <1>4 DEF Bytes
  <2>2. Rest \cap Own = {}
    BY DEF Bytes
  <2>3. IsFiniteSet(Own) /\ Cardinality(Own) = n /\ n \in Nat
    BY <1>1, <1>4, SizesAssumption
  <2> HIDE DEF Rest, Own, n
  <2>4. Cardinality(Rest \cup Own) = Cardinality(Rest) + Cardinality(Own)
    <3>1. Cardinality(Rest \cup Own)
            = Cardinality(Rest) + Cardinality(Own) - Cardinality(Rest \cap Own)
      BY <1>2, <2>3, FS_Union
    <3>2. Cardinality(Rest \cap Own) = 0
      BY <2>2, FS_EmptySet
    <3> QED BY <1>3, <2>3, <3>1, <3>2
  <2>5. Part(f[s], h) = n
    BY <1>4 DEF Part, n
  <2> QED BY <1>3, <2>1, <2>3, <2>4, <2>5 DEF Rest
<1>5. CASE f[s].owner # h
  <2>1. Bytes(f, h, Superblocks) = Rest
    BY <1>5 DEF Bytes
  <2>2. Part(f[s], h) = 0
    BY <1>5 DEF Part
  <2> HIDE DEF Rest
  <2> QED BY <1>3, <2>1, <2>2 DEF Rest
<1> QED BY <1>4, <1>5

Ranged(f) == \A q \in Superblocks :
                f[q].owner # NULL => used_bytes(f[q]) \in 0 .. SUPERBLOCK_SIZE

LEMMA RangedNow == IInv /\ BlocksInv => Ranged(sb)
<1> SUFFICES ASSUME IInv, BlocksInv, NEW q \in Mapped
             PROVE  used_bytes(sb[q]) \in 0 .. SUPERBLOCK_SIZE
  BY DEF Ranged, Mapped
<1>1. sb[q] \in SuperblockHeader(Heaps) /\ BlocksOK(sb[q], HeldIn(q), BeingFreed(q), th)
  BY DEF BlocksInv, IInv, HeadersOK, HeadersIn, Mapped
<1> QED BY <1>1, UsedInBuffer

LEMMA RangedNext == IInv' /\ BlocksInv' => Ranged(sb')
<1> SUFFICES ASSUME IInv', BlocksInv', NEW q \in Mapped'
             PROVE  used_bytes(sb'[q]) \in 0 .. SUPERBLOCK_SIZE
  BY DEF Ranged, Mapped
<1>1. sb'[q] \in SuperblockHeader(Heaps) /\ BlocksOK(sb'[q], HeldIn(q)', BeingFreed(q)', th')
  BY DEF BlocksInv, IInv, HeadersOK, HeadersIn, Mapped
<1> QED BY <1>1, UsedInBuffer

(* A step that writes one superblock.                                      *)
LEMMA OneUsed ==
    ASSUME Ranged(sb), Ranged(sb'), NEW s \in Superblocks, NEW h \in ThreadHeaps,
           \A q \in Superblocks \ {s} : sb'[q].owner = sb[q].owner
                                        /\ used_bytes(sb'[q]) = used_bytes(sb[q])
    PROVE  /\ UsedBytes(h) \in Nat /\ UsedBytes(h)' \in Nat
           /\ Part(sb[s], h) \in Nat /\ Part(sb'[s], h) \in Nat
           /\ UsedBytes(h)' = UsedBytes(h) - Part(sb[s], h) + Part(sb'[s], h)
<1> DEFINE A == Cardinality(Bytes(sb, h, Superblocks \ {s}))
           B == Cardinality(Bytes(sb', h, Superblocks \ {s}))
<1>1. h # NULL
  BY HeapAssumption DEF Heaps
<1>2. A \in Nat /\ Part(sb[s], h) \in Nat /\ UsedBytes(h) = A + Part(sb[s], h)
  BY <1>1, BytesSplit, UsedIsBytes DEF Ranged
<1>3. UsedBytes(h)' = Cardinality(Bytes(sb', h, Superblocks))
  BY DEF UsedBytes, Owned, Bytes
<1>4. B \in Nat /\ Part(sb'[s], h) \in Nat /\ UsedBytes(h)' = B + Part(sb'[s], h)
  BY <1>1, <1>3, BytesSplit DEF Ranged
<1>5. A = B
  <2>1. Bytes(sb, h, Superblocks \ {s}) = Bytes(sb', h, Superblocks \ {s})
    BY DEF Bytes
  <2> QED BY <2>1
<1> HIDE DEF A, B
<1> QED BY <1>2, <1>4, <1>5

(* A step that writes none.                                                *)
LEMMA NoneUsed ==
    ASSUME Ranged(sb), NEW h \in ThreadHeaps,
           \A q \in Superblocks : /\ sb'[q].owner = h <=> sb[q].owner = h
                                  /\ sb[q].owner = h => used_bytes(sb'[q]) = used_bytes(sb[q])
    PROVE  UsedBytes(h)' = UsedBytes(h)
<1>1. { q \in Superblocks : sb'[q].owner = h } = Owned(h)
  BY DEF Owned
<1>2. { {q} \X (1 .. used_bytes(sb'[q])) : q \in Owned(h) }
        = { {q} \X (1 .. used_bytes(sb[q])) : q \in Owned(h) }
  BY DEF Owned
<1> QED BY <1>1, <1>2 DEF UsedBytes, Owned

LEMMA UsedNatural ==
    ASSUME Ranged(sb), NEW h \in ThreadHeaps
    PROVE  UsedBytes(h) \in Nat
<1>1. CASE Superblocks = {}
  <2>1. UNION { {q} \X (1 .. used_bytes(sb[q])) : q \in Owned(h) } = {}
    BY <1>1 DEF Owned
  <2> QED BY <2>1, FS_EmptySet DEF UsedBytes
<1>2. CASE Superblocks # {}
  <2>1. PICK s : s \in Superblocks
    BY <1>2
  <2>2. h # NULL
    BY HeapAssumption DEF Heaps
  <2>3. \A q \in Superblocks : sb[q].owner = h => used_bytes(sb[q]) \in 0 .. SUPERBLOCK_SIZE
    BY <2>2 DEF Ranged
  <2>4. /\ Cardinality(Bytes(sb, h, Superblocks \ {s})) \in Nat /\ Part(sb[s], h) \in Nat
        /\ Cardinality(Bytes(sb, h, Superblocks))
             = Cardinality(Bytes(sb, h, Superblocks \ {s})) + Part(sb[s], h)
    BY <2>1, <2>3, BytesSplit
  <2> QED BY <2>4, UsedIsBytes
<1> QED BY <1>1, <1>2

(* The statistics as numbers, where they do not wrap around.               *)
LEMMA StatisticsAdd ==
    ASSUME NEW y \in HeapRecord, NEW n \in Nat
    PROVE  /\ y.in_use + n < SIZE_MOD => inc_usage(y, n).in_use = y.in_use + n
           /\ n <= y.in_use => dec_usage(y, n).in_use = y.in_use - n
           /\ inc_alloced(y, n).in_use = y.in_use
           /\ dec_alloced(y, n).in_use = y.in_use
<1>1. y.in_use \in 0 .. SIZE_MOD - 1 /\ SIZE_MOD \in Nat
  BY HeapAssumption DEF HeapRecord
<1>2. \A in_use : [y EXCEPT !.in_use = in_use].in_use = in_use
  BY DEF HeapRecord
<1>3. \A in_use, max : [y EXCEPT !.in_use = in_use, !.max_in_use = max].in_use = in_use
  BY DEF HeapRecord
<1>4. \A alloced : [y EXCEPT !.alloced = alloced].in_use = y.in_use
  BY DEF HeapRecord
<1>5. \A alloced, max : [y EXCEPT !.alloced = alloced, !.max_alloced = max].in_use = y.in_use
  BY DEF HeapRecord
<1>6. /\ inc_usage(y, n).in_use = (y.in_use + n) % SIZE_MOD
      /\ dec_usage(y, n).in_use = (y.in_use - n) % SIZE_MOD
      /\ inc_alloced(y, n).in_use = y.in_use
      /\ dec_alloced(y, n).in_use = y.in_use
  BY <1>2, <1>3, <1>4, <1>5 DEF inc_usage, dec_usage, inc_alloced, dec_alloced
<1>7. y.in_use + n < SIZE_MOD => (y.in_use + n) % SIZE_MOD = y.in_use + n
  BY <1>1
<1>8. n <= y.in_use => (y.in_use - n) % SIZE_MOD = y.in_use - n
  <2>1. n <= y.in_use => y.in_use - n \in 0 .. SIZE_MOD - 1
    BY <1>1
  <2> QED BY <1>1, <2>1
<1> QED BY <1>6, <1>7, <1>8

(* in_use covers what is used, and between BinFree and dec_usage the block *)
(* that is no longer used too.                                             *)
UsageOK ==
    \A h \in ThreadHeaps :
        /\ UsedBytes(h) <= heap[h].in_use
        /\ \A t \in Threads : th[t].pc = "account" /\ th[t].heap = h =>
             UsedBytes(h) + th[t].size <= heap[h].in_use

(* What heap_free has read is a size of the table.                         *)
SizesRead == \A t \in Threads :
    th[t].pc \in { "lock_owner", "bin_free", "account" } =>
        \E b \in Bins : th[t].size = SizeTable[b]

(* No usage has grown to where it wraps around.                            *)
UsageFits == \A h \in ThreadHeaps : heap[h].in_use + SUPERBLOCK_SIZE < SIZE_MOD

LEMMA InUseTyped ==
    ASSUME IInv, NEW h \in ThreadHeaps
    PROVE  heap[h] \in HeapRecord /\ heap[h].in_use \in 0 .. SIZE_MOD - 1 /\ heap[h].in_use \in Nat
<1>1. heap[h] \in HeapRecord
  BY TypedNow DEF Heaps
<1> QED BY <1>1, HeapAssumption DEF HeapRecord

LEMMA InUseTypedNext ==
    ASSUME IInv', NEW h \in ThreadHeaps
    PROVE  heap'[h].in_use \in Nat
<1>1. heap'[h] \in HeapRecord
  BY DEF IInv, HeapsOK, Heaps
<1> QED BY <1>1, HeapAssumption DEF HeapRecord

(* A step after which the usage covers at least as much as before.         *)
LEMMA UsageKept ==
    ASSUME IInv, IInv', Ranged(sb), UsageOK, NEW t \in Threads,
           \A u \in Threads \ {t} : th'[u] = th[u],
           \A h \in ThreadHeaps :
             /\ UsedBytes(h)' \in Nat
             /\ UsedBytes(h)' - UsedBytes(h) <= heap'[h].in_use - heap[h].in_use
             /\ th'[t].pc = "account" /\ th'[t].heap = h =>
                  UsedBytes(h)' + th'[t].size <= heap'[h].in_use
    PROVE  UsageOK'
<1> SUFFICES ASSUME NEW h \in ThreadHeaps
             PROVE  /\ UsedBytes(h)' <= heap'[h].in_use
                    /\ \A u \in Threads : th'[u].pc = "account" /\ th'[u].heap = h =>
                         UsedBytes(h)' + th'[u].size <= heap'[h].in_use
  BY DEF UsageOK
<1>1. /\ UsedBytes(h) \in Nat /\ UsedBytes(h)' \in Nat
      /\ heap[h].in_use \in Nat /\ heap'[h].in_use \in Nat
  BY UsedNatural, InUseTyped, InUseTypedNext
<1>2. /\ UsedBytes(h) <= heap[h].in_use
      /\ UsedBytes(h)' - UsedBytes(h) <= heap'[h].in_use - heap[h].in_use
  BY DEF UsageOK
<1>3. ASSUME NEW u \in Threads \ {t}, th'[u].pc = "account", th'[u].heap = h
      PROVE  UsedBytes(h)' + th'[u].size <= heap'[h].in_use
  <2>1. UsedBytes(h) + th[u].size <= heap[h].in_use
    BY <1>3 DEF UsageOK
  <2>2. th[u].size \in Nat
    BY Facts DEF Thread
  <2> QED BY <1>1, <1>2, <1>3, <2>1, <2>2
<1> QED BY <1>1, <1>2, <1>3

(* The same for one that leaves all usage and all used bytes alone.        *)
LEMMA UsageQuiet ==
    ASSUME IInv, IInv', Ranged(sb), UsageOK, NEW t \in Threads,
           \A u \in Threads \ {t} : th'[u] = th[u], th'[t].pc # "account",
           \A h \in ThreadHeaps : heap'[h].in_use = heap[h].in_use,
           \A h \in ThreadHeaps, q \in Superblocks :
             /\ sb'[q].owner = h <=> sb[q].owner = h
             /\ sb[q].owner = h => used_bytes(sb'[q]) = used_bytes(sb[q])
    PROVE  UsageOK'
<1>1. \A h \in ThreadHeaps :
        /\ UsedBytes(h)' = UsedBytes(h) /\ UsedBytes(h) \in Nat /\ heap[h].in_use \in Nat
  BY NoneUsed, UsedNatural, InUseTyped
<1> QED BY <1>1, UsageKept

(* dec_usage pays for the freed block.                                     *)
LEMMA UsagePaid ==
    ASSUME IInv, IInv', Ranged(sb), UsageOK, NEW t \in Threads,
           \A u \in Threads \ {t} : th'[u] = th[u], th'[t].pc # "account",
           th[t].pc = "account", th[t].heap \in ThreadHeaps,
           heap'[th[t].heap].in_use = dec_usage(heap[th[t].heap], th[t].size).in_use,
           \A h \in ThreadHeaps \ {th[t].heap} : heap'[h].in_use = heap[h].in_use,
           SameButLinks(sb, sb')
    PROVE  UsageOK'
<1> PICK g \in ThreadHeaps : g = th[t].heap
  OBVIOUS
<1> DEFINE n == th[t].size
<1>1. n \in Nat /\ heap[g] \in HeapRecord /\ heap[g].in_use \in Nat
  BY Facts, InUseTyped DEF Thread
<1>2. ASSUME NEW h \in ThreadHeaps
      PROVE  UsedBytes(h)' = UsedBytes(h) /\ UsedBytes(h) \in Nat
  BY NoneUsed, UsedNatural DEF SameButLinks, SameBlocks, used_bytes
<1>3. UsedBytes(g) + n <= heap[g].in_use
  BY DEF UsageOK
<1>4. heap'[g].in_use = heap[g].in_use - n
  BY <1>1, <1>2, <1>3, StatisticsAdd
<1>5. UsedBytes(g)' <= heap'[g].in_use
  <2>1. UsedBytes(g)' = UsedBytes(g) /\ UsedBytes(g) \in Nat
    BY <1>2
  <2> HIDE DEF n
  <2> QED BY <1>1, <1>3, <1>4, <2>1
<1>6. \A u \in Threads \ {t} : ~(th[u].pc = "account" /\ th[u].heap = g)
  <2> SUFFICES ASSUME NEW u \in Threads \ {t}, th[u].pc = "account", th[u].heap = g
               PROVE  FALSE
    OBVIOUS
  <2>1. g \in Heaps /\ g \in LocksOf(t) /\ g \in LocksOf(u)
    BY DEF LocksOf, Heaps
  <2> QED BY <2>1, HoldsLock
<1> SUFFICES ASSUME NEW h \in ThreadHeaps
             PROVE  /\ UsedBytes(h)' <= heap'[h].in_use
                    /\ \A u \in Threads : th'[u].pc = "account" /\ th'[u].heap = h =>
                         UsedBytes(h)' + th'[u].size <= heap'[h].in_use
  BY DEF UsageOK
<1>7. CASE h = g
  <2>1. \A u \in Threads : ~(th'[u].pc = "account" /\ th'[u].heap = g)
    BY <1>6
  <2> QED BY <1>5, <1>7, <2>1
<1>8. CASE h # g
  BY <1>2, <1>8 DEF UsageOK
<1> QED BY <1>7, <1>8

-----------------------------------------------------------------------------
(* Each step's usage                                                       *)

(* What the steps of t start from.                                         *)
UsageNow == /\ IInv /\ BlocksInv /\ ListInv /\ UsageOK /\ SizesRead /\ UsageFits
            /\ Ranged(sb)

LEMMA QuietUsage ==
    ASSUME UsageNow, IInv', NEW t \in Threads,
           \/ \E size \in Requests : Malloc(t, size)
           \/ \E p \in held : Free(t, p)
           \/ LockHeap(t) \/ ChooseInBin(t) \/ AskGlobal(t) \/ LockGlobal(t)
           \/ TakeNothing(t) \/ LockSuperblock(t) \/ LockOwner(t) \/ FreeFromGlobal(t)
           \/ LockGlobalForTransfer(t)
    PROVE  UsageOK'
<1>1. sb' = sb /\ heap' = heap
  BY DEF Malloc, Free, LockHeap, ChooseInBin, AskGlobal, LockGlobal, TakeNothing,
     LockSuperblock, LockOwner, FreeFromGlobal, LockGlobalForTransfer
<1>2. th[t] \in Thread
  BY Facts DEF UsageNow, PlaceIn
<1>3. th'[t].pc # "account" /\ \A u \in Threads \ {t} : th'[u] = th[u]
  <2>1. PICK x : th' = [th EXCEPT ![t] = x] /\ x.pc # "account"
    <3>1. CASE FreeFromGlobal(t)
      <4>1. th' = [th EXCEPT ![t] = IdleThread]
        BY <3>1, ReturnMoves
      <4>2. IdleThread.pc = "idle"
        BY DEF IdleThread
      <4> QED BY <4>1, <4>2
    <3>2. CASE \/ LockHeap(t) \/ AskGlobal(t) \/ LockGlobal(t) \/ TakeNothing(t)
               \/ LockOwner(t) \/ LockGlobalForTransfer(t)
      <4>1. ~BinFree(t)
        BY <3>2 DEF LockHeap, AskGlobal, LockGlobal, TakeNothing, LockOwner,
           LockGlobalForTransfer, BinFree, At
      <4> QED BY <1>2, <3>2, <4>1, PlaceMoves
    <3>3. CASE ChooseInBin(t)
      BY <1>2, <3>3, FoundKeeps
    <3>4. CASE LockSuperblock(t)
      <4> DEFINE y == [th[t] EXCEPT !.pc = "lock_owner", !.heap = sb[th[t].s_ptr].owner,
                                    !.size = sb[th[t].s_ptr].block_size]
      <4>1. th' = [th EXCEPT ![t] = y]
        BY <3>4 DEF LockSuperblock
      <4>2. y.pc = "lock_owner"
        BY <1>2 DEF Thread
      <4> HIDE DEF y
      <4> QED BY <4>1, <4>2
    <3>5. CASE (\E size \in Requests : Malloc(t, size)) \/ (\E p \in held : Free(t, p))
      <4>1. Call(t)
        BY <3>5 DEF Call
      <4> QED BY <1>2, <4>1, CallBegins
    <3> QED BY <3>1, <3>2, <3>3, <3>4, <3>5
  <2>2. IInv
    BY DEF UsageNow
  <2> QED BY <2>1, <2>2, OthersStay
<1> QED BY <1>1, <1>3, UsageQuiet DEF UsageNow

(* Taking a superblock from the global heap, and recutting an empty one.   *)
LEMMA TakeUsage ==
    ASSUME UsageNow, IInv', NEW t \in Threads,
           TakeNonfull(t) \/ TakeRecycled(t)
    PROVE  UsageOK'
<1>1. SameButLinks(sb, sb')
  <2>1. TakeRecycled(t) => sb' = sb
    BY DEF TakeRecycled
  <2> QED BY <2>1, TakeNonfullHeaders DEF UsageNow, SameButLinks, SameBlocks
<1>2. \A h \in ThreadHeaps : heap'[h].in_use = heap[h].in_use
  <2> SUFFICES ASSUME NEW h \in ThreadHeaps PROVE heap'[h] = heap[h]
    OBVIOUS
  <2>1. h # GlobalHeap /\ h \in Heaps
    BY HeapAssumption DEF Heaps
  <2>2. heap \in [Heaps -> HeapRecord]
    BY TypedNow DEF UsageNow
  <2> QED BY <2>1, <2>2 DEF TakeNonfull, TakeRecycled
<1>3. th'[t].pc = "adopt" /\ \A u \in Threads \ {t} : th'[u] = th[u]
  BY Facts DEF UsageNow, TakeNonfull, TakeRecycled, Thread
<1> QED BY <1>1, <1>2, <1>3, UsageQuiet DEF UsageNow, SameButLinks, SameBlocks, used_bytes

LEMMA RecycleUsage ==
    ASSUME UsageNow, IInv', Ranged(sb'), NEW t \in Threads, Recycle(t)
    PROVE  UsageOK'
<1> DEFINE g == th[t].heap
           s == heap[g].recycled_superblock
           c == SizeTable[size2idx(th[t].size)]
           r == reset_superblock(sb[s], c)
<1>1. /\ th[t].pc = "bin_alloc" /\ s # NULL
      /\ sb' = [sb EXCEPT ![s] = r]
      /\ \E v : heap' = [heap EXCEPT ![g].recycled_superblock = v]
      /\ th' = [th EXCEPT ![t].pc = "sb_alloc", ![t].s_ptr = s]
  BY DEF Recycle, At, idx2class
<1>2. g \in Heaps /\ heap \in [Heaps -> HeapRecord] /\ sb \in [Superblocks -> SuperblockHeader(Heaps)]
  BY <1>1, Facts, TypedNow DEF UsageNow, PlaceIn, AllocPlaces, Heaps
<1>3. /\ s \in Superblocks /\ s \in Mapped /\ is_superblock_empty(sb[s])
  BY <1>1, <1>2, RecycledHead DEF UsageNow
<1>4. c \in Nat \ {0}
  BY ThreadBin, SizeTableAssumption DEF UsageNow
<1>5. /\ sb[s] \in SuperblockHeader(Heaps)
      /\ BlocksOK(sb[s], HeldIn(s), BeingFreed(s), th)
  BY <1>2, <1>3 DEF UsageNow, BlocksInv
<1> HIDE DEF s, c, g
<1>6. used_bytes(sb[s]) = 0
  BY <1>3, <1>5, UsedInBuffer
<1>7. r.owner = sb[s].owner /\ used_bytes(r) = 0
  <2>1. r \in SuperblockHeader(Heaps)
    BY <1>4, <1>5, ResetTyped
  <2>2. r.owner = sb[s].owner /\ r.num_free_blocks = r.total_blocks
    BY <1>5 DEF reset_superblock, SuperblockHeader
  <2>3. r.total_blocks \in Nat /\ r.block_size \in Nat
    BY <2>1, HeaderTypes
  <2> HIDE DEF r
  <2>4. (r.total_blocks - r.num_free_blocks) * r.block_size = 0
    BY <2>2, <2>3
  <2> QED BY <2>2, <2>4 DEF used_bytes
<1> HIDE DEF r
<1>8. \A q \in Superblocks : sb'[q] = IF q = s THEN r ELSE sb[q]
  BY <1>1, <1>2
<1>9. \A h \in ThreadHeaps : heap'[h].in_use = heap[h].in_use
  <2> SUFFICES ASSUME NEW h \in ThreadHeaps PROVE heap'[h].in_use = heap[h].in_use
    OBVIOUS
  <2>1. h \in Heaps /\ heap[h] \in HeapRecord
    BY <1>2 DEF Heaps
  <2> QED BY <1>1, <1>2, <2>1 DEF HeapRecord
<1>10. th'[t].pc = "sb_alloc" /\ \A u \in Threads \ {t} : th'[u] = th[u]
  BY <1>1, Facts DEF UsageNow, Thread
<1> QED BY <1>6, <1>7, <1>8, <1>9, <1>10, UsageQuiet DEF UsageNow

LEMMA MapUsage ==
    ASSUME UsageNow, IInv', BlocksInv', Ranged(sb'), NEW t \in Threads, NEW s \in Superblocks,
           MapSuperblock(t, s)
    PROVE  UsageOK'
<1> DEFINE c == SizeTable[size2idx(th[t].size)]
           q == reset_superblock(sb[s], c)
           r == [q EXCEPT !.owner = th[t].heap]
<1> PICK g \in ThreadHeaps : g = th[t].heap
  BY Facts DEF UsageNow, MapSuperblock, At, PlaceIn, AllocPlaces
<1>1. /\ sb[s].owner = NULL /\ sb' = [sb EXCEPT ![s] = r]
      /\ heap' = [heap EXCEPT ![g] = inc_alloced(heap[g], SUPERBLOCK_SIZE)]
      /\ th' = [th EXCEPT ![t].pc = "sb_alloc", ![t].s_ptr = s]
  BY DEF MapSuperblock, At, idx2class
<1>2. sb \in [Superblocks -> SuperblockHeader(Heaps)] /\ heap \in [Heaps -> HeapRecord]
      /\ g \in Heaps /\ heap[g] \in HeapRecord
  BY TypedNow DEF UsageNow, Heaps
<1>3. c \in Nat \ {0}
  BY ThreadBin, SizeTableAssumption DEF UsageNow
<1> HIDE DEF c
<1>4. r.owner = g /\ used_bytes(r) = 0
  <2>1. q \in SuperblockHeader(Heaps)
    BY <1>2, <1>3, ResetTyped
  <2>2. q.num_free_blocks = q.total_blocks
    BY <1>2 DEF reset_superblock, SuperblockHeader
  <2> HIDE DEF q
  <2>3. r.owner = g /\ r.num_free_blocks = r.total_blocks /\ r.total_blocks \in Nat
        /\ r.block_size \in Nat
    BY <2>1, <2>2 DEF SuperblockHeader
  <2> HIDE DEF r
  <2>4. (r.total_blocks - r.num_free_blocks) * r.block_size = 0
    BY <2>3
  <2> QED BY <2>3, <2>4 DEF used_bytes
<1> HIDE DEF r
<1>5. sb'[s] = r /\ \A p \in Superblocks \ {s} : sb'[p] = sb[p]
  BY <1>1, <1>2
<1>6. \A h \in ThreadHeaps : heap'[h].in_use = heap[h].in_use
  <2>1. inc_alloced(heap[g], SUPERBLOCK_SIZE).in_use = heap[g].in_use
    BY <1>2, StatisticsAdd, SizesAssumption
  <2> QED BY <1>1, <1>2, <2>1 DEF Heaps
<1>7. th'[t].pc = "sb_alloc" /\ \A u \in Threads \ {t} : th'[u] = th[u]
  BY <1>1, Facts DEF UsageNow, Thread
<1>8. ASSUME NEW h \in ThreadHeaps
      PROVE  UsedBytes(h)' = UsedBytes(h) /\ UsedBytes(h) \in Nat
  <2>1. h # NULL
    BY HeapAssumption DEF Heaps
  <2>2. Part(sb[s], h) = 0 /\ Part(sb'[s], h) = 0
    BY <1>1, <1>4, <1>5, <2>1 DEF Part
  <2>3. UsedBytes(h) \in Nat /\ UsedBytes(h)' = UsedBytes(h) - Part(sb[s], h) + Part(sb'[s], h)
    BY <1>5, OneUsed DEF UsageNow
  <2> QED BY <2>2, <2>3
<1>9. \A h \in ThreadHeaps : heap[h].in_use \in Nat
  BY InUseTyped DEF UsageNow
<1> QED BY <1>6, <1>7, <1>8, <1>9, UsageKept DEF UsageNow

LEMMA MmapFailsUsage ==
    ASSUME UsageNow, IInv', NEW t \in Threads, MmapFails(t)
    PROVE  UsageOK'
<1> DEFINE n == SizeTable[size2idx(th[t].size)]
<1> PICK g \in ThreadHeaps : g = th[t].heap
  BY Facts DEF UsageNow, MmapFails, At, PlaceIn, AllocPlaces
<1>1. /\ heap' = [heap EXCEPT ![g] = inc_usage(heap[g], n)] /\ sb' = sb
      /\ th' = [th EXCEPT ![t] = IdleThread]
  BY DEF MmapFails, Return, idx2class
<1>2. n \in Nat /\ n <= SUPERBLOCK_SIZE
  <2>1. size2idx(th[t].size) \in Bins
    BY ThreadBin DEF UsageNow
  <2> QED BY <2>1, SizeTableAssumption, SizesAssumption
<1>3. heap[g] \in HeapRecord /\ heap[g].in_use \in Nat /\ heap[g].in_use + SUPERBLOCK_SIZE < SIZE_MOD
  BY InUseTyped DEF UsageNow, UsageFits
<1> HIDE DEF n
<1>4. inc_usage(heap[g], n).in_use = heap[g].in_use + n
  <2>1. heap[g].in_use + n < SIZE_MOD
    BY <1>2, <1>3, SizesAssumption, HeapAssumption
  <2> QED BY <1>2, <1>3, <2>1, StatisticsAdd
<1>5. heap \in [Heaps -> HeapRecord] /\ g \in Heaps /\ ThreadHeaps \subseteq Heaps
  BY TypedNow DEF UsageNow, Heaps
<1>6. \A h \in ThreadHeaps : heap'[h].in_use = IF h = g THEN heap[h].in_use + n
                                                         ELSE heap[h].in_use
  BY <1>1, <1>4, <1>5
<1>7. th'[t].pc = "idle" /\ \A u \in Threads \ {t} : th'[u] = th[u]
  BY <1>1, Facts DEF UsageNow, IdleThread
<1>8. \A h \in ThreadHeaps : /\ UsedBytes(h)' = UsedBytes(h) /\ UsedBytes(h) \in Nat
                             /\ heap[h].in_use \in Nat
  BY <1>1, NoneUsed, UsedNatural, InUseTyped DEF UsageNow
<1>9. ASSUME NEW h \in ThreadHeaps
      PROVE  /\ UsedBytes(h)' \in Nat
             /\ UsedBytes(h)' - UsedBytes(h) <= heap'[h].in_use - heap[h].in_use
  BY <1>2, <1>6, <1>8
<1> QED BY <1>7, <1>9, UsageKept DEF UsageNow

(* Adopting adds the same to both sides.                                   *)
LEMMA AdoptUsage ==
    ASSUME UsageNow, IInv', Ranged(sb'), NEW t \in Threads, Adopt(t)
    PROVE  UsageOK'
<1> PICK g \in ThreadHeaps : g = th[t].heap
  BY Facts DEF UsageNow, Adopt, At, PlaceIn, AllocPlaces
<1> PICK s \in Superblocks : s = th[t].s_ptr
  BY Facts DEF UsageNow, Adopt, At, PlaceIn, AllocPlaces
<1> DEFINE n == used_bytes(sb[s])
           y == inc_usage(heap[g], n)
           z == inc_alloced(y, SUPERBLOCK_SIZE)
<1>1. /\ sb' = [sb EXCEPT ![s].owner = g] /\ heap' = [heap EXCEPT ![g] = z]
      /\ th' = [th EXCEPT ![t].pc = "sb_alloc"] /\ th[t].pc = "adopt"
  BY DEF Adopt, Goto, At
<1>2. /\ sb[s].owner = GlobalHeap /\ GlobalHeap # NULL /\ GlobalHeap \notin ThreadHeaps
  BY <1>1, HeapAssumption DEF UsageNow, ListInv, PlacesOK, PlaceOK, Heaps
<1>3. n \in Nat /\ n <= SUPERBLOCK_SIZE
  BY <1>2, SizesAssumption DEF UsageNow, Ranged
<1>4. heap \in [Heaps -> HeapRecord] /\ g \in Heaps /\ ThreadHeaps \subseteq Heaps
      /\ sb \in [Superblocks -> SuperblockHeader(Heaps)]
  BY TypedNow DEF UsageNow, Heaps
<1>5. heap[g] \in HeapRecord /\ heap[g].in_use \in Nat /\ heap[g].in_use + SUPERBLOCK_SIZE < SIZE_MOD
  BY InUseTyped DEF UsageNow, UsageFits
<1> HIDE DEF n
<1>6. z.in_use = heap[g].in_use + n
  <2>1. heap[g].in_use + n < SIZE_MOD
    BY <1>3, <1>5, SizesAssumption, HeapAssumption
  <2>2. y.in_use = heap[g].in_use + n
    BY <1>3, <1>5, <2>1, StatisticsAdd
  <2>3. y \in HeapRecord
    <3>1. HeapIn(Mapped, heap[g]) /\ Mapped \in SUBSET Superblocks
      BY <1>4, Facts DEF UsageNow
    <3>2. HeapIn(Mapped, y)
      BY <1>3, <3>1, StatisticsTyped
    <3> HIDE DEF y
    <3> QED BY <3>2 DEF HeapIn
  <2> HIDE DEF y
  <2> QED BY <2>2, <2>3, StatisticsAdd, SizesAssumption
<1> HIDE DEF z
<1>7. \A h \in ThreadHeaps : heap'[h].in_use = IF h = g THEN heap[h].in_use + n
                                                         ELSE heap[h].in_use
  BY <1>1, <1>4, <1>6
<1>8. /\ sb'[s].owner = g /\ used_bytes(sb'[s]) = n
      /\ \A q \in Superblocks \ {s} : sb'[q] = sb[q]
  BY <1>1, <1>4 DEF SuperblockHeader, used_bytes, n
<1>9. th'[t].pc = "sb_alloc" /\ \A u \in Threads \ {t} : th'[u] = th[u]
  BY <1>1, Facts DEF UsageNow, Thread
<1>10. ASSUME NEW h \in ThreadHeaps
       PROVE  /\ UsedBytes(h)' \in Nat
              /\ UsedBytes(h)' - UsedBytes(h) <= heap'[h].in_use - heap[h].in_use
  <2>1. Part(sb[s], h) = 0 /\ Part(sb'[s], h) = IF h = g THEN n ELSE 0
    BY <1>2, <1>8 DEF Part
  <2>2. /\ UsedBytes(h) \in Nat /\ UsedBytes(h)' \in Nat
        /\ UsedBytes(h)' = UsedBytes(h) - Part(sb[s], h) + Part(sb'[s], h)
    BY <1>8, OneUsed DEF UsageNow
  <2>3. heap[h].in_use \in Nat
    BY InUseTyped DEF UsageNow
  <2> QED BY <1>3, <1>7, <2>1, <2>2, <2>3
<1> QED BY <1>9, <1>10, UsageKept DEF UsageNow

(* So does handing out a block.                                            *)
LEMMA UsedMore ==
    ASSUME NEW r \in SuperblockHeader(Heaps), NEW P, NEW B, NEW T, BlocksOK(r, P, B, T),
           HasBlock(r)
    PROVE  used_bytes(superblock_alloc(r)) = used_bytes(r) + r.block_size
<1> DEFINE q == superblock_alloc(r)
           a == AllocatedPtr(r)
           n == r.num_free_blocks
<1>1. /\ a \in FreeBlocks(r) /\ q.block_size = r.block_size /\ q.total_blocks = r.total_blocks
      /\ q.num_free_blocks = (n - 1) % UINT_MOD
  BY AllocBlocks DEF BlocksOK
<1>2. n \in 0 .. UINT_MOD - 1 /\ n > 0
  <2>1. n = Cardinality(FreeBlocks(r)) /\ IsFiniteSet(FreeBlocks(r))
    BY DEF BlocksOK
  <2>2. Cardinality(FreeBlocks(r)) # 0
    BY <1>1, <2>1, FS_EmptySet
  <2>3. n \in 0 .. UINT_MOD - 1
    BY DEF SuperblockHeader
  <2> QED BY <2>1, <2>2, <2>3, SizesAssumption
<1>3. (n - 1) % UINT_MOD = n - 1
  BY <1>2, SizesAssumption
<1>4. r.total_blocks \in Nat /\ r.block_size \in Nat
  BY HeaderTypes
<1> DEFINE k == r.total_blocks
           b == r.block_size
<1>5. used_bytes(q) = (k - (n - 1)) * b /\ used_bytes(r) = (k - n) * b
  BY <1>1, <1>3 DEF used_bytes
<1>6. (k - (n - 1)) * b = (k - n) * b + b
  <2> HIDE DEF k, b, n
  <2>1. k \in Int /\ n \in Int /\ b \in Int
    BY <1>2, <1>4, SizesAssumption DEF k, b
  <2> QED BY <2>1
<1> QED BY <1>5, <1>6

(* And giving one back takes the same from both.                           *)
LEMMA UsedLess ==
    ASSUME NEW r \in SuperblockHeader(Heaps), NEW P, NEW B, NEW T, BlocksOK(r, P, B, T),
           NEW t \in B
    PROVE  used_bytes(superblock_free(r, T[t].off)) = used_bytes(r) - r.block_size
<1> DEFINE q == superblock_free(r, T[t].off)
           k == Cardinality(P) + Cardinality(B)
           b == r.block_size
<1>1. /\ q.total_blocks - q.num_free_blocks = Cardinality(P) + Cardinality(B \ {t})
      /\ r.total_blocks - r.num_free_blocks = k
  <2>1. BlocksOK(q, P, B \ {t}, T)
    BY BlocksReturn
  <2> HIDE DEF q
  <2> QED BY <2>1 DEF BlocksOK
<1>2. q.block_size = b
  BY DEF superblock_free, SuperblockHeader
<1>3. Cardinality(B \ {t}) = Cardinality(B) - 1 /\ Cardinality(P) \in Nat /\ Cardinality(B) \in Nat
  BY FS_RemoveElement, FS_CardinalityType DEF BlocksOK
<1>4. k \in Nat /\ b \in Nat /\ Cardinality(P) + Cardinality(B \ {t}) = k - 1
  BY <1>3, HeaderTypes
<1>5. used_bytes(q) = (k - 1) * b /\ used_bytes(r) = k * b
  <2> HIDE DEF q, k, b
  <2> QED BY <1>1, <1>2, <1>4 DEF used_bytes, b
<1>6. (k - 1) * b = k * b - b
  <2> HIDE DEF k, b
  <2> QED BY <1>4
<1> QED BY <1>5, <1>6

LEMMA SuperblockAllocUsage ==
    ASSUME UsageNow, AllocatesFromItsBin, IInv', Ranged(sb'), NEW t \in Threads,
           SuperblockAlloc(t)
    PROVE  UsageOK'
<1> DEFINE b == size2idx(th[t].size)
           n == SizeTable[b]
<1> PICK g \in ThreadHeaps : g = th[t].heap
  BY Facts DEF UsageNow, SuperblockAlloc, At, PlaceIn, AllocPlaces
<1> PICK s \in Mapped : s = th[t].s_ptr
  BY Facts DEF UsageNow, SuperblockAlloc, At, PlaceIn, AllocPlaces
<1>1. /\ th[t].pc = "sb_alloc" /\ At(t, "sb_alloc")
      /\ th' = [th EXCEPT ![t] = IdleThread]
      /\ \E bm : heap' = [heap EXCEPT ![g] = inc_usage([heap[g] EXCEPT !.size_bins[b] = bm], n)]
  BY DEF SuperblockAlloc, At, Return, idx2class
<1>2. s \in Superblocks /\ sb[s] \in SuperblockHeader(Heaps) /\ b \in Bins
      /\ BlocksOK(sb[s], HeldIn(s), BeingFreed(s), th)
  BY Facts, ThreadBin DEF UsageNow, BlocksInv
<1>3. sb[s].block_size = n
  BY <1>1 DEF AllocatesFromItsBin, idx2class
<1>4. sb[s].owner = g
  <2> DEFINE e == get_eidx(sb[s])
  <2>1. PlaceOK(sb, heap, th[t])
    BY DEF UsageNow, ListInv, PlacesOK
  <2>2. CASE th[t].in_bin
    <3>1. s \in InBin(sb, heap, g, b, e)
      BY <1>1, <2>1, <2>2 DEF PlaceOK
    <3>2. g \in Heaps /\ e \in EmptinessClasses
      BY MappedClass DEF UsageNow, ListInv, Heaps
    <3> HIDE DEF e, b
    <3> QED BY <1>2, <3>1, <3>2 DEF UsageNow, ListInv, ListsOK, BinOK, Fits
  <2>3. CASE ~th[t].in_bin
    BY <1>1, <2>1, <2>3 DEF PlaceOK
  <2> QED BY <2>2, <2>3
<1>5. n \in Nat /\ n <= SUPERBLOCK_SIZE
  BY <1>2, SizeTableAssumption, SizesAssumption
<1>6. used_bytes(superblock_alloc(sb[s])) = used_bytes(sb[s]) + n
  <2>1. HasBlock(sb[s])
    BY DEF SuperblockAlloc, AllocDefined
  <2> QED BY <1>2, <1>3, <2>1, UsedMore
<1>7. /\ sb'[s].owner = g /\ used_bytes(sb'[s]) = used_bytes(sb[s]) + n
      /\ \A q \in Superblocks \ {s} : sb'[q].owner = sb[q].owner
                                      /\ used_bytes(sb'[q]) = used_bytes(sb[q])
  <2>1. /\ SameBlocks(superblock_alloc(sb[s]), sb'[s])
        /\ \A q \in Superblocks \ {s} : SameBlocks(sb[q], sb'[q])
        /\ \A q \in Superblocks : sb'[q].owner = sb[q].owner
    BY SuperblockAllocHeaders DEF UsageNow
  <2> HIDE DEF n
  <2> QED BY <1>2, <1>4, <1>6, <2>1 DEF SameBlocks, used_bytes
<1>8. heap \in [Heaps -> HeapRecord] /\ g \in Heaps /\ ThreadHeaps \subseteq Heaps
      /\ heap[g] \in HeapRecord /\ heap[g].in_use \in Nat
      /\ heap[g].in_use + SUPERBLOCK_SIZE < SIZE_MOD
  BY TypedNow, InUseTyped DEF UsageNow, Heaps, UsageFits
<1> HIDE DEF n, b
<1>9. heap'[g].in_use = heap[g].in_use + n
  <2>1. PICK bm : heap' = [heap EXCEPT ![g] =
                             inc_usage([heap[g] EXCEPT !.size_bins[b] = bm], n)]
    BY <1>1
  <2> DEFINE y == [heap[g] EXCEPT !.size_bins[b] = bm]
  <2>2. inc_usage(y, n).in_use = (heap[g].in_use + n) % SIZE_MOD
    BY <1>8 DEF HeapRecord, inc_usage
  <2> HIDE DEF y
  <2>3. heap'[g].in_use = (heap[g].in_use + n) % SIZE_MOD
    BY <1>8, <2>1, <2>2 DEF y
  <2>4. heap[g].in_use + n \in 0 .. SIZE_MOD - 1
    BY <1>5, <1>8, SizesAssumption, HeapAssumption
  <2>5. (heap[g].in_use + n) % SIZE_MOD = heap[g].in_use + n
    BY <2>4, HeapAssumption
  <2> QED BY <2>3, <2>5
<1>10. \A h \in ThreadHeaps \ {g} : heap'[h].in_use = heap[h].in_use
  BY <1>1, <1>8
<1>11. th'[t].pc = "idle" /\ \A u \in Threads \ {t} : th'[u] = th[u]
  BY <1>1, Facts DEF UsageNow, IdleThread
<1>12. ASSUME NEW h \in ThreadHeaps
       PROVE  /\ UsedBytes(h)' \in Nat
              /\ UsedBytes(h)' - UsedBytes(h) <= heap'[h].in_use - heap[h].in_use
  <2>1. /\ UsedBytes(h) \in Nat /\ UsedBytes(h)' \in Nat
        /\ Part(sb[s], h) \in Nat /\ Part(sb'[s], h) \in Nat
        /\ UsedBytes(h)' = UsedBytes(h) - Part(sb[s], h) + Part(sb'[s], h)
    BY <1>2, <1>7, OneUsed DEF UsageNow
  <2>2. heap[h].in_use \in Nat
    BY InUseTyped DEF UsageNow
  <2>3. CASE h = g
    <3>1. Part(sb'[s], h) = Part(sb[s], h) + n
      BY <1>4, <1>7, <2>3 DEF Part
    <3> QED BY <1>5, <1>9, <2>1, <2>2, <2>3, <3>1
  <2>4. CASE h # g
    <3>1. Part(sb'[s], h) = 0 /\ Part(sb[s], h) = 0
      BY <1>4, <1>7, <2>4 DEF Part
    <3> QED BY <1>10, <2>1, <2>2, <2>4, <3>1
  <2> QED BY <2>3, <2>4
<1> QED BY <1>11, <1>12, UsageKept DEF UsageNow

(* heap_free gives the block back to a superblock of the heap it has       *)
(* locked, and will subtract the size of that superblock's blocks.         *)
LEMMA FreesItsOwn ==
    ASSUME IInv, BlocksInv, ListInv, SizesRead, DeletedFromItsList,
           NEW t \in Threads, At(t, "bin_free")
    PROVE  /\ sb[th[t].s_ptr].owner = th[t].heap
           /\ sb[th[t].s_ptr].block_size = th[t].size
<1> DEFINE s == th[t].s_ptr
           b == size2idx(th[t].size)
           e == get_eidx(sb[s])
<1>1. th[t].pc = "bin_free" /\ s \in ListOf(th[t].heap, b, e)
  BY DEF At, DeletedFromItsList
<1>2. s \in Mapped /\ th[t].heap \in Heaps /\ b \in Bins
  BY <1>1, Facts, ThreadBin DEF PlaceIn, FreePlaces
<1>3. e \in EmptinessClasses
  BY <1>2, MappedClass DEF ListInv
<1>4. PICK c \in Bins : th[t].size = SizeTable[c]
  BY <1>1 DEF SizesRead
<1>5. b = c
  BY <1>4, BinOfItsSize
<1>6. s \in InBin(sb, heap, th[t].heap, b, e)
  BY <1>1, ListIsReach DEF InBin
<1> HIDE DEF s, b, e
<1>7. Fits(sb[s], th[t].heap, b, e)
  BY <1>2, <1>3, <1>6 DEF ListInv, ListsOK, BinOK
<1> QED BY <1>4, <1>5, <1>7 DEF Fits, s

LEMMA BinFreeUsage ==
    ASSUME UsageNow, DeletedFromItsList, IInv', Ranged(sb'), NEW t \in Threads, BinFree(t)
    PROVE  UsageOK'
<1> PICK n \in Nat : n = th[t].size
  BY Facts DEF UsageNow, Thread
<1> PICK g \in Heaps : g = th[t].heap
  BY Facts DEF UsageNow, BinFree, At, PlaceIn, FreePlaces
<1> PICK s \in Mapped : s = th[t].s_ptr
  BY Facts DEF UsageNow, BinFree, At, PlaceIn, FreePlaces
<1>1. /\ th[t].pc = "bin_free" /\ At(t, "bin_free")
      /\ th' = [th EXCEPT ![t].pc = "account"]
  BY DEF BinFree, At, Goto
<1>2. /\ s \in Superblocks /\ sb[s] \in SuperblockHeader(Heaps)
      /\ BlocksOK(sb[s], HeldIn(s), BeingFreed(s), th) /\ t \in BeingFreed(s)
  BY <1>1, Facts DEF UsageNow, BlocksInv, BeingFreed
<1>3. sb[s].owner = g /\ sb[s].block_size = n
  BY <1>1, FreesItsOwn DEF UsageNow
<1>4. used_bytes(superblock_free(sb[s], th[t].off)) = used_bytes(sb[s]) - n
  BY <1>2, <1>3, UsedLess
<1>5. /\ sb'[s].owner = g /\ used_bytes(sb'[s]) = used_bytes(sb[s]) - n
      /\ \A q \in Superblocks \ {s} : sb'[q].owner = sb[q].owner
                                      /\ used_bytes(sb'[q]) = used_bytes(sb[q])
  <2>1. /\ SameBlocks(superblock_free(sb[s], th[t].off), sb'[s])
        /\ \A q \in Superblocks \ {s} : SameBlocks(sb[q], sb'[q])
        /\ \A q \in Superblocks : sb'[q].owner = sb[q].owner
    BY BinFreeHeaders DEF UsageNow
  <2> QED BY <1>2, <1>3, <1>4, <2>1 DEF SameBlocks, used_bytes
<1>6. \A h \in ThreadHeaps : heap'[h].in_use = heap[h].in_use
  <2>1. heap \in [Heaps -> HeapRecord] /\ ThreadHeaps \subseteq Heaps
    BY TypedNow DEF UsageNow, Heaps
  <2> DEFINE bin   == size2idx(th[t].size)
             bm    == heap[g].size_bins[bin]
             old   == get_eidx(sb[s])
             sbNew == [sb EXCEPT ![s] = superblock_free(@, th[t].off)]
             del   == delete_from_bin(sbNew, bm, old, s)
             upd   == update_emptiness_class(sbNew, bm, old, s)
             D     == del.bm
             U     == upd.bm
  <2>2. \/ heap' = [heap EXCEPT ![g].size_bins[bin] = D, ![g].recycled_superblock = s]
        \/ heap' = [heap EXCEPT ![g].size_bins[bin] = U]
    BY DEF BinFree
  <2> HIDE DEF bin, D, U
  <2> SUFFICES ASSUME NEW h \in ThreadHeaps PROVE heap'[h].in_use = heap[h].in_use
    OBVIOUS
  <2>3. heap[h] \in HeapRecord /\ h \in Heaps
    BY <2>1
  <2>4. CASE heap' = [heap EXCEPT ![g].size_bins[bin] = D, ![g].recycled_superblock = s]
    BY <2>1, <2>3, <2>4 DEF HeapRecord
  <2>5. CASE heap' = [heap EXCEPT ![g].size_bins[bin] = U]
    BY <2>1, <2>3, <2>5 DEF HeapRecord
  <2> QED BY <2>2, <2>4, <2>5
<1>7. /\ th'[t].pc = "account" /\ th'[t].heap = g /\ th'[t].size = n
      /\ \A u \in Threads \ {t} : th'[u] = th[u]
  BY <1>1, Facts DEF UsageNow, Thread
<1>8. ASSUME NEW h \in ThreadHeaps
      PROVE  /\ UsedBytes(h)' \in Nat
             /\ UsedBytes(h)' - UsedBytes(h) <= heap'[h].in_use - heap[h].in_use
             /\ h = g => UsedBytes(h)' + n <= heap'[h].in_use
  <2>1. /\ UsedBytes(h) \in Nat /\ UsedBytes(h)' \in Nat
        /\ Part(sb[s], h) \in Nat /\ Part(sb'[s], h) \in Nat
        /\ UsedBytes(h)' = UsedBytes(h) - Part(sb[s], h) + Part(sb'[s], h)
    BY <1>2, <1>5, OneUsed DEF UsageNow
  <2>2. heap[h].in_use \in Nat /\ UsedBytes(h) <= heap[h].in_use
    BY InUseTyped DEF UsageNow, UsageOK
  <2>3. CASE h = g
    <3>1. Part(sb'[s], h) = Part(sb[s], h) - n
      BY <1>3, <1>5, <2>3 DEF Part
    <3> QED BY <1>6, <2>1, <2>2, <2>3, <3>1
  <2>4. CASE h # g
    <3>1. Part(sb'[s], h) = 0 /\ Part(sb[s], h) = 0
      BY <1>3, <1>5, <2>4 DEF Part
    <3> QED BY <1>6, <2>1, <2>2, <2>4, <3>1
  <2> QED BY <2>3, <2>4
<1> QED BY <1>7, <1>8, UsageKept DEF UsageNow

LEMMA PaidUsage ==
    ASSUME UsageNow, IInv', NEW t \in Threads,
           FreeAndKeep(t) \/ GiveRecycled(t) \/ GiveEmptiest(t)
    PROVE  UsageOK'
<1> PICK g \in ThreadHeaps : g = th[t].heap
  BY Facts DEF UsageNow, FreeAndKeep, GiveRecycled, GiveEmptiest, At, PlaceIn, FreePlaces, Heaps
<1> DEFINE dec == dec_usage(heap[g], th[t].size)
<1>1. th[t].pc = "account"
  BY DEF FreeAndKeep, GiveRecycled, GiveEmptiest, At
<1>2. SameButLinks(sb, sb')
  <2>1. CASE FreeAndKeep(t) \/ GiveRecycled(t)
    <3>1. sb' = sb
      BY <2>1 DEF FreeAndKeep, GiveRecycled
    <3> QED BY <3>1 DEF SameButLinks, SameBlocks
  <2> QED BY <2>1, GiveEmptiestHeaders DEF UsageNow
<1>3. /\ heap \in [Heaps -> HeapRecord] /\ g \in Heaps /\ ThreadHeaps \subseteq Heaps
      /\ dec \in HeapRecord
  <2>1. heap \in [Heaps -> HeapRecord] /\ g \in Heaps /\ ThreadHeaps \subseteq Heaps
    BY TypedNow DEF UsageNow, Heaps
  <2>2. HeapIn(Mapped, heap[g]) /\ Mapped \in SUBSET Superblocks /\ th[t].size \in Int
    BY <2>1, Facts DEF UsageNow, Thread
  <2>3. HeapIn(Mapped, dec)
    BY <2>2, StatisticsTyped
  <2> HIDE DEF dec
  <2> QED BY <2>1, <2>3 DEF HeapIn
<1>4. /\ heap'[g].in_use = dec.in_use
      /\ \A h \in ThreadHeaps \ {g} : heap'[h].in_use = heap[h].in_use
  <2>1. CASE FreeAndKeep(t)
    <3>1. heap' = [heap EXCEPT ![g] = dec]
      BY <2>1 DEF FreeAndKeep
    <3> HIDE DEF dec
    <3> QED BY <1>3, <3>1
  <2>2. CASE GiveRecycled(t)
    <3> DEFINE v == sb[dec.recycled_superblock].next
    <3>1. heap' = [heap EXCEPT ![g] = [dec EXCEPT !.recycled_superblock = v]]
      BY <2>2 DEF GiveRecycled
    <3> HIDE DEF dec, v
    <3>2. [dec EXCEPT !.recycled_superblock = v].in_use = dec.in_use
      BY <1>3 DEF HeapRecord
    <3> QED BY <1>3, <3>1, <3>2
  <2>3. CASE GiveEmptiest(t)
    <3> DEFINE c   == find_emptiest_sb(dec)
               s   == dec.size_bins[c[1]].emptiness_bins[c[2]]
               del == delete_from_bin(sb, dec.size_bins[c[1]], c[2], s)
               b   == c[1]
               v   == del.bm
    <3>1. heap' = [heap EXCEPT ![g] = [dec EXCEPT !.size_bins[b] = v]]
      BY <2>3 DEF GiveEmptiest
    <3> HIDE DEF dec, b, v
    <3>2. [dec EXCEPT !.size_bins[b] = v].in_use = dec.in_use
      BY <1>3 DEF HeapRecord
    <3> QED BY <1>3, <3>1, <3>2
  <2> QED BY <2>1, <2>2, <2>3
<1>5. th'[t].pc # "account" /\ \A u \in Threads \ {t} : th'[u] = th[u]
  <2>1. th \in [Threads -> Thread]
    BY Facts DEF UsageNow
  <2>2. CASE FreeAndKeep(t)
    BY <2>1, <2>2 DEF FreeAndKeep, Return, IdleThread
  <2>3. CASE GiveRecycled(t)
    BY <2>1, <2>3 DEF GiveRecycled, Thread
  <2>4. CASE GiveEmptiest(t)
    <3>1. \E s, b, e : th' = [th EXCEPT ![t].pc = "transfer", ![t].victim = s,
                                        ![t].bin_idx = b, ![t].eidx = e]
      BY <2>4 DEF GiveEmptiest
    <3> QED BY <2>1, <3>1 DEF Thread
  <2> QED BY <2>2, <2>3, <2>4
<1> QED BY <1>1, <1>2, <1>4, <1>5, UsagePaid DEF UsageNow

(* What a heap gives away it no longer uses.                               *)
LEMMA InsertUsage ==
    ASSUME UsageNow, IInv', Ranged(sb'), NEW t \in Threads,
           InsertRecycled(t) \/ InsertIntoBin(t)
    PROVE  UsageOK'
<1> PICK g \in ThreadHeaps : g = th[t].heap
  BY Facts DEF UsageNow, InsertRecycled, InsertIntoBin, At, PlaceIn
<1> PICK s \in Mapped : s = th[t].victim
  BY Facts DEF UsageNow, InsertRecycled, InsertIntoBin, At, PlaceIn
<1>1. /\ s \in Superblocks /\ GlobalHeap \notin ThreadHeaps /\ g \in Heaps
      /\ ThreadHeaps \subseteq Heaps /\ g # GlobalHeap /\ GlobalHeap \in Heaps
  BY HeapAssumption DEF Heaps, Mapped
<1>2. heap \in [Heaps -> HeapRecord] /\ sb \in [Superblocks -> SuperblockHeader(Heaps)]
  BY TypedNow DEF UsageNow
<1>3. /\ sb'[s].owner = GlobalHeap
      /\ \A q \in Superblocks \ {s} : sb'[q].owner = sb[q].owner
                                      /\ used_bytes(sb'[q]) = used_bytes(sb[q])
  <2>1. CASE InsertRecycled(t)
    <3>1. sb' = [sb EXCEPT ![s].owner = GlobalHeap,
                           ![s].next  = heap[GlobalHeap].recycled_superblock]
      BY <2>1 DEF InsertRecycled
    <3>2. sb[s] \in SuperblockHeader(Heaps)
      BY <1>1, <1>2
    <3> QED BY <1>1, <1>2, <3>1, <3>2 DEF SuperblockHeader
  <2>2. CASE InsertIntoBin(t)
    <3>1. \A q \in Superblocks :
             /\ sb'[q].owner = IF q = s THEN GlobalHeap ELSE sb[q].owner
             /\ SameBlocks(sb[q], sb'[q])
      BY <2>2, InsertIntoBinHeaders DEF UsageNow
    <3> QED BY <1>1, <3>1 DEF SameBlocks, used_bytes
  <2> QED BY <2>1, <2>2
<1>4. \A h \in ThreadHeaps : heap'[h].in_use = heap[h].in_use
  <2> DEFINE y == dec_alloced(heap[g], SUPERBLOCK_SIZE)
  <2>1. y.in_use = heap[g].in_use
    BY <1>1, <1>2, StatisticsAdd, SizesAssumption
  <2> SUFFICES ASSUME NEW h \in ThreadHeaps PROVE heap'[h].in_use = heap[h].in_use
    OBVIOUS
  <2>2. CASE InsertRecycled(t)
    <3>1. heap' = [heap EXCEPT ![GlobalHeap].recycled_superblock = s, ![g] = dec_alloced(@, SUPERBLOCK_SIZE)]
      BY <2>2 DEF InsertRecycled
    <3>2. heap'[h] = IF h = g THEN y ELSE heap[h]
      BY <1>1, <1>2, <3>1
    <3> QED BY <2>1, <3>2
  <2>3. CASE InsertIntoBin(t)
    <3> DEFINE b    == th[t].bin_idx
               push == push_into_bin([sb EXCEPT ![s].owner = GlobalHeap],
                                     heap[GlobalHeap].size_bins[b], th[t].eidx, s)
               v    == push.bm
    <3>1. heap' = [heap EXCEPT ![GlobalHeap].size_bins[b] = v, ![g] = dec_alloced(@, SUPERBLOCK_SIZE)]
      BY <2>3 DEF InsertIntoBin
    <3> HIDE DEF v, b
    <3>2. heap'[h] = IF h = g THEN y ELSE heap[h]
      BY <1>1, <1>2, <3>1
    <3> QED BY <2>1, <3>2
  <2> QED BY <2>2, <2>3
<1>5. th'[t].pc # "account" /\ \A u \in Threads \ {t} : th'[u] = th[u]
  <2>1. IInv
    BY DEF UsageNow
  <2>2. th' = [th EXCEPT ![t] = IdleThread] /\ IdleThread.pc = "idle"
    BY ReturnMoves DEF IdleThread
  <2> QED BY <2>1, <2>2, OthersStay
<1>6. ASSUME NEW h \in ThreadHeaps
      PROVE  /\ UsedBytes(h)' \in Nat
             /\ UsedBytes(h)' - UsedBytes(h) <= heap'[h].in_use - heap[h].in_use
  <2>1. /\ UsedBytes(h) \in Nat /\ UsedBytes(h)' \in Nat
        /\ Part(sb[s], h) \in Nat /\ Part(sb'[s], h) \in Nat
        /\ UsedBytes(h)' = UsedBytes(h) - Part(sb[s], h) + Part(sb'[s], h)
    BY <1>1, <1>3, OneUsed DEF UsageNow
  <2>2. Part(sb'[s], h) = 0
    BY <1>1, <1>3 DEF Part
  <2>3. heap[h].in_use \in Nat /\ heap'[h].in_use = heap[h].in_use
    BY <1>4, InUseTyped DEF UsageNow
  <2> QED BY <2>1, <2>2, <2>3
<1> QED BY <1>5, <1>6, UsageKept DEF UsageNow

(* The size that heap_free reads does not change while the call holds the  *)
(* superblock's mutex.                                                     *)
LEMMA SizesStep ==
    IInv /\ ListInv /\ SizesRead /\ [Next]_vars => SizesRead'
<1> DEFINE Reading == { "lock_owner", "bin_free", "account" }
<1> SUFFICES ASSUME IInv, ListInv, SizesRead, [Next]_vars, NEW u \in Threads,
                    th'[u].pc \in Reading
             PROVE  \E b \in Bins : th'[u].size = SizeTable[b]
  BY DEF SizesRead
<1>1. CASE th[u].pc \in Reading /\ th'[u].size = th[u].size
  BY <1>1 DEF SizesRead
<1>2. ASSUME NEW t \in Threads, LockSuperblock(t)
      PROVE  \E b \in Bins : th'[u].size = SizeTable[b]
  <2>1. th' = [th EXCEPT ![t].pc = "lock_owner", ![t].heap = sb[th[t].s_ptr].owner,
                         ![t].size = sb[th[t].s_ptr].block_size]
    BY <1>2 DEF LockSuperblock
  <2>2. CASE u = t
    <3>1. th[t].s_ptr \in Mapped
      BY <1>2, Facts DEF LockSuperblock, At, PlaceIn, FreePlaces
    <3>2. th'[u].size = sb[th[t].s_ptr].block_size
      BY <2>1, <2>2, Facts DEF Thread
    <3> QED BY <3>1, <3>2 DEF ListInv, AllCut, CutOK
  <2>3. CASE u # t
    BY <1>1, <2>1, <2>3, Facts
  <2> QED BY <2>2, <2>3
<1>3. th \in [Threads -> Thread]
  BY Facts
<1>4. ASSUME NEW t \in Threads, NEW x, th' = [th EXCEPT ![t] = x],
             \/ x.pc \notin Reading
             \/ th[t].pc \in Reading /\ x.size = th[t].size
      PROVE  th[u].pc \in Reading /\ th'[u].size = th[u].size
  <2>1. th'[t] = x /\ \A v \in Threads \ {t} : th'[v] = th[v]
    BY <1>4, OthersStay
  <2> QED BY <1>4, <2>1
<1>5. ASSUME NEW t \in Threads,
             \/ Call(t) \/ LockHeap(t) \/ ChooseInBin(t) \/ Recycle(t) \/ AskGlobal(t)
             \/ LockGlobal(t) \/ TakeNonfull(t) \/ TakeRecycled(t) \/ TakeNothing(t)
             \/ Adopt(t) \/ (\E s \in Superblocks : MapSuperblock(t, s))
             \/ GiveRecycled(t) \/ GiveEmptiest(t) \/ LockGlobalForTransfer(t)
      PROVE  th[u].pc \in Reading /\ th'[u].size = th[u].size
  <2>1. th[t] \in Thread
    BY <1>3
  <2>2. PICK x : th' = [th EXCEPT ![t] = x] /\ x.pc \notin Reading
    <3>1. CASE Call(t)
      BY <2>1, <3>1, CallBegins
    <3>2. CASE \/ ChooseInBin(t) \/ Recycle(t) \/ TakeNonfull(t) \/ TakeRecycled(t)
               \/ \E s \in Superblocks : MapSuperblock(t, s)
      BY <2>1, <3>2, FoundKeeps
    <3>3. CASE GiveRecycled(t) \/ GiveEmptiest(t)
      BY <2>1, <3>3, GivesMove
    <3>4. CASE \/ LockHeap(t) \/ AskGlobal(t) \/ LockGlobal(t) \/ TakeNothing(t) \/ Adopt(t)
               \/ LockGlobalForTransfer(t)
      <4>1. ~LockOwner(t) /\ ~BinFree(t)
        BY <3>4 DEF LockHeap, AskGlobal, LockGlobal, TakeNothing, Adopt, LockGlobalForTransfer,
           LockOwner, BinFree, At
      <4> QED BY <2>1, <3>4, <4>1, PlaceMoves
    <3> QED BY <1>5, <3>1, <3>2, <3>3, <3>4
  <2> HIDE DEF Reading
  <2> QED BY <1>4, <2>2
<1>6. ASSUME NEW t \in Threads,
             \/ MmapFails(t) \/ SuperblockAlloc(t) \/ FreeFromGlobal(t) \/ FreeAndKeep(t)
             \/ InsertRecycled(t) \/ InsertIntoBin(t)
      PROVE  th[u].pc \in Reading /\ th'[u].size = th[u].size
  <2>1. th' = [th EXCEPT ![t] = IdleThread]
    BY <1>6, ReturnMoves
  <2>2. IdleThread.pc \notin Reading
    BY DEF IdleThread
  <2> HIDE DEF Reading
  <2> QED BY <1>4, <2>1, <2>2
<1>7. ASSUME NEW t \in Threads, LockOwner(t) \/ BinFree(t)
      PROVE  th[u].pc \in Reading /\ th'[u].size = th[u].size
  <2>1. th[t] \in Thread /\ th[t].pc \in Reading
    BY <1>3, <1>7 DEF LockOwner, BinFree, At
  <2>2. PICK x : th' = [th EXCEPT ![t] = x] /\ x.size = th[t].size
    BY <1>7, <2>1, PlaceMoves
  <2> HIDE DEF Reading
  <2> QED BY <1>4, <2>1, <2>2
<1>8. CASE UNCHANGED vars \/ \E t \in Threads : Crash(t)
  BY <1>1, <1>8 DEF vars, Crash
<1> QED BY <1>1, <1>2, <1>4, <1>5, <1>6, <1>7, <1>8 DEF Next, Continue, Stopped

LEMMA UsageStep ==
    ASSUME UsageNow, DeletedFromItsList, AllocatesFromItsBin, IInv', BlocksInv', Ranged(sb'),
           [Next]_vars
    PROVE  UsageOK'
<1>1. ASSUME NEW t \in Threads, Call(t) PROVE UsageOK'
  <2>1. (\E size \in Requests : Malloc(t, size)) \/ (\E p \in held : Free(t, p))
    BY <1>1 DEF Call
  <2> QED BY <2>1, QuietUsage
<1>2. ASSUME UNCHANGED << sb, heap, th >> PROVE UsageOK'
  <2>1. \A h \in ThreadHeaps : UsedBytes(h)' = UsedBytes(h)
    BY <1>2 DEF UsedBytes, Owned
  <2> QED BY <1>2, <2>1 DEF UsageNow, UsageOK
<1>3. ASSUME NEW t \in Threads, Continue(t) PROVE UsageOK'
  <2>1. CASE \/ LockHeap(t) \/ ChooseInBin(t) \/ AskGlobal(t) \/ LockGlobal(t)
             \/ TakeNothing(t) \/ LockSuperblock(t) \/ LockOwner(t) \/ FreeFromGlobal(t)
             \/ LockGlobalForTransfer(t)
    BY <2>1, QuietUsage
  <2>2. CASE TakeNonfull(t) \/ TakeRecycled(t)
    BY <2>2, TakeUsage
  <2>3. CASE Recycle(t)
    BY <2>3, RecycleUsage
  <2>4. CASE Adopt(t)
    BY <2>4, AdoptUsage
  <2>5. CASE \E s \in Superblocks : MapSuperblock(t, s)
    BY <2>5, MapUsage
  <2>6. CASE MmapFails(t)
    BY <2>6, MmapFailsUsage
  <2>7. CASE SuperblockAlloc(t)
    BY <2>7, SuperblockAllocUsage
  <2>8. CASE BinFree(t)
    BY <2>8, BinFreeUsage
  <2>9. CASE FreeAndKeep(t) \/ GiveRecycled(t) \/ GiveEmptiest(t)
    BY <2>9, PaidUsage
  <2>10. CASE InsertRecycled(t) \/ InsertIntoBin(t)
    BY <2>10, InsertUsage
  <2>11. CASE Crash(t)
    BY <1>2, <2>11 DEF Crash
  <2> QED BY <1>3, <2>1, <2>2, <2>3, <2>4, <2>5, <2>6, <2>7, <2>8, <2>9, <2>10, <2>11
          DEF Continue
<1>4. CASE UNCHANGED vars
  BY <1>2, <1>4 DEF vars
<1> QED BY <1>1, <1>3, <1>4 DEF Next, Stopped

LEMMA UsageInitially == Init => UsageOK /\ SizesRead
<1> SUFFICES ASSUME Init PROVE UsageOK /\ SizesRead
  OBVIOUS
<1>1. \A t \in Threads : th[t].pc = "idle"
  BY DEF Init, IdleThread
<1>2. ASSUME NEW h \in ThreadHeaps PROVE UsedBytes(h) = 0 /\ heap[h].in_use = 0
  <2>1. h # NULL /\ h \in Heaps
    BY HeapAssumption DEF Heaps
  <2>2. Owned(h) = {}
    BY <2>1 DEF Init, Unmapped, Owned
  <2>3. UNION { {s} \X (1 .. used_bytes(sb[s])) : s \in Owned(h) } = {}
    BY <2>2
  <2> QED BY <2>1, <2>3, FS_EmptySet DEF UsedBytes, Init, EmptyHeap
<1> QED BY <1>1, <1>2 DEF UsageOK, SizesRead

(* in_use covers the bytes of the heap's blocks in use...                  *)
THEOREM UsageCovers ==
    Spec /\ []DeletedFromItsList /\ []AllocatesFromItsBin /\ []UsageFits => []InUseCovers
<1>1. Init => UsageOK /\ SizesRead
  BY UsageInitially
<1>2. /\ IInv /\ BlocksInv /\ ListInv /\ (IInv /\ BlocksInv /\ ListInv)'
      /\ DeletedFromItsList /\ AllocatesFromItsBin /\ UsageFits
      /\ UsageOK /\ SizesRead /\ [Next]_vars
      => (UsageOK /\ SizesRead)'
  BY UsageStep, SizesStep, RangedNow, RangedNext DEF UsageNow
<1>3. IInv /\ BlocksInv /\ UsageOK => InUseCovers
  <2> SUFFICES ASSUME IInv, BlocksInv, UsageOK, NEW h \in ThreadHeaps
               PROVE  heap[h].in_use >= UsedBytes(h)
    BY DEF InUseCovers
  <2> QED BY RangedNow, UsedNatural, InUseTyped DEF UsageOK
<1> QED BY <1>1, <1>2, <1>3, ListInvHolds, PTL DEF Spec

(* ... in particular in the two regimes in which the lists are found:      *)
(* whatever order threads run in, as long as no heap gives a superblock    *)
(* away,                                                                   *)
THEOREM FewSuperblocksAreCovered ==
    ASSUME Cardinality(Superblocks) <= FREE_SB_THRESH
    PROVE  Spec /\ []UsageFits => []InUseCovers
<1> QED BY FewKeepAll, SmallHeapsFindTheirLists, UsageCovers, PTL

(* and for one call at a time with one bin, as superblocks move, full or   *)
(* not, to the global heap and back.                                       *)
THEOREM SerialOneBinIsCovered ==
    ASSUME MaxInFlight <= 1, OneBin
    PROVE  Spec /\ []UsageFits => []InUseCovers
<1> QED BY SerialCallsAreSafe, OneBinIsItsOwn, UsageCovers, PTL

-----------------------------------------------------------------------------
(* One superblock given away is enough                                     *)

(* Of m parts of a all but one: what z takes away from a takes away at     *)
(* least a block from the share, if a block is at most half of z.          *)
LEMMA ShareFalls ==
    ASSUME NEW m \in Nat \ {0}, NEW z \in Nat, NEW a \in Nat, z <= a,
           NEW n \in Nat, 2 * n <= z, m # 1
    PROVE  ((m - 1) * (a - z)) \div m + n <= ((m - 1) * a) \div m
<1> DEFINE k == m - 1
           p == (k * (a - z)) \div m
           q == (k * a) \div m
<1>1. k \in Nat /\ a - z \in Nat /\ m <= 2 * k /\ 1 <= k
  OBVIOUS
<1>2. k * (a - z) \in Nat /\ k * a \in Nat /\ k * z \in Nat /\ k * (a - z) + k * z = k * a
  <2> HIDE DEF k
  <2>1. \E d \in Nat : a = d + z
    BY <1>1
  <2>2. PICK d \in Nat : a = d + z
    BY <2>1
  <2>3. a - z = d /\ k * (d + z) = k * d + k * z /\ k * d \in Nat /\ k * z \in Nat
    BY <1>1, <2>2
  <2> QED BY <2>2, <2>3
<1>3. /\ p \in Nat /\ p * m <= k * (a - z)
      /\ q \in Nat /\ k * a < q * m + m
  <2> DEFINE c == k * (a - z)
             d == k * a
  <2>1. c \in Nat /\ d \in Nat
    BY <1>2
  <2> HIDE DEF c, d
  <2>2. /\ c \div m \in Nat /\ (c \div m) * m <= c
        /\ d \div m \in Nat /\ d < (d \div m) * m + m
    BY <2>1, QuotientBounds
  <2> QED BY <2>2 DEF c, d
<1>4. n * m <= k * z /\ n * m \in Nat
  <2>1. m * n <= (2 * k) * n
    <3> HIDE DEF k
    <3> QED BY <1>1, TimesMonotone
  <2>2. (2 * n) * k <= z * k
    <3> HIDE DEF k
    <3> QED BY <1>1, TimesMonotone
  <2>3. (2 * k) * n = (2 * n) * k /\ m * n = n * m /\ z * k = k * z /\ n * m \in Nat
        /\ (2 * n) * k \in Nat
    <3> HIDE DEF k
    <3> QED BY <1>1
  <2> HIDE DEF k
  <2> QED BY <1>1, <1>2, <2>1, <2>2, <2>3
<1> HIDE DEF k, p, q
<1>5. (p + n) * m = p * m + n * m /\ p * m \in Nat /\ q * m \in Nat
      /\ (q + 1) * m = q * m + m
  BY <1>3
<1>6. (p + n) * m < (q + 1) * m
  BY <1>2, <1>3, <1>4, <1>5
<1>7. p + n <= q
  <2> SUFFICES ASSUME q + 1 <= p + n PROVE FALSE
    BY <1>3
  <2>1. (q + 1) * m <= (p + n) * m
    BY <1>3, TimesMonotone
  <2> QED BY <1>3, <1>5, <1>6, <2>1
<1> QED BY <1>7 DEF p, q, k

(* The heap that was not too empty and gives away a superblock is not too  *)
(* empty after: n is the freed block, and where subtracting it wraps       *)
(* around, in_use is larger than alloced.                                  *)
LEMMA GivenIsEnough ==
    ASSUME NEW m \in Nat \ {0}, NEW bytes \in Nat, NEW M \in Nat,
           NEW z \in Nat, NEW a \in Nat, z <= a, a < M,
           NEW n \in Nat, 2 * n <= z,
           NEW u \in Nat, NEW v \in Nat, v = u - n \/ v = u - n + M,
           ~Low(u, a, m, bytes)
    PROVE  ~Low(v, a - z, m, bytes)
<1> DEFINE q == ((m - 1) * a) \div m
           p == ((m - 1) * (a - z)) \div m
<1>1. SUFFICES ASSUME v + bytes < a - z, v < p PROVE FALSE
  BY DEF Low
<1>2. v = u - n
  <2> HIDE DEF p, q
  <2> QED BY <1>1
<1>3. ~(u + bytes < a)
  <2>2. CASE m = 1
    <3>1. (m - 1) * (a - z) = 0
      BY <2>2
    <3>2. 0 \div m = 0
      BY <2>2
    <3>3. p = 0
      BY <3>1, <3>2
    <3> HIDE DEF p, q
    <3> QED BY <1>1, <3>3
  <2>3. CASE m # 1
    <3>1. p + n <= q
      BY <2>3, ShareFalls
    <3>2. p \in Int /\ q \in Int
      <4>1. (m - 1) * (a - z) \in Int /\ (m - 1) * a \in Int
        OBVIOUS
      <4> QED BY <4>1
    <3>3. ~(u + bytes < a) \/ ~(u < q)
      BY DEF Low
    <3> HIDE DEF p, q
    <3>4. u < q
      BY <1>1, <1>2, <3>1, <3>2
    <3> QED BY <3>3, <3>4
  <2> QED BY <2>2, <2>3
<1> HIDE DEF p, q
<1> QED BY <1>1, <1>2, <1>3

(* Where a thread can go on to give a superblock away, step by step.       *)
GivePlaces == { "bin_free", "account", "transfer", "insert_global" }

MovesTo(t, x) ==
    /\ th' = [th EXCEPT ![t] = x]
    /\ x.pc = "bin_free"      => LockOwner(t)
    /\ x.pc = "account"       => BinFree(t)
    /\ x.pc = "transfer"      => GiveRecycled(t) \/ GiveEmptiest(t)
    /\ x.pc = "insert_global" => LockGlobalForTransfer(t)
    /\ x.pc \in GivePlaces    => x.heap = th[t].heap /\ x.size = th[t].size

LEMMA GivePlacesMove ==
    ASSUME NEW t \in Threads, th[t] \in Thread, Continue(t) \/ Call(t), ~Crash(t)
    PROVE  \E x : MovesTo(t, x)
<1>1. ASSUME NEW x, th' = [th EXCEPT ![t] = x], x.pc \notin GivePlaces
      PROVE  \E y : MovesTo(t, y)
  <2>1. MovesTo(t, x)
    BY <1>1 DEF MovesTo, GivePlaces
  <2> QED BY <2>1
<1>2. CASE Call(t)
  <2>1. PICK x : th' = [th EXCEPT ![t] = x] /\ x.pc \in { "lock_heap", "lock_superblock" }
    BY <1>2, CallBegins
  <2> QED BY <1>1, <2>1 DEF GivePlaces
<1>3. CASE \/ ChooseInBin(t) \/ Recycle(t) \/ TakeNonfull(t) \/ TakeRecycled(t)
           \/ \E s \in Superblocks : MapSuperblock(t, s)
  <2>1. PICK x : th' = [th EXCEPT ![t] = x] /\ x.pc \in { "sb_alloc", "adopt" }
    BY <1>3, FoundKeeps
  <2> QED BY <1>1, <2>1 DEF GivePlaces
<1>4. CASE GiveRecycled(t) \/ GiveEmptiest(t)
  <2>1. PICK x : /\ th' = [th EXCEPT ![t] = x] /\ x.pc = "transfer"
                 /\ x.heap = th[t].heap /\ x.size = th[t].size
    BY <1>4, GivesMove
  <2>2. MovesTo(t, x)
    BY <1>4, <2>1 DEF MovesTo
  <2> QED BY <2>2
<1>5. CASE \/ MmapFails(t) \/ SuperblockAlloc(t) \/ FreeFromGlobal(t) \/ FreeAndKeep(t)
           \/ InsertRecycled(t) \/ InsertIntoBin(t)
  <2>1. th' = [th EXCEPT ![t] = IdleThread]
    BY <1>5, ReturnMoves
  <2>2. IdleThread.pc \notin GivePlaces
    BY DEF IdleThread, GivePlaces
  <2> QED BY <1>1, <2>1, <2>2
<1> DEFINE at(pc) == [th[t] EXCEPT !.pc = pc]
<1>6. \A pc : at(pc).pc = pc /\ at(pc).heap = th[t].heap /\ at(pc).size = th[t].size
  BY DEF Thread
<1>7. CASE LockHeap(t) \/ AskGlobal(t) \/ LockGlobal(t) \/ TakeNothing(t) \/ Adopt(t)
  <2>1. PICK pc \in { "bin_alloc", "lock_global", "get_sb_from_global", "map", "sb_alloc" } :
          th' = [th EXCEPT ![t] = at(pc)]
    BY <1>7 DEF LockHeap, AskGlobal, LockGlobal, TakeNothing, Adopt, Goto
  <2>2. at(pc).pc \notin GivePlaces
    BY <1>6 DEF GivePlaces
  <2> HIDE DEF at
  <2> QED BY <1>1, <2>1, <2>2
<1>8. CASE LockSuperblock(t)
  <2> DEFINE y == [th[t] EXCEPT !.pc = "lock_owner", !.heap = sb[th[t].s_ptr].owner,
                                !.size = sb[th[t].s_ptr].block_size]
  <2>1. th' = [th EXCEPT ![t] = y]
    BY <1>8 DEF LockSuperblock
  <2>2. y.pc = "lock_owner"
    BY DEF Thread
  <2> HIDE DEF y
  <2>3. y.pc \notin GivePlaces
    BY <2>2 DEF GivePlaces
  <2> QED BY <1>1, <2>1, <2>3
<1>9. CASE LockOwner(t) \/ BinFree(t) \/ LockGlobalForTransfer(t)
  <2>1. \/ LockOwner(t) /\ th' = [th EXCEPT ![t] = at("bin_free")]
        \/ BinFree(t) /\ th' = [th EXCEPT ![t] = at("account")]
        \/ LockGlobalForTransfer(t) /\ th' = [th EXCEPT ![t] = at("insert_global")]
    BY <1>9 DEF LockOwner, BinFree, LockGlobalForTransfer, Goto
  <2> HIDE DEF at
  <2>2. \/ MovesTo(t, at("bin_free")) \/ MovesTo(t, at("account"))
        \/ MovesTo(t, at("insert_global"))
    BY <1>6, <2>1 DEF MovesTo
  <2> QED BY <2>2
<1> HIDE DEF at
<1> QED BY <1>2, <1>3, <1>4, <1>5, <1>7, <1>8, <1>9 DEF Continue

(* A heap whose statistics are those of y.                                 *)
Counts(z, y) == z.in_use = y.in_use /\ z.alloced = y.alloced

LEMMA CountsDecide ==
    ASSUME NEW y, NEW z, Counts(z, y)
    PROVE  is_empty_enough(z) <=> is_empty_enough(y)
  BY DEF Counts, is_empty_enough

(* The statistics of a thread's heap change only where the code says so.   *)
CountPlaces == { "adopt", "map", "sb_alloc", "account", "insert_global" }

LEMMA CountsStay ==
    ASSUME IInv, NEW t \in Threads, Continue(t) \/ Call(t), NEW h \in ThreadHeaps,
           th[t].heap # h \/ th[t].pc \notin CountPlaces
    PROVE  Counts(heap'[h], heap[h])
<1>1. /\ heap \in [Heaps -> HeapRecord] /\ h \in Heaps /\ h # GlobalHeap
      /\ GlobalHeap \in Heaps
  BY Facts, HeapAssumption DEF Heaps
<1>2. \A v : Counts([heap[h] EXCEPT !.recycled_superblock = v], heap[h])
  BY <1>1 DEF Counts, HeapRecord
<1>3. \A b, v : Counts([heap[h] EXCEPT !.size_bins[b] = v], heap[h])
  BY <1>1 DEF Counts, HeapRecord
<1>4. \A b, v, w : Counts([heap[h] EXCEPT !.size_bins[b] = v, !.recycled_superblock = w], heap[h])
  BY <1>1 DEF Counts, HeapRecord
<1>5. Counts(heap[h], heap[h])
  BY DEF Counts
<1>6. ASSUME heap' = heap PROVE Counts(heap'[h], heap[h])
  BY <1>5, <1>6
<1>7. ASSUME NEW g, NEW y, heap' = [heap EXCEPT ![g] = y], g = h => Counts(y, heap[h])
      PROVE  Counts(heap'[h], heap[h])
  BY <1>1, <1>5, <1>7
<1> DEFINE g == th[t].heap
           b == size2idx(th[t].size)
<1>8. CASE \/ Call(t) \/ LockHeap(t) \/ ChooseInBin(t) \/ AskGlobal(t) \/ LockGlobal(t)
           \/ TakeNothing(t) \/ LockSuperblock(t) \/ LockOwner(t) \/ FreeFromGlobal(t)
           \/ LockGlobalForTransfer(t) \/ Crash(t)
  <2>1. CASE Call(t)
    BY <1>6, <2>1 DEF Call, Malloc, Free
  <2> QED BY <1>6, <1>8, <2>1 DEF LockHeap, ChooseInBin, AskGlobal, LockGlobal, TakeNothing,
             LockSuperblock, LockOwner, FreeFromGlobal, LockGlobalForTransfer, Crash
<1>9. CASE Recycle(t)
  <2>1. \E v : heap' = [heap EXCEPT ![g] = [heap[g] EXCEPT !.recycled_superblock = v]]
    BY <1>9 DEF Recycle
  <2>2. PICK v : heap' = [heap EXCEPT ![g] = [heap[g] EXCEPT !.recycled_superblock = v]]
    BY <2>1
  <2> DEFINE y == [heap[g] EXCEPT !.recycled_superblock = v]
  <2>3. g = h => Counts(y, heap[h])
    BY <1>2
  <2> HIDE DEF y
  <2> QED BY <1>7, <2>2, <2>3 DEF y
<1>10. CASE TakeNonfull(t) \/ TakeRecycled(t)
  <2>1. \E y : heap' = [heap EXCEPT ![GlobalHeap] = y]
    <3>1. CASE TakeNonfull(t)
      <4> DEFINE bm  == GlobalBin(t)
                 e   == FullestNonfull(bm)
                 del == delete_from_bin(sb, bm, e, bm.emptiness_bins[e])
                 v   == del.bm
      <4>1. heap' = [heap EXCEPT ![GlobalHeap] = [heap[GlobalHeap] EXCEPT !.size_bins[b] = v]]
        BY <3>1 DEF TakeNonfull
      <4> HIDE DEF v, b
      <4> QED BY <4>1
    <3>2. CASE TakeRecycled(t)
      <4> DEFINE v == sb[heap[GlobalHeap].recycled_superblock].next
      <4>1. heap' = [heap EXCEPT ![GlobalHeap] =
                       [heap[GlobalHeap] EXCEPT !.recycled_superblock = v]]
        BY <3>2 DEF TakeRecycled
      <4> HIDE DEF v
      <4> QED BY <4>1
    <3> QED BY <1>10, <3>1, <3>2
  <2> QED BY <1>1, <1>7, <2>1
<1>11. CASE BinFree(t)
  <2> DEFINE s     == th[t].s_ptr
             bm    == heap[g].size_bins[b]
             old   == get_eidx(sb[s])
             sbNew == [sb EXCEPT ![s] = superblock_free(@, th[t].off)]
             v     == delete_from_bin(sbNew, bm, old, s).bm
             w     == update_emptiness_class(sbNew, bm, old, s).bm
             y     == [heap[g] EXCEPT !.size_bins[b] = v, !.recycled_superblock = s]
             z     == [heap[g] EXCEPT !.size_bins[b] = w]
  <2>1. heap' = [heap EXCEPT ![g] = y] \/ heap' = [heap EXCEPT ![g] = z]
    <3>1. \/ heap' = [heap EXCEPT ![g].size_bins[b] = v, ![g].recycled_superblock = s]
          \/ heap' = [heap EXCEPT ![g].size_bins[b] = w]
      BY <1>11 DEF BinFree
    <3> HIDE DEF v, w, s, b
    <3> QED BY <3>1
  <2>2. g = h => Counts(y, heap[h]) /\ Counts(z, heap[h])
    <3> HIDE DEF v, w, s, b
    <3> QED BY <1>3, <1>4
  <2> HIDE DEF y, z
  <2> QED BY <1>7, <2>1, <2>2
<1>12. CASE \/ Adopt(t) \/ (\E s \in Superblocks : MapSuperblock(t, s)) \/ MmapFails(t)
            \/ SuperblockAlloc(t) \/ FreeAndKeep(t) \/ GiveRecycled(t) \/ GiveEmptiest(t)
  <2>1. th[t].pc \in CountPlaces
    BY <1>12 DEF Adopt, MapSuperblock, MmapFails, SuperblockAlloc, FreeAndKeep, GiveRecycled,
       GiveEmptiest, At, CountPlaces
  <2>2. \E y : heap' = [heap EXCEPT ![g] = y]
    <3>1. CASE Adopt(t) \/ MmapFails(t)
      BY <3>1 DEF Adopt, MmapFails
    <3>2. CASE \E s \in Superblocks : MapSuperblock(t, s)
      BY <3>2 DEF MapSuperblock
    <3>3. CASE SuperblockAlloc(t)
      BY <3>3 DEF SuperblockAlloc
    <3>4. CASE FreeAndKeep(t) \/ GiveRecycled(t)
      BY <3>4 DEF FreeAndKeep, GiveRecycled
    <3>5. CASE GiveEmptiest(t)
      BY <3>5 DEF GiveEmptiest
    <3> QED BY <1>12, <3>1, <3>2, <3>3, <3>4, <3>5
  <2> QED BY <1>7, <2>1, <2>2
<1>13. CASE InsertRecycled(t) \/ InsertIntoBin(t)
  <2>1. th[t].pc \in CountPlaces
    BY <1>13 DEF InsertRecycled, InsertIntoBin, At, CountPlaces
  <2>2. \E y, z : heap' = [heap EXCEPT ![GlobalHeap] = y, ![g] = z]
    <3>1. CASE InsertRecycled(t)
      BY <3>1 DEF InsertRecycled
    <3>2. CASE InsertIntoBin(t)
      BY <3>2 DEF InsertIntoBin
    <3> QED BY <1>13, <3>1, <3>2
  <2> QED BY <1>1, <1>5, <2>1, <2>2
<1> HIDE DEF g, b
<1> QED BY <1>8, <1>9, <1>10, <1>11, <1>12, <1>13 DEF Continue

(* So those of a heap whose mutex another thread holds stay.               *)
LEMMA CountedIsHeld ==
    ASSUME IInv, NEW t \in Threads, NEW h \in ThreadHeaps,
           th[t].heap = h, th[t].pc \in CountPlaces
    PROVE  lock[h] = t
<1>1. h \in Heaps /\ h \in LocksOf(t)
  BY DEF Heaps, LocksOf, CountPlaces
<1> QED BY <1>1, HoldsLock

LEMMA HeldCounts ==
    ASSUME IInv, NEW t \in Threads, Continue(t) \/ Call(t), NEW h \in ThreadHeaps,
           lock[h] # t
    PROVE  Counts(heap'[h], heap[h])
<1> QED BY CountsStay, CountedIsHeld

(* heap_free subtracts the block...                                        *)
LEMMA PaidCounts ==
    ASSUME IInv, NEW t \in Threads, FreeAndKeep(t) \/ GiveRecycled(t) \/ GiveEmptiest(t)
    PROVE  LET h   == th[t].heap
               dec == dec_usage(heap[h], th[t].size)
           IN  /\ h \in ThreadHeaps /\ th[t].pc = "account"
               /\ Counts(heap'[h], dec)
               /\ FreeAndKeep(t) \/ is_empty_enough(dec)
               /\ FreeAndKeep(t) => ~is_empty_enough(dec)
<1> DEFINE h   == th[t].heap
           dec == dec_usage(heap[h], th[t].size)
<1>1. /\ th[t].pc = "account" /\ h # GlobalHeap
      /\ FreeAndKeep(t) \/ is_empty_enough(dec)
      /\ FreeAndKeep(t) => ~is_empty_enough(dec)
  BY DEF FreeAndKeep, GiveRecycled, GiveEmptiest, At
<1>2. h \in ThreadHeaps /\ h \in Heaps
  BY <1>1, Facts DEF PlaceIn, FreePlaces, Heaps
<1>3. heap \in [Heaps -> HeapRecord] /\ dec \in HeapRecord
  <2>1. /\ heap \in [Heaps -> HeapRecord] /\ HeapIn(Mapped, heap[h])
        /\ Mapped \in SUBSET Superblocks /\ th[t].size \in Int
    BY <1>2, Facts DEF Thread
  <2>2. HeapIn(Mapped, dec)
    BY <2>1, StatisticsTyped
  <2> HIDE DEF dec
  <2> QED BY <2>1, <2>2 DEF HeapIn
<1>4. Counts(heap'[h], dec)
  <2>1. CASE FreeAndKeep(t)
    <3>1. heap' = [heap EXCEPT ![h] = dec]
      BY <2>1 DEF FreeAndKeep
    <3> HIDE DEF dec, h
    <3> QED BY <1>2, <1>3, <3>1 DEF Counts
  <2>2. CASE GiveRecycled(t)
    <3> DEFINE v == sb[dec.recycled_superblock].next
    <3>1. heap' = [heap EXCEPT ![h] = [dec EXCEPT !.recycled_superblock = v]]
      BY <2>2 DEF GiveRecycled
    <3> HIDE DEF dec, v, h
    <3>2. Counts([dec EXCEPT !.recycled_superblock = v], dec)
      BY <1>3 DEF Counts, HeapRecord
    <3> QED BY <1>2, <1>3, <3>1, <3>2
  <2>3. CASE GiveEmptiest(t)
    <3> DEFINE c   == find_emptiest_sb(dec)
               s   == dec.size_bins[c[1]].emptiness_bins[c[2]]
               del == delete_from_bin(sb, dec.size_bins[c[1]], c[2], s)
               b   == c[1]
               v   == del.bm
    <3>1. heap' = [heap EXCEPT ![h] = [dec EXCEPT !.size_bins[b] = v]]
      BY <2>3 DEF GiveEmptiest
    <3> HIDE DEF dec, b, v, h
    <3>2. Counts([dec EXCEPT !.size_bins[b] = v], dec)
      BY <1>3 DEF Counts, HeapRecord
    <3> QED BY <1>2, <1>3, <3>1, <3>2
  <2> QED BY <2>1, <2>2, <2>3
<1> QED BY <1>1, <1>2, <1>4

(* ... and, after a transfer, the superblock.                              *)
LEMMA InsertCounts ==
    ASSUME IInv, NEW t \in Threads, InsertRecycled(t) \/ InsertIntoBin(t)
    PROVE  LET h == th[t].heap
           IN  /\ h \in ThreadHeaps /\ th[t].pc = "insert_global"
               /\ heap'[h] = dec_alloced(heap[h], SUPERBLOCK_SIZE)
<1> DEFINE h == th[t].heap
           y == dec_alloced(heap[h], SUPERBLOCK_SIZE)
<1>1. th[t].pc = "insert_global"
  BY DEF InsertRecycled, InsertIntoBin, At
<1>2. /\ h \in ThreadHeaps /\ h # GlobalHeap /\ h \in Heaps /\ GlobalHeap \in Heaps
      /\ heap \in [Heaps -> HeapRecord]
  BY <1>1, Facts, HeapAssumption DEF PlaceIn, Heaps
<1>3. \E z : heap' = [heap EXCEPT ![GlobalHeap] = z, ![h] = y]
  <2>1. CASE InsertRecycled(t)
    <3> DEFINE z == [heap[GlobalHeap] EXCEPT !.recycled_superblock = th[t].victim]
    <3>1. heap' = [heap EXCEPT ![GlobalHeap] = z, ![h] = dec_alloced(@, SUPERBLOCK_SIZE)]
      BY <2>1 DEF InsertRecycled
    <3> HIDE DEF z
    <3>2. heap' = [heap EXCEPT ![GlobalHeap] = z, ![h] = y]
      BY <1>2, <3>1
    <3> QED BY <3>2
  <2>2. CASE InsertIntoBin(t)
    <3> DEFINE b    == th[t].bin_idx
               push == push_into_bin([sb EXCEPT ![th[t].victim].owner = GlobalHeap],
                                     heap[GlobalHeap].size_bins[b], th[t].eidx, th[t].victim)
               v    == push.bm
               z    == [heap[GlobalHeap] EXCEPT !.size_bins[b] = v]
    <3>1. heap' = [heap EXCEPT ![GlobalHeap] = z, ![h] = dec_alloced(@, SUPERBLOCK_SIZE)]
      BY <2>2 DEF InsertIntoBin
    <3> HIDE DEF z
    <3>2. heap' = [heap EXCEPT ![GlobalHeap] = z, ![h] = y]
      BY <1>2, <3>1
    <3> QED BY <3>2
  <2> QED BY <2>1, <2>2
<1>4. heap'[h] = y
  <2> HIDE DEF y, h
  <2> QED BY <1>2, <1>3
<1> QED BY <1>1, <1>2, <1>4

(* dec_usage and what is added to look at the heap before it cancel out.   *)
LEMMA BackToBefore ==
    ASSUME NEW M \in Nat, NEW u \in 0 .. M - 1, NEW n \in Nat, n < M
    PROVE  (((u - n) % M) + n) % M = u
<1>1. CASE n <= u
  <2>1. u - n \in 0 .. M - 1
    BY <1>1
  <2>2. (u - n) % M = u - n
    BY <2>1
  <2>3. ((u - n) + n) % M = u
    BY <2>1
  <2> QED BY <2>2, <2>3
<1>2. CASE ~(n <= u)
  <2> DEFINE v == u - n + M
  <2>1. v \in 0 .. M - 1
    BY <1>2
  <2>2. (u - n) % M = v
    BY <1>2, <2>1
  <2>3. v + n = u + M /\ v \in Int
    OBVIOUS
  <2>4. (u + M) % M = u
    OBVIOUS
  <2> HIDE DEF v
  <2> QED BY <2>2, <2>3, <2>4
<1> QED BY <1>1, <1>2

(* A thread that gives a superblock away found its heap too empty.         *)
Giving == \A t \in Threads :
    th[t].pc \in { "transfer", "insert_global" } => is_empty_enough(heap[th[t].heap])

LEMMA GivingStep ==
    IInv /\ Giving /\ [Next]_vars => Giving'
<1> SUFFICES ASSUME IInv, Giving, [Next]_vars, NEW u \in Threads,
                    th'[u].pc \in { "transfer", "insert_global" }
             PROVE  is_empty_enough(heap'[th'[u].heap])
  BY DEF Giving, is_empty_enough
<1>1. CASE th' = th /\ heap' = heap
  BY <1>1 DEF Giving
<1>2. ASSUME NEW t \in Threads, Continue(t) \/ Call(t), ~Crash(t)
      PROVE  is_empty_enough(heap'[th'[u].heap])
  <2>1. PICK x : MovesTo(t, x)
    BY <1>2, Facts, GivePlacesMove DEF PlaceIn
  <2>2. th'[t] = x /\ \A w \in Threads \ {t} : th'[w] = th[w]
    BY <2>1, OthersStay DEF MovesTo
  <2>3. CASE u # t
    <3>1. th'[u] = th[u]
      BY <2>2, <2>3
    <3>2. th[u].heap \in ThreadHeaps /\ is_empty_enough(heap[th[u].heap])
      BY <3>1, Facts DEF PlaceIn, Giving
    <3>3. th[u].heap \in Heaps /\ th[u].heap \in LocksOf(u)
      BY <3>1, <3>2 DEF LocksOf, Heaps
    <3>4. lock[th[u].heap] # t
      BY <2>3, <3>3, HoldsLock
    <3>5. Counts(heap'[th[u].heap], heap[th[u].heap])
      BY <1>2, <3>2, <3>4, HeldCounts
    <3> QED BY <3>1, <3>2, <3>5, CountsDecide
  <2>4. CASE u = t /\ x.pc = "transfer"
    <3> DEFINE h   == th[t].heap
               dec == dec_usage(heap[h], th[t].size)
    <3>1. (GiveRecycled(t) \/ GiveEmptiest(t)) /\ x.heap = h
      BY <2>1, <2>4 DEF MovesTo, GivePlaces
    <3>2. ~FreeAndKeep(t)
      BY <3>1 DEF FreeAndKeep, GiveRecycled, GiveEmptiest
    <3>3. Counts(heap'[h], dec) /\ is_empty_enough(dec)
      BY <3>1, <3>2, PaidCounts
    <3>4. is_empty_enough(heap'[h])
      <4> HIDE DEF h, dec
      <4> QED BY <3>3, CountsDecide
    <3> QED BY <2>2, <2>4, <3>1, <3>4
  <2>5. CASE u = t /\ x.pc = "insert_global"
    <3>1. LockGlobalForTransfer(t) /\ x.heap = th[t].heap
      BY <2>1, <2>5 DEF MovesTo, GivePlaces
    <3>2. heap' = heap /\ th[t].pc = "transfer"
      BY <3>1 DEF LockGlobalForTransfer, At
    <3> QED BY <2>2, <2>5, <3>1, <3>2 DEF Giving
  <2> QED BY <2>2, <2>3, <2>4, <2>5
<1> QED BY <1>1, <1>2 DEF Next, Stopped, Crash, vars

(* It has a superblock to give, as far as the statistics tell, if K >= 1.  *)
LEMMA GivenCounted ==
    ASSUME IInv, Giving, FREE_SB_THRESH > 0, NEW t \in Threads, th[t].pc = "insert_global"
    PROVE  SUPERBLOCK_SIZE <= heap[th[t].heap].alloced
<1> DEFINE y     == heap[th[t].heap]
           bytes == FREE_SB_THRESH * SUPERBLOCK_SIZE
<1>1. /\ y.in_use \in 0 .. SIZE_MOD - 1 /\ y.alloced \in 0 .. SIZE_MOD - 1
      /\ y.in_use \in Nat /\ y.alloced \in Nat
  <2>1. y \in HeapRecord
    BY Facts DEF PlaceIn, Heaps
  <2> QED BY <2>1, HeapAssumption DEF HeapRecord
<1>2. y.in_use + bytes < y.alloced
  <2>1. is_empty_enough(y)
    BY DEF Giving
  <2> HIDE DEF y
  <2> QED BY <1>1, <2>1, EmptyIsLow DEF Low
<1>3. 1 * SUPERBLOCK_SIZE <= bytes /\ SUPERBLOCK_SIZE \in Nat /\ bytes \in Nat
  <2>1. FREE_SB_THRESH \in Nat /\ 1 <= FREE_SB_THRESH /\ SUPERBLOCK_SIZE \in Nat
    BY HeapAssumption, SizesAssumption
  <2>2. 1 * SUPERBLOCK_SIZE <= FREE_SB_THRESH * SUPERBLOCK_SIZE
    BY <2>1, TimesMonotone
  <2>3. FREE_SB_THRESH * SUPERBLOCK_SIZE \in Nat
    BY <2>1
  <2> QED BY <2>1, <2>2, <2>3
<1> HIDE DEF y, bytes
<1>4. SUPERBLOCK_SIZE <= y.alloced
  BY <1>1, <1>2, <1>3
<1> QED BY <1>4 DEF y

(* The transfer makes up for the free.                                     *)
LEMMA InsertSuffices ==
    ASSUME IInv, NEW t \in Threads, InsertRecycled(t) \/ InsertIntoBin(t),
           SUPERBLOCK_SIZE <= heap[th[t].heap].alloced, ~is_empty_enough(BeforeFree(t))
    PROVE  ~is_empty_enough(heap'[th[t].heap])
<1> DEFINE y     == heap[th[t].heap]
           n     == th[t].size
           v     == y.in_use
           a     == y.alloced
           z     == SUPERBLOCK_SIZE
           m     == NUM_EMPTINESS_CLASSES - 1
           bytes == FREE_SB_THRESH * z
           u     == (v + n) % SIZE_MOD
           given == dec_alloced(y, z)
<1>1. th[t].heap \in ThreadHeaps /\ th[t].pc = "insert_global" /\ heap'[th[t].heap] = given
  BY InsertCounts
<1>2. y \in HeapRecord
  BY <1>1, TypedNow DEF Heaps
<1>3. v \in 0 .. SIZE_MOD - 1 /\ a \in 0 .. SIZE_MOD - 1 /\ z \in Nat /\ SIZE_MOD \in Nat
      /\ z < SIZE_MOD /\ FREE_SB_THRESH \in Nat
  BY <1>2, HeapAssumption, SizesAssumption DEF HeapRecord
<1>4. m \in Nat \ {0} /\ bytes \in Nat
  BY <1>3, SizeTableAssumption
<1>5. n \in Nat /\ 2 * n <= z
  <2>1. n \in Nat /\ n <= max_block_size
    BY Facts DEF PlaceIn, Thread
  <2>2. max_block_size \in Nat /\ 2 * max_block_size + HEADER_SIZE <= z /\ HEADER_SIZE \in Nat
    <3>1. num_size_bins - 1 \in Bins
      BY SizeTableAssumption DEF Bins
    <3> QED BY <3>1, LargestBin, SizeTableAssumption, SizesAssumption DEF max_block_size
  <2> HIDE DEF n
  <2> QED BY <1>3, <2>1, <2>2
<1>6. /\ BeforeFree(t).in_use = u /\ BeforeFree(t).alloced = a
      /\ given.in_use = v /\ given.alloced = (a - z) % SIZE_MOD
  <2>1. BeforeFree(t) = [y EXCEPT !.in_use = u]
    BY <1>1 DEF BeforeFree
  <2>2. given = [y EXCEPT !.alloced = (a - z) % SIZE_MOD]
    BY DEF dec_alloced
  <2> HIDE DEF u
  <2>3. \A w : /\ [y EXCEPT !.in_use = w].in_use = w /\ [y EXCEPT !.in_use = w].alloced = a
               /\ [y EXCEPT !.alloced = w].in_use = v /\ [y EXCEPT !.alloced = w].alloced = w
    BY <1>2 DEF HeapRecord
  <2> HIDE DEF y, a, v, given
  <2> QED BY <2>1, <2>2, <2>3
<1> HIDE DEF n, v, a, given
<1>7. (a - z) % SIZE_MOD = a - z /\ a \in Nat /\ z <= a /\ a < SIZE_MOD
  <2>1. z <= a
    BY DEF a
  <2> QED BY <1>3, <2>1
<1>8. u \in Nat /\ (v = u - n \/ v = u - n + SIZE_MOD)
  <2>1. CASE v + n < SIZE_MOD
    <3>1. u = v + n
      BY <1>3, <1>5, <2>1
    <3> QED BY <1>3, <1>5, <3>1
  <2>2. CASE ~(v + n < SIZE_MOD)
    <3>1. v + n - SIZE_MOD \in 0 .. SIZE_MOD - 1
      BY <1>3, <1>5, <2>2
    <3>2. u = v + n - SIZE_MOD
      BY <1>3, <1>5, <3>1
    <3> QED BY <1>3, <1>5, <3>1, <3>2
  <2> QED BY <2>1, <2>2
<1>9. u \in 0 .. SIZE_MOD - 1 /\ a - z \in 0 .. SIZE_MOD - 1
  BY <1>3, <1>5, <1>7
<1> HIDE DEF u, m, bytes
<1>10. ~Low(u, a, m, bytes)
  <2> DEFINE w == BeforeFree(t)
  <2>1. ~is_empty_enough(w) /\ w.in_use = u /\ w.alloced = a
    BY <1>6
  <2> HIDE DEF w
  <2>2. ~Low(w.in_use, w.alloced, m, bytes)
    BY <1>3, <1>9, <2>1, EmptyIsLow DEF m, bytes
  <2> QED BY <2>1, <2>2
<1>11. ~Low(v, a - z, m, bytes)
  <2> DEFINE M == SIZE_MOD
  <2>1. m \in Nat \ {0} /\ bytes \in Nat /\ n \in Nat /\ u \in Nat
    BY <1>4, <1>5, <1>8
  <2>2. M \in Nat /\ z \in Nat /\ a \in Nat /\ v \in Nat
    BY <1>3
  <2>3. z <= a /\ a < M /\ 2 * n <= z /\ (v = u - n \/ v = u - n + M)
    BY <1>5, <1>7, <1>8
  <2> HIDE DEF z, M
  <2> QED BY <1>10, <2>1, <2>2, <2>3, GivenIsEnough
<1>12. ~is_empty_enough(given)
  BY <1>3, <1>6, <1>7, <1>11, <1>9, EmptyIsLow DEF m, bytes
<1> QED BY <1>1, <1>12

(* The steps with which heap_free returns from a thread's heap.            *)
LEMMA FreeReturnsBy ==
    ASSUME IInv, [Next]_vars, NEW t \in Threads, FreeReturns(t)
    PROVE  FreeAndKeep(t) \/ InsertRecycled(t) \/ InsertIntoBin(t)
<1>1. /\ th[t].pc \in { "account", "insert_global" } /\ th'[t].pc = "idle"
      /\ th[t].heap # GlobalHeap
  BY DEF FreeReturns
<1>2. th'[t] # th[t]
  BY <1>1
<1>3. PICK w \in Threads : Continue(w) \/ Call(w)
  BY <1>2 DEF Next, Stopped, vars
<1>4. ~Crash(w)
  BY <1>2 DEF Crash
<1>5. PICK x : MovesTo(w, x)
  BY <1>3, <1>4, Facts, GivePlacesMove DEF PlaceIn
<1>6. w = t /\ x.pc = "idle"
  <2>1. th'[w] = x /\ \A v \in Threads \ {w} : th'[v] = th[v]
    BY <1>5, OthersStay DEF MovesTo
  <2> QED BY <1>1, <1>2, <2>1
<1>7. th[t].pc \notin AllocPlaces /\ th[t].pc # "idle"
  BY <1>1 DEF AllocPlaces
<1>8. ~Call(t)
  BY <1>7, Facts, CallBegins DEF PlaceIn
<1>9. /\ ~ChooseInBin(t) /\ ~Recycle(t) /\ ~TakeNonfull(t) /\ ~TakeRecycled(t)
      /\ ~ \E s \in Superblocks : MapSuperblock(t, s)
  BY <1>7, FoundMoves
<1>10. ~LockHeap(t) /\ ~AskGlobal(t) /\ ~LockGlobal(t) /\ ~TakeNothing(t) /\ ~Adopt(t)
  BY <1>1 DEF LockHeap, AskGlobal, LockGlobal, TakeNothing, Adopt, At
<1>11. ~MmapFails(t) /\ ~SuperblockAlloc(t)
  BY <1>1 DEF MmapFails, SuperblockAlloc, At
<1>12. ~LockSuperblock(t) /\ ~LockOwner(t) /\ ~BinFree(t) /\ ~LockGlobalForTransfer(t)
  BY <1>1 DEF LockSuperblock, LockOwner, BinFree, LockGlobalForTransfer, At
<1>13. ~FreeFromGlobal(t)
  BY <1>1 DEF FreeFromGlobal
<1>14. ~GiveRecycled(t) /\ ~GiveEmptiest(t)
  <2> SUFFICES ASSUME GiveRecycled(t) \/ GiveEmptiest(t) PROVE FALSE
    OBVIOUS
  <2>1. PICK y : th' = [th EXCEPT ![t] = y] /\ y.pc = "transfer"
    BY Facts, GivesMove DEF PlaceIn
  <2>2. th'[t] = y
    BY <2>1, OthersStay
  <2> QED BY <1>1, <2>1, <2>2
<1> QED BY <1>3, <1>4, <1>6, <1>8, <1>9, <1>10, <1>11, <1>12, <1>13, <1>14 DEF Continue

(* What each of them leaves, when there is a superblock to subtract.       *)
LEMMA TransferStep ==
    ASSUME IInv, [Next]_vars,
           \A t \in Threads : th[t].pc = "insert_global" =>
               SUPERBLOCK_SIZE <= heap[th[t].heap].alloced
    PROVE  TransferSuffices
<1> SUFFICES ASSUME NEW t \in Threads, FreeReturns(t), ~is_empty_enough(BeforeFree(t))
             PROVE  ~is_empty_enough(heap'[th[t].heap])
  BY DEF TransferSuffices
<1>1. CASE FreeAndKeep(t)
  BY <1>1, PaidCounts, CountsDecide
<1>2. CASE InsertRecycled(t) \/ InsertIntoBin(t)
  BY <1>2, InsertCounts, InsertSuffices
<1> QED BY <1>1, <1>2, FreeReturnsBy

LEMMA GivingInitially == Init => Giving
  BY DEF Init, IdleThread, Giving

(* One transfer is enough: in every execution, the racing ones included,   *)
(* when a heap may keep at least one free superblock...                    *)
THEOREM OneGivenIsEnough ==
    ASSUME FREE_SB_THRESH > 0
    PROVE  Spec => OneTransferIsEnough
<1>1. IInv /\ Giving /\ [Next]_vars => TransferSuffices
  BY GivenCounted, TransferStep
<1> QED BY <1>1, GivingInitially, GivingStep, InvariantHolds, PTL DEF Spec, OneTransferIsEnough

(* ... and with any threshold when every superblock is on its list, as     *)
(* `alloced' then counts the superblock that is given away.                *)
LEMMA GivenIsOwned ==
    ASSUME IInv, ListInv, Giving, NEW t \in Threads, th[t].pc = "insert_global"
    PROVE  SUPERBLOCK_SIZE <= heap[th[t].heap].alloced
<1> DEFINE h     == th[t].heap
           y     == heap[h]
           z     == SUPERBLOCK_SIZE
           k     == Cardinality(Owned(h))
           bytes == FREE_SB_THRESH * z
<1>1. h \in ThreadHeaps /\ h \in Heaps
  BY Facts DEF PlaceIn, Heaps
<1>2. /\ y.in_use \in 0 .. SIZE_MOD - 1 /\ y.alloced \in 0 .. SIZE_MOD - 1
      /\ y.in_use \in Nat /\ y.alloced \in Nat
  <2>1. y \in HeapRecord
    BY <1>1, TypedNow
  <2> QED BY <2>1, HeapAssumption DEF HeapRecord
<1>3. y.alloced = z * k
  BY <1>1 DEF ListInv, AllocedOK
<1>4. y.in_use + bytes < y.alloced
  <2>1. is_empty_enough(y)
    BY DEF Giving
  <2> HIDE DEF y
  <2> QED BY <1>2, <2>1, EmptyIsLow DEF Low
<1>5. k \in Nat /\ z \in Nat /\ FREE_SB_THRESH \in Nat
  <2>1. IsFiniteSet(Owned(h))
    BY AddressSpaceAssumption, FS_Subset DEF Owned
  <2> QED BY <2>1, FS_CardinalityType, SizesAssumption, HeapAssumption
<1> HIDE DEF y, k, h
<1>6. bytes \in Nat
  BY <1>5
<1>7. k # 0
  <2> SUFFICES ASSUME k = 0 PROVE FALSE
    OBVIOUS
  <2>1. z * k = 0
    BY <1>5
  <2> HIDE DEF bytes
  <2> QED BY <1>2, <1>3, <1>4, <1>6, <2>1
<1>8. 1 * z <= k * z /\ k * z = z * k
  <2>1. 1 <= k
    BY <1>5, <1>7
  <2> HIDE DEF z
  <2> QED BY <1>5, <2>1, TimesMonotone
<1>9. z <= y.alloced
  BY <1>3, <1>5, <1>8
<1> QED BY <1>9 DEF y, h

THEOREM OneOwnedIsEnough ==
    Spec /\ []DeletedFromItsList /\ []AllocatesFromItsBin => OneTransferIsEnough
<1>1. IInv /\ ListInv /\ Giving /\ [Next]_vars => TransferSuffices
  BY GivenIsOwned, TransferStep
<1> QED BY <1>1, GivingInitially, GivingStep, InvariantHolds, ListInvHolds, PTL
        DEF Spec, OneTransferIsEnough

=============================================================================
