----------------------------- MODULE HeapProofs -----------------------------
(***************************************************************************)
(* What holds of the concurrent heap for any number of threads, heaps and  *)
(* superblocks, any table of block sizes and any threshold: every variable *)
(* keeps its type, mutexes are held by the threads whose place in the code *)
(* says so, no pointer leads to unmapped memory, and no threads wait for   *)
(* each other in a circle.                                                 *)
(*                                                                         *)
(* None of this depends on the contents of the lists, so it holds in the   *)
(* executions too in which a stale owner has corrupted them.               *)
(***************************************************************************)
EXTENDS HeapProperties, BinManagerProofs

-----------------------------------------------------------------------------
(* The inductive invariant *)

Mapped == { s \in Superblocks : sb[s].owner # NULL }

(* A heap is well typed and its pointers lead into M.                      *)
HeapIn(M, h) ==
    /\ h \in HeapRecord
    /\ h.recycled_superblock \in M \cup {NULL}
    /\ \A b \in Bins : ManagerIn(M, h.size_bins[b])

(* What a thread in state x relies on at its place in the code.            *)
PlaceIn(M, x) ==
    /\ x \in Thread
    /\ x.size <= max_block_size
    /\ x.s_ptr \in M \cup {NULL} /\ x.victim \in M \cup {NULL}
    /\ x.pc \in AllocPlaces => x.heap \in ThreadHeaps
    /\ x.pc \in FreePlaces \cup { "adopt", "sb_alloc" } => x.s_ptr \in M
    /\ x.pc \in FreePlaces \ { "lock_superblock" } => x.heap \in Heaps
    /\ x.pc \in { "transfer", "insert_global" } =>
         x.heap \in ThreadHeaps /\ x.victim \in M
    /\ x.eidx # -1 => x.bin_idx \in Bins

HeadersOK == /\ HeadersIn(Heaps, Mapped, sb)
             /\ \A s \in Superblocks : sb[s].block_size <= max_block_size

HeapsOK == heap \in [Heaps -> HeapRecord] /\ \A h \in Heaps : HeapIn(Mapped, heap[h])

ThreadsOK == th \in [Threads -> Thread] /\ \A t \in Threads : PlaceIn(Mapped, th[t])

HeldOK == held \subseteq Block /\ \A p \in held : p.sb \in Mapped

LocksOK == lock \in [Locks -> Threads \cup {NULL}] /\ LockDiscipline

IInv == /\ HeadersOK
        /\ HeapsOK
        /\ ThreadsOK
        /\ HeldOK
        /\ LocksOK
        /\ crashed \in BOOLEAN

(* It contains the type invariant and says where pointers lead.            *)
LEMMA IInvImplies == IInv => TypeOK /\ OnlyMappedReachable /\ LockDiscipline
<1> SUFFICES ASSUME IInv PROVE TypeOK /\ OnlyMappedReachable /\ LockDiscipline
  OBVIOUS
<1>1. TypeOK
  BY DEF IInv, HeadersOK, HeadersIn, HeapsOK, ThreadsOK, HeldOK, LocksOK, TypeOK
<1>2. OnlyMappedReachable
  <2>1. \A s \in Superblocks : sb[s].prev \in Mapped \cup {NULL} /\ sb[s].next \in Mapped \cup {NULL}
    BY DEF IInv, HeadersOK, HeadersIn
  <2>2. \A h \in Heaps :
          /\ heap[h].recycled_superblock \in Mapped \cup {NULL}
          /\ \A b \in Bins, e \in EmptinessClasses :
                heap[h].size_bins[b].emptiness_bins[e] \in Mapped \cup {NULL}
    BY DEF IInv, HeapsOK, HeapIn, ManagerIn
  <2>3. \A t \in Threads : /\ th[t].s_ptr \in Mapped \cup {NULL}
                           /\ th[t].victim \in Mapped \cup {NULL}
    BY DEF IInv, ThreadsOK, PlaceIn
  <2>4. \A p \in held : p.sb \in Mapped \cup {NULL}
    BY DEF IInv, HeldOK
  <2> QED BY <2>1, <2>2, <2>3, <2>4 DEF OnlyMappedReachable, Mapped
<1> QED BY <1>1, <1>2 DEF IInv, LocksOK

-----------------------------------------------------------------------------
(* Facts about the operators of the heap *)

(* More mapped superblocks do no harm.                                     *)
LEMMA MoreMapped ==
    ASSUME NEW M \in SUBSET Superblocks, NEW N \in SUBSET Superblocks, M \subseteq N
    PROVE  /\ \A h : HeapIn(M, h) => HeapIn(N, h)
           /\ \A x : PlaceIn(M, x) => PlaceIn(N, x)
<1>1. \A h : HeapIn(M, h) => HeapIn(N, h)
  BY DEF HeapIn, ManagerIn
<1>2. \A x : PlaceIn(M, x) => PlaceIn(N, x)
  BY DEF PlaceIn
<1> QED BY <1>1, <1>2

(* Writing one field of a heap.                                            *)
LEMMA SetManager ==
    ASSUME NEW M \in SUBSET Superblocks, NEW h, HeapIn(M, h),
           NEW b \in Bins, NEW bm, ManagerIn(M, bm)
    PROVE  HeapIn(M, [h EXCEPT !.size_bins[b] = bm])
<1> DEFINE bins == [h.size_bins EXCEPT ![b] = bm]
           new  == [h EXCEPT !.size_bins = bins]
<1>1. bins \in [Bins -> BinManagerRecord] /\ \A c \in Bins : ManagerIn(M, bins[c])
  <2>1. h.size_bins \in [Bins -> BinManagerRecord]
    BY DEF HeapIn, HeapRecord
  <2>2. bm \in BinManagerRecord
    BY DEF ManagerIn
  <2>3. \A c \in Bins : bins[c] = IF c = b THEN bm ELSE h.size_bins[c]
    BY <2>1
  <2> QED BY <2>1, <2>2, <2>3 DEF HeapIn
<1> HIDE DEF bins
<1>2. /\ new \in HeapRecord /\ new.size_bins = bins
      /\ new.recycled_superblock = h.recycled_superblock
  BY <1>1 DEF HeapIn, HeapRecord
<1>3. HeapIn(M, new)
  <2> HIDE DEF new
  <2> QED BY <1>1, <1>2 DEF HeapIn
<1>4. new = [h EXCEPT !.size_bins[b] = bm]
  BY DEF bins
<1> QED BY <1>3, <1>4

LEMMA SetRecycled ==
    ASSUME NEW M \in SUBSET Superblocks, NEW h, HeapIn(M, h),
           NEW s \in M \cup {NULL}
    PROVE  HeapIn(M, [h EXCEPT !.recycled_superblock = s])
<1> DEFINE new == [h EXCEPT !.recycled_superblock = s]
<1>1. /\ new \in HeapRecord /\ new.size_bins = h.size_bins
      /\ new.recycled_superblock = s
  BY DEF HeapIn, HeapRecord
<1>2. HeapIn(M, new)
  <2> HIDE DEF new
  <2> QED BY <1>1 DEF HeapIn
<1> QED BY <1>2

(* The statistics stay within a size_t, and nothing else changes.          *)
LEMMA StatisticsTyped ==
    ASSUME NEW M \in SUBSET Superblocks, NEW h, HeapIn(M, h), NEW n \in Int
    PROVE  /\ HeapIn(M, inc_usage(h, n)) /\ HeapIn(M, inc_alloced(h, n))
           /\ HeapIn(M, dec_usage(h, n)) /\ HeapIn(M, dec_alloced(h, n))
           /\ dec_usage(h, n).recycled_superblock = h.recycled_superblock
           /\ dec_usage(h, n).size_bins = h.size_bins
<1> DEFINE Stat == 0 .. SIZE_MOD - 1
<1>1. \A a \in Int : a % SIZE_MOD \in Stat
  <2>1. SIZE_MOD \in Nat \ {0}
    BY HeapAssumption, SizesAssumption
  <2> QED BY <2>1, RemainderRange
<1>2. h.in_use \in Int /\ h.alloced \in Int /\ h.in_use \in Stat /\ h.alloced \in Stat
      /\ h.max_in_use \in Stat /\ h.max_alloced \in Stat
  BY DEF HeapIn, HeapRecord
<1>3. /\ h.in_use + n \in Int /\ h.alloced + n \in Int
      /\ h.in_use - n \in Int /\ h.alloced - n \in Int
  BY <1>2
<1>4. /\ (h.in_use + n) % SIZE_MOD \in Stat /\ (h.alloced + n) % SIZE_MOD \in Stat
      /\ (h.in_use - n) % SIZE_MOD \in Stat /\ (h.alloced - n) % SIZE_MOD \in Stat
  <2> HIDE DEF Stat
  <2> QED BY <1>1, <1>3
<1> DEFINE use  == (h.in_use + n) % SIZE_MOD
           all  == (h.alloced + n) % SIZE_MOD
           muse == IF use > h.max_in_use THEN use ELSE h.max_in_use
           mall == IF all > h.max_alloced THEN all ELSE h.max_alloced
<1>5. use \in Stat /\ all \in Stat /\ muse \in Stat /\ mall \in Stat
  BY <1>2, <1>4
<1>6. /\ inc_usage(h, n) = [h EXCEPT !.in_use = use, !.max_in_use = muse]
      /\ inc_alloced(h, n) = [h EXCEPT !.alloced = all, !.max_alloced = mall]
      /\ dec_usage(h, n) = [h EXCEPT !.in_use = (h.in_use - n) % SIZE_MOD]
      /\ dec_alloced(h, n) = [h EXCEPT !.alloced = (h.alloced - n) % SIZE_MOD]
  <2>1. inc_usage(h, n) = [h EXCEPT !.in_use = use, !.max_in_use = muse]
    BY DEF inc_usage
  <2>2. inc_alloced(h, n) = [h EXCEPT !.alloced = all, !.max_alloced = mall]
    BY DEF inc_alloced
  <2>3. dec_usage(h, n) = [h EXCEPT !.in_use = (h.in_use - n) % SIZE_MOD]
    BY DEF dec_usage
  <2>4. dec_alloced(h, n) = [h EXCEPT !.alloced = (h.alloced - n) % SIZE_MOD]
    BY DEF dec_alloced
  <2> HIDE DEF use, all, muse, mall
  <2> QED BY <2>1, <2>2, <2>3, <2>4
<1>7. ASSUME NEW a \in Stat, NEW b \in Stat
      PROVE  /\ HeapIn(M, [h EXCEPT !.in_use = a, !.max_in_use = b])
             /\ HeapIn(M, [h EXCEPT !.alloced = a, !.max_alloced = b])
             /\ HeapIn(M, [h EXCEPT !.in_use = a])
             /\ HeapIn(M, [h EXCEPT !.alloced = a])
  BY DEF HeapIn, HeapRecord
<1>8. dec_usage(h, n).recycled_superblock = h.recycled_superblock
      /\ dec_usage(h, n).size_bins = h.size_bins
  BY DEF dec_usage, HeapIn, HeapRecord
<1> HIDE DEF Stat, use, all, muse, mall
<1>9. HeapIn(M, inc_usage(h, n)) /\ HeapIn(M, inc_alloced(h, n))
  <2>1. HeapIn(M, [h EXCEPT !.in_use = use, !.max_in_use = muse])
    BY <1>5, <1>7
  <2>2. HeapIn(M, [h EXCEPT !.alloced = all, !.max_alloced = mall])
    BY <1>5, <1>7
  <2> QED BY <1>6, <2>1, <2>2
<1>10. HeapIn(M, dec_usage(h, n)) /\ HeapIn(M, dec_alloced(h, n))
  BY <1>4, <1>6, <1>7
<1> QED BY <1>8, <1>9, <1>10

(* The search for the fullest superblock with room finds one.              *)
LEMMA FullestFound ==
    ASSUME NEW bm, HasNonfull(bm)
    PROVE  /\ FullestNonfull(bm) \in NonfullClasses
           /\ bm.emptiness_bins[FullestNonfull(bm)] # NULL
<1> DEFINE T == { e \in NonfullClasses : bm.emptiness_bins[e] # NULL }
<1>1. T \in SUBSET Nat /\ T # {}
  BY DEF NonfullClasses, HasNonfull
<1>2. PICK e \in T : \A f \in T : e <= f
  <2> HIDE DEF T
  <2> QED BY <1>1, LeastExists
<1>3. /\ e \in NonfullClasses /\ bm.emptiness_bins[e] # NULL
      /\ \A f \in NonfullClasses : f < e => bm.emptiness_bins[f] = NULL
  BY <1>1, <1>2 DEF NonfullClasses
<1> HIDE DEF T
<1> QED BY <1>3 DEF FullestNonfull

LEMMA NonfullClass == NonfullClasses \subseteq EmptinessClasses
  BY SizeTableAssumption DEF NonfullClasses, EmptinessClasses

(* So does the search for the emptiest one.                                *)
LEMMA EmptiestFound ==
    ASSUME NEW h, Candidates(h) # {}
    PROVE  find_emptiest_sb(h) \in Candidates(h)
<1> DEFINE E == { c[2] : c \in Candidates(h) }
<1>1. \A c \in Candidates(h) : c[1] \in Nat /\ c[2] \in 0 .. NUM_EMPTINESS_CLASSES - 1
                               /\ c = << c[1], c[2] >>
  BY SizeTableAssumption DEF Candidates, Bins, NonfullClasses
<1>2. E \in SUBSET (0 .. NUM_EMPTINESS_CLASSES - 1) /\ E # {}
  BY <1>1
<1>3. PICK e \in E : \A f \in E : f <= e
  <2> HIDE DEF E
  <2>1. NUM_EMPTINESS_CLASSES - 1 \in Nat
    BY SizeTableAssumption
  <2> QED BY <1>2, <2>1, GreatestExists
<1> DEFINE B == { c[1] : c \in { d \in Candidates(h) : d[2] = e } }
<1>4. B \in SUBSET Nat /\ B # {}
  BY <1>1, <1>3
<1>5. PICK b \in B : \A a \in B : b <= a
  <2> HIDE DEF B
  <2> QED BY <1>4, LeastExists
<1>6. PICK c \in Candidates(h) : c[1] = b /\ c[2] = e
  BY <1>5
<1>7. \A d \in Candidates(h) : d[2] < c[2] \/ (d[2] = c[2] /\ c[1] <= d[1])
  <2> TAKE d \in Candidates(h)
  <2>1. d[2] \in E /\ d[2] <= e
    BY <1>3
  <2>2. d[2] = e => d[1] \in B /\ b <= d[1]
    BY <1>5
  <2>3. e \in Nat /\ d[2] \in Nat
    BY <1>1, <1>6
  <2> HIDE DEF B, E
  <2> QED BY <1>6, <2>1, <2>2, <2>3
<1> HIDE DEF B, E
<1> QED BY <1>7 DEF find_emptiest_sb

(* A thread that has found a superblock to allocate from, or to give away. *)
LEMMA FoundMoves ==
    ASSUME NEW t \in Threads,
           \/ ChooseInBin(t) \/ Recycle(t) \/ TakeNonfull(t) \/ TakeRecycled(t)
           \/ \E s \in Superblocks : MapSuperblock(t, s)
    PROVE  /\ \/ \E s : th' = [th EXCEPT ![t] = [th[t] EXCEPT
                                  !.pc = "sb_alloc", !.in_bin = TRUE, !.s_ptr = s]]
              \/ \E pc \in { "sb_alloc", "adopt" } : \E s :
                    th' = [th EXCEPT ![t] = [th[t] EXCEPT !.pc = pc, !.s_ptr = s]]
           /\ th[t].pc \in AllocPlaces /\ held' = held
<1> DEFINE InBinTo(s) == th' = [th EXCEPT ![t] = [th[t] EXCEPT
                                  !.pc = "sb_alloc", !.in_bin = TRUE, !.s_ptr = s]]
           To(pc, s) == th' = [th EXCEPT ![t] = [th[t] EXCEPT !.pc = pc, !.s_ptr = s]]
           Finds == (\E s : InBinTo(s)) \/ \E pc \in { "sb_alloc", "adopt" } : \E s : To(pc, s)
<1> SUFFICES Finds /\ th[t].pc \in AllocPlaces /\ held' = held
  OBVIOUS
<1>1. CASE ChooseInBin(t)
  <2> DEFINE bm == heap[th[t].heap].size_bins[size2idx(th[t].size)]
  <2>1. InBinTo(bm.emptiness_bins[FullestNonfull(bm)]) /\ held' = held /\ th[t].pc = "bin_alloc"
    BY <1>1 DEF ChooseInBin, At
  <2> HIDE DEF InBinTo
  <2> QED BY <2>1 DEF AllocPlaces
<1>2. CASE Recycle(t)
  <2>1. To("sb_alloc", heap[th[t].heap].recycled_superblock) /\ held' = held
        /\ th[t].pc = "bin_alloc"
    BY <1>2 DEF Recycle, At
  <2> HIDE DEF To
  <2> QED BY <2>1 DEF AllocPlaces
<1>3. CASE TakeNonfull(t)
  <2> DEFINE bm == GlobalBin(t)
  <2>1. To("adopt", bm.emptiness_bins[FullestNonfull(bm)]) /\ held' = held
        /\ th[t].pc = "get_sb_from_global"
    BY <1>3 DEF TakeNonfull, At
  <2> HIDE DEF To
  <2> QED BY <2>1 DEF AllocPlaces
<1>4. CASE TakeRecycled(t)
  <2>1. To("adopt", heap[GlobalHeap].recycled_superblock) /\ held' = held
        /\ th[t].pc = "get_sb_from_global"
    BY <1>4 DEF TakeRecycled, At
  <2> HIDE DEF To
  <2> QED BY <2>1 DEF AllocPlaces
<1>5. CASE \E s \in Superblocks : MapSuperblock(t, s)
  <2>1. PICK s \in Superblocks : MapSuperblock(t, s)
    BY <1>5
  <2>2. To("sb_alloc", s)
    BY <2>1 DEF MapSuperblock
  <2>3. held' = held /\ th[t].pc = "map"
    BY <2>1 DEF MapSuperblock, At
  <2> HIDE DEF To
  <2> QED BY <2>2, <2>3 DEF AllocPlaces
<1> HIDE DEF Finds
<1> QED BY <1>1, <1>2, <1>3, <1>4, <1>5

LEMMA GivesMove ==
    ASSUME NEW t \in Threads, th[t] \in Thread, GiveRecycled(t) \/ GiveEmptiest(t)
    PROVE  \E x : /\ th' = [th EXCEPT ![t] = x] /\ x.pc = "transfer"
                  /\ x.heap = th[t].heap /\ x.s_ptr = th[t].s_ptr /\ x.size = th[t].size
<1> DEFINE dec == dec_usage(heap[th[t].heap], th[t].size)
           c   == find_emptiest_sb(dec)
           v1  == dec.recycled_superblock
           v2  == dec.size_bins[c[1]].emptiness_bins[c[2]]
<1>1. CASE GiveRecycled(t)
  <2> DEFINE x == [th[t] EXCEPT !.pc = "transfer", !.victim = v1]
  <2>1. th' = [th EXCEPT ![t] = x]
    BY <1>1 DEF GiveRecycled
  <2> HIDE DEF v1
  <2>2. /\ x.pc = "transfer" /\ x.heap = th[t].heap /\ x.s_ptr = th[t].s_ptr
        /\ x.size = th[t].size
    BY DEF Thread
  <2> HIDE DEF x
  <2> QED BY <2>1, <2>2
<1>2. CASE GiveEmptiest(t)
  <2> DEFINE x == [th[t] EXCEPT !.pc = "transfer", !.victim = v2,
                                !.bin_idx = c[1], !.eidx = c[2]]
  <2>1. th' = [th EXCEPT ![t] = x]
    BY <1>2 DEF GiveEmptiest
  <2> HIDE DEF v2, c
  <2>2. /\ x.pc = "transfer" /\ x.heap = th[t].heap /\ x.s_ptr = th[t].s_ptr
        /\ x.size = th[t].size
    BY DEF Thread
  <2> HIDE DEF x
  <2> QED BY <2>1, <2>2
<1> QED BY <1>1, <1>2

(* A thread that has found a superblock keeps its heap and its size.       *)
LEMMA FoundKeeps ==
    ASSUME NEW t \in Threads, th[t] \in Thread,
           \/ ChooseInBin(t) \/ Recycle(t) \/ TakeNonfull(t) \/ TakeRecycled(t)
           \/ \E s \in Superblocks : MapSuperblock(t, s)
    PROVE  \E x : /\ th' = [th EXCEPT ![t] = x] /\ x.pc \in { "sb_alloc", "adopt" }
                  /\ x.heap = th[t].heap /\ x.size = th[t].size
<1> DEFINE x1(s) == [th[t] EXCEPT !.pc = "sb_alloc", !.in_bin = TRUE, !.s_ptr = s]
           x2(pc, s) == [th[t] EXCEPT !.pc = pc, !.s_ptr = s]
<1>1. \/ \E s : th' = [th EXCEPT ![t] = x1(s)]
      \/ \E pc \in { "sb_alloc", "adopt" } : \E s : th' = [th EXCEPT ![t] = x2(pc, s)]
  BY FoundMoves
<1>2. \A s : x1(s).pc = "sb_alloc" /\ x1(s).heap = th[t].heap /\ x1(s).size = th[t].size
  BY DEF Thread
<1>3. \A pc, s : x2(pc, s).pc = pc /\ x2(pc, s).heap = th[t].heap /\ x2(pc, s).size = th[t].size
  BY DEF Thread
<1> HIDE DEF x1, x2
<1> QED BY <1>1, <1>2, <1>3

(* A thread that only goes on to its next mutex, or with its next call.    *)
LEMMA PlaceMoves ==
    ASSUME NEW t \in Threads, th[t] \in Thread,
           \/ LockHeap(t) \/ AskGlobal(t) \/ LockGlobal(t) \/ TakeNothing(t) \/ Adopt(t)
           \/ LockOwner(t) \/ BinFree(t) \/ LockGlobalForTransfer(t)
    PROVE  \E x : /\ th' = [th EXCEPT ![t] = x] /\ x.heap = th[t].heap
                  /\ x.size = th[t].size /\ x.s_ptr = th[t].s_ptr
                  /\ LockOwner(t) => x.pc = "bin_free"
                  /\ BinFree(t) => x.pc = "account"
                  /\ ~LockOwner(t) /\ ~BinFree(t) =>
                       x.pc \in { "bin_alloc", "lock_global", "get_sb_from_global", "map",
                                  "sb_alloc", "insert_global" }
<1> DEFINE x(pc) == [th[t] EXCEPT !.pc = pc]
           On(pc) == th' = [th EXCEPT ![t] = x(pc)]
<1>1. /\ LockHeap(t) => On("bin_alloc")
      /\ AskGlobal(t) => On("lock_global")
      /\ LockGlobal(t) => On("get_sb_from_global")
      /\ TakeNothing(t) => On("map")
      /\ Adopt(t) => On("sb_alloc")
      /\ LockGlobalForTransfer(t) => On("insert_global")
  BY DEF LockHeap, AskGlobal, LockGlobal, TakeNothing, Adopt, LockGlobalForTransfer, Goto
<1>2. LockOwner(t) => On("bin_free") /\ th[t].pc = "lock_owner"
  BY DEF LockOwner, Goto, At
<1>3. BinFree(t) => On("account") /\ th[t].pc = "bin_free"
  BY DEF BinFree, Goto, At
<1>4. \A pc : /\ x(pc).pc = pc /\ x(pc).heap = th[t].heap
              /\ x(pc).size = th[t].size /\ x(pc).s_ptr = th[t].s_ptr
  BY DEF Thread
<1> HIDE DEF x
<1>5. CASE LockOwner(t)
  <2>1. ~BinFree(t)
    BY <1>2, <1>3, <1>5
  <2> QED BY <1>2, <1>4, <1>5, <2>1
<1>6. CASE BinFree(t)
  <2>1. ~LockOwner(t)
    BY <1>2, <1>3, <1>6
  <2> QED BY <1>3, <1>4, <1>6, <2>1
<1>7. CASE ~LockOwner(t) /\ ~BinFree(t)
  <2>1. PICK pc \in { "bin_alloc", "lock_global", "get_sb_from_global", "map",
                       "sb_alloc", "insert_global" } : On(pc)
    <3> HIDE DEF On
    <3> QED BY <1>1, <1>7
  <2> DEFINE y == x(pc)
  <2>2. th' = [th EXCEPT ![t] = y]
    BY <2>1
  <2>3. y.pc = pc /\ y.heap = th[t].heap /\ y.size = th[t].size /\ y.s_ptr = th[t].s_ptr
    BY <1>4
  <2> HIDE DEF y, On
  <2> QED BY <1>7, <2>1, <2>2, <2>3
<1> QED BY <1>5, <1>6, <1>7

LEMMA CallBegins ==
    ASSUME NEW t \in Threads, th[t] \in Thread, Call(t)
    PROVE  /\ \E x : /\ th' = [th EXCEPT ![t] = x]
                     /\ x.pc \in { "lock_heap", "lock_superblock" }
           /\ th[t].pc = "idle" /\ UNCHANGED << sb, heap, lock, crashed >>
<1>1. CASE \E size \in Requests : Malloc(t, size)
  <2>1. PICK size \in Requests : Malloc(t, size)
    BY <1>1
  <2> DEFINE x == [th[t] EXCEPT !.pc = "lock_heap", !.heap = HeapOf[t], !.size = size]
  <2>2. th' = [th EXCEPT ![t] = x] /\ th[t].pc = "idle" /\ UNCHANGED << sb, heap, lock, crashed >>
    BY <2>1 DEF Malloc, At
  <2>3. x.pc = "lock_heap"
    BY DEF Thread
  <2> HIDE DEF x
  <2> QED BY <2>2, <2>3
<1>2. CASE \E p \in held : Free(t, p)
  <2>1. PICK p \in held : Free(t, p)
    BY <1>2
  <2> DEFINE x == [th[t] EXCEPT !.pc = "lock_superblock", !.s_ptr = p.sb, !.off = p.off]
  <2>2. th' = [th EXCEPT ![t] = x] /\ th[t].pc = "idle" /\ UNCHANGED << sb, heap, lock, crashed >>
    BY <2>1 DEF Free, At
  <2>3. x.pc = "lock_superblock"
    BY DEF Thread
  <2> HIDE DEF x
  <2> QED BY <2>2, <2>3
<1> QED BY <1>1, <1>2 DEF Call

(* A thread whose call returns.                                            *)
LEMMA ReturnMoves ==
    ASSUME NEW t,
           \/ MmapFails(t) \/ SuperblockAlloc(t) \/ FreeFromGlobal(t) \/ FreeAndKeep(t)
           \/ InsertRecycled(t) \/ InsertIntoBin(t)
    PROVE  th' = [th EXCEPT ![t] = IdleThread]
<1>1. /\ MmapFails(t) => Return(t)
      /\ SuperblockAlloc(t) => Return(t)
      /\ FreeFromGlobal(t) => Return(t)
      /\ FreeAndKeep(t) => Return(t)
      /\ InsertRecycled(t) => Return(t)
      /\ InsertIntoBin(t) => Return(t)
  BY DEF MmapFails, SuperblockAlloc, FreeFromGlobal, FreeAndKeep, InsertRecycled, InsertIntoBin
<1> QED BY <1>1 DEF Return

-----------------------------------------------------------------------------
(* Mutexes *)

(* What a thread does to the mutexes agrees with where it goes.            *)
LEMMA OthersLocks ==
    ASSUME NEW t \in Threads, NEW u \in Threads, th'[u] = th[u]
    PROVE  LocksOf(u)' = LocksOf(u)
  BY DEF LocksOf

LEMMA LocksKept ==
    ASSUME LocksOK, NEW t \in Threads, UNCHANGED lock,
           \A u \in Threads \ {t} : th'[u] = th[u],
           LocksOf(t)' = LocksOf(t)
    PROVE  LocksOK'
<1>1. \A u \in Threads : LocksOf(u)' = LocksOf(u)
  BY OthersLocks
<1> QED BY <1>1 DEF LocksOK, LockDiscipline

LEMMA LocksTaken ==
    ASSUME LocksOK, NEW t \in Threads, NEW l \in Locks, Acquire(t, l),
           \A u \in Threads \ {t} : th'[u] = th[u],
           LocksOf(t)' = LocksOf(t) \cup {l}
    PROVE  LocksOK'
<1>1. lock' \in [Locks -> Threads \cup {NULL}]
  BY DEF LocksOK, Acquire
<1>2. \A k \in Locks : lock'[k] = IF k = l THEN t ELSE lock[k]
  BY DEF LocksOK, Acquire
<1>3. t # NULL /\ lock[l] = NULL
  BY HeapAssumption DEF Acquire
<1>4. ASSUME NEW u \in Threads
      PROVE  { k \in Locks : lock'[k] = u } = LocksOf(u)'
  <2>1. CASE u = t
    BY <1>2, <1>3, <2>1 DEF LocksOK, LockDiscipline
  <2>2. CASE u # t
    <3>1. LocksOf(u)' = LocksOf(u)
      BY <2>2, OthersLocks
    <3>2. u # NULL
      BY HeapAssumption
    <3> QED BY <1>2, <1>3, <2>2, <3>1, <3>2 DEF LocksOK, LockDiscipline
  <2> QED BY <2>1, <2>2
<1> QED BY <1>1, <1>4 DEF LocksOK, LockDiscipline

LEMMA LocksReleased ==
    ASSUME LocksOK, NEW t \in Threads, NEW ls \in SUBSET LocksOf(t), Release(ls),
           \A u \in Threads \ {t} : th'[u] = th[u],
           LocksOf(t)' = LocksOf(t) \ ls
    PROVE  LocksOK'
<1>1. lock' \in [Locks -> Threads \cup {NULL}]
  BY DEF LocksOK, Release
<1>2. \A k \in Locks : lock'[k] = IF k \in ls THEN NULL ELSE lock[k]
  BY DEF Release
<1>3. \A k \in ls : k \in Locks /\ lock[k] = t
  BY DEF LocksOK, LockDiscipline
<1>4. ASSUME NEW u \in Threads
      PROVE  { k \in Locks : lock'[k] = u } = LocksOf(u)'
  <2>1. u # NULL
    BY HeapAssumption
  <2>2. CASE u = t
    BY <1>2, <2>1, <2>2 DEF LocksOK, LockDiscipline
  <2>3. CASE u # t
    <3>1. LocksOf(u)' = LocksOf(u)
      BY <2>3, OthersLocks
    <3> QED BY <1>2, <1>3, <2>1, <2>3, <3>1 DEF LocksOK, LockDiscipline
  <2> QED BY <2>2, <2>3
<1> QED BY <1>1, <1>4 DEF LocksOK, LockDiscipline

(* No set of threads waits in a circle: take one that holds the mutex      *)
(* furthest inside, where the global heap is inside the heaps and these    *)
(* are inside the superblocks.                                             *)
THEOREM DisciplineAvoidsDeadlock == ThreadsOK /\ LocksOK => NoDeadlock
<1> SUFFICES ASSUME ThreadsOK, LocksOK, NEW D \in SUBSET Threads, D # {}
             PROVE  \E t \in D : \A l \in WaitsFor(t) : lock[l] \notin D
  BY DEF NoDeadlock
<1>1. \A t \in D : th[t] \in Thread /\ PlaceIn(Mapped, th[t])
  BY DEF ThreadsOK
<1>2. \A t \in D, l \in Locks : lock[l] = t <=> l \in LocksOf(t)
  BY DEF LocksOK, LockDiscipline
<1>3. /\ GlobalHeap \notin ThreadHeaps /\ Heaps \cap Superblocks = {}
      /\ ThreadHeaps \subseteq Heaps /\ GlobalHeap \in Heaps
      /\ Heaps \subseteq Locks /\ Superblocks \subseteq Locks
      /\ Mapped \subseteq Superblocks
  BY HeapAssumption DEF Heaps, Locks, Mapped
<1>4. CASE \E t \in D : GlobalHeap \in LocksOf(t)
  <2>1. PICK t \in D : GlobalHeap \in LocksOf(t)
    BY <1>4
  <2>2. WaitsFor(t) = {}
    BY <1>1, <1>3, <2>1 DEF LocksOf, WaitsFor, PlaceIn, Thread, AllocPlaces, FreePlaces
  <2> QED BY <2>2
<1>5. CASE /\ \A t \in D : GlobalHeap \notin LocksOf(t)
           /\ \E t \in D, h \in ThreadHeaps : h \in LocksOf(t)
  <2>1. PICK t \in D, h \in ThreadHeaps : h \in LocksOf(t)
    BY <1>5
  <2>2. WaitsFor(t) \subseteq {GlobalHeap}
    BY <1>1, <1>3, <2>1 DEF LocksOf, WaitsFor, PlaceIn, Thread, AllocPlaces, FreePlaces
  <2>3. lock[GlobalHeap] \notin D
    BY <1>2, <1>3, <1>5
  <2> QED BY <2>2, <2>3
<1>6. CASE /\ \A t \in D, h \in Heaps : h \notin LocksOf(t)
           /\ \E t \in D : LocksOf(t) # {}
  <2>1. PICK t \in D : LocksOf(t) # {}
    BY <1>6
  <2>2. th[t].pc = "lock_owner" /\ th[t].heap \in Heaps
    BY <1>1, <1>3, <1>6, <2>1 DEF LocksOf, PlaceIn, Thread, AllocPlaces, FreePlaces
  <2>3. WaitsFor(t) = {th[t].heap}
    BY <2>2 DEF WaitsFor
  <2>4. lock[th[t].heap] \notin D
    BY <1>2, <1>3, <1>6, <2>2
  <2> QED BY <2>3, <2>4
<1>7. CASE \A t \in D : LocksOf(t) = {}
  <2>1. PICK t \in D : TRUE
    OBVIOUS
  <2>2. WaitsFor(t) \subseteq Locks
    BY <1>1, <1>3 DEF WaitsFor, PlaceIn, Thread, AllocPlaces, FreePlaces
  <2>3. \A l \in Locks : lock[l] \notin D
    BY <1>2, <1>7
  <2> QED BY <2>2, <2>3
<1>8. \A h \in Heaps : h \in ThreadHeaps \/ h = GlobalHeap
  BY DEF Heaps
<1>9. ASSUME \A t \in D : GlobalHeap \notin LocksOf(t),
             ~ \E t \in D, h \in ThreadHeaps : h \in LocksOf(t)
      PROVE  \A t \in D, h \in Heaps : h \notin LocksOf(t)
  BY <1>8, <1>9
<1> QED BY <1>4, <1>5, <1>6, <1>7, <1>9

-----------------------------------------------------------------------------
(* Steps *)

(* What the invariant says of one thread and of the superblocks.           *)
LEMMA Facts ==
    ASSUME IInv, NEW t \in Threads
    PROVE  /\ Mapped \in SUBSET Superblocks /\ NULL \notin Superblocks
           /\ th \in [Threads -> Thread] /\ PlaceIn(Mapped, th[t])
           /\ heap \in [Heaps -> HeapRecord] /\ \A h \in Heaps : HeapIn(Mapped, heap[h])
           /\ HeadersIn(Heaps, Mapped, sb)
           /\ \A s \in Superblocks : /\ sb[s] \in SuperblockHeader(Heaps)
                                     /\ sb[s].block_size <= max_block_size
           /\ \A b \in Bins : SizeTable[b] \in Nat \ {0} /\ SizeTable[b] <= max_block_size
           /\ max_block_size \in Nat \ {0}
  BY NullAssumption, LargestBin
     DEF IInv, HeadersOK, HeadersIn, HeapsOK, ThreadsOK, Mapped

(* The size a thread has in hand has a bin.                                *)
LEMMA ThreadBin ==
    ASSUME IInv, NEW t \in Threads
    PROVE  size2idx(th[t].size) \in Bins
<1>1. th[t].size \in Nat /\ th[t].size <= max_block_size
  BY Facts DEF PlaceIn, Thread
<1> QED BY <1>1, SizeHasBin

(* The parts of the invariant that a step of thread t has to establish.    *)
LEMMA Step ==
    ASSUME IInv, NEW t \in Threads, NEW x, th' = [th EXCEPT ![t] = x],
           Mapped \subseteq Mapped', PlaceIn(Mapped', x),
           HeadersOK', HeapsOK', HeldOK', LocksOK', crashed' \in BOOLEAN
    PROVE  IInv'
<1>1. ThreadsOK'
  <2>1. th' \in [Threads -> Thread]
    BY DEF IInv, ThreadsOK, PlaceIn
  <2>2. \A u \in Threads : PlaceIn(Mapped, th[u])
    BY DEF IInv, ThreadsOK
  <2>3. Mapped \in SUBSET Superblocks /\ Mapped' \in SUBSET Superblocks
    BY DEF Mapped
  <2>4. \A u \in Threads : PlaceIn(Mapped', th[u])
    BY <2>2, <2>3, MoreMapped
  <2>5. \A u \in Threads : th'[u] = IF u = t THEN x ELSE th[u]
    BY DEF IInv, ThreadsOK
  <2> QED BY <2>1, <2>4, <2>5 DEF ThreadsOK
<1> QED BY <1>1 DEF IInv

LEMMA OneHeapChanges ==
    ASSUME IInv, Mapped \subseteq Mapped', NEW h \in Heaps, NEW y,
           heap' = [heap EXCEPT ![h] = y], HeapIn(Mapped', y)
    PROVE  HeapsOK'
<1>1. Mapped \in SUBSET Superblocks /\ Mapped' \in SUBSET Superblocks
  BY DEF Mapped
<1>2. heap \in [Heaps -> HeapRecord] /\ \A g \in Heaps : HeapIn(Mapped', heap[g])
  BY <1>1, MoreMapped DEF IInv, HeapsOK
<1>3. \A g \in Heaps : heap'[g] = IF g = h THEN y ELSE heap[g]
  BY <1>2
<1>4. heap' \in [Heaps -> HeapRecord]
  BY <1>2 DEF HeapIn
<1> QED BY <1>2, <1>3, <1>4 DEF HeapsOK

(* A step that touches neither superblocks nor heaps.                      *)
LEMMA QuietStep ==
    ASSUME IInv, NEW t \in Threads, NEW x, th' = [th EXCEPT ![t] = x],
           PlaceIn(Mapped, x), LocksOK',
           UNCHANGED << sb, heap, crashed >>, held' \subseteq held
    PROVE  IInv'
<1>1. Mapped' = Mapped
  BY DEF Mapped
<1>2. HeadersOK'
  BY <1>1 DEF IInv, HeadersOK
<1>3. HeapsOK'
  BY <1>1 DEF IInv, HeapsOK
<1>4. HeldOK'
  BY <1>1 DEF IInv, HeldOK
<1> QED BY <1>1, <1>2, <1>3, <1>4, Step DEF IInv

(* The mutexes, for the three things a step can do to them.                *)
LEMMA OthersStay ==
    ASSUME IInv, NEW t \in Threads, NEW x, th' = [th EXCEPT ![t] = x]
    PROVE  th'[t] = x /\ \A u \in Threads \ {t} : th'[u] = th[u]
  BY DEF IInv, ThreadsOK

LEMMA LockHeapKeeps ==
    ASSUME IInv, NEW t \in Threads, LockHeap(t)
    PROVE  IInv'
<1> DEFINE x == [th[t] EXCEPT !.pc = "bin_alloc"]
<1>1. th' = [th EXCEPT ![t] = x]
  BY DEF LockHeap, Goto
<1>2. PlaceIn(Mapped, x)
  BY Facts DEF LockHeap, At, PlaceIn, Thread, AllocPlaces, FreePlaces
<1>3. LocksOK'
  <2>1. th'[t] = x /\ \A u \in Threads \ {t} : th'[u] = th[u]
    BY <1>1, OthersStay
  <2>2. th[t].heap \in Locks
    BY Facts DEF LockHeap, At, PlaceIn, Locks, Heaps, AllocPlaces, FreePlaces
  <2>3. LocksOf(t)' = LocksOf(t) \cup {th[t].heap}
    BY <2>1, Facts DEF LockHeap, At, LocksOf, PlaceIn, Thread, AllocPlaces, FreePlaces
  <2> QED BY <2>1, <2>2, <2>3, LocksTaken DEF LockHeap, IInv
<1> HIDE DEF x
<1> QED BY <1>1, <1>2, <1>3, QuietStep DEF LockHeap

LEMMA AskGlobalKeeps ==
    ASSUME IInv, NEW t \in Threads, AskGlobal(t)
    PROVE  IInv'
<1> DEFINE x == [th[t] EXCEPT !.pc = "lock_global"]
<1>1. th' = [th EXCEPT ![t] = x]
  BY DEF AskGlobal, Goto
<1>2. PlaceIn(Mapped, x)
  BY Facts DEF AskGlobal, At, PlaceIn, Thread, AllocPlaces, FreePlaces
<1>3. LocksOK'
  <2>1. th'[t] = x /\ \A u \in Threads \ {t} : th'[u] = th[u]
    BY <1>1, OthersStay
  <2>2. LocksOf(t)' = LocksOf(t)
    BY <2>1, Facts DEF AskGlobal, At, LocksOf, PlaceIn, Thread, AllocPlaces, FreePlaces
  <2> QED BY <2>1, <2>2, LocksKept DEF AskGlobal, IInv
<1> HIDE DEF x
<1> QED BY <1>1, <1>2, <1>3, QuietStep DEF AskGlobal

LEMMA LockGlobalKeeps ==
    ASSUME IInv, NEW t \in Threads, LockGlobal(t)
    PROVE  IInv'
<1> DEFINE x == [th[t] EXCEPT !.pc = "get_sb_from_global"]
<1>1. th' = [th EXCEPT ![t] = x]
  BY DEF LockGlobal, Goto
<1>2. PlaceIn(Mapped, x)
  BY Facts DEF LockGlobal, At, PlaceIn, Thread, AllocPlaces, FreePlaces
<1>3. LocksOK'
  <2>1. th'[t] = x /\ \A u \in Threads \ {t} : th'[u] = th[u]
    BY <1>1, OthersStay
  <2>2. GlobalHeap \in Locks
    BY Facts DEF LockGlobal, At, PlaceIn, Locks, Heaps, AllocPlaces, FreePlaces
  <2>3. LocksOf(t)' = LocksOf(t) \cup {GlobalHeap}
    BY <2>1, Facts DEF LockGlobal, At, LocksOf, PlaceIn, Thread, AllocPlaces, FreePlaces
  <2> QED BY <2>1, <2>2, <2>3, LocksTaken DEF LockGlobal, IInv
<1> HIDE DEF x
<1> QED BY <1>1, <1>2, <1>3, QuietStep DEF LockGlobal

LEMMA TakeNothingKeeps ==
    ASSUME IInv, NEW t \in Threads, TakeNothing(t)
    PROVE  IInv'
<1> DEFINE x == [th[t] EXCEPT !.pc = "map"]
<1>1. th' = [th EXCEPT ![t] = x]
  BY DEF TakeNothing, Goto
<1>2. PlaceIn(Mapped, x)
  BY Facts DEF TakeNothing, At, PlaceIn, Thread, AllocPlaces, FreePlaces
<1>3. LocksOK'
  <2>1. th'[t] = x /\ \A u \in Threads \ {t} : th'[u] = th[u]
    BY <1>1, OthersStay
  <2>2. LocksOf(t)' = LocksOf(t) \ {GlobalHeap} /\ {GlobalHeap} \subseteq LocksOf(t)
    BY <2>1, Facts, HeapAssumption DEF TakeNothing, At, LocksOf, PlaceIn, Thread, AllocPlaces, FreePlaces
  <2> QED BY <2>1, <2>2, LocksReleased DEF TakeNothing, IInv
<1> HIDE DEF x
<1> QED BY <1>1, <1>2, <1>3, QuietStep DEF TakeNothing

LEMMA LockOwnerKeeps ==
    ASSUME IInv, NEW t \in Threads, LockOwner(t)
    PROVE  IInv'
<1> DEFINE x == [th[t] EXCEPT !.pc = "bin_free"]
<1>1. th' = [th EXCEPT ![t] = x]
  BY DEF LockOwner, Goto
<1>2. PlaceIn(Mapped, x)
  BY Facts DEF LockOwner, At, PlaceIn, Thread, AllocPlaces, FreePlaces
<1>3. LocksOK'
  <2>1. th'[t] = x /\ \A u \in Threads \ {t} : th'[u] = th[u]
    BY <1>1, OthersStay
  <2>2. th[t].heap \in Locks
    BY Facts DEF LockOwner, At, PlaceIn, Locks, Heaps, AllocPlaces, FreePlaces
  <2>3. LocksOf(t)' = LocksOf(t) \cup {th[t].heap}
    BY <2>1, Facts DEF LockOwner, At, LocksOf, PlaceIn, Thread, AllocPlaces, FreePlaces
  <2> QED BY <2>1, <2>2, <2>3, LocksTaken DEF LockOwner, IInv
<1> HIDE DEF x
<1> QED BY <1>1, <1>2, <1>3, QuietStep DEF LockOwner

LEMMA FreeFromGlobalKeeps ==
    ASSUME IInv, NEW t \in Threads, FreeFromGlobal(t)
    PROVE  IInv'
<1> DEFINE x == IdleThread
<1>1. th' = [th EXCEPT ![t] = x]
  BY DEF FreeFromGlobal, Return, IdleThread
<1>2. PlaceIn(Mapped, x)
  BY Facts, NullAssumption DEF FreeFromGlobal, At, PlaceIn, Thread, AllocPlaces, FreePlaces, IdleThread
<1>3. LocksOK'
  <2>1. th'[t] = x /\ \A u \in Threads \ {t} : th'[u] = th[u]
    BY <1>1, OthersStay
  <2>2. LocksOf(t)' = LocksOf(t) \ {th[t].heap, th[t].s_ptr} /\ {th[t].heap, th[t].s_ptr} \subseteq LocksOf(t)
    BY <2>1, Facts, HeapAssumption DEF FreeFromGlobal, At, LocksOf, PlaceIn, Thread, AllocPlaces, FreePlaces, IdleThread
  <2> QED BY <2>1, <2>2, LocksReleased DEF FreeFromGlobal, IInv
<1> HIDE DEF x
<1> QED BY <1>1, <1>2, <1>3, QuietStep DEF FreeFromGlobal

LEMMA LockGlobalForTransferKeeps ==
    ASSUME IInv, NEW t \in Threads, LockGlobalForTransfer(t)
    PROVE  IInv'
<1> DEFINE x == [th[t] EXCEPT !.pc = "insert_global"]
<1>1. th' = [th EXCEPT ![t] = x]
  BY DEF LockGlobalForTransfer, Goto
<1>2. PlaceIn(Mapped, x)
  BY Facts DEF LockGlobalForTransfer, At, PlaceIn, Thread, AllocPlaces, FreePlaces
<1>3. LocksOK'
  <2>1. th'[t] = x /\ \A u \in Threads \ {t} : th'[u] = th[u]
    BY <1>1, OthersStay
  <2>2. GlobalHeap \in Locks
    BY Facts DEF LockGlobalForTransfer, At, PlaceIn, Locks, Heaps, AllocPlaces, FreePlaces
  <2>3. LocksOf(t)' = LocksOf(t) \cup {GlobalHeap}
    BY <2>1, Facts DEF LockGlobalForTransfer, At, LocksOf, PlaceIn, Thread, AllocPlaces, FreePlaces
  <2> QED BY <2>1, <2>2, <2>3, LocksTaken DEF LockGlobalForTransfer, IInv
<1> HIDE DEF x
<1> QED BY <1>1, <1>2, <1>3, QuietStep DEF LockGlobalForTransfer

LEMMA ChooseInBinKeeps ==
    ASSUME IInv, NEW t \in Threads, ChooseInBin(t)
    PROVE  IInv'
<1> DEFINE bm == heap[th[t].heap].size_bins[size2idx(th[t].size)]
           s  == bm.emptiness_bins[FullestNonfull(bm)]
           x  == [th[t] EXCEPT !.pc = "sb_alloc", !.in_bin = TRUE, !.s_ptr = s]
<1>1. th' = [th EXCEPT ![t] = x]
  BY DEF ChooseInBin
<1>2. s \in Mapped
  <2>1. th[t].heap \in Heaps
    BY Facts DEF ChooseInBin, At, PlaceIn, AllocPlaces, Heaps
  <2>2. ManagerIn(Mapped, bm)
    BY <2>1, Facts, ThreadBin DEF HeapIn
  <2>3. FullestNonfull(bm) \in NonfullClasses /\ s # NULL
    BY FullestFound DEF ChooseInBin
  <2>4. FullestNonfull(bm) \in EmptinessClasses
    BY <2>3, NonfullClass
  <2> HIDE DEF bm
  <2> QED BY <2>2, <2>3, <2>4 DEF ManagerIn
<1> HIDE DEF s
<1>3. PlaceIn(Mapped, x)
  <2>1. th[t].pc = "bin_alloc" /\ PlaceIn(Mapped, th[t]) /\ th[t] \in Thread
    BY Facts DEF ChooseInBin, At
  <2>2. /\ x \in Thread /\ x.pc = "sb_alloc" /\ x.heap = th[t].heap
        /\ x.size = th[t].size /\ x.s_ptr = s /\ x.victim = th[t].victim
        /\ x.bin_idx = th[t].bin_idx /\ x.eidx = th[t].eidx
    BY <1>2, <2>1, Facts DEF Thread, AllocPlaces, FreePlaces
  <2> HIDE DEF x
  <2> QED BY <1>2, <2>1, <2>2 DEF PlaceIn, AllocPlaces, FreePlaces
<1>4. LocksOK'
  <2>1. th'[t] = x /\ \A u \in Threads \ {t} : th'[u] = th[u]
    BY <1>1, OthersStay
  <2>2. th[t].pc = "bin_alloc" /\ x.pc = "sb_alloc" /\ x.heap = th[t].heap
    BY Facts DEF ChooseInBin, At, Thread
  <2>3. LocksOf(t)' = LocksOf(t)
    <3> HIDE DEF x
    <3> QED BY <2>1, <2>2 DEF LocksOf
  <2> QED BY <2>1, <2>3, LocksKept DEF ChooseInBin, IInv
<1> HIDE DEF x
<1> QED BY <1>1, <1>3, <1>4, QuietStep DEF ChooseInBin

LEMMA MallocKeeps ==
    ASSUME IInv, NEW t \in Threads, NEW size \in Requests, Malloc(t, size)
    PROVE  IInv'
<1> DEFINE x == [th[t] EXCEPT !.pc = "lock_heap", !.heap = HeapOf[t], !.size = size]
<1>1. th' = [th EXCEPT ![t] = x]
  BY DEF Malloc
<1>2. HeapOf[t] \in ThreadHeaps /\ size \in Nat /\ size <= max_block_size
  BY HeapAssumption, Facts
<1>3. PlaceIn(Mapped, x)
  <2>1. th[t].pc = "idle" /\ PlaceIn(Mapped, th[t]) /\ th[t] \in Thread
    BY Facts DEF Malloc, At
  <2>2. /\ x \in Thread /\ x.pc = "lock_heap" /\ x.heap = HeapOf[t]
        /\ x.size = size /\ x.s_ptr = th[t].s_ptr /\ x.victim = th[t].victim
        /\ x.bin_idx = th[t].bin_idx /\ x.eidx = th[t].eidx
    BY <1>2, <2>1, Facts DEF Thread, AllocPlaces, FreePlaces, Heaps
  <2> HIDE DEF x
  <2> QED BY <1>2, <2>1, <2>2 DEF PlaceIn, AllocPlaces, FreePlaces
<1>4. LocksOK'
  <2>1. th'[t] = x /\ \A u \in Threads \ {t} : th'[u] = th[u]
    BY <1>1, OthersStay
  <2>2. LocksOf(t)' = LocksOf(t)
    BY <2>1, Facts DEF Malloc, At, LocksOf, PlaceIn, Thread
  <2> QED BY <2>1, <2>2, LocksKept DEF Malloc, IInv
<1> HIDE DEF x
<1> QED BY <1>1, <1>3, <1>4, QuietStep DEF Malloc

LEMMA FreeKeeps ==
    ASSUME IInv, NEW t \in Threads, NEW p \in held, Free(t, p)
    PROVE  IInv'
<1> DEFINE x == [th[t] EXCEPT !.pc = "lock_superblock", !.s_ptr = p.sb, !.off = p.off]
<1>1. th' = [th EXCEPT ![t] = x]
  BY DEF Free
<1>2. p.sb \in Mapped /\ p.off \in Nat
  BY DEF IInv, HeldOK, Block
<1>3. PlaceIn(Mapped, x)
  <2>1. th[t].pc = "idle" /\ PlaceIn(Mapped, th[t]) /\ th[t] \in Thread
    BY Facts DEF Free, At
  <2>2. /\ x \in Thread /\ x.pc = "lock_superblock" /\ x.heap = th[t].heap
        /\ x.size = th[t].size /\ x.s_ptr = p.sb /\ x.victim = th[t].victim
        /\ x.bin_idx = th[t].bin_idx /\ x.eidx = th[t].eidx
    BY <1>2, <2>1, Facts DEF Thread, AllocPlaces, FreePlaces
  <2> HIDE DEF x
  <2> QED BY <1>2, <2>1, <2>2 DEF PlaceIn, AllocPlaces, FreePlaces
<1>4. LocksOK'
  <2>1. th'[t] = x /\ \A u \in Threads \ {t} : th'[u] = th[u]
    BY <1>1, OthersStay
  <2>2. LocksOf(t)' = LocksOf(t)
    BY <2>1, Facts DEF Free, At, LocksOf, PlaceIn, Thread
  <2> QED BY <2>1, <2>2, LocksKept DEF Free, IInv
<1>5. held' \subseteq held
  BY DEF Free
<1> HIDE DEF x
<1> QED BY <1>1, <1>3, <1>4, <1>5, QuietStep DEF Free

(* The owner a free reads is a heap, because the superblock is mapped.     *)
LEMMA LockSuperblockKeeps ==
    ASSUME IInv, NEW t \in Threads, LockSuperblock(t)
    PROVE  IInv'
<1> DEFINE s == th[t].s_ptr
           x == [th[t] EXCEPT !.pc = "lock_owner", !.heap = sb[s].owner,
                              !.size = sb[s].block_size]
<1>1. th' = [th EXCEPT ![t] = x]
  BY DEF LockSuperblock
<1>2. s \in Mapped
  BY Facts DEF LockSuperblock, At, PlaceIn, FreePlaces
<1>3. sb[s].owner \in Heaps /\ sb[s].block_size \in Nat /\ sb[s].block_size <= max_block_size
  <2>1. s \in Superblocks /\ sb[s].owner # NULL
    BY <1>2 DEF Mapped
  <2> QED BY <2>1, Facts DEF SuperblockHeader
<1>4. PlaceIn(Mapped, x)
  <2>1. th[t].pc = "lock_superblock" /\ PlaceIn(Mapped, th[t]) /\ th[t] \in Thread
    BY Facts DEF LockSuperblock, At
  <2>2. /\ x \in Thread /\ x.pc = "lock_owner" /\ x.heap = sb[s].owner
        /\ x.size = sb[s].block_size /\ x.s_ptr = th[t].s_ptr
        /\ x.victim = th[t].victim /\ x.bin_idx = th[t].bin_idx
        /\ x.eidx = th[t].eidx
    BY <1>2, <1>3, <2>1, Facts DEF Thread, AllocPlaces, FreePlaces
  <2> HIDE DEF x
  <2> QED BY <1>2, <1>3, <2>1, <2>2 DEF PlaceIn, AllocPlaces, FreePlaces
<1>5. LocksOK'
  <2>1. th'[t] = x /\ \A u \in Threads \ {t} : th'[u] = th[u]
    BY <1>1, OthersStay
  <2>2. s \in Locks
    BY <1>2, Facts DEF Locks
  <2>3. LocksOf(t)' = LocksOf(t) \cup {s}
    <3>1. /\ th[t].pc = "lock_superblock" /\ x.pc = "lock_owner" /\ x.s_ptr = s
      BY Facts DEF LockSuperblock, At, Thread
    <3> HIDE DEF x
    <3> QED BY <2>1, <3>1 DEF LocksOf
  <2> QED BY <2>1, <2>2, <2>3, LocksTaken DEF LockSuperblock, IInv
<1> HIDE DEF x
<1> QED BY <1>1, <1>4, <1>5, QuietStep DEF LockSuperblock

LEMMA CrashKeeps ==
    ASSUME IInv, NEW t \in Threads, Crash(t)
    PROVE  IInv'
  BY DEF Crash, IInv, HeadersOK, HeapsOK, ThreadsOK, HeldOK, LocksOK, LockDiscipline,
         LocksOf, Mapped

LEMMA StoppedKeeps ==
    ASSUME IInv, UNCHANGED vars
    PROVE  IInv'
  BY DEF vars, IInv, HeadersOK, HeapsOK, ThreadsOK, HeldOK, LocksOK, LockDiscipline,
         LocksOf, Mapped

(* A step that changes one heap and no superblock.                         *)
LEMMA HeapStep ==
    ASSUME IInv, NEW t \in Threads, NEW x, th' = [th EXCEPT ![t] = x],
           PlaceIn(Mapped, x), LocksOK',
           NEW h \in Heaps, NEW y, heap' = [heap EXCEPT ![h] = y], HeapIn(Mapped, y),
           UNCHANGED << sb, held, crashed >>
    PROVE  IInv'
<1>1. Mapped' = Mapped
  BY DEF Mapped
<1>2. HeadersOK'
  BY <1>1 DEF IInv, HeadersOK
<1>3. HeapsOK'
  BY <1>1, OneHeapChanges
<1>4. HeldOK'
  BY <1>1 DEF IInv, HeldOK
<1> QED BY <1>1, <1>2, <1>3, <1>4, Step DEF IInv

LEMMA TakeRecycledKeeps ==
    ASSUME IInv, NEW t \in Threads, TakeRecycled(t)
    PROVE  IInv'
<1> DEFINE s == heap[GlobalHeap].recycled_superblock
           x == [th[t] EXCEPT !.pc = "adopt", !.s_ptr = s]
           y == [heap[GlobalHeap] EXCEPT !.recycled_superblock = sb[s].next]
<1>1. th' = [th EXCEPT ![t] = x] /\ heap' = [heap EXCEPT ![GlobalHeap] = y]
  BY DEF TakeRecycled
<1>2. GlobalHeap \in Heaps
  BY DEF Heaps
<1>3. s \in Mapped
  BY <1>2, Facts DEF TakeRecycled, HeapIn
<1> HIDE DEF s
<1>4. PlaceIn(Mapped, x)
  <2>1. th[t].pc = "get_sb_from_global" /\ PlaceIn(Mapped, th[t]) /\ th[t] \in Thread
    BY Facts DEF TakeRecycled, At
  <2>2. /\ x \in Thread /\ x.pc = "adopt" /\ x.heap = th[t].heap
        /\ x.size = th[t].size /\ x.s_ptr = s /\ x.victim = th[t].victim
        /\ x.bin_idx = th[t].bin_idx /\ x.eidx = th[t].eidx
    BY <1>3, <2>1, Facts DEF Thread, AllocPlaces, FreePlaces
  <2> HIDE DEF x
  <2> QED BY <1>3, <2>1, <2>2 DEF PlaceIn, AllocPlaces, FreePlaces
<1>5. HeapIn(Mapped, y)
  <2>1. sb[s].next \in Mapped \cup {NULL}
    BY <1>3, Facts DEF HeadersIn
  <2> QED BY <1>2, <2>1, Facts, SetRecycled
<1>6. LocksOK'
  <2>1. th'[t] = x /\ \A u \in Threads \ {t} : th'[u] = th[u]
    BY <1>1, OthersStay
  <2>2. /\ th[t].pc = "get_sb_from_global" /\ x.pc = "adopt"
        /\ x.heap = th[t].heap /\ th[t].heap \in ThreadHeaps
    BY Facts DEF TakeRecycled, At, Thread, PlaceIn, AllocPlaces
  <2>3. LocksOf(t)' = LocksOf(t) \ {GlobalHeap} /\ {GlobalHeap} \subseteq LocksOf(t)
    <3> HIDE DEF x
    <3> QED BY <2>1, <2>2, HeapAssumption DEF LocksOf
  <2> QED BY <2>1, <2>3, LocksReleased DEF TakeRecycled, IInv
<1> HIDE DEF x, y
<1> QED BY <1>1, <1>2, <1>4, <1>5, <1>6, HeapStep DEF TakeRecycled

LEMMA MmapFailsKeeps ==
    ASSUME IInv, NEW t \in Threads, MmapFails(t)
    PROVE  IInv'
<1> DEFINE h == th[t].heap
           y == inc_usage(heap[h], idx2class(size2idx(th[t].size)))
<1>1. th' = [th EXCEPT ![t] = IdleThread] /\ heap' = [heap EXCEPT ![h] = y]
  BY DEF MmapFails, Return
<1>2. h \in Heaps
  BY Facts DEF MmapFails, At, PlaceIn, AllocPlaces, Heaps
<1>3. PlaceIn(Mapped, IdleThread)
  BY Facts DEF PlaceIn, Thread, IdleThread, AllocPlaces, FreePlaces
<1>4. HeapIn(Mapped, y)
  <2>1. idx2class(size2idx(th[t].size)) \in Int
    BY ThreadBin, Facts DEF idx2class
  <2> QED BY <1>2, <2>1, Facts, StatisticsTyped
<1>5. LocksOK'
  <2>1. th'[t] = IdleThread /\ \A u \in Threads \ {t} : th'[u] = th[u]
    BY <1>1, OthersStay
  <2>2. LocksOf(t)' = LocksOf(t) \ {h} /\ {h} \subseteq LocksOf(t)
    BY <2>1 DEF LocksOf, IdleThread, MmapFails, At
  <2> QED BY <2>1, <2>2, LocksReleased DEF MmapFails, IInv
<1> HIDE DEF y
<1> QED BY <1>1, <1>2, <1>3, <1>4, <1>5, HeapStep DEF MmapFails

LEMMA FreeAndKeepKeeps ==
    ASSUME IInv, NEW t \in Threads, FreeAndKeep(t)
    PROVE  IInv'
<1> DEFINE h == th[t].heap
           y == dec_usage(heap[h], th[t].size)
<1>1. th' = [th EXCEPT ![t] = IdleThread] /\ heap' = [heap EXCEPT ![h] = y]
  BY DEF FreeAndKeep, Return
<1>2. h \in Heaps /\ th[t].size \in Int
  BY Facts DEF FreeAndKeep, At, PlaceIn, FreePlaces, Thread
<1>3. PlaceIn(Mapped, IdleThread)
  BY Facts DEF PlaceIn, Thread, IdleThread, AllocPlaces, FreePlaces
<1>4. HeapIn(Mapped, y)
  BY <1>2, Facts, StatisticsTyped
<1>5. LocksOK'
  <2>1. th'[t] = IdleThread /\ \A u \in Threads \ {t} : th'[u] = th[u]
    BY <1>1, OthersStay
  <2>2. LocksOf(t)' = LocksOf(t) \ {h, th[t].s_ptr} /\ {h, th[t].s_ptr} \subseteq LocksOf(t)
    BY <2>1 DEF LocksOf, IdleThread, FreeAndKeep, At
  <2> QED BY <2>1, <2>2, LocksReleased DEF FreeAndKeep, IInv
<1> HIDE DEF y
<1> QED BY <1>1, <1>2, <1>3, <1>4, <1>5, HeapStep DEF FreeAndKeep

LEMMA GiveRecycledKeeps ==
    ASSUME IInv, NEW t \in Threads, GiveRecycled(t)
    PROVE  IInv'
<1> DEFINE h   == th[t].heap
           dec == dec_usage(heap[h], th[t].size)
           s   == dec.recycled_superblock
           x   == [th[t] EXCEPT !.pc = "transfer", !.victim = s]
           y   == [dec EXCEPT !.recycled_superblock = sb[s].next]
<1>1. th' = [th EXCEPT ![t] = x] /\ heap' = [heap EXCEPT ![h] = y]
  BY DEF GiveRecycled
<1>2. h \in ThreadHeaps /\ h \in Heaps /\ th[t].size \in Int
  BY Facts DEF GiveRecycled, At, PlaceIn, FreePlaces, Thread, Heaps
<1>3. HeapIn(Mapped, dec)
  BY <1>2, Facts, StatisticsTyped
<1>4. s \in Mapped
  <2>1. s # NULL
    BY DEF GiveRecycled
  <2> HIDE DEF dec
  <2> QED BY <1>3, <2>1 DEF HeapIn
<1>5. HeapIn(Mapped, y)
  <2>1. sb[s].next \in Mapped \cup {NULL}
    BY <1>4, Facts DEF HeadersIn
  <2> HIDE DEF dec
  <2> QED BY <1>3, <2>1, Facts, SetRecycled
<1> HIDE DEF dec, s, y
<1>6. PlaceIn(Mapped, x)
  <2>1. th[t].pc = "account" /\ PlaceIn(Mapped, th[t]) /\ th[t] \in Thread
    BY Facts DEF GiveRecycled, At
  <2>2. /\ x \in Thread /\ x.pc = "transfer" /\ x.heap = th[t].heap
        /\ x.size = th[t].size /\ x.s_ptr = th[t].s_ptr /\ x.victim = s
        /\ x.bin_idx = th[t].bin_idx /\ x.eidx = th[t].eidx
    BY <1>2, <1>4, <2>1, Facts DEF Thread, AllocPlaces, FreePlaces
  <2> HIDE DEF x
  <2> QED BY <1>2, <1>4, <2>1, <2>2 DEF PlaceIn, AllocPlaces, FreePlaces
<1>7. LocksOK'
  <2>1. th'[t] = x /\ \A u \in Threads \ {t} : th'[u] = th[u]
    BY <1>1, OthersStay
  <2>2. /\ th[t].pc = "account" /\ x.pc = "transfer"
        /\ x.heap = th[t].heap /\ x.s_ptr = th[t].s_ptr
    BY Facts DEF GiveRecycled, At, Thread
  <2>3. LocksOf(t)' = LocksOf(t)
    <3> HIDE DEF x
    <3> QED BY <2>1, <2>2 DEF LocksOf
  <2> QED BY <2>1, <2>3, LocksKept DEF GiveRecycled, IInv
<1> HIDE DEF x
<1> QED BY <1>1, <1>2, <1>5, <1>6, <1>7, HeapStep DEF GiveRecycled

(* Steps that change superblocks: a list operation maps none and unmaps    *)
(* none, and neither does a new header for a superblock.                   *)
LEMMA LinksStep ==
    ASSUME IInv, HeadersIn(Heaps, Mapped, sb'), SameOwners(sb, sb')
    PROVE  HeadersOK' /\ Mapped' = Mapped
<1>1. Mapped' = Mapped
  BY DEF Mapped, SameOwners
<1> QED BY <1>1 DEF HeadersOK, IInv, SameOwners

LEMMA NewOwner ==
    ASSUME NEW q \in SuperblockHeader(Heaps), NEW h \in Heaps
    PROVE  LET r == [q EXCEPT !.owner = h]
           IN  /\ r \in SuperblockHeader(Heaps) /\ r.owner = h
               /\ r.block_size = q.block_size
               /\ r.prev = q.prev /\ r.next = q.next
<1>1. q.block_size \in Nat \ {0} /\ q.prev \in Superblocks \cup {NULL}
      /\ q.next \in Superblocks \cup {NULL}
  BY DEF SuperblockHeader
<1> DEFINE r == [q EXCEPT !.owner = h]
<1>2. r.owner = h /\ r.block_size = q.block_size /\ r.prev = q.prev /\ r.next = q.next
  BY DEF SuperblockHeader
<1>3. r \in SuperblockHeader(Heaps)
  BY DEF SuperblockHeader
<1> QED BY <1>2, <1>3

LEMMA HeaderStep ==
    ASSUME IInv, NEW s \in Superblocks, NEW r \in SuperblockHeader(Heaps),
           r.prev \in Mapped \cup {NULL}, r.next \in Mapped \cup {NULL},
           sb' = [sb EXCEPT ![s] = r]
    PROVE  /\ HeadersIn(Heaps, Mapped, sb') /\ sb'[s] = r
           /\ \A q \in Superblocks \ {s} : sb'[q] = sb[q]
<1>1. /\ sb \in [Superblocks -> SuperblockHeader(Heaps)]
      /\ \A q \in Superblocks : /\ sb[q].prev \in Mapped \cup {NULL}
                                /\ sb[q].next \in Mapped \cup {NULL}
  BY DEF IInv, HeadersOK, HeadersIn
<1>2. sb'[s] = r /\ \A q \in Superblocks \ {s} : sb'[q] = sb[q]
  BY <1>1
<1>3. sb' \in [Superblocks -> SuperblockHeader(Heaps)]
  BY <1>1
<1> QED BY <1>1, <1>2, <1>3 DEF HeadersIn

LEMMA HeldStays ==
    ASSUME IInv, Mapped \subseteq Mapped', held' \subseteq held
    PROVE  HeldOK'
  BY DEF IInv, HeldOK

LEMMA RecycleKeeps ==
    ASSUME IInv, NEW t \in Threads, Recycle(t)
    PROVE  IInv'
<1> DEFINE h   == th[t].heap
           bin == size2idx(th[t].size)
           s   == heap[h].recycled_superblock
           r   == reset_superblock(sb[s], idx2class(bin))
           x   == [th[t] EXCEPT !.pc = "sb_alloc", !.s_ptr = s]
           y   == [heap[h] EXCEPT !.recycled_superblock = NULL]
<1>1. h \in Heaps
  BY Facts DEF Recycle, At, PlaceIn, AllocPlaces, Heaps
<1>2. s \in Mapped /\ s \in Superblocks
  BY <1>1, Facts DEF Recycle, HeapIn
<1>3. idx2class(bin) \in Nat \ {0} /\ idx2class(bin) <= max_block_size
  BY ThreadBin, Facts DEF idx2class
<1>4. /\ r \in SuperblockHeader(Heaps) /\ r.owner = sb[s].owner
      /\ r.block_size = idx2class(bin) /\ r.prev = NULL /\ r.next = NULL
  BY <1>2, <1>3, Facts, ResetTyped
<1>5. sb' = [sb EXCEPT ![s] = r]
  BY DEF Recycle
<1> HIDE DEF r
<1>6. /\ HeadersIn(Heaps, Mapped, sb') /\ sb'[s] = r
      /\ \A q \in Superblocks \ {s} : sb'[q] = sb[q]
  BY <1>2, <1>4, <1>5, HeaderStep
<1>7. Mapped' = Mapped
  BY <1>4, <1>6 DEF Mapped
<1>8. HeadersOK'
  BY <1>3, <1>4, <1>6, <1>7, Facts DEF HeadersOK
<1>9. heap' = [heap EXCEPT ![h] = y]
  <2>1. sb'[s].next = NULL
    BY <1>4, <1>6
  <2>2. heap' = [heap EXCEPT ![h].recycled_superblock = sb'[s].next]
    BY DEF Recycle
  <2> QED BY <2>1, <2>2
<1>10. HeapIn(Mapped, y)
  BY <1>1, Facts, SetRecycled
<1>11. HeapsOK'
  <2> HIDE DEF y
  <2> QED BY <1>1, <1>7, <1>9, <1>10, OneHeapChanges
<1> HIDE DEF s
<1>12. th' = [th EXCEPT ![t] = x]
  BY DEF Recycle, s
<1>13. PlaceIn(Mapped, x)
  <2>1. th[t].pc = "bin_alloc" /\ PlaceIn(Mapped, th[t]) /\ th[t] \in Thread
    BY Facts DEF Recycle, At
  <2>2. /\ x \in Thread /\ x.pc = "sb_alloc" /\ x.heap = th[t].heap
        /\ x.size = th[t].size /\ x.s_ptr = s /\ x.victim = th[t].victim
        /\ x.bin_idx = th[t].bin_idx /\ x.eidx = th[t].eidx
    BY <1>2, <2>1, Facts DEF Thread, AllocPlaces, FreePlaces
  <2> HIDE DEF x
  <2> QED BY <1>2, <2>1, <2>2 DEF PlaceIn, AllocPlaces, FreePlaces
<1>14. LocksOK'
  <2>1. th'[t] = x /\ \A u \in Threads \ {t} : th'[u] = th[u]
    BY <1>12, OthersStay
  <2>2. th[t].pc = "bin_alloc" /\ x.pc = "sb_alloc" /\ x.heap = th[t].heap
    BY Facts DEF Recycle, At, Thread
  <2>3. LocksOf(t)' = LocksOf(t)
    <3> HIDE DEF x
    <3> QED BY <2>1, <2>2 DEF LocksOf
  <2> QED BY <2>1, <2>3, LocksKept DEF Recycle, IInv
<1>15. held' = held /\ crashed' = crashed
  BY DEF Recycle
<1> HIDE DEF x
<1> QED BY <1>7, <1>8, <1>11, <1>12, <1>13, <1>14, <1>15, HeldStays, Step DEF IInv

LEMMA TakeNonfullKeeps ==
    ASSUME IInv, NEW t \in Threads, TakeNonfull(t)
    PROVE  IInv'
<1> DEFINE b   == size2idx(th[t].size)
           bm  == GlobalBin(t)
           e   == FullestNonfull(bm)
           s   == bm.emptiness_bins[e]
           del == delete_from_bin(sb, bm, e, s)
           x   == [th[t] EXCEPT !.pc = "adopt", !.s_ptr = s]
           y   == [heap[GlobalHeap] EXCEPT !.size_bins[b] = del.bm]
<1>1. /\ sb' = del.sb /\ heap' = [heap EXCEPT ![GlobalHeap] = y]
      /\ th' = [th EXCEPT ![t] = x] /\ held' = held /\ crashed' = crashed
  BY DEF TakeNonfull
<1>2. GlobalHeap \in Heaps /\ b \in Bins
  BY ThreadBin DEF Heaps
<1>3. ManagerIn(Mapped, bm)
  BY <1>2, Facts DEF GlobalBin, HeapIn
<1>4. HasNonfull(bm) /\ DeleteDefined(sb, e, s)
  BY DEF TakeNonfull, TakeDefined
<1>5. s \in Mapped
  <2>1. e \in NonfullClasses /\ s # NULL
    BY <1>4, FullestFound
  <2>2. e \in EmptinessClasses
    BY <2>1, NonfullClass
  <2> HIDE DEF bm, e
  <2> QED BY <1>3, <2>1, <2>2 DEF ManagerIn
<1> HIDE DEF bm, e, s
<1>6. HeadersIn(Heaps, Mapped, del.sb) /\ SameButLinks(sb, del.sb) /\ ManagerIn(Mapped, del.bm)
  BY <1>3, <1>4, <1>5, Facts, DeleteKeepsLists
<1>7. HeadersOK' /\ Mapped' = Mapped
  <2> HIDE DEF del
  <2> QED BY <1>1, <1>6, LinksStep DEF SameButLinks, SameBlocks, SameOwners
<1>8. HeapsOK'
  <2>1. HeapIn(Mapped, y)
    <3> HIDE DEF del, b
    <3> QED BY <1>2, <1>6, Facts, SetManager
  <2> HIDE DEF y
  <2> QED BY <1>1, <1>2, <1>7, <2>1, OneHeapChanges
<1>9. PlaceIn(Mapped, x)
  <2>1. th[t].pc = "get_sb_from_global" /\ PlaceIn(Mapped, th[t]) /\ th[t] \in Thread
    BY Facts DEF TakeNonfull, At
  <2>2. /\ x \in Thread /\ x.pc = "adopt" /\ x.heap = th[t].heap
        /\ x.size = th[t].size /\ x.s_ptr = s /\ x.victim = th[t].victim
        /\ x.bin_idx = th[t].bin_idx /\ x.eidx = th[t].eidx
    BY <1>5, <2>1, Facts DEF Thread, AllocPlaces, FreePlaces
  <2> HIDE DEF x
  <2> QED BY <1>5, <2>1, <2>2 DEF PlaceIn, AllocPlaces, FreePlaces
<1>10. LocksOK'
  <2>1. th'[t] = x /\ \A u \in Threads \ {t} : th'[u] = th[u]
    BY <1>1, OthersStay
  <2>2. /\ th[t].pc = "get_sb_from_global" /\ x.pc = "adopt"
        /\ x.heap = th[t].heap /\ th[t].heap \in ThreadHeaps
    BY Facts DEF TakeNonfull, At, Thread, PlaceIn, AllocPlaces
  <2>3. LocksOf(t)' = LocksOf(t) \ {GlobalHeap} /\ {GlobalHeap} \subseteq LocksOf(t)
    <3> HIDE DEF x
    <3> QED BY <2>1, <2>2, HeapAssumption DEF LocksOf
  <2> QED BY <2>1, <2>3, LocksReleased DEF TakeNonfull, IInv
<1> HIDE DEF x
<1> QED BY <1>1, <1>7, <1>8, <1>9, <1>10, HeldStays, Step DEF IInv

LEMMA AdoptKeeps ==
    ASSUME IInv, NEW t \in Threads, Adopt(t)
    PROVE  IInv'
<1> DEFINE h == th[t].heap
           s == th[t].s_ptr
           r == [sb[s] EXCEPT !.owner = h]
           u == used_bytes(sb[s])
           x == [th[t] EXCEPT !.pc = "sb_alloc"]
           y == inc_alloced(inc_usage(heap[h], u), SUPERBLOCK_SIZE)
<1>1. /\ sb' = [sb EXCEPT ![s] = r] /\ heap' = [heap EXCEPT ![h] = y]
      /\ th' = [th EXCEPT ![t] = x] /\ held' = held /\ crashed' = crashed
  BY DEF Adopt, Goto
<1>2. h \in Heaps /\ s \in Mapped /\ s \in Superblocks /\ h # NULL
  BY Facts, HeapAssumption DEF Adopt, At, PlaceIn, AllocPlaces, Heaps
<1>3. /\ r \in SuperblockHeader(Heaps) /\ r.owner = h /\ r.block_size = sb[s].block_size
      /\ r.prev = sb[s].prev /\ r.next = sb[s].next
  BY <1>2, Facts, NewOwner
<1> HIDE DEF r
<1>4. /\ HeadersIn(Heaps, Mapped, sb') /\ sb'[s] = r
      /\ \A q \in Superblocks \ {s} : sb'[q] = sb[q]
  <2>1. r.prev \in Mapped \cup {NULL} /\ r.next \in Mapped \cup {NULL}
    BY <1>2, <1>3, Facts DEF HeadersIn
  <2> QED BY <1>1, <1>2, <1>3, <2>1, HeaderStep
<1>5. Mapped' = Mapped
  BY <1>2, <1>3, <1>4 DEF Mapped
<1>6. HeadersOK'
  BY <1>2, <1>3, <1>4, <1>5, Facts DEF HeadersOK
<1>7. HeapsOK'
  <2>1. HeapIn(Mapped, y)
    <3>1. u \in Int /\ SUPERBLOCK_SIZE \in Int
      BY <1>2, Facts, UsedBytesTyped, SizesAssumption
    <3> HIDE DEF u
    <3>2. HeapIn(Mapped, inc_usage(heap[h], u))
      BY <1>2, <3>1, Facts, StatisticsTyped
    <3> QED BY <3>1, <3>2, Facts, StatisticsTyped
  <2> HIDE DEF y
  <2> QED BY <1>1, <1>2, <1>5, <2>1, OneHeapChanges
<1>8. PlaceIn(Mapped, x)
  BY <1>2, Facts DEF Adopt, At, PlaceIn, Thread, AllocPlaces, FreePlaces
<1>9. LocksOK'
  <2>1. th'[t] = x /\ \A v \in Threads \ {t} : th'[v] = th[v]
    BY <1>1, OthersStay
  <2>2. th[t].pc = "adopt" /\ x.pc = "sb_alloc" /\ x.heap = th[t].heap
    BY Facts DEF Adopt, At, Thread
  <2>3. LocksOf(t)' = LocksOf(t)
    <3> HIDE DEF x
    <3> QED BY <2>1, <2>2 DEF LocksOf
  <2> QED BY <2>1, <2>3, LocksKept DEF Adopt, IInv
<1> HIDE DEF x
<1> QED BY <1>1, <1>5, <1>6, <1>7, <1>8, <1>9, HeldStays, Step DEF IInv

(* A superblock gets its owner in the step that maps it.                   *)
LEMMA MapSuperblockKeeps ==
    ASSUME IInv, NEW t \in Threads, NEW s \in Superblocks, MapSuperblock(t, s)
    PROVE  IInv'
<1> DEFINE h == th[t].heap
           z == reset_superblock(sb[s], idx2class(size2idx(th[t].size)))
           r == [z EXCEPT !.owner = h]
           x == [th[t] EXCEPT !.pc = "sb_alloc", !.s_ptr = s]
           y == inc_alloced(heap[h], SUPERBLOCK_SIZE)
<1>1. /\ sb' = [sb EXCEPT ![s] = r] /\ heap' = [heap EXCEPT ![h] = y]
      /\ th' = [th EXCEPT ![t] = x] /\ held' = held /\ crashed' = crashed
  BY DEF MapSuperblock
<1>2. h \in Heaps /\ h \in ThreadHeaps /\ h # NULL
  BY Facts, HeapAssumption DEF MapSuperblock, At, PlaceIn, AllocPlaces, Heaps
<1>3. /\ r \in SuperblockHeader(Heaps) /\ r.owner = h /\ r.prev = NULL /\ r.next = NULL
      /\ r.block_size <= max_block_size
  <2>1. /\ idx2class(size2idx(th[t].size)) \in Nat \ {0}
        /\ idx2class(size2idx(th[t].size)) <= max_block_size
    BY ThreadBin, Facts DEF idx2class
  <2>2. /\ z \in SuperblockHeader(Heaps) /\ z.prev = NULL /\ z.next = NULL
        /\ z.block_size <= max_block_size
    BY <2>1, Facts, ResetTyped
  <2> HIDE DEF z
  <2> QED BY <1>2, <2>2 DEF SuperblockHeader
<1> HIDE DEF r
<1>4. /\ HeadersIn(Heaps, Mapped, sb') /\ sb'[s] = r
      /\ \A q \in Superblocks \ {s} : sb'[q] = sb[q]
  BY <1>1, <1>3, HeaderStep
<1>5. Mapped \subseteq Mapped' /\ s \in Mapped' /\ Mapped' \in SUBSET Superblocks
  BY <1>2, <1>3, <1>4 DEF Mapped
<1>6. HeadersOK'
  BY <1>3, <1>4, <1>5, Facts DEF HeadersOK, HeadersIn
<1>7. HeapsOK'
  <2>1. HeapIn(Mapped, y)
    BY <1>2, SizesAssumption, Facts, StatisticsTyped
  <2>2. HeapIn(Mapped', y)
    <3> HIDE DEF y
    <3> QED BY <2>1, <1>5, Facts, MoreMapped
  <2> HIDE DEF y
  <2> QED BY <1>1, <1>2, <1>5, <2>2, OneHeapChanges
<1>8. PlaceIn(Mapped', x)
  <2>1. PlaceIn(Mapped', th[t])
    BY <1>5, Facts, MoreMapped
  <2>2. th[t].pc = "map"
    BY DEF MapSuperblock, At
  <2> QED BY <1>2, <1>5, <2>1, <2>2, Facts DEF PlaceIn, Thread, AllocPlaces, FreePlaces
<1>9. LocksOK'
  <2>1. th'[t] = x /\ \A v \in Threads \ {t} : th'[v] = th[v]
    BY <1>1, OthersStay
  <2>2. th[t].pc = "map" /\ x.pc = "sb_alloc" /\ x.heap = th[t].heap
    BY Facts DEF MapSuperblock, At, Thread
  <2>3. LocksOf(t)' = LocksOf(t)
    <3> HIDE DEF x
    <3> QED BY <2>1, <2>2 DEF LocksOf
  <2> QED BY <2>1, <2>3, LocksKept DEF MapSuperblock, IInv
<1> HIDE DEF x
<1> QED BY <1>1, <1>5, <1>6, <1>7, <1>8, <1>9, HeldStays, Step DEF IInv

(* Writing one header, in the way superblock_alloc and superblock_free do. *)
LEMMA SetHeader ==
    ASSUME NEW M \in SUBSET Superblocks, NEW f, HeadersIn(Heaps, M, f),
           NEW s \in Superblocks, NEW r \in SuperblockHeader(Heaps),
           r.owner = f[s].owner, r.block_size = f[s].block_size,
           r.prev = f[s].prev, r.next = f[s].next
    PROVE  /\ HeadersIn(Heaps, M, [f EXCEPT ![s] = r])
           /\ SameOwners(f, [f EXCEPT ![s] = r])
<1> DEFINE g == [f EXCEPT ![s] = r]
<1>1. f \in [Superblocks -> SuperblockHeader(Heaps)]
  BY DEF HeadersIn
<1>2. g \in [Superblocks -> SuperblockHeader(Heaps)]
      /\ \A q \in Superblocks : g[q] = IF q = s THEN r ELSE f[q]
  BY <1>1
<1> HIDE DEF g
<1>3. HeadersIn(Heaps, M, g) /\ SameOwners(f, g)
  BY <1>2 DEF HeadersIn, SameOwners
<1> QED BY <1>3 DEF g

LEMMA OwnersThenLinks ==
    ASSUME NEW f, NEW g, NEW h, SameOwners(f, g), SameButLinks(g, h)
    PROVE  SameOwners(f, h)
  BY DEF SameOwners, SameButLinks, SameBlocks

LEMMA SuperblockAllocKeeps ==
    ASSUME IInv, NEW t \in Threads, SuperblockAlloc(t)
    PROVE  IInv'
<1> DEFINE h     == th[t].heap
           s     == th[t].s_ptr
           bin   == size2idx(th[t].size)
           bm    == heap[h].size_bins[bin]
           r     == superblock_alloc(sb[s])
           sbNew == [sb EXCEPT ![s] = r]
           upd   == IF th[t].in_bin
                      THEN update_emptiness_class(sbNew, bm, get_eidx(sb[s]), s)
                      ELSE push_into_bin(sbNew, bm, get_eidx(sbNew[s]), s)
           z     == [heap[h] EXCEPT !.size_bins[bin] = upd.bm]
           y     == inc_usage(z, idx2class(bin))
           p     == [sb |-> s, off |-> AllocatedPtr(sb[s]), size |-> th[t].size]
<1>1. /\ sb' = upd.sb /\ heap' = [heap EXCEPT ![h] = y]
      /\ th' = [th EXCEPT ![t] = IdleThread]
      /\ held' = held \cup {p} /\ crashed' = crashed
  BY DEF SuperblockAlloc, Return
<1>2. th[t].pc = "sb_alloc"
  BY DEF SuperblockAlloc, At
<1>3. /\ h \in Heaps /\ s \in Mapped /\ s \in Superblocks /\ th[t].size \in Nat
  BY <1>2, Facts DEF PlaceIn, Thread, AllocPlaces, Heaps
<1>4. bin \in Bins /\ idx2class(bin) \in Int
  BY ThreadBin, Facts DEF idx2class
<1>5. /\ HasBlock(sb[s])
      /\ IF th[t].in_bin
           THEN UpdateDefined(sbNew, bm, get_eidx(sb[s]), s)
           ELSE PushDefined(sbNew, bm, get_eidx(sbNew[s]))
  BY DEF SuperblockAlloc, AllocDefined
<1>6. sb[s] \in SuperblockHeader(Heaps)
  BY <1>3, Facts
<1>7. /\ r \in SuperblockHeader(Heaps)
      /\ r.owner = sb[s].owner /\ r.block_size = sb[s].block_size
      /\ r.prev = sb[s].prev /\ r.next = sb[s].next
      /\ AllocatedPtr(sb[s]) \in Nat
  BY <1>5, <1>6, AllocTyped
<1>8. HeadersIn(Heaps, Mapped, sbNew) /\ SameOwners(sb, sbNew)
  <2>1. HeadersIn(Heaps, Mapped, sb) /\ Mapped \in SUBSET Superblocks
    BY Facts
  <2> HIDE DEF r
  <2> QED BY <1>3, <1>7, <2>1, SetHeader
<1>9. HeapIn(Mapped, heap[h]) /\ ManagerIn(Mapped, bm)
  BY <1>3, <1>4, Facts DEF HeapIn
<1>10. /\ HeadersIn(Heaps, Mapped, upd.sb) /\ SameButLinks(sbNew, upd.sb)
       /\ ManagerIn(Mapped, upd.bm)
  <2>1. Mapped \in SUBSET Superblocks
    BY Facts
  <2> HIDE DEF sbNew, bm, s
  <2>2. CASE th[t].in_bin
    BY <1>3, <1>5, <1>8, <1>9, <2>1, <2>2, UpdateKeepsLists
  <2>3. CASE ~th[t].in_bin
    BY <1>3, <1>5, <1>8, <1>9, <2>1, <2>3, PushKeepsLists
  <2> QED BY <2>2, <2>3
<1>11. HeadersOK' /\ Mapped' = Mapped
  <2> HIDE DEF sbNew, upd
  <2>1. SameOwners(sb, sb')
    BY <1>1, <1>8, <1>10, OwnersThenLinks
  <2> QED BY <1>1, <1>10, <2>1, LinksStep
<1> HIDE DEF upd, sbNew, r, bm
<1>12. HeapsOK'
  <2>1. HeapIn(Mapped, z)
    <3> HIDE DEF bin, h
    <3> QED BY <1>4, <1>9, <1>10, Facts, SetManager
  <2>2. HeapIn(Mapped, y)
    <3> HIDE DEF z
    <3> QED BY <1>4, <2>1, Facts, StatisticsTyped
  <2> HIDE DEF y
  <2> QED BY <1>1, <1>3, <1>11, <2>2, OneHeapChanges
<1>13. PlaceIn(Mapped, IdleThread)
  BY Facts DEF PlaceIn, Thread, IdleThread, AllocPlaces, FreePlaces
<1>14. HeldOK'
  <2>1. p \in Block /\ p.sb \in Mapped
    BY <1>3, <1>7 DEF Block
  <2> HIDE DEF p
  <2> QED BY <1>1, <1>11, <2>1 DEF IInv, HeldOK
<1>15. LocksOK'
  <2>1. th'[t] = IdleThread /\ \A v \in Threads \ {t} : th'[v] = th[v]
    BY <1>1, OthersStay
  <2>2. LocksOf(t)' = LocksOf(t) \ {h} /\ {h} \subseteq LocksOf(t)
    BY <1>2, <2>1 DEF LocksOf, IdleThread
  <2> QED BY <2>1, <2>2, LocksReleased DEF SuperblockAlloc, IInv
<1> HIDE DEF y, p
<1> QED BY <1>1, <1>11, <1>12, <1>13, <1>14, <1>15, Step DEF IInv

LEMMA BinFreeKeeps ==
    ASSUME IInv, NEW t \in Threads, BinFree(t)
    PROVE  IInv'
<1> DEFINE h     == th[t].heap
           s     == th[t].s_ptr
           bin   == size2idx(th[t].size)
           bm    == heap[h].size_bins[bin]
           old   == get_eidx(sb[s])
           r     == superblock_free(sb[s], th[t].off)
           sbNew == [sb EXCEPT ![s] = r]
           del   == delete_from_bin(sbNew, bm, old, s)
           upd   == update_emptiness_class(sbNew, bm, old, s)
           x     == [th[t] EXCEPT !.pc = "account"]
           yDel  == [heap[h] EXCEPT !.size_bins[bin] = del.bm]
           yRec  == [yDel EXCEPT !.recycled_superblock = s]
           yUpd  == [heap[h] EXCEPT !.size_bins[bin] = upd.bm]
<1>1. /\ th' = [th EXCEPT ![t] = x] /\ lock' = lock
      /\ held' = held /\ crashed' = crashed
  BY DEF BinFree, Goto
<1>2. th[t].pc = "bin_free"
  BY DEF BinFree, At
<1>3. /\ h \in Heaps /\ s \in Mapped /\ s \in Superblocks /\ th[t].off \in Nat
  BY <1>2, Facts DEF PlaceIn, Thread, FreePlaces, Heaps
<1>4. bin \in Bins
  BY ThreadBin
<1>5. IF is_superblock_empty(sbNew[s])
        THEN /\ DeleteDefined(sbNew, old, s)
             /\ sb' = [del.sb EXCEPT ![s].next = heap[h].recycled_superblock]
             /\ heap' = [heap EXCEPT ![h].size_bins[bin]      = del.bm,
                                     ![h].recycled_superblock = s]
        ELSE /\ UpdateDefined(sbNew, bm, old, s)
             /\ sb' = upd.sb
             /\ heap' = [heap EXCEPT ![h].size_bins[bin] = upd.bm]
  BY DEF BinFree, BinFreeDefined
<1>6. /\ r \in SuperblockHeader(Heaps)
      /\ r.owner = sb[s].owner /\ r.block_size = sb[s].block_size
      /\ r.prev = sb[s].prev /\ r.next = sb[s].next
  <2>1. sb[s] \in SuperblockHeader(Heaps)
    BY <1>3, Facts
  <2> QED BY <1>3, <2>1, FreeTyped
<1>7. Mapped \in SUBSET Superblocks /\ heap \in [Heaps -> HeapRecord]
  BY Facts
<1>8. HeadersIn(Heaps, Mapped, sbNew) /\ SameOwners(sb, sbNew)
  <2>1. HeadersIn(Heaps, Mapped, sb)
    BY Facts
  <2> HIDE DEF r
  <2> QED BY <1>3, <1>6, <1>7, <2>1, SetHeader
<1>9. HeapIn(Mapped, heap[h]) /\ ManagerIn(Mapped, bm)
  BY <1>3, <1>4, Facts DEF HeapIn
<1> HIDE DEF bm, old, sbNew, s, bin
<1>10. ASSUME is_superblock_empty(sbNew[s])
       PROVE  HeadersOK' /\ HeapsOK' /\ Mapped' = Mapped
  <2>1. /\ HeadersIn(Heaps, Mapped, del.sb) /\ SameButLinks(sbNew, del.sb)
        /\ ManagerIn(Mapped, del.bm)
    BY <1>3, <1>5, <1>7, <1>8, <1>9, <1>10, DeleteKeepsLists
  <2>2. HeapIn(Mapped, yRec)
    <3>1. HeapIn(Mapped, yDel)
      <4> HIDE DEF del, h
      <4> QED BY <1>4, <1>7, <1>9, <2>1, SetManager
    <3> HIDE DEF yDel
    <3> QED BY <1>3, <1>7, <3>1, SetRecycled
  <2>3. heap' = [heap EXCEPT ![h] = yRec]
    <3> HIDE DEF del
    <3> QED BY <1>3, <1>5, <1>7, <1>10
  <2> HIDE DEF del, yRec
  <2>4. HeadersIn(Heaps, Mapped, sb') /\ SameButLinks(del.sb, sb')
    <3>1. heap[h].recycled_superblock \in Mapped \cup {NULL}
      BY <1>9 DEF HeapIn
    <3>2. sb' = [del.sb EXCEPT ![s].next = heap[h].recycled_superblock]
      BY <1>5, <1>10
    <3> DEFINE v == heap[h].recycled_superblock
    <3> HIDE DEF v
    <3>3. v \in Mapped \cup {NULL}
      BY <3>1 DEF v
    <3>4. /\ HeadersIn(Heaps, Mapped, [del.sb EXCEPT ![s].next = v])
          /\ SameButLinks(del.sb, [del.sb EXCEPT ![s].next = v])
      BY <1>3, <1>7, <2>1, <3>3, SetNext
    <3> QED BY <3>2, <3>4 DEF v
  <2>5. HeadersOK' /\ Mapped' = Mapped
    BY <1>8, <2>1, <2>4, OwnersThenLinks, LinksStep
  <2> QED BY <1>3, <2>2, <2>3, <2>5, OneHeapChanges
<1>11. ASSUME ~is_superblock_empty(sbNew[s])
       PROVE  HeadersOK' /\ HeapsOK' /\ Mapped' = Mapped
  <2>1. /\ HeadersIn(Heaps, Mapped, upd.sb) /\ SameButLinks(sbNew, upd.sb)
        /\ ManagerIn(Mapped, upd.bm)
    BY <1>3, <1>5, <1>7, <1>8, <1>9, <1>11, UpdateKeepsLists
  <2>2. HeapIn(Mapped, yUpd)
    <3> HIDE DEF upd, h
    <3> QED BY <1>4, <1>7, <1>9, <2>1, SetManager
  <2>3. heap' = [heap EXCEPT ![h] = yUpd]
    <3> HIDE DEF upd
    <3> QED BY <1>5, <1>11
  <2> HIDE DEF upd, yUpd
  <2>4. HeadersOK' /\ Mapped' = Mapped
    BY <1>5, <1>8, <1>11, <2>1, OwnersThenLinks, LinksStep
  <2> QED BY <1>3, <2>2, <2>3, <2>4, OneHeapChanges
<1>12. HeadersOK' /\ HeapsOK' /\ Mapped' = Mapped
  BY <1>10, <1>11
<1>13. PlaceIn(Mapped, x)
  BY <1>2, Facts DEF PlaceIn, Thread, AllocPlaces, FreePlaces
<1>14. LocksOK'
  <2>1. th'[t] = x /\ \A v \in Threads \ {t} : th'[v] = th[v]
    BY <1>1, OthersStay
  <2>2. x.pc = "account" /\ x.heap = th[t].heap /\ x.s_ptr = th[t].s_ptr
    BY Facts DEF Thread
  <2>3. LocksOf(t)' = LocksOf(t)
    <3> HIDE DEF x
    <3> QED BY <1>2, <2>1, <2>2 DEF LocksOf
  <2> QED BY <1>1, <2>1, <2>3, LocksKept DEF IInv
<1> HIDE DEF x
<1> QED BY <1>1, <1>12, <1>13, <1>14, HeldStays, Step DEF IInv

LEMMA GiveEmptiestKeeps ==
    ASSUME IInv, NEW t \in Threads, GiveEmptiest(t)
    PROVE  IInv'
<1> DEFINE h   == th[t].heap
           dec == dec_usage(heap[h], th[t].size)
           c   == find_emptiest_sb(dec)
           bm  == dec.size_bins[c[1]]
           s   == bm.emptiness_bins[c[2]]
           del == delete_from_bin(sb, bm, c[2], s)
           x   == [th[t] EXCEPT !.pc = "transfer", !.victim = s,
                                !.bin_idx = c[1], !.eidx = c[2]]
           y   == [dec EXCEPT !.size_bins[c[1]] = del.bm]
<1>1. /\ sb' = del.sb /\ heap' = [heap EXCEPT ![h] = y]
      /\ th' = [th EXCEPT ![t] = x] /\ lock' = lock
      /\ held' = held /\ crashed' = crashed
  BY DEF GiveEmptiest
<1>2. th[t].pc = "account" /\ h # GlobalHeap
  BY DEF GiveEmptiest, At
<1>3. h \in Heaps /\ h \in ThreadHeaps /\ th[t].size \in Int
  BY <1>2, Facts DEF PlaceIn, Thread, FreePlaces, Heaps
<1>4. HeapIn(Mapped, dec) /\ dec.size_bins = heap[h].size_bins
  BY <1>3, Facts, StatisticsTyped
<1>5. c = find_emptiest_sb(heap[h]) /\ Candidates(dec) = Candidates(heap[h])
  <2> HIDE DEF dec, h
  <2> QED BY <1>4 DEF find_emptiest_sb, Candidates
<1>6. Candidates(heap[h]) # {} /\ DeleteDefined(sb, c[2], s)
  <2> HIDE DEF dec
  <2> QED BY <1>4, <1>5 DEF GiveEmptiest, GiveDefined
<1>7. c \in Candidates(dec)
  BY <1>5, <1>6, EmptiestFound
<1> HIDE DEF dec, c
<1>8. c[1] \in Bins /\ c[2] \in NonfullClasses /\ s # NULL
  BY <1>7 DEF Candidates
<1>9. ManagerIn(Mapped, bm)
  BY <1>4, <1>8 DEF HeapIn
<1>10. s \in Mapped /\ Mapped \in SUBSET Superblocks
  <2>1. c[2] \in EmptinessClasses
    BY <1>8, NonfullClass
  <2> HIDE DEF bm
  <2> QED BY <1>8, <1>9, <2>1, Facts DEF ManagerIn
<1> HIDE DEF bm, s
<1>11. /\ HeadersIn(Heaps, Mapped, del.sb) /\ SameButLinks(sb, del.sb)
       /\ ManagerIn(Mapped, del.bm)
  <2>1. HeadersIn(Heaps, Mapped, sb)
    BY Facts
  <2> QED BY <1>6, <1>9, <1>10, <2>1, DeleteKeepsLists
<1> HIDE DEF del
<1>12. HeadersOK' /\ Mapped' = Mapped
  BY <1>1, <1>11, LinksStep DEF SameButLinks, SameBlocks, SameOwners
<1>13. HeapsOK'
  <2>1. HeapIn(Mapped, y)
    BY <1>4, <1>8, <1>10, <1>11, SetManager
  <2> HIDE DEF y
  <2> QED BY <1>1, <1>3, <1>12, <2>1, OneHeapChanges
<1>14. PlaceIn(Mapped, x)
  <2>1. th[t].pc = "account" /\ PlaceIn(Mapped, th[t]) /\ th[t] \in Thread
    BY Facts DEF GiveEmptiest, At
  <2>2. /\ x \in Thread /\ x.pc = "transfer" /\ x.heap = th[t].heap
        /\ x.size = th[t].size /\ x.s_ptr = th[t].s_ptr /\ x.victim = s
        /\ x.bin_idx = c[1] /\ x.eidx = c[2]
    BY <1>3, <1>8, <1>10, <2>1, Facts DEF Thread, AllocPlaces, FreePlaces
  <2> HIDE DEF x
  <2> QED BY <1>3, <1>8, <1>10, <2>1, <2>2 DEF PlaceIn, AllocPlaces, FreePlaces
<1>15. LocksOK'
  <2>1. th'[t] = x /\ \A v \in Threads \ {t} : th'[v] = th[v]
    BY <1>1, OthersStay
  <2>2. x.pc = "transfer" /\ x.heap = th[t].heap /\ x.s_ptr = th[t].s_ptr
    BY Facts DEF Thread
  <2>3. LocksOf(t)' = LocksOf(t)
    <3> HIDE DEF x
    <3> QED BY <1>2, <2>1, <2>2 DEF LocksOf
  <2> QED BY <1>1, <2>1, <2>3, LocksKept DEF IInv
<1> HIDE DEF x
<1> QED BY <1>1, <1>12, <1>13, <1>14, <1>15, HeldStays, Step DEF IInv

LEMMA TwoHeapsChange ==
    ASSUME IInv, Mapped' = Mapped, NEW g \in Heaps, NEW h \in Heaps, g # h,
           NEW y, HeapIn(Mapped, y), NEW z, HeapIn(Mapped, z),
           heap' = [heap EXCEPT ![g] = y, ![h] = z]
    PROVE  HeapsOK'
<1>1. heap \in [Heaps -> HeapRecord] /\ \A f \in Heaps : HeapIn(Mapped, heap[f])
  BY DEF IInv, HeapsOK
<1>2. \A f \in Heaps : heap'[f] = IF f = h THEN z ELSE IF f = g THEN y ELSE heap[f]
  BY <1>1
<1>3. y \in HeapRecord /\ z \in HeapRecord
  BY DEF HeapIn
<1>4. heap' \in [Heaps -> HeapRecord]
  BY <1>1, <1>3
<1> QED BY <1>1, <1>2, <1>4 DEF HeapsOK

(* The end of a transfer: who takes part, and the mutexes it releases.     *)
LEMMA InsertFacts ==
    ASSUME IInv, NEW t \in Threads, th[t].pc = "insert_global"
    PROVE  /\ th[t].heap \in ThreadHeaps /\ th[t].heap \in Heaps
           /\ GlobalHeap \in Heaps /\ GlobalHeap # th[t].heap /\ GlobalHeap # NULL
           /\ th[t].victim \in Mapped /\ th[t].victim \in Superblocks
           /\ th[t].eidx # -1 => th[t].bin_idx \in Bins
           /\ HeapIn(Mapped, dec_alloced(heap[th[t].heap], SUPERBLOCK_SIZE))
<1>1. /\ th[t].heap \in ThreadHeaps /\ th[t].heap \in Heaps
      /\ GlobalHeap \in Heaps /\ GlobalHeap # th[t].heap /\ GlobalHeap # NULL
      /\ th[t].victim \in Mapped /\ th[t].victim \in Superblocks
      /\ th[t].eidx # -1 => th[t].bin_idx \in Bins
  BY Facts, HeapAssumption DEF PlaceIn, Heaps
<1>2. HeapIn(Mapped, dec_alloced(heap[th[t].heap], SUPERBLOCK_SIZE))
  BY <1>1, Facts, StatisticsTyped, SizesAssumption
<1> QED BY <1>1, <1>2

LEMMA InsertReleases ==
    ASSUME IInv, NEW t \in Threads, th[t].pc = "insert_global",
           Release({GlobalHeap, th[t].heap, th[t].s_ptr}),
           th' = [th EXCEPT ![t] = IdleThread]
    PROVE  LocksOK'
<1>1. th'[t] = IdleThread /\ \A v \in Threads \ {t} : th'[v] = th[v]
  BY OthersStay
<1>2. /\ LocksOf(t)' = LocksOf(t) \ {GlobalHeap, th[t].heap, th[t].s_ptr}
      /\ {GlobalHeap, th[t].heap, th[t].s_ptr} \in SUBSET LocksOf(t)
  BY <1>1 DEF LocksOf, IdleThread
<1> QED BY <1>1, <1>2, LocksReleased DEF IInv

LEMMA InsertRecycledKeeps ==
    ASSUME IInv, NEW t \in Threads, InsertRecycled(t)
    PROVE  IInv'
<1> DEFINE h == th[t].heap
           s == th[t].victim
           v == heap[GlobalHeap].recycled_superblock
           r == [sb[s] EXCEPT !.owner = GlobalHeap, !.next = v]
           y == [heap[GlobalHeap] EXCEPT !.recycled_superblock = s]
           z == dec_alloced(heap[h], SUPERBLOCK_SIZE)
<1>1. th[t].pc = "insert_global"
  BY DEF InsertRecycled, At
<1>2. /\ h \in Heaps /\ GlobalHeap \in Heaps /\ GlobalHeap # h /\ GlobalHeap # NULL
      /\ s \in Mapped /\ s \in Superblocks /\ HeapIn(Mapped, z)
  BY <1>1, InsertFacts
<1>3. /\ heap \in [Heaps -> HeapRecord] /\ sb \in [Superblocks -> SuperblockHeader(Heaps)]
      /\ HeapIn(Mapped, heap[GlobalHeap]) /\ Mapped \in SUBSET Superblocks
      /\ sb[s].prev \in Mapped \cup {NULL} /\ sb[s].block_size <= max_block_size
  BY <1>2, Facts DEF HeadersIn
<1>4. /\ sb' = [sb EXCEPT ![s] = r] /\ heap' = [heap EXCEPT ![GlobalHeap] = y, ![h] = z]
      /\ th' = [th EXCEPT ![t] = IdleThread]
      /\ held' = held /\ crashed' = crashed
  <2>1. th' = [th EXCEPT ![t] = IdleThread] /\ held' = held /\ crashed' = crashed
    BY DEF InsertRecycled, Return
  <2>2. sb' = [sb EXCEPT ![s] = r]
    <3>1. sb' = [sb EXCEPT ![s].owner = GlobalHeap, ![s].next = v]
      BY DEF InsertRecycled
    <3> HIDE DEF v
    <3> QED BY <1>2, <1>3, <3>1
  <2>3. heap' = [heap EXCEPT ![GlobalHeap] = y, ![h] = z]
    <3>1. heap' = [heap EXCEPT ![GlobalHeap].recycled_superblock = s,
                               ![h] = dec_alloced(@, SUPERBLOCK_SIZE)]
      BY DEF InsertRecycled
    <3> QED BY <1>2, <1>3, <3>1
  <2> QED BY <2>1, <2>2, <2>3
<1>5. v \in Mapped \cup {NULL}
  BY <1>3 DEF HeapIn
<1> HIDE DEF v
<1>6. /\ r \in SuperblockHeader(Heaps) /\ r.owner = GlobalHeap
      /\ r.block_size = sb[s].block_size /\ r.prev = sb[s].prev /\ r.next = v
  <2>1. /\ sb[s] \in SuperblockHeader(Heaps) /\ GlobalHeap \in Heaps
        /\ v \in Superblocks \cup {NULL}
    BY <1>2, <1>3, <1>5
  <2> HIDE DEF h, s, y, z
  <2> QED BY <2>1 DEF SuperblockHeader
<1> HIDE DEF r
<1>7. /\ HeadersIn(Heaps, Mapped, sb') /\ sb'[s] = r
      /\ \A q \in Superblocks \ {s} : sb'[q] = sb[q]
  BY <1>2, <1>3, <1>4, <1>5, <1>6, HeaderStep
<1>8. Mapped' = Mapped
  BY <1>2, <1>6, <1>7 DEF Mapped
<1>9. HeadersOK'
  BY <1>3, <1>6, <1>7, <1>8, Facts DEF HeadersOK
<1>10. HeapsOK'
  <2>1. HeapIn(Mapped, y)
    BY <1>2, <1>3, SetRecycled
  <2> HIDE DEF y, z, h
  <2> QED BY <1>2, <1>4, <1>8, <2>1, TwoHeapsChange
<1>11. PlaceIn(Mapped, IdleThread)
  BY Facts DEF PlaceIn, Thread, IdleThread, AllocPlaces, FreePlaces
<1>12. LocksOK'
  BY <1>1, <1>4, InsertReleases DEF InsertRecycled
<1> QED BY <1>4, <1>8, <1>9, <1>10, <1>11, <1>12, HeldStays, Step DEF IInv

LEMMA InsertIntoBinKeeps ==
    ASSUME IInv, NEW t \in Threads, InsertIntoBin(t)
    PROVE  IInv'
<1> DEFINE h    == th[t].heap
           s    == th[t].victim
           b    == th[t].bin_idx
           e    == th[t].eidx
           bm   == heap[GlobalHeap].size_bins[b]
           r    == [sb[s] EXCEPT !.owner = GlobalHeap]
           f    == [sb EXCEPT ![s] = r]
           push == push_into_bin(f, bm, e, s)
           y    == [heap[GlobalHeap] EXCEPT !.size_bins[b] = push.bm]
           z    == dec_alloced(heap[h], SUPERBLOCK_SIZE)
<1>1. th[t].pc = "insert_global" /\ e # -1
  BY DEF InsertIntoBin, At
<1>2. /\ h \in Heaps /\ GlobalHeap \in Heaps /\ GlobalHeap # h /\ GlobalHeap # NULL
      /\ s \in Mapped /\ s \in Superblocks /\ HeapIn(Mapped, z) /\ b \in Bins
  BY <1>1, InsertFacts
<1>3. /\ heap \in [Heaps -> HeapRecord] /\ sb \in [Superblocks -> SuperblockHeader(Heaps)]
      /\ HeapIn(Mapped, heap[GlobalHeap]) /\ Mapped \in SUBSET Superblocks
      /\ HeadersIn(Heaps, Mapped, sb)
  BY <1>2, Facts DEF HeadersIn
<1>4. /\ sb' = push.sb /\ heap' = [heap EXCEPT ![GlobalHeap] = y, ![h] = z]
      /\ th' = [th EXCEPT ![t] = IdleThread]
      /\ held' = held /\ crashed' = crashed
  <2>1. /\ th' = [th EXCEPT ![t] = IdleThread] /\ held' = held /\ crashed' = crashed
        /\ sb' = push.sb
    BY DEF InsertIntoBin, Return
  <2>2. heap' = [heap EXCEPT ![GlobalHeap].size_bins[b] = push.bm,
                             ![h] = dec_alloced(@, SUPERBLOCK_SIZE)]
    BY DEF InsertIntoBin
  <2>3. heap' = [heap EXCEPT ![GlobalHeap] = y, ![h] = z]
    <3> HIDE DEF push
    <3> QED BY <1>2, <1>3, <2>2
  <2> QED BY <2>1, <2>3
<1>5. PushDefined(sb, bm, e)
  BY <1>1 DEF InsertIntoBin, InsertDefined
<1>6. ManagerIn(Mapped, bm)
  BY <1>2, <1>3 DEF HeapIn
<1>7. /\ r \in SuperblockHeader(Heaps) /\ r.owner = GlobalHeap
      /\ r.block_size = sb[s].block_size /\ r.prev = sb[s].prev /\ r.next = sb[s].next
  BY <1>2, <1>3, NewOwner
<1> HIDE DEF r
<1>8. /\ f \in [Superblocks -> SuperblockHeader(Heaps)]
      /\ \A q \in Superblocks : f[q] = IF q = s THEN r ELSE sb[q]
  BY <1>3, <1>7
<1> HIDE DEF f, bm
<1>9. HeadersIn(Heaps, Mapped, f) /\ PushDefined(f, bm, e)
  <2>1. HeadersIn(Heaps, Mapped, f)
    BY <1>3, <1>7, <1>8 DEF HeadersIn
  <2>2. \A q \in Superblocks : f[q].prev = sb[q].prev
    BY <1>7, <1>8
  <2>3. e \in EmptinessClasses => bm.emptiness_bins[e] \in Mapped \cup {NULL}
    BY <1>6 DEF ManagerIn
  <2> QED BY <1>3, <1>5, <2>1, <2>2, <2>3 DEF PushDefined
<1>10. /\ HeadersIn(Heaps, Mapped, push.sb) /\ SameButLinks(f, push.sb)
       /\ ManagerIn(Mapped, push.bm)
  BY <1>2, <1>3, <1>6, <1>9, PushKeepsLists
<1> HIDE DEF push
<1>11. \A q \in Superblocks : /\ sb'[q].owner = IF q = s THEN GlobalHeap ELSE sb[q].owner
                              /\ sb'[q].block_size = sb[q].block_size
  BY <1>4, <1>7, <1>8, <1>10 DEF SameButLinks, SameBlocks
<1>12. Mapped' = Mapped
  BY <1>2, <1>11 DEF Mapped
<1>13. HeadersOK'
  BY <1>4, <1>10, <1>11, <1>12, Facts DEF HeadersOK
<1>14. HeapsOK'
  <2>1. HeapIn(Mapped, y)
    <3> HIDE DEF b
    <3> QED BY <1>2, <1>3, <1>10, SetManager
  <2> HIDE DEF y, z, h
  <2> QED BY <1>2, <1>4, <1>12, <2>1, TwoHeapsChange
<1>15. PlaceIn(Mapped, IdleThread)
  BY Facts DEF PlaceIn, Thread, IdleThread, AllocPlaces, FreePlaces
<1>16. LocksOK'
  BY <1>1, <1>4, InsertReleases DEF InsertIntoBin
<1> QED BY <1>4, <1>12, <1>13, <1>14, <1>15, <1>16, HeldStays, Step DEF IInv

-----------------------------------------------------------------------------
(* The theorems *)

LEMMA Initially == Init => IInv
<1> SUFFICES ASSUME Init PROVE IInv
  OBVIOUS
<1>1. max_block_size \in Nat \ {0}
  BY LargestBin
<1>2. /\ Unmapped \in SuperblockHeader(Heaps) /\ Unmapped.owner = NULL
      /\ Unmapped.prev = NULL /\ Unmapped.next = NULL
      /\ Unmapped.block_size <= max_block_size
  <2>1. 0 \in 0 .. UINT_MOD - 1 /\ << >> \in Seq(Nat)
    BY SizesAssumption
  <2> QED BY <1>1, <2>1 DEF Unmapped, SuperblockHeader
<1>3. HeadersOK
  <2>1. sb \in [Superblocks -> SuperblockHeader(Heaps)] /\ \A s \in Superblocks : sb[s] = Unmapped
    BY <1>2 DEF Init
  <2> QED BY <1>2, <2>1 DEF HeadersOK, HeadersIn
<1>4. \A b \in Bins : EmptyHeap.size_bins[b] = EmptyBinManager
  BY DEF EmptyHeap
<1>5. ManagerIn(Mapped, EmptyBinManager)
  <2>1. 0 \in 0 .. UINT_MOD - 1
    BY SizesAssumption
  <2> QED BY <2>1 DEF ManagerIn, EmptyBinManager, BinManagerRecord
<1>6. HeapIn(Mapped, EmptyHeap)
  <2>1. 0 \in 0 .. SIZE_MOD - 1
    BY HeapAssumption, SizesAssumption
  <2>2. EmptyHeap.size_bins \in [Bins -> BinManagerRecord]
    BY <1>5 DEF EmptyHeap, ManagerIn
  <2>3. EmptyHeap \in HeapRecord /\ EmptyHeap.recycled_superblock = NULL
    BY <2>1, <2>2 DEF EmptyHeap, HeapRecord
  <2> QED BY <1>4, <1>5, <2>3 DEF HeapIn
<1>7. HeapsOK
  <2>1. heap = [h \in Heaps |-> EmptyHeap]
    BY DEF Init
  <2> QED BY <1>6, <2>1 DEF HeapsOK, HeapIn
<1>8. ThreadsOK
  <2>1. PlaceIn(Mapped, IdleThread)
    BY <1>1 DEF PlaceIn, Thread, IdleThread, AllocPlaces, FreePlaces
  <2>2. th = [t \in Threads |-> IdleThread]
    BY DEF Init
  <2> QED BY <2>1, <2>2 DEF ThreadsOK, PlaceIn
<1>9. HeldOK
  BY DEF Init, HeldOK
<1>10. LocksOK
  <2>1. \A t \in Threads : LocksOf(t) = {}
    BY DEF Init, LocksOf, IdleThread
  <2>2. \A t \in Threads : t # NULL
    BY HeapAssumption
  <2> QED BY <2>1, <2>2 DEF Init, LocksOK, LockDiscipline
<1> QED BY <1>3, <1>7, <1>8, <1>9, <1>10 DEF Init, IInv

LEMMA Inductive == IInv /\ [Next]_vars => IInv'
<1> SUFFICES ASSUME IInv, [Next]_vars PROVE IInv'
  OBVIOUS
<1>1. ASSUME NEW t \in Threads, Call(t) PROVE IInv'
  BY <1>1, MallocKeeps, FreeKeeps DEF Call
<1>2. ASSUME NEW t \in Threads, Continue(t) PROVE IInv'
  <2>1. CASE LockHeap(t)
    BY <2>1, LockHeapKeeps
  <2>2. CASE ChooseInBin(t)
    BY <2>2, ChooseInBinKeeps
  <2>3. CASE Recycle(t)
    BY <2>3, RecycleKeeps
  <2>4. CASE AskGlobal(t)
    BY <2>4, AskGlobalKeeps
  <2>5. CASE LockGlobal(t)
    BY <2>5, LockGlobalKeeps
  <2>6. CASE TakeNonfull(t)
    BY <2>6, TakeNonfullKeeps
  <2>7. CASE TakeRecycled(t)
    BY <2>7, TakeRecycledKeeps
  <2>8. CASE TakeNothing(t)
    BY <2>8, TakeNothingKeeps
  <2>9. CASE Adopt(t)
    BY <2>9, AdoptKeeps
  <2>10. CASE \E s \in Superblocks : MapSuperblock(t, s)
    BY <2>10, MapSuperblockKeeps
  <2>11. CASE MmapFails(t)
    BY <2>11, MmapFailsKeeps
  <2>12. CASE SuperblockAlloc(t)
    BY <2>12, SuperblockAllocKeeps
  <2>13. CASE LockSuperblock(t)
    BY <2>13, LockSuperblockKeeps
  <2>14. CASE LockOwner(t)
    BY <2>14, LockOwnerKeeps
  <2>15. CASE BinFree(t)
    BY <2>15, BinFreeKeeps
  <2>16. CASE FreeFromGlobal(t)
    BY <2>16, FreeFromGlobalKeeps
  <2>17. CASE FreeAndKeep(t)
    BY <2>17, FreeAndKeepKeeps
  <2>18. CASE GiveRecycled(t)
    BY <2>18, GiveRecycledKeeps
  <2>19. CASE GiveEmptiest(t)
    BY <2>19, GiveEmptiestKeeps
  <2>20. CASE LockGlobalForTransfer(t)
    BY <2>20, LockGlobalForTransferKeeps
  <2>21. CASE InsertRecycled(t)
    BY <2>21, InsertRecycledKeeps
  <2>22. CASE InsertIntoBin(t)
    BY <2>22, InsertIntoBinKeeps
  <2>23. CASE Crash(t)
    BY <2>23, CrashKeeps
  <2> QED BY <1>2, <2>1, <2>2, <2>3, <2>4, <2>5, <2>6, <2>7, <2>8, <2>9, <2>10, <2>11, <2>12,
              <2>13, <2>14, <2>15, <2>16, <2>17, <2>18, <2>19, <2>20, <2>21, <2>22, <2>23 DEF Continue
<1>3. CASE UNCHANGED vars
  BY <1>3, StoppedKeeps
<1> QED BY <1>1, <1>2, <1>3 DEF Next, Stopped

(* The invariant holds in every state any program can bring the heaps to. *)
THEOREM InvariantHolds == Spec => []IInv
<1>1. Init => IInv
  BY Initially
<1>2. IInv /\ [Next]_vars => IInv'
  BY Inductive
<1> QED BY <1>1, <1>2, PTL DEF Spec

(* Every variable keeps its type: counters stay within their widths, every *)
(* pointer is a superblock or null, every list is indexed by a class.      *)
THEOREM TypeCorrect == Spec => []TypeOK
<1>1. IInv => TypeOK
  BY IInvImplies
<1> QED BY <1>1, InvariantHolds, PTL

(* heap_alloc and heap_free release what they lock on every path, and no   *)
(* thread works on a heap whose mutex it does not hold.                    *)
THEOREM MutexesFollowTheCode == Spec => []LockDiscipline
<1>1. IInv => LockDiscipline
  BY IInvImplies
<1> QED BY <1>1, InvariantHolds, PTL

(* No pointer in a header, a heap, a thread or the program leads to memory *)
(* that was never mapped, so a thread that frees finds an owner to lock.   *)
THEOREM PointersStayMapped == Spec => []OnlyMappedReachable
<1>1. IInv => OnlyMappedReachable
  BY IInvImplies
<1> QED BY <1>1, InvariantHolds, PTL

(* Threads never wait for each other in a circle, for any number of them   *)
(* and any pattern of calls, frees of other threads' blocks included.      *)
THEOREM DeadlockFree == Spec => []NoDeadlock
<1>1. IInv => NoDeadlock
  BY DisciplineAvoidsDeadlock DEF IInv
<1> QED BY <1>1, InvariantHolds, PTL

=============================================================================
