----------------------------- MODULE BlockProofs -----------------------------
(***************************************************************************)
(* Why the memory of two blocks never overlaps and none is lost, for any   *)
(* number of threads, heaps, superblocks and block sizes; and from that,   *)
(* why the heap implements the abstract allocator, step by step.           *)
(*                                                                         *)
(* That depends on what the lists of superblocks hold, which a stale owner *)
(* can corrupt, so the theorems have two hypotheses: a superblock taken    *)
(* from a recycling bin is empty, and a superblock is only asked for a     *)
(* block it is cut for. Both hold in every state of the runs `shared',     *)
(* `transfer' and `fullness'. In the instance of `race' the first fails,   *)
(* and in that of `wrong_size' the second. ListProofs shows where they     *)
(* hold.                                                                   *)
(***************************************************************************)
EXTENDS HeapProofs, FiniteSetTheorems

-----------------------------------------------------------------------------
(* One superblock: its blocks are slots at multiples of the block size.    *)

Slots(h) == { k * h.block_size : k \in 0 .. h.total_blocks - 1 }

(* The slots below the cursor have been handed out at least once; those on *)
(* the free list are some of them, each once.                              *)
HeaderOK(h) ==
    /\ h.total_blocks * h.block_size <= BufferSize
    /\ h.block_size % MIN_BLOCK_SIZE = 0
    /\ h.reapable_blocks <= h.total_blocks
    /\ h.reap_position = (h.total_blocks - h.reapable_blocks) * h.block_size
    /\ \A i \in 1 .. Len(h.free_list) :
          \E k \in 0 .. h.total_blocks - h.reapable_blocks - 1 :
             h.free_list[i] = k * h.block_size
    /\ \A i, j \in 1 .. Len(h.free_list) :
          h.free_list[i] = h.free_list[j] => i = j

(* Multiples of b that differ are at least b apart.                        *)
LEMMA SlotsApart ==
    ASSUME NEW b \in Nat \ {0}, NEW j \in Nat, NEW k \in Nat, j < k
    PROVE  j * b + b <= k * b
<1> DEFINE d == k - j - 1
<1>1. d \in Nat /\ k = j + 1 + d
  OBVIOUS
<1> HIDE DEF d
<1>2. d * b \in Nat
  BY <1>1
<1>3. (j + 1 + d) * b = j * b + b + d * b
  BY <1>1
<1>4. j * b \in Nat
  OBVIOUS
<1> QED BY <1>1, <1>2, <1>3, <1>4

LEMMA SameSlot ==
    ASSUME NEW b \in Nat \ {0}, NEW j \in Nat, NEW k \in Nat, j * b = k * b
    PROVE  j = k
<1>1. CASE j < k
  BY <1>1, SlotsApart
<1>2. CASE k < j
  BY <1>2, SlotsApart
<1> QED BY <1>1, <1>2

LEMMA Divides ==
    ASSUME NEW a \in Nat, NEW m \in Nat \ {0}, a % m = 0
    PROVE  \E q \in Nat : a = m * q
  OBVIOUS

(* A slot of an aligned block size is aligned.                             *)
LEMMA SlotAligned ==
    ASSUME NEW b \in Nat, NEW k \in Nat, b % MIN_BLOCK_SIZE = 0
    PROVE  ~ Misaligned(k * b)
<1> DEFINE m == MIN_BLOCK_SIZE
<1>1. m \in Nat \ {0} /\ HEADER_SIZE \in Nat /\ HEADER_SIZE % m = 0
  BY SizesAssumption
<1> HIDE DEF m
<1>2. b % m = 0
  BY DEF m
<1>3. PICK u \in Nat : HEADER_SIZE = m * u
  BY <1>1, Divides
<1>4. PICK v \in Nat : b = m * v
  BY <1>1, <1>2, Divides
<1>5. HEADER_SIZE + k * b = m * (u + k * v) /\ u + k * v \in Nat
  BY <1>1, <1>3, <1>4
<1>6. \A q \in Nat : (m * q) % m = 0
  BY <1>1
<1>7. (HEADER_SIZE + k * b) % m = 0
  BY <1>5, <1>6
<1> QED BY <1>7 DEF Misaligned, m

-----------------------------------------------------------------------------
(* What the operations of a superblock do to its free blocks.              *)

Fresh(h) == { h.reap_position + i * h.block_size : i \in 0 .. h.reapable_blocks - 1 }
Freed(h) == { h.free_list[i] : i \in 1 .. Len(h.free_list) }

LEMMA FreeBlocksParts == \A h : FreeBlocks(h) = Fresh(h) \cup Freed(h)
  BY DEF FreeBlocks, Fresh, Freed

(* The types that the lemmas below use.                                    *)
LEMMA HeaderTypes ==
    ASSUME NEW h \in SuperblockHeader(Heaps)
    PROVE  /\ h.block_size \in Nat \ {0} /\ h.total_blocks \in Nat
           /\ h.reapable_blocks \in Nat /\ h.num_free_blocks \in Nat
           /\ h.reapable_blocks < UINT_MOD /\ h.num_free_blocks < UINT_MOD
           /\ h.free_list \in Seq(Nat) /\ Len(h.free_list) \in Nat
           /\ \A i \in 1 .. Len(h.free_list) : h.free_list[i] \in Nat
           /\ h.reap_position \in Nat
<1>1. h.free_list \in Seq(Nat)
  BY DEF SuperblockHeader
<1>2. Len(h.free_list) \in Nat /\ \A i \in 1 .. Len(h.free_list) : h.free_list[i] \in Nat
  BY <1>1
<1> QED BY <1>1, <1>2, SizesAssumption DEF SuperblockHeader

(* The fresh blocks are the last slots.                                    *)
LEMMA FreshSlots ==
    ASSUME NEW h \in SuperblockHeader(Heaps), HeaderOK(h)
    PROVE  Fresh(h) = { k * h.block_size :
                          k \in h.total_blocks - h.reapable_blocks .. h.total_blocks - 1 }
<1> DEFINE b == h.block_size
           n == h.total_blocks
           r == h.reapable_blocks
<1>1. /\ b \in Nat \ {0} /\ n \in Nat /\ r \in Nat /\ r <= n
      /\ h.reap_position = (n - r) * b
  BY HeaderTypes DEF HeaderOK
<1> HIDE DEF b, n, r
<1>2. \A i \in 0 .. r - 1 : (n - r) * b + i * b = (n - r + i) * b
  BY <1>1
<1>3. \A i \in 0 .. r - 1 : n - r + i \in n - r .. n - 1
  BY <1>1
<1>4. \A k \in n - r .. n - 1 : k - (n - r) \in 0 .. r - 1 /\ k = n - r + (k - (n - r))
  BY <1>1
<1>5. Fresh(h) = { (n - r) * b + i * b : i \in 0 .. r - 1 }
  BY <1>1 DEF Fresh, b, r
<1>6. Fresh(h) \subseteq { k * b : k \in n - r .. n - 1 }
  BY <1>2, <1>3, <1>5
<1>7. ASSUME NEW k \in n - r .. n - 1 PROVE k * b \in Fresh(h)
  <2> DEFINE i == k - (n - r)
  <2>1. i \in 0 .. r - 1 /\ k = n - r + i
    BY <1>4
  <2> HIDE DEF i
  <2>2. k * b = (n - r) * b + i * b
    BY <1>2, <2>1
  <2> QED BY <1>5, <2>1, <2>2
<1>8. Fresh(h) = { k * b : k \in n - r .. n - 1 }
  BY <1>6, <1>7
<1> QED BY <1>8 DEF b, n, r

(* Every free block is a slot.                                             *)
LEMMA FreeInSlots ==
    ASSUME NEW h \in SuperblockHeader(Heaps), HeaderOK(h)
    PROVE  FreeBlocks(h) \subseteq Slots(h)
<1> DEFINE b == h.block_size
           n == h.total_blocks
           r == h.reapable_blocks
<1>1. b \in Nat \ {0} /\ n \in Nat /\ r \in Nat /\ r <= n
  BY HeaderTypes DEF HeaderOK
<1>2. Fresh(h) \subseteq Slots(h)
  <2>1. Fresh(h) = { k * b : k \in n - r .. n - 1 }
    BY FreshSlots
  <2>2. \A k \in n - r .. n - 1 : k \in 0 .. n - 1
    BY <1>1
  <2> HIDE DEF n, r
  <2> QED BY <2>1, <2>2 DEF Slots, n
<1>3. Freed(h) \subseteq Slots(h)
  <2>1. \A i \in 1 .. Len(h.free_list) :
          \E k \in 0 .. n - r - 1 : h.free_list[i] = k * b
    BY DEF HeaderOK
  <2>2. \A k \in 0 .. n - r - 1 : k \in 0 .. n - 1
    BY <1>1
  <2>3. \A i \in 1 .. Len(h.free_list) : \E k \in 0 .. n - 1 : h.free_list[i] = k * b
    BY <2>1, <2>2
  <2> QED BY <2>3 DEF Slots, Freed
<1> QED BY <1>2, <1>3, FreeBlocksParts

(* No block is both fresh and freed.                                       *)
LEMMA FreshNotFreed ==
    ASSUME NEW h \in SuperblockHeader(Heaps), HeaderOK(h)
    PROVE  Fresh(h) \cap Freed(h) = {}
<1> DEFINE b == h.block_size
           n == h.total_blocks
           r == h.reapable_blocks
<1>1. /\ b \in Nat \ {0} /\ n \in Nat /\ r \in Nat /\ r <= n
      /\ Fresh(h) = { k * b : k \in n - r .. n - 1 }
      /\ \A i \in 1 .. Len(h.free_list) : \E k \in 0 .. n - r - 1 : h.free_list[i] = k * b
  BY HeaderTypes, FreshSlots DEF HeaderOK
<1> HIDE DEF b, n, r
<1>2. ASSUME NEW k \in n - r .. n - 1, NEW j \in 0 .. n - r - 1 PROVE k * b # j * b
  <2>1. k \in Nat /\ j \in Nat /\ j # k
    BY <1>1
  <2> QED BY <1>1, <2>1, SameSlot
<1> QED BY <1>1, <1>2 DEF Freed

(* superblock_alloc takes the block it returns from the free ones, and     *)
(* changes nothing else.                                                   *)
LEMMA AllocBlocks ==
    ASSUME NEW h \in SuperblockHeader(Heaps), HeaderOK(h), HasBlock(h)
    PROVE  LET r == superblock_alloc(h)
           IN  /\ HeaderOK(r)
               /\ AllocatedPtr(h) \in FreeBlocks(h)
               /\ FreeBlocks(r) = FreeBlocks(h) \ {AllocatedPtr(h)}
               /\ r.block_size = h.block_size /\ r.total_blocks = h.total_blocks
               /\ r.num_free_blocks = (h.num_free_blocks - 1) % UINT_MOD
<1> DEFINE b   == h.block_size
           n   == h.total_blocks
           m   == h.reapable_blocks
           l   == h.free_list
           num == (h.num_free_blocks - 1) % UINT_MOD
           r   == superblock_alloc(h)
           ptr == AllocatedPtr(h)
<1>1. /\ b \in Nat \ {0} /\ n \in Nat /\ m \in Nat /\ l \in Seq(Nat) /\ Len(l) \in Nat
      /\ h.reap_position \in Nat
  BY HeaderTypes
<1>2. /\ n * b <= BufferSize /\ b % MIN_BLOCK_SIZE = 0 /\ m <= n
      /\ h.reap_position = (n - m) * b
      /\ \A i \in 1 .. Len(l) : \E k \in 0 .. n - m - 1 : l[i] = k * b
      /\ \A i, j \in 1 .. Len(l) : l[i] = l[j] => i = j
  BY DEF HeaderOK
<1>3. CASE m > 0
  <2>1. /\ r.num_free_blocks = num /\ r.reap_position = h.reap_position + b
        /\ r.reapable_blocks = m - 1
        /\ r.block_size = b /\ r.total_blocks = n /\ r.free_list = l
    BY <1>3 DEF superblock_alloc, SuperblockHeader
  <2>2. ptr = h.reap_position
    BY <1>3 DEF AllocatedPtr
  <2> HIDE DEF b, n, m, l, num, r, ptr
  <2>3. h.reap_position + b = (n - (m - 1)) * b
    BY <1>1, <1>2
  <2>4. \A i \in 1 .. Len(l) : \E k \in 0 .. n - (m - 1) - 1 : l[i] = k * b
    <3>1. \A k \in 0 .. n - m - 1 : k \in 0 .. n - (m - 1) - 1
      BY <1>1
    <3> QED BY <1>2, <3>1
  <2>5. HeaderOK(r)
    <3>1. m - 1 <= n
      BY <1>1, <1>2
    <3> QED BY <1>2, <2>1, <2>3, <2>4, <3>1 DEF HeaderOK
  <2>6. Fresh(h) = { k * b : k \in n - m .. n - 1 }
    BY FreshSlots DEF b, n, m
  <2>7. Fresh(r) = { k * b : k \in n - m + 1 .. n - 1 }
    <3> DEFINE c == h.reap_position
    <3>1. Fresh(r) = { (c + b) + i * b : i \in 0 .. m - 1 - 1 }
      BY <2>1 DEF Fresh
    <3>2. \A i \in 0 .. m - 1 - 1 : (c + b) + i * b = (n - m + 1 + i) * b
      BY <1>1, <1>2, <2>3
    <3>3. \A i \in 0 .. m - 1 - 1 : n - m + 1 + i \in n - m + 1 .. n - 1
      BY <1>1
    <3>4. \A k \in n - m + 1 .. n - 1 :
            k - (n - m + 1) \in 0 .. m - 1 - 1 /\ n - m + 1 + (k - (n - m + 1)) = k
      BY <1>1
    <3> HIDE DEF c
    <3>5. ASSUME NEW k \in n - m + 1 .. n - 1 PROVE k * b \in Fresh(r)
      <4> DEFINE i == k - (n - m + 1)
      <4>1. i \in 0 .. m - 1 - 1 /\ n - m + 1 + i = k
        BY <3>4
      <4> HIDE DEF i
      <4>2. (c + b) + i * b = k * b
        BY <3>2, <4>1
      <4> QED BY <3>1, <4>1, <4>2
    <3>6. Fresh(r) \subseteq { k * b : k \in n - m + 1 .. n - 1 }
      BY <3>1, <3>2, <3>3
    <3> QED BY <3>5, <3>6
  <2>8. n - m \in n - m .. n - 1 /\ ptr = (n - m) * b
    BY <1>1, <1>2, <1>3, <2>2
  <2>9. ptr \in Fresh(h)
    BY <2>6, <2>8
  <2>10. \A k \in n - m + 1 .. n - 1 : k * b # ptr /\ k \in n - m .. n - 1
    <3> TAKE k \in n - m + 1 .. n - 1
    <3>1. k \in Nat /\ n - m \in Nat /\ k # n - m /\ k \in n - m .. n - 1
      BY <1>1, <1>2
    <3> QED BY <1>1, <2>8, <3>1, SameSlot
  <2>11. \A k \in n - m .. n - 1 : k \in n - m + 1 .. n - 1 \/ k = n - m
    BY <1>1
  <2>12. Fresh(r) = Fresh(h) \ {ptr}
    BY <2>6, <2>7, <2>8, <2>10, <2>11
  <2>13. Freed(r) = Freed(h) /\ ptr \notin Freed(h)
    BY <2>1, <2>9, FreshNotFreed DEF Freed, l
  <2> QED BY <2>1, <2>5, <2>9, <2>12, <2>13, FreeBlocksParts DEF b, n, num, r, ptr
<1>4. CASE m = 0
  <2>1. l # << >>
    BY <1>4 DEF HasBlock
  <2>2. /\ r.num_free_blocks = num /\ r.free_list = Tail(l)
        /\ r.reap_position = h.reap_position /\ r.reapable_blocks = m
        /\ r.block_size = b /\ r.total_blocks = n
    BY <1>4 DEF superblock_alloc, SuperblockHeader
  <2>3. ptr = Head(l)
    BY <1>4 DEF AllocatedPtr
  <2> HIDE DEF b, n, m, l, num, r, ptr
  <2>4. /\ Len(Tail(l)) = Len(l) - 1 /\ Len(l) >= 1 /\ Head(l) = l[1]
        /\ \A i \in 1 .. Len(l) - 1 : Tail(l)[i] = l[i + 1]
    BY <1>1, <2>1
  <2>5. \A i \in 1 .. Len(l) - 1 : i + 1 \in 1 .. Len(l) /\ i + 1 # 1
    BY <1>1
  <2>6. HeaderOK(r)
    <3>1. \A i \in 1 .. Len(Tail(l)) : \E k \in 0 .. n - m - 1 : Tail(l)[i] = k * b
      BY <1>2, <2>4, <2>5
    <3>2. \A i, j \in 1 .. Len(Tail(l)) : Tail(l)[i] = Tail(l)[j] => i = j
      <4> SUFFICES ASSUME NEW i \in 1 .. Len(l) - 1, NEW j \in 1 .. Len(l) - 1,
                          Tail(l)[i] = Tail(l)[j]
                   PROVE  i = j
        BY <2>4
      <4>1. i + 1 = j + 1
        BY <1>2, <2>4, <2>5
      <4> QED BY <1>1, <4>1
    <3> QED BY <1>2, <2>2, <3>1, <3>2 DEF HeaderOK
  <2>7. Fresh(r) = Fresh(h)
    BY <2>2 DEF Fresh, b, m
  <2>8. 1 \in 1 .. Len(l) /\ ptr \in Freed(h)
    BY <1>1, <2>3, <2>4 DEF Freed, l
  <2>9. Freed(r) = Freed(h) \ {ptr}
    <3>1. Freed(r) = { l[i + 1] : i \in 1 .. Len(l) - 1 }
      BY <2>2, <2>4 DEF Freed
    <3>2. \A i \in 1 .. Len(l) - 1 : l[i + 1] # l[1]
      BY <1>2, <2>5, <2>8
    <3>3. \A i \in 1 .. Len(l) : i = 1 \/ (i - 1 \in 1 .. Len(l) - 1 /\ i - 1 + 1 = i)
      BY <1>1
    <3>4. Freed(h) = { l[i] : i \in 1 .. Len(l) }
      BY DEF Freed, l
    <3>5. Freed(r) \subseteq Freed(h) \ {ptr}
      BY <2>3, <2>4, <2>5, <3>1, <3>2, <3>4
    <3>6. ASSUME NEW i \in 1 .. Len(l), l[i] # ptr PROVE l[i] \in Freed(r)
      <4>1. i # 1
        BY <2>3, <2>4, <3>6
      <4>2. i - 1 \in 1 .. Len(l) - 1 /\ l[i - 1 + 1] = l[i]
        BY <3>3, <4>1
      <4> QED BY <3>1, <4>2
    <3> QED BY <3>4, <3>5, <3>6
  <2>10. ptr \notin Fresh(h)
    BY <2>8, FreshNotFreed
  <2> QED BY <2>2, <2>6, <2>7, <2>8, <2>9, <2>10, FreeBlocksParts DEF b, n, num, r, ptr
<1> QED BY <1>1, <1>3, <1>4

(* superblock_free gives a used slot back, and changes nothing else: it    *)
(* never takes its early return, because every slot is aligned.            *)
LEMMA FreeBlocksGrow ==
    ASSUME NEW h \in SuperblockHeader(Heaps), HeaderOK(h),
           NEW ptr \in Slots(h), ptr \notin FreeBlocks(h)
    PROVE  LET r == superblock_free(h, ptr)
           IN  /\ HeaderOK(r)
               /\ FreeBlocks(r) = FreeBlocks(h) \cup {ptr}
               /\ r.block_size = h.block_size /\ r.total_blocks = h.total_blocks
               /\ r.num_free_blocks = (h.num_free_blocks + 1) % UINT_MOD
<1> DEFINE b   == h.block_size
           n   == h.total_blocks
           m   == h.reapable_blocks
           l   == h.free_list
           ll  == << ptr >> \o l
           num == (h.num_free_blocks + 1) % UINT_MOD
           r   == superblock_free(h, ptr)
<1>1. /\ b \in Nat \ {0} /\ n \in Nat /\ m \in Nat /\ l \in Seq(Nat) /\ Len(l) \in Nat
  BY HeaderTypes
<1>2. /\ n * b <= BufferSize /\ b % MIN_BLOCK_SIZE = 0 /\ m <= n
      /\ h.reap_position = (n - m) * b
      /\ \A i \in 1 .. Len(l) : \E k \in 0 .. n - m - 1 : l[i] = k * b
      /\ \A i, j \in 1 .. Len(l) : l[i] = l[j] => i = j
  BY DEF HeaderOK
<1>3. PICK k \in 0 .. n - 1 : ptr = k * b
  BY DEF Slots
<1>4. k \in Nat /\ ptr \in Nat
  BY <1>1, <1>3
<1>5. ~ Misaligned(ptr)
  <2> HIDE DEF b
  <2> QED BY <1>1, <1>2, <1>3, <1>4, SlotAligned
<1>6. /\ r.num_free_blocks = num /\ r.free_list = ll
      /\ r.reap_position = h.reap_position /\ r.reapable_blocks = m
      /\ r.block_size = b /\ r.total_blocks = n
  BY <1>5 DEF superblock_free, SuperblockHeader
<1>7. ptr \notin Fresh(h) /\ ptr \notin Freed(h)
  BY FreeBlocksParts
<1>8. Fresh(h) = { i * b : i \in n - m .. n - 1 }
  BY FreshSlots
<1>9. Fresh(r) = Fresh(h)
  BY <1>6 DEF Fresh
<1>10. Freed(h) = { l[i] : i \in 1 .. Len(l) } /\ Freed(r) = { ll[i] : i \in 1 .. Len(ll) }
  BY <1>6 DEF Freed
<1>11. /\ Len(ll) = Len(l) + 1 /\ ll[1] = ptr
       /\ \A i \in 2 .. Len(l) + 1 : ll[i] = l[i - 1]
  BY <1>1, <1>4
<1> HIDE DEF b, n, m, l, ll, num, r
<1>12. k \in 0 .. n - m - 1
  <2>1. k \notin n - m .. n - 1
    BY <1>3, <1>7, <1>8
  <2> QED BY <1>1, <1>2, <2>1
<1>13. /\ \A i \in 2 .. Len(l) + 1 : i - 1 \in 1 .. Len(l)
       /\ \A i \in 1 .. Len(l) + 1 : i = 1 \/ i \in 2 .. Len(l) + 1
       /\ \A i \in 1 .. Len(l) : i + 1 \in 2 .. Len(l) + 1 /\ i + 1 - 1 = i
                                 /\ i + 1 \in 1 .. Len(l) + 1
       /\ 1 \in 1 .. Len(l) + 1
  BY <1>1
<1>14. HeaderOK(r)
  <2>1. \A i \in 1 .. Len(ll) : \E j \in 0 .. n - m - 1 : ll[i] = j * b
    BY <1>2, <1>3, <1>11, <1>12, <1>13
  <2>2. \A i, j \in 1 .. Len(ll) : ll[i] = ll[j] => i = j
    <3> SUFFICES ASSUME NEW i \in 1 .. Len(l) + 1, NEW j \in 1 .. Len(l) + 1, ll[i] = ll[j]
                 PROVE  i = j
      BY <1>11
    <3>1. \A q \in 2 .. Len(l) + 1 : ll[q] # ptr
      BY <1>7, <1>10, <1>11, <1>13
    <3>2. CASE i = 1 \/ j = 1
      BY <1>11, <1>13, <3>1, <3>2
    <3>3. CASE i \in 2 .. Len(l) + 1 /\ j \in 2 .. Len(l) + 1
      <4>1. i - 1 = j - 1
        BY <1>2, <1>11, <1>13, <3>3
      <4> QED BY <1>1, <3>3, <4>1
    <3> QED BY <1>13, <3>2, <3>3
  <2> QED BY <1>2, <1>6, <2>1, <2>2 DEF HeaderOK
<1>15. Freed(r) = Freed(h) \cup {ptr}
  <2>1. Freed(r) \subseteq Freed(h) \cup {ptr}
    BY <1>10, <1>11, <1>13
  <2>2. ptr \in Freed(r)
    BY <1>10, <1>11, <1>13
  <2>3. \A i \in 1 .. Len(l) : l[i] \in Freed(r)
    <3> TAKE i \in 1 .. Len(l)
    <3>1. ll[i + 1] = l[i] /\ i + 1 \in 1 .. Len(ll)
      BY <1>11, <1>13
    <3> QED BY <1>10, <3>1
  <2> QED BY <1>10, <2>1, <2>2, <2>3
<1> QED BY <1>6, <1>9, <1>14, <1>15, FreeBlocksParts DEF b, n, num, r

(* After reset_superblock every slot is free, and there are as many as the *)
(* header says.                                                            *)
LEMMA ResetBlocks ==
    ASSUME NEW h \in SuperblockHeader(Heaps), NEW b \in Nat \ {0}, b % MIN_BLOCK_SIZE = 0
    PROVE  LET r == reset_superblock(h, b)
           IN  /\ HeaderOK(r)
               /\ IsFiniteSet(FreeBlocks(r))
               /\ r.num_free_blocks = Cardinality(FreeBlocks(r))
               /\ r.num_free_blocks = r.total_blocks
<1> DEFINE n == BufferSize \div b
           r == reset_superblock(h, b)
<1>1. n \in Nat /\ n * b <= BufferSize
  <2>1. BufferSize \in Nat
    BY SizesAssumption DEF BufferSize
  <2> QED BY <2>1, QuotientRange, Z3
<1>2. /\ r.block_size = b /\ r.total_blocks = n /\ r.reapable_blocks = n
      /\ r.num_free_blocks = n /\ r.free_list = << >> /\ r.reap_position = 0
  BY DEF reset_superblock, SuperblockHeader
<1>3. HeaderOK(r)
  <2> HIDE DEF n, r
  <2>1. Len(r.free_list) = 0 /\ (n - n) * b = 0 /\ n <= n
    BY <1>1, <1>2
  <2> QED BY <1>1, <1>2, <2>1 DEF HeaderOK
<1> HIDE DEF n, r
<1>4. FreeBlocks(r) = { i * b : i \in 0 .. n - 1 }
  <2>1. \A i \in 0 .. n - 1 : 0 + i * b = i * b
    BY <1>1
  <2>2. Fresh(r) = { i * b : i \in 0 .. n - 1 }
    BY <1>2, <2>1 DEF Fresh
  <2>3. Freed(r) = {}
    BY <1>2 DEF Freed
  <2> QED BY <2>2, <2>3, FreeBlocksParts
<1>5. IsFiniteSet(0 .. n - 1) /\ Cardinality(0 .. n - 1) = n
  <2>1. n - 1 \in Int /\ ~ (0 > n - 1 /\ n # 0) /\ n - 1 - 0 + 1 = n
        /\ (n = 0 => 0 > n - 1)
    BY <1>1
  <2>2. /\ IsFiniteSet(0 .. n - 1)
        /\ Cardinality(0 .. n - 1) = IF 0 > n - 1 THEN 0 ELSE n - 1 - 0 + 1
    <3> DEFINE k == n - 1
    <3> HIDE DEF k
    <3>1. k \in Int
      BY <2>1 DEF k
    <3> QED BY <3>1, FS_Interval DEF k
  <2> QED BY <1>1, <2>1, <2>2
<1>6. IsFiniteSet(FreeBlocks(r)) /\ Cardinality(FreeBlocks(r)) = n
  <2> DEFINE f == [i \in 0 .. n - 1 |-> i * b]
  <2>1. \A i, j \in 0 .. n - 1 : i * b = j * b => i = j
    BY <1>1, SameSlot
  <2>2. f \in Bijection(0 .. n - 1, FreeBlocks(r))
    BY <1>4, <2>1 DEF Bijection, Injection, IsInjective, Surjection
  <2>3. ExistsBijection(0 .. n - 1, FreeBlocks(r))
    BY <2>2 DEF ExistsBijection
  <2> QED BY <1>5, <2>3, FS_Bijection
<1> QED BY <1>2, <1>3, <1>6 DEF r

-----------------------------------------------------------------------------
(* A superblock and those who have its blocks: P the blocks the program    *)
(* holds, B the threads that are handing one back, whose state is in T.    *)

(* Free, held and returning blocks are different slots, and there are as   *)
(* many of each as the header says.                                        *)
BlocksOK(h, P, B, T) ==
    /\ HeaderOK(h)
    /\ IsFiniteSet(FreeBlocks(h)) /\ IsFiniteSet(P) /\ IsFiniteSet(B)
    /\ h.num_free_blocks = Cardinality(FreeBlocks(h))
    /\ h.total_blocks - h.num_free_blocks = Cardinality(P) + Cardinality(B)
    /\ \A p \in P : p.off \in Slots(h) \ FreeBlocks(h) /\ p.size <= h.block_size
    /\ \A p, q \in P : p.off = q.off => p = q
    /\ \A t \in B : T[t].off \in Slots(h) \ FreeBlocks(h)
    /\ \A t, u \in B : T[t].off = T[u].off => t = u
    /\ \A p \in P, t \in B : p.off # T[t].off

(* The program gets a block.                                               *)
LEMMA BlocksAlloc ==
    ASSUME NEW h \in SuperblockHeader(Heaps), NEW P, NEW B, NEW T, BlocksOK(h, P, B, T),
           HasBlock(h), NEW p, p.off = AllocatedPtr(h), p.size <= h.block_size
    PROVE  BlocksOK(superblock_alloc(h), P \cup {p}, B, T)
<1> DEFINE r == superblock_alloc(h)
           a == AllocatedPtr(h)
<1>1. /\ HeaderOK(r) /\ a \in FreeBlocks(h) /\ FreeBlocks(r) = FreeBlocks(h) \ {a}
      /\ r.block_size = h.block_size /\ r.total_blocks = h.total_blocks
      /\ r.num_free_blocks = (h.num_free_blocks - 1) % UINT_MOD
  BY AllocBlocks DEF BlocksOK
<1>2. a \in Slots(h) /\ Slots(r) = Slots(h)
  BY <1>1, FreeInSlots DEF BlocksOK, Slots
<1> HIDE DEF r, a
<1>3. /\ IsFiniteSet(FreeBlocks(r))
      /\ Cardinality(FreeBlocks(r)) = Cardinality(FreeBlocks(h)) - 1
      /\ Cardinality(FreeBlocks(h)) \in Nat /\ Cardinality(FreeBlocks(r)) \in Nat
  BY <1>1, FS_RemoveElement, FS_CardinalityType DEF BlocksOK
<1>4. r.num_free_blocks = Cardinality(FreeBlocks(r))
  <2>1. h.num_free_blocks - 1 \in 0 .. UINT_MOD - 1
    BY <1>3, HeaderTypes, SizesAssumption DEF BlocksOK
  <2>2. (h.num_free_blocks - 1) % UINT_MOD = h.num_free_blocks - 1
    BY <2>1, SizesAssumption
  <2> QED BY <1>1, <1>3, <2>2 DEF BlocksOK
<1>5. p \notin P
  BY <1>1 DEF BlocksOK, a
<1>6. /\ IsFiniteSet(P \cup {p}) /\ Cardinality(P \cup {p}) = Cardinality(P) + 1
      /\ Cardinality(P) \in Nat /\ Cardinality(B) \in Nat
  BY <1>5, FS_AddElement, FS_CardinalityType DEF BlocksOK
<1>7. r.total_blocks - r.num_free_blocks = Cardinality(P \cup {p}) + Cardinality(B)
  <2>1. /\ h.total_blocks - h.num_free_blocks = Cardinality(P) + Cardinality(B)
        /\ h.num_free_blocks = Cardinality(FreeBlocks(h))
    BY DEF BlocksOK
  <2>2. h.total_blocks \in Nat
    BY HeaderTypes
  <2> QED BY <1>1, <1>3, <1>4, <1>6, <2>1, <2>2
<1>8. \A q \in P \cup {p} : q.off \in Slots(r) \ FreeBlocks(r) /\ q.size <= r.block_size
  BY <1>1, <1>2 DEF BlocksOK, a
<1>9. \A q, s \in P \cup {p} : q.off = s.off => q = s
  BY <1>1 DEF BlocksOK, a
<1>10. \A t \in B : T[t].off \in Slots(r) \ FreeBlocks(r) /\ T[t].off # a
  BY <1>1, <1>2 DEF BlocksOK
<1>11. \A q \in P \cup {p}, t \in B : q.off # T[t].off
  BY <1>10 DEF BlocksOK, a
<1> QED BY <1>1, <1>3, <1>4, <1>6, <1>7, <1>8, <1>9, <1>10, <1>11 DEF BlocksOK, r

(* A block comes back to its superblock.                                   *)
LEMMA BlocksReturn ==
    ASSUME NEW h \in SuperblockHeader(Heaps), NEW P, NEW B, NEW T, BlocksOK(h, P, B, T),
           NEW t \in B
    PROVE  BlocksOK(superblock_free(h, T[t].off), P, B \ {t}, T)
<1> DEFINE a == T[t].off
           r == superblock_free(h, a)
<1>1. a \in Slots(h) /\ a \notin FreeBlocks(h)
  BY DEF BlocksOK
<1>2. /\ HeaderOK(r) /\ FreeBlocks(r) = FreeBlocks(h) \cup {a}
      /\ r.block_size = h.block_size /\ r.total_blocks = h.total_blocks
      /\ r.num_free_blocks = (h.num_free_blocks + 1) % UINT_MOD
  <2> HIDE DEF a
  <2> QED BY <1>1, FreeBlocksGrow DEF BlocksOK
<1>3. Slots(r) = Slots(h)
  BY <1>2 DEF Slots
<1> HIDE DEF r, a
<1>4. /\ IsFiniteSet(FreeBlocks(r))
      /\ Cardinality(FreeBlocks(r)) = Cardinality(FreeBlocks(h)) + 1
      /\ Cardinality(FreeBlocks(h)) \in Nat
  BY <1>1, <1>2, FS_AddElement, FS_CardinalityType DEF BlocksOK
<1>5. /\ IsFiniteSet(B \ {t}) /\ Cardinality(B \ {t}) = Cardinality(B) - 1
      /\ Cardinality(P) \in Nat /\ Cardinality(B) \in Nat /\ Cardinality(B \ {t}) \in Nat
  BY FS_RemoveElement, FS_CardinalityType DEF BlocksOK
<1>6. h.num_free_blocks + 1 <= h.total_blocks
  BY <1>4, <1>5, HeaderTypes DEF BlocksOK
<1>7. h.total_blocks <= BufferSize
  <2>1. h.total_blocks \in Nat /\ h.block_size \in Nat \ {0}
    BY HeaderTypes
  <2>2. h.total_blocks <= h.total_blocks * h.block_size
    <3>1. \A n \in Nat, b \in Nat \ {0} : n <= n * b
      <4> TAKE n \in Nat, b \in Nat \ {0}
      <4>1. n * (b - 1) \in Nat /\ n * b = n * (b - 1) + n
        OBVIOUS
      <4> QED BY <4>1
    <3> QED BY <2>1, <3>1
  <2>3. BufferSize \in Nat /\ h.total_blocks * h.block_size \in Nat
    BY <2>1, SizesAssumption DEF BufferSize
  <2> QED BY <2>1, <2>2, <2>3 DEF BlocksOK, HeaderOK
<1>8. r.num_free_blocks = Cardinality(FreeBlocks(r))
  <2>1. h.num_free_blocks \in Nat /\ h.total_blocks \in Nat
    BY HeaderTypes
  <2>2. h.num_free_blocks + 1 \in 0 .. UINT_MOD - 1
    BY <1>6, <1>7, <2>1, SizesAssumption DEF BufferSize
  <2>3. (h.num_free_blocks + 1) % UINT_MOD = h.num_free_blocks + 1
    BY <2>2, SizesAssumption
  <2> QED BY <1>2, <1>4, <2>3 DEF BlocksOK
<1>9. r.total_blocks - r.num_free_blocks = Cardinality(P) + Cardinality(B \ {t})
  <2>1. /\ h.total_blocks - h.num_free_blocks = Cardinality(P) + Cardinality(B)
        /\ h.num_free_blocks = Cardinality(FreeBlocks(h))
    BY DEF BlocksOK
  <2>2. h.total_blocks \in Nat
    BY HeaderTypes
  <2> QED BY <1>2, <1>4, <1>5, <1>8, <2>1, <2>2
<1>10. \A p \in P : p.off \in Slots(r) \ FreeBlocks(r) /\ p.size <= r.block_size
  BY <1>2, <1>3 DEF BlocksOK, a
<1>11. \A u \in B \ {t} : T[u].off \in Slots(r) \ FreeBlocks(r)
  BY <1>2, <1>3 DEF BlocksOK, a
<1> QED BY <1>2, <1>4, <1>5, <1>8, <1>9, <1>10, <1>11 DEF BlocksOK, r, a

(* The program calls free.                                                 *)
LEMMA BlocksLeave ==
    ASSUME NEW h \in SuperblockHeader(Heaps), NEW P, NEW B, NEW T, BlocksOK(h, P, B, T),
           NEW p \in P, NEW t, t \notin B,
           NEW U, U[t].off = p.off, \A u \in B : U[u].off = T[u].off
    PROVE  BlocksOK(h, P \ {p}, B \cup {t}, U)
<1>1. /\ IsFiniteSet(P \ {p}) /\ Cardinality(P \ {p}) = Cardinality(P) - 1
      /\ IsFiniteSet(B \cup {t}) /\ Cardinality(B \cup {t}) = Cardinality(B) + 1
      /\ Cardinality(P) \in Nat /\ Cardinality(B) \in Nat
  BY FS_RemoveElement, FS_AddElement, FS_CardinalityType DEF BlocksOK
<1>2. h.total_blocks - h.num_free_blocks
        = Cardinality(P \ {p}) + Cardinality(B \cup {t})
  <2>1. h.total_blocks - h.num_free_blocks = Cardinality(P) + Cardinality(B)
    BY DEF BlocksOK
  <2> QED BY <1>1, <2>1
<1>3. \A u \in B \cup {t} : U[u].off \in Slots(h) \ FreeBlocks(h)
  BY DEF BlocksOK
<1>4. \A u, v \in B \cup {t} : U[u].off = U[v].off => u = v
  BY DEF BlocksOK
<1>5. \A q \in P \ {p}, u \in B \cup {t} : q.off # U[u].off
  BY DEF BlocksOK
<1> QED BY <1>1, <1>2, <1>3, <1>4, <1>5 DEF BlocksOK

(* Nothing about the blocks changes.                                       *)
LEMMA BlocksSame ==
    ASSUME NEW h, NEW g, SameBlocks(h, g), NEW P, NEW B, NEW T, BlocksOK(h, P, B, T),
           NEW U, \A u \in B : U[u].off = T[u].off
    PROVE  BlocksOK(g, P, B, U)
<1>1. HeaderOK(g) /\ FreeBlocks(g) = FreeBlocks(h) /\ Slots(g) = Slots(h)
  BY DEF SameBlocks, BlocksOK, HeaderOK, FreeBlocks, Slots
<1>2. /\ g.block_size = h.block_size /\ g.total_blocks = h.total_blocks
      /\ g.num_free_blocks = h.num_free_blocks
  BY DEF SameBlocks
<1> QED BY <1>1, <1>2 DEF BlocksOK

(* An empty superblock is cut anew.                                        *)
LEMMA BlocksReset ==
    ASSUME NEW h \in SuperblockHeader(Heaps), NEW b \in Nat \ {0}, b % MIN_BLOCK_SIZE = 0,
           NEW T
    PROVE  BlocksOK(reset_superblock(h, b), {}, {}, T)
<1> DEFINE r == reset_superblock(h, b)
<1>1. /\ HeaderOK(r) /\ IsFiniteSet(FreeBlocks(r))
      /\ r.num_free_blocks = Cardinality(FreeBlocks(r))
      /\ r.num_free_blocks = r.total_blocks
  BY ResetBlocks
<1>2. r.total_blocks \in Nat
  <2>1. r \in SuperblockHeader(Heaps)
    BY ResetTyped
  <2> HIDE DEF r
  <2> QED BY <2>1, HeaderTypes
<1> HIDE DEF r
<1>3. IsFiniteSet({}) /\ Cardinality({}) = 0
  BY FS_EmptySet
<1>4. r.total_blocks - r.num_free_blocks = 0 + 0
  BY <1>1, <1>2
<1> QED BY <1>1, <1>3, <1>4 DEF BlocksOK, r

(* Different slots do not overlap.                                         *)
LEMMA SlotsDisjoint ==
    ASSUME NEW h \in SuperblockHeader(Heaps), HeaderOK(h),
           NEW a \in Slots(h), NEW b \in Slots(h), a # b,
           NEW n \in Nat, n <= h.block_size, NEW m \in Nat, m <= h.block_size
    PROVE  a + n <= b \/ b + m <= a
<1> DEFINE z == h.block_size
<1>1. z \in Nat \ {0} /\ h.total_blocks \in Nat
  BY HeaderTypes
<1>2. PICK j \in 0 .. h.total_blocks - 1 : a = j * z
  BY DEF Slots
<1>3. PICK k \in 0 .. h.total_blocks - 1 : b = k * z
  BY DEF Slots
<1>4. j \in Nat /\ k \in Nat
  BY <1>1
<1> HIDE DEF z
<1>5. a \in Nat /\ b \in Nat
  BY <1>1, <1>2, <1>3, <1>4
<1>6. CASE j < k
  <2>1. a + z <= b
    BY <1>1, <1>2, <1>3, <1>4, <1>6, SlotsApart
  <2> QED BY <1>1, <1>5, <2>1 DEF z
<1>7. CASE k < j
  <2>1. b + z <= a
    BY <1>1, <1>2, <1>3, <1>4, <1>7, SlotsApart
  <2> QED BY <1>1, <1>5, <2>1 DEF z
<1>8. j # k
  BY <1>2, <1>3
<1> QED BY <1>4, <1>6, <1>7, <1>8

(* And they lie in the buffer.                                             *)
LEMMA SlotInBuffer ==
    ASSUME NEW h \in SuperblockHeader(Heaps), HeaderOK(h),
           NEW a \in Slots(h), NEW n \in Nat, n <= h.block_size
    PROVE  a \in Nat /\ a + n <= BufferSize
<1> DEFINE z == h.block_size
           w == h.total_blocks
<1>1. z \in Nat \ {0} /\ w \in Nat /\ w * z <= BufferSize /\ BufferSize \in Nat
  BY HeaderTypes, SizesAssumption DEF HeaderOK, BufferSize
<1>2. PICK j \in 0 .. w - 1 : a = j * z
  BY DEF Slots
<1> HIDE DEF z, w
<1>3. j \in Nat /\ j < w
  BY <1>1
<1>4. a + z <= w * z
  BY <1>1, <1>2, <1>3, SlotsApart
<1>5. a \in Nat /\ w * z \in Nat
  BY <1>1, <1>2, <1>3
<1> QED BY <1>1, <1>4, <1>5 DEF z

-----------------------------------------------------------------------------
(* The invariant: every mapped superblock is in order.                     *)
BlocksInv == \A s \in Mapped : BlocksOK(sb[s], HeldIn(s), BeingFreed(s), th)

(* No block of an unmapped superblock is with anyone.                      *)
LEMMA UnmappedUnused ==
    ASSUME IInv, NEW s \in Superblocks, s \notin Mapped
    PROVE  HeldIn(s) = {} /\ BeingFreed(s) = {}
<1>1. HeldIn(s) = {}
  BY DEF IInv, HeldOK, HeldIn
<1>2. \A t \in Threads : th[t].pc \in FreePlaces => th[t].s_ptr \in Mapped
  BY DEF IInv, ThreadsOK, PlaceIn
<1>3. BeingFreed(s) = {}
  BY <1>2 DEF BeingFreed, FreePlaces
<1> QED BY <1>1, <1>3

LEMMA BlocksInvImplies == IInv /\ BlocksInv => BlocksDisjoint /\ EveryBlockAccounted
<1> SUFFICES ASSUME IInv, BlocksInv PROVE BlocksDisjoint /\ EveryBlockAccounted
  OBVIOUS
<1>1. \A s \in Superblocks : sb[s] \in SuperblockHeader(Heaps)
  BY DEF IInv, HeadersOK, HeadersIn
<1>2. BlocksDisjoint
  <2> SUFFICES ASSUME NEW s \in Superblocks, NEW p \in HeldIn(s)
               PROVE  /\ p.off + p.size <= BufferSize
                      /\ \A q \in HeldIn(s) \ {p} :
                            p.off + p.size <= q.off \/ q.off + q.size <= p.off
                      /\ \A off \in FreeBlocks(sb[s]) \cup { th[t].off : t \in BeingFreed(s) } :
                            p.off + p.size <= off \/ off + sb[s].block_size <= p.off
    BY DEF BlocksDisjoint
  <2> DEFINE h == sb[s]
  <2>1. s \in Mapped
    BY UnmappedUnused
  <2>2. h \in SuperblockHeader(Heaps) /\ BlocksOK(h, HeldIn(s), BeingFreed(s), th)
    BY <1>1, <2>1 DEF BlocksInv
  <2>3. \A q \in HeldIn(s) : q.size \in Nat
    BY DEF IInv, HeldOK, Block, HeldIn
  <2> HIDE DEF h
  <2>4. HeaderOK(h) /\ h.block_size \in Nat /\ h.block_size <= h.block_size
    BY <2>2, HeaderTypes DEF BlocksOK
  <2>5. \A q \in HeldIn(s) : q.off \in Slots(h) /\ q.size <= h.block_size
    BY <2>2 DEF BlocksOK
  <2>6. p.off + p.size <= BufferSize
    BY <2>2, <2>3, <2>4, <2>5, SlotInBuffer
  <2>7. ASSUME NEW q \in HeldIn(s) \ {p}
        PROVE  p.off + p.size <= q.off \/ q.off + q.size <= p.off
    <3>1. q.off # p.off
      BY <2>2 DEF BlocksOK
    <3> QED BY <2>2, <2>3, <2>4, <2>5, <3>1, SlotsDisjoint
  <2>8. ASSUME NEW off \in FreeBlocks(h) \cup { th[t].off : t \in BeingFreed(s) }
        PROVE  p.off + p.size <= off \/ off + h.block_size <= p.off
    <3>1. off \in Slots(h) /\ off # p.off
      BY <2>2, <2>4, FreeInSlots DEF BlocksOK
    <3> QED BY <2>2, <2>3, <2>4, <2>5, <3>1, SlotsDisjoint
  <2> QED BY <2>6, <2>7, <2>8 DEF h
<1>3. EveryBlockAccounted
  BY DEF EveryBlockAccounted, BlocksInv, BlocksOK, Mapped
<1> QED BY <1>2, <1>3

-----------------------------------------------------------------------------
(* Steps *)

Returning == { "lock_superblock", "lock_owner", "bin_free" }

(* A thread hands back the same block in states y and x, or none.          *)
SameReturn(y, x) ==
    /\ y.pc \in Returning <=> x.pc \in Returning
    /\ x.pc \in Returning => x.s_ptr = y.s_ptr /\ x.off = y.off

LEMMA ReturnsKept ==
    ASSUME IInv, NEW t \in Threads, NEW x, th' = [th EXCEPT ![t] = x], SameReturn(th[t], x)
    PROVE  \A s \in Superblocks :
             /\ BeingFreed(s)' = BeingFreed(s)
             /\ \A u \in BeingFreed(s) : th'[u].off = th[u].off
<1>1. \A u \in Threads : th'[u] = IF u = t THEN x ELSE th[u]
  BY DEF IInv, ThreadsOK
<1>2. \A u \in Threads : SameReturn(th[u], th'[u])
  BY <1>1 DEF SameReturn
<1>3. \A s : BeingFreed(s) = { u \in Threads : th[u].s_ptr = s /\ th[u].pc \in Returning }
             /\ BeingFreed(s)' = { u \in Threads : th'[u].s_ptr = s /\ th'[u].pc \in Returning }
  BY DEF BeingFreed, Returning
<1> QED BY <1>2, <1>3 DEF SameReturn

(* A step that changes no superblock's blocks.                             *)
LEMMA BlocksKept ==
    ASSUME IInv, BlocksInv, NEW t \in Threads, NEW x,
           th' = [th EXCEPT ![t] = x], SameReturn(th[t], x),
           held' = held, Mapped' = Mapped,
           \A s \in Superblocks : SameBlocks(sb[s], sb'[s])
    PROVE  BlocksInv'
<1> SUFFICES ASSUME NEW s \in Mapped
             PROVE  BlocksOK(sb'[s], HeldIn(s)', BeingFreed(s)', th')
  BY DEF BlocksInv
<1>1. HeldIn(s)' = HeldIn(s) /\ s \in Superblocks
  BY DEF HeldIn, Mapped
<1>2. BeingFreed(s)' = BeingFreed(s) /\ \A u \in BeingFreed(s) : th'[u].off = th[u].off
  BY <1>1, ReturnsKept
<1>3. BlocksOK(sb[s], HeldIn(s), BeingFreed(s), th) /\ SameBlocks(sb[s], sb'[s])
  BY <1>1 DEF BlocksInv
<1>4. BlocksOK(sb'[s], HeldIn(s), BeingFreed(s), th')
  BY <1>2, <1>3, BlocksSame
<1> QED BY <1>1, <1>2, <1>4

(* A step that changes the blocks of one.                                  *)
LEMMA BlocksOfOne ==
    ASSUME IInv, BlocksInv, NEW s \in Superblocks,
           BlocksOK(sb'[s], HeldIn(s)', BeingFreed(s)', th'),
           Mapped' \subseteq Mapped \cup {s},
           \A q \in Superblocks \ {s} :
             /\ SameBlocks(sb[q], sb'[q])
             /\ HeldIn(q)' = HeldIn(q)
             /\ BeingFreed(q)' = BeingFreed(q)
             /\ \A u \in BeingFreed(q) : th'[u].off = th[u].off
    PROVE  BlocksInv'
<1> SUFFICES ASSUME NEW q \in Mapped'
             PROVE  BlocksOK(sb'[q], HeldIn(q)', BeingFreed(q)', th')
  BY DEF BlocksInv
<1>1. CASE q = s
  BY <1>1
<1>2. CASE q # s
  <2>1. q \in Mapped /\ q \in Superblocks \ {s}
    BY <1>2 DEF Mapped
  <2>2. BlocksOK(sb[q], HeldIn(q), BeingFreed(q), th)
    BY <2>1 DEF BlocksInv
  <2>3. BlocksOK(sb'[q], HeldIn(q), BeingFreed(q), th')
    BY <2>1, <2>2, BlocksSame
  <2> QED BY <2>1, <2>3
<1> QED BY <1>1, <1>2

(* Steps that change no header.                                            *)
LEMMA QuietBlocks ==
    ASSUME IInv, BlocksInv, NEW t \in Threads, NEW x,
           th' = [th EXCEPT ![t] = x], SameReturn(th[t], x), held' = held, sb' = sb
    PROVE  BlocksInv'
<1>1. Mapped' = Mapped /\ \A s \in Superblocks : SameBlocks(sb[s], sb'[s])
  BY DEF Mapped, SameBlocks
<1> QED BY <1>1, BlocksKept

LEMMA LockHeapBlocks ==
    ASSUME IInv, BlocksInv, NEW t \in Threads, LockHeap(t)
    PROVE  BlocksInv'
<1> DEFINE x == [th[t] EXCEPT !.pc = "bin_alloc"]
<1>1. th' = [th EXCEPT ![t] = x] /\ sb' = sb /\ held' = held
  BY DEF LockHeap, Goto
<1>2. SameReturn(th[t], x)
  BY Facts DEF LockHeap, At, SameReturn, Returning, Thread
<1> HIDE DEF x
<1> QED BY <1>1, <1>2, QuietBlocks

LEMMA AskGlobalBlocks ==
    ASSUME IInv, BlocksInv, NEW t \in Threads, AskGlobal(t)
    PROVE  BlocksInv'
<1> DEFINE x == [th[t] EXCEPT !.pc = "lock_global"]
<1>1. th' = [th EXCEPT ![t] = x] /\ sb' = sb /\ held' = held
  BY DEF AskGlobal, Goto
<1>2. SameReturn(th[t], x)
  BY Facts DEF AskGlobal, At, SameReturn, Returning, Thread
<1> HIDE DEF x
<1> QED BY <1>1, <1>2, QuietBlocks

LEMMA LockGlobalBlocks ==
    ASSUME IInv, BlocksInv, NEW t \in Threads, LockGlobal(t)
    PROVE  BlocksInv'
<1> DEFINE x == [th[t] EXCEPT !.pc = "get_sb_from_global"]
<1>1. th' = [th EXCEPT ![t] = x] /\ sb' = sb /\ held' = held
  BY DEF LockGlobal, Goto
<1>2. SameReturn(th[t], x)
  BY Facts DEF LockGlobal, At, SameReturn, Returning, Thread
<1> HIDE DEF x
<1> QED BY <1>1, <1>2, QuietBlocks

LEMMA TakeNothingBlocks ==
    ASSUME IInv, BlocksInv, NEW t \in Threads, TakeNothing(t)
    PROVE  BlocksInv'
<1> DEFINE x == [th[t] EXCEPT !.pc = "map"]
<1>1. th' = [th EXCEPT ![t] = x] /\ sb' = sb /\ held' = held
  BY DEF TakeNothing, Goto
<1>2. SameReturn(th[t], x)
  BY Facts DEF TakeNothing, At, SameReturn, Returning, Thread
<1> HIDE DEF x
<1> QED BY <1>1, <1>2, QuietBlocks

LEMMA LockOwnerBlocks ==
    ASSUME IInv, BlocksInv, NEW t \in Threads, LockOwner(t)
    PROVE  BlocksInv'
<1> DEFINE x == [th[t] EXCEPT !.pc = "bin_free"]
<1>1. th' = [th EXCEPT ![t] = x] /\ sb' = sb /\ held' = held
  BY DEF LockOwner, Goto
<1>2. SameReturn(th[t], x)
  BY Facts DEF LockOwner, At, SameReturn, Returning, Thread
<1> HIDE DEF x
<1> QED BY <1>1, <1>2, QuietBlocks

LEMMA LockGlobalForTransferBlocks ==
    ASSUME IInv, BlocksInv, NEW t \in Threads, LockGlobalForTransfer(t)
    PROVE  BlocksInv'
<1> DEFINE x == [th[t] EXCEPT !.pc = "insert_global"]
<1>1. th' = [th EXCEPT ![t] = x] /\ sb' = sb /\ held' = held
  BY DEF LockGlobalForTransfer, Goto
<1>2. SameReturn(th[t], x)
  BY Facts DEF LockGlobalForTransfer, At, SameReturn, Returning, Thread
<1> HIDE DEF x
<1> QED BY <1>1, <1>2, QuietBlocks

LEMMA MmapFailsBlocks ==
    ASSUME IInv, BlocksInv, NEW t \in Threads, MmapFails(t)
    PROVE  BlocksInv'
<1> DEFINE x == IdleThread
<1>1. th' = [th EXCEPT ![t] = x] /\ sb' = sb /\ held' = held
  BY DEF MmapFails, Return
<1>2. SameReturn(th[t], x)
  BY Facts DEF MmapFails, At, SameReturn, Returning, Thread, IdleThread
<1> HIDE DEF x
<1> QED BY <1>1, <1>2, QuietBlocks

LEMMA FreeFromGlobalBlocks ==
    ASSUME IInv, BlocksInv, NEW t \in Threads, FreeFromGlobal(t)
    PROVE  BlocksInv'
<1> DEFINE x == IdleThread
<1>1. th' = [th EXCEPT ![t] = x] /\ sb' = sb /\ held' = held
  BY DEF FreeFromGlobal, Return
<1>2. SameReturn(th[t], x)
  BY Facts DEF FreeFromGlobal, At, SameReturn, Returning, Thread, IdleThread
<1> HIDE DEF x
<1> QED BY <1>1, <1>2, QuietBlocks

LEMMA FreeAndKeepBlocks ==
    ASSUME IInv, BlocksInv, NEW t \in Threads, FreeAndKeep(t)
    PROVE  BlocksInv'
<1> DEFINE x == IdleThread
<1>1. th' = [th EXCEPT ![t] = x] /\ sb' = sb /\ held' = held
  BY DEF FreeAndKeep, Return
<1>2. SameReturn(th[t], x)
  BY Facts DEF FreeAndKeep, At, SameReturn, Returning, Thread, IdleThread
<1> HIDE DEF x
<1> QED BY <1>1, <1>2, QuietBlocks

LEMMA ChooseInBinBlocks ==
    ASSUME IInv, BlocksInv, NEW t \in Threads, ChooseInBin(t)
    PROVE  BlocksInv'
<1> DEFINE x == [th[t] EXCEPT !.pc = "sb_alloc", !.in_bin = TRUE,
           !.s_ptr = heap[th[t].heap].size_bins[size2idx(th[t].size)].emptiness_bins[
                       FullestNonfull(heap[th[t].heap].size_bins[size2idx(th[t].size)])]]
<1>1. th' = [th EXCEPT ![t] = x] /\ sb' = sb /\ held' = held
  BY DEF ChooseInBin, At
<1>2. SameReturn(th[t], x)
  BY Facts DEF ChooseInBin, At, SameReturn, Returning, Thread
<1> HIDE DEF x
<1> QED BY <1>1, <1>2, QuietBlocks

LEMMA LockSuperblockBlocks ==
    ASSUME IInv, BlocksInv, NEW t \in Threads, LockSuperblock(t)
    PROVE  BlocksInv'
<1> DEFINE x == [th[t] EXCEPT !.pc = "lock_owner", !.heap = sb[th[t].s_ptr].owner,
                              !.size = sb[th[t].s_ptr].block_size]
<1>1. th' = [th EXCEPT ![t] = x] /\ sb' = sb /\ held' = held
  BY DEF LockSuperblock, At
<1>2. SameReturn(th[t], x)
  BY Facts DEF LockSuperblock, At, SameReturn, Returning, Thread
<1> HIDE DEF x
<1> QED BY <1>1, <1>2, QuietBlocks

LEMMA TakeRecycledBlocks ==
    ASSUME IInv, BlocksInv, NEW t \in Threads, TakeRecycled(t)
    PROVE  BlocksInv'
<1> DEFINE x == [th[t] EXCEPT !.pc = "adopt", !.s_ptr = heap[GlobalHeap].recycled_superblock]
<1>1. th' = [th EXCEPT ![t] = x] /\ sb' = sb /\ held' = held
  BY DEF TakeRecycled, At
<1>2. SameReturn(th[t], x)
  BY Facts DEF TakeRecycled, At, SameReturn, Returning, Thread
<1> HIDE DEF x
<1> QED BY <1>1, <1>2, QuietBlocks

LEMMA GiveRecycledBlocks ==
    ASSUME IInv, BlocksInv, NEW t \in Threads, GiveRecycled(t)
    PROVE  BlocksInv'
<1> DEFINE x == [th[t] EXCEPT !.pc = "transfer",
                  !.victim = dec_usage(heap[th[t].heap], th[t].size).recycled_superblock]
<1>1. th' = [th EXCEPT ![t] = x] /\ sb' = sb /\ held' = held
  BY DEF GiveRecycled, At
<1>2. SameReturn(th[t], x)
  BY Facts DEF GiveRecycled, At, SameReturn, Returning, Thread
<1> HIDE DEF x
<1> QED BY <1>1, <1>2, QuietBlocks

LEMMA MallocBlocks ==
    ASSUME IInv, BlocksInv, NEW t \in Threads, NEW size, Malloc(t, size)
    PROVE  BlocksInv'
<1> DEFINE x == [th[t] EXCEPT !.pc = "lock_heap", !.heap = HeapOf[t], !.size = size]
<1>1. th' = [th EXCEPT ![t] = x] /\ sb' = sb /\ held' = held
  BY DEF Malloc, At
<1>2. SameReturn(th[t], x)
  BY Facts DEF Malloc, At, SameReturn, Returning, Thread
<1> HIDE DEF x
<1> QED BY <1>1, <1>2, QuietBlocks

(* Steps that change owners and links only.                                *)
LEMMA LinkBlocks ==
    ASSUME IInv, BlocksInv, NEW t \in Threads, NEW x,
           th' = [th EXCEPT ![t] = x], SameReturn(th[t], x), held' = held,
           SameButLinks(sb, sb')
    PROVE  BlocksInv'
<1>1. Mapped' = Mapped /\ \A s \in Superblocks : SameBlocks(sb[s], sb'[s])
  BY DEF Mapped, SameButLinks
<1> QED BY <1>1, BlocksKept

(* Taking a superblock off a list or giving one away writes links only.    *)
LEMMA TakeNonfullHeaders ==
    ASSUME IInv, NEW t \in Threads, TakeNonfull(t)
    PROVE  SameButLinks(sb, sb')
<1> DEFINE bm  == GlobalBin(t)
           e   == FullestNonfull(bm)
           s   == bm.emptiness_bins[e]
           del == delete_from_bin(sb, bm, e, s)
<1>1. sb' = del.sb
  BY DEF TakeNonfull
<1>2. ManagerIn(Mapped, bm)
  BY ThreadBin, Facts DEF GlobalBin, HeapIn, Heaps
<1>3. HasNonfull(bm) /\ DeleteDefined(sb, e, s)
  BY DEF TakeNonfull, TakeDefined
<1>4. s \in Mapped
  <2>1. e \in NonfullClasses /\ s # NULL
    BY <1>3, FullestFound
  <2>2. e \in EmptinessClasses
    BY <2>1, NonfullClass
  <2> HIDE DEF bm, e
  <2> QED BY <1>2, <2>1, <2>2 DEF ManagerIn
<1> HIDE DEF bm, e, s
<1>5. SameButLinks(sb, del.sb)
  BY <1>2, <1>3, <1>4, Facts, DeleteKeepsLists
<1> QED BY <1>1, <1>5

LEMMA TakeNonfullBlocks ==
    ASSUME IInv, BlocksInv, NEW t \in Threads, TakeNonfull(t)
    PROVE  BlocksInv'
<1> DEFINE s == GlobalBin(t).emptiness_bins[FullestNonfull(GlobalBin(t))]
           x == [th[t] EXCEPT !.pc = "adopt", !.s_ptr = s]
<1>1. th' = [th EXCEPT ![t] = x] /\ held' = held /\ th[t].pc = "get_sb_from_global"
  BY DEF TakeNonfull, At
<1>2. SameReturn(th[t], x)
  BY <1>1, Facts DEF SameReturn, Returning, Thread
<1> HIDE DEF x
<1> QED BY <1>1, <1>2, TakeNonfullHeaders, LinkBlocks

LEMMA GiveEmptiestHeaders ==
    ASSUME IInv, NEW t \in Threads, GiveEmptiest(t)
    PROVE  SameButLinks(sb, sb')
<1> DEFINE h   == th[t].heap
           dec == dec_usage(heap[h], th[t].size)
           c   == find_emptiest_sb(dec)
           bm  == dec.size_bins[c[1]]
           s   == bm.emptiness_bins[c[2]]
           del == delete_from_bin(sb, bm, c[2], s)
<1>1. sb' = del.sb
  BY DEF GiveEmptiest
<1>2. h \in Heaps /\ th[t].size \in Int
  <2>1. th[t].pc = "account"
    BY DEF GiveEmptiest, At
  <2> QED BY <2>1, Facts DEF PlaceIn, Thread, FreePlaces
<1>3. HeapIn(Mapped, dec) /\ dec.size_bins = heap[h].size_bins
  BY <1>2, Facts, StatisticsTyped
<1>4. c = find_emptiest_sb(heap[h]) /\ Candidates(dec) = Candidates(heap[h])
  <2> HIDE DEF dec, h
  <2> QED BY <1>3 DEF find_emptiest_sb, Candidates
<1>5. Candidates(heap[h]) # {} /\ DeleteDefined(sb, c[2], s)
  <2> HIDE DEF dec
  <2> QED BY <1>3, <1>4 DEF GiveEmptiest, GiveDefined
<1>6. c \in Candidates(dec)
  BY <1>4, <1>5, EmptiestFound
<1> HIDE DEF dec, c
<1>7. c[1] \in Bins /\ c[2] \in NonfullClasses /\ s # NULL
  BY <1>6 DEF Candidates
<1>8. ManagerIn(Mapped, bm)
  BY <1>3, <1>7 DEF HeapIn
<1>9. s \in Mapped
  <2>1. c[2] \in EmptinessClasses
    BY <1>7, NonfullClass
  <2> HIDE DEF bm
  <2> QED BY <1>7, <1>8, <2>1, Facts DEF ManagerIn
<1> HIDE DEF bm, s
<1>10. SameButLinks(sb, del.sb)
  BY <1>5, <1>8, <1>9, Facts, DeleteKeepsLists
<1> QED BY <1>1, <1>10

LEMMA GiveEmptiestBlocks ==
    ASSUME IInv, BlocksInv, NEW t \in Threads, GiveEmptiest(t)
    PROVE  BlocksInv'
<1> DEFINE dec == dec_usage(heap[th[t].heap], th[t].size)
           c   == find_emptiest_sb(dec)
           x   == [th[t] EXCEPT !.pc = "transfer",
                                !.victim = dec.size_bins[c[1]].emptiness_bins[c[2]],
                                !.bin_idx = c[1], !.eidx = c[2]]
<1>1. th' = [th EXCEPT ![t] = x] /\ held' = held /\ th[t].pc = "account"
  BY DEF GiveEmptiest, At
<1> HIDE DEF dec, c
<1>2. SameReturn(th[t], x)
  BY <1>1, Facts DEF SameReturn, Returning, Thread
<1> HIDE DEF x
<1> QED BY <1>1, <1>2, GiveEmptiestHeaders, LinkBlocks

LEMMA AdoptBlocks ==
    ASSUME IInv, BlocksInv, NEW t \in Threads, Adopt(t)
    PROVE  BlocksInv'
<1> DEFINE s == th[t].s_ptr
           r == [sb[s] EXCEPT !.owner = th[t].heap]
           x == [th[t] EXCEPT !.pc = "sb_alloc"]
<1>1. sb' = [sb EXCEPT ![s] = r] /\ th' = [th EXCEPT ![t] = x] /\ held' = held
  BY DEF Adopt, Goto
<1>2. th[t].heap # NULL /\ s \in Mapped /\ sb \in [Superblocks -> SuperblockHeader(Heaps)]
  <2>1. th[t].pc = "adopt" /\ PlaceIn(Mapped, th[t])
    BY Facts DEF Adopt, At
  <2>2. th[t].heap \in ThreadHeaps /\ s \in Mapped
    BY <2>1 DEF PlaceIn, AllocPlaces
  <2>3. NULL \notin ThreadHeaps
    BY HeapAssumption DEF Heaps
  <2>4. HeadersIn(Heaps, Mapped, sb)
    BY Facts
  <2>5. sb \in [Superblocks -> SuperblockHeader(Heaps)]
    BY <2>4 DEF HeadersIn
  <2> QED BY <2>2, <2>3, <2>5
<1>3. r.owner = th[t].heap /\ SameBlocks(sb[s], r)
  <2>1. sb[s] \in SuperblockHeader(Heaps)
    BY <1>2 DEF Mapped
  <2>2. r.owner = th[t].heap
    BY <2>1 DEF SuperblockHeader
  <2>3. SameBlocks(sb[s], r)
    BY <2>1 DEF SuperblockHeader, SameBlocks
  <2> QED BY <2>2, <2>3
<1> HIDE DEF r
<1>4. \A q \in Superblocks : sb'[q] = IF q = s THEN r ELSE sb[q]
  BY <1>1, <1>2
<1>5. Mapped' = Mapped /\ \A q \in Superblocks : SameBlocks(sb[q], sb'[q])
  BY <1>2, <1>3, <1>4 DEF Mapped, SameBlocks
<1>6. SameReturn(th[t], x)
  BY Facts DEF Adopt, At, SameReturn, Returning, Thread
<1> HIDE DEF x
<1> QED BY <1>1, <1>5, <1>6, BlocksKept

LEMMA InsertRecycledBlocks ==
    ASSUME IInv, BlocksInv, NEW t \in Threads, InsertRecycled(t)
    PROVE  BlocksInv'
<1> DEFINE s == th[t].victim
           v == heap[GlobalHeap].recycled_superblock
           r == [sb[s] EXCEPT !.owner = GlobalHeap, !.next = v]
<1>1. th' = [th EXCEPT ![t] = IdleThread] /\ held' = held /\ th[t].pc = "insert_global"
  BY DEF InsertRecycled, At, Return
<1>2. GlobalHeap # NULL /\ s \in Mapped /\ sb \in [Superblocks -> SuperblockHeader(Heaps)]
  BY <1>1, InsertFacts, Facts DEF HeadersIn
<1>3. sb' = [sb EXCEPT ![s] = r]
  <2>1. sb' = [sb EXCEPT ![s].owner = GlobalHeap, ![s].next = v]
    BY DEF InsertRecycled
  <2> HIDE DEF v
  <2> QED BY <1>2, <2>1 DEF Mapped
<1> HIDE DEF v
<1>4. r.owner = GlobalHeap /\ SameBlocks(sb[s], r)
  BY <1>2, Facts DEF SuperblockHeader, SameBlocks
<1> HIDE DEF r
<1>5. \A q \in Superblocks : sb'[q] = IF q = s THEN r ELSE sb[q]
  BY <1>2, <1>3
<1>6. Mapped' = Mapped /\ \A q \in Superblocks : SameBlocks(sb[q], sb'[q])
  BY <1>2, <1>4, <1>5 DEF Mapped, SameBlocks
<1>7. SameReturn(th[t], IdleThread)
  BY <1>1 DEF SameReturn, Returning, IdleThread
<1> QED BY <1>1, <1>6, <1>7, BlocksKept

(* Inserting a superblock gives it its new owner, and writes links.        *)
LEMMA InsertIntoBinHeaders ==
    ASSUME IInv, NEW t \in Threads, InsertIntoBin(t)
    PROVE  \A q \in Superblocks :
             /\ sb'[q].owner = IF q = th[t].victim THEN GlobalHeap ELSE sb[q].owner
             /\ SameBlocks(sb[q], sb'[q])
<1> DEFINE s    == th[t].victim
           b    == th[t].bin_idx
           e    == th[t].eidx
           bm   == heap[GlobalHeap].size_bins[b]
           r    == [sb[s] EXCEPT !.owner = GlobalHeap]
           f    == [sb EXCEPT ![s] = r]
           push == push_into_bin(f, bm, e, s)
<1>1. sb' = push.sb /\ th[t].pc = "insert_global" /\ e # -1
  BY DEF InsertIntoBin, At
<1>2. /\ GlobalHeap # NULL /\ GlobalHeap \in Heaps /\ s \in Mapped /\ s \in Superblocks
      /\ b \in Bins /\ sb \in [Superblocks -> SuperblockHeader(Heaps)]
  BY <1>1, InsertFacts, Facts DEF HeadersIn
<1>3. PushDefined(sb, bm, e)
  BY <1>1 DEF InsertIntoBin, InsertDefined
<1>4. ManagerIn(Mapped, bm) /\ HeadersIn(Heaps, Mapped, sb) /\ Mapped \in SUBSET Superblocks
  BY <1>2, Facts DEF HeapIn
<1>5. /\ r \in SuperblockHeader(Heaps) /\ r.owner = GlobalHeap /\ SameBlocks(sb[s], r)
      /\ r.prev = sb[s].prev /\ r.next = sb[s].next
  <2>1. sb[s] \in SuperblockHeader(Heaps)
    BY <1>2
  <2>2. SameBlocks(sb[s], r)
    BY <2>1 DEF SuperblockHeader, SameBlocks
  <2> QED BY <1>2, <2>1, <2>2, NewOwner
<1> HIDE DEF r
<1>6. /\ f \in [Superblocks -> SuperblockHeader(Heaps)]
      /\ \A q \in Superblocks : f[q] = IF q = s THEN r ELSE sb[q]
  BY <1>2, <1>5
<1> HIDE DEF f, bm
<1>7. HeadersIn(Heaps, Mapped, f)
  BY <1>4, <1>5, <1>6 DEF HeadersIn
<1>8. PushDefined(f, bm, e)
  <2>1. \A q \in Superblocks : f[q].prev = sb[q].prev
    BY <1>5, <1>6
  <2>2. e \in EmptinessClasses => bm.emptiness_bins[e] \in Mapped \cup {NULL}
    BY <1>4 DEF ManagerIn
  <2> QED BY <1>3, <1>4, <2>1, <2>2 DEF PushDefined
<1>9. SameButLinks(f, push.sb)
  BY <1>2, <1>4, <1>7, <1>8, PushKeepsLists
<1> HIDE DEF push
<1> QED BY <1>1, <1>5, <1>6, <1>9 DEF SameButLinks, SameBlocks

LEMMA InsertIntoBinBlocks ==
    ASSUME IInv, BlocksInv, NEW t \in Threads, InsertIntoBin(t)
    PROVE  BlocksInv'
<1>1. th' = [th EXCEPT ![t] = IdleThread] /\ held' = held /\ th[t].pc = "insert_global"
  BY DEF InsertIntoBin, At, Return
<1>2. GlobalHeap # NULL /\ th[t].victim \in Mapped
  BY <1>1, InsertFacts
<1>3. Mapped' = Mapped /\ \A q \in Superblocks : SameBlocks(sb[q], sb'[q])
  BY <1>2, InsertIntoBinHeaders DEF Mapped
<1>4. SameReturn(th[t], IdleThread)
  BY <1>1 DEF SameReturn, Returning, IdleThread
<1> QED BY <1>1, <1>3, <1>4, BlocksKept

(* The block a thread frees leaves the program and is with the thread.     *)
LEMMA FreeCallBlocks ==
    ASSUME IInv, BlocksInv, NEW t \in Threads, NEW p \in held, Free(t, p)
    PROVE  BlocksInv'
<1> DEFINE s == p.sb
           x == [th[t] EXCEPT !.pc = "lock_superblock", !.s_ptr = s, !.off = p.off]
<1>1. /\ th' = [th EXCEPT ![t] = x] /\ sb' = sb /\ held' = held \ {p}
      /\ th[t].pc = "idle"
  BY DEF Free, At
<1>2. s \in Mapped /\ s \in Superblocks /\ p \in HeldIn(s)
  BY DEF IInv, HeldOK, HeldIn, Mapped
<1>3. \A u \in Threads : th'[u] = IF u = t THEN x ELSE th[u]
  BY <1>1 DEF IInv, ThreadsOK
<1>4. x.pc = "lock_superblock" /\ x.s_ptr = s /\ x.off = p.off
  BY Facts DEF Thread
<1> HIDE DEF x
<1>5. t \notin BeingFreed(s) /\ BeingFreed(s)' = BeingFreed(s) \cup {t}
  BY <1>1, <1>3, <1>4 DEF BeingFreed
<1>6. /\ th'[t].off = p.off
      /\ \A u \in BeingFreed(s) : th'[u].off = th[u].off
  BY <1>3, <1>4, <1>5 DEF BeingFreed
<1>7. HeldIn(s)' = HeldIn(s) \ {p}
  BY <1>1 DEF HeldIn
<1>8. BlocksOK(sb'[s], HeldIn(s)', BeingFreed(s)', th')
  <2>1. BlocksOK(sb[s], HeldIn(s), BeingFreed(s), th) /\ sb[s] \in SuperblockHeader(Heaps)
    BY <1>2, Facts DEF BlocksInv
  <2> HIDE DEF s
  <2>2. BlocksOK(sb[s], HeldIn(s) \ {p}, BeingFreed(s) \cup {t}, th')
    BY <1>2, <1>5, <1>6, <2>1, BlocksLeave
  <2> QED BY <1>1, <1>5, <1>7, <2>2
<1>9. ASSUME NEW q \in Superblocks \ {s}
      PROVE  /\ SameBlocks(sb[q], sb'[q]) /\ HeldIn(q)' = HeldIn(q)
             /\ BeingFreed(q)' = BeingFreed(q)
             /\ \A u \in BeingFreed(q) : th'[u].off = th[u].off
  <2>1. SameBlocks(sb[q], sb'[q])
    BY <1>1 DEF SameBlocks
  <2>2. HeldIn(q)' = HeldIn(q)
    BY <1>1 DEF HeldIn
  <2>3. BeingFreed(q)' = BeingFreed(q) /\ t \notin BeingFreed(q)
    BY <1>1, <1>3, <1>4 DEF BeingFreed
  <2>4. \A u \in BeingFreed(q) : th'[u].off = th[u].off
    BY <1>3, <2>3 DEF BeingFreed
  <2> QED BY <2>1, <2>2, <2>3, <2>4
<1>10. Mapped' \subseteq Mapped \cup {s}
  BY <1>1 DEF Mapped
<1> HIDE DEF s
<1> QED BY <1>2, <1>8, <1>9, <1>10, BlocksOfOne

(* It is free again once superblock_free has it.                           *)
LEMMA BinFreeHeaders ==
    ASSUME IInv, NEW t \in Threads, BinFree(t)
    PROVE  /\ SameBlocks(superblock_free(sb[th[t].s_ptr], th[t].off), sb'[th[t].s_ptr])
           /\ \A q \in Superblocks \ {th[t].s_ptr} : SameBlocks(sb[q], sb'[q])
           /\ \A q \in Superblocks : /\ sb'[q].owner = sb[q].owner
                                     /\ sb'[q].block_size = sb[q].block_size
<1> DEFINE h     == th[t].heap
           s     == th[t].s_ptr
           bin   == size2idx(th[t].size)
           bm    == heap[h].size_bins[bin]
           old   == get_eidx(sb[s])
           r     == superblock_free(sb[s], th[t].off)
           sbNew == [sb EXCEPT ![s] = r]
           del   == delete_from_bin(sbNew, bm, old, s)
           upd   == update_emptiness_class(sbNew, bm, old, s)
           v     == heap[h].recycled_superblock
<1>1. th[t].pc = "bin_free"
  BY DEF BinFree, At
<1>2. /\ h \in Heaps /\ s \in Mapped /\ s \in Superblocks /\ th[t].off \in Nat
      /\ bin \in Bins
  BY <1>1, Facts, ThreadBin DEF PlaceIn, Thread, FreePlaces, Heaps
<1>3. IF is_superblock_empty(sbNew[s])
        THEN DeleteDefined(sbNew, old, s) /\ sb' = [del.sb EXCEPT ![s].next = v]
        ELSE UpdateDefined(sbNew, bm, old, s) /\ sb' = upd.sb
  BY DEF BinFree, BinFreeDefined
<1>4. /\ r \in SuperblockHeader(Heaps)
      /\ r.owner = sb[s].owner /\ r.block_size = sb[s].block_size
      /\ r.prev = sb[s].prev /\ r.next = sb[s].next
  <2>1. sb[s] \in SuperblockHeader(Heaps)
    BY <1>2, Facts
  <2> QED BY <1>2, <2>1, FreeTyped
<1>5. /\ Mapped \in SUBSET Superblocks /\ HeadersIn(Heaps, Mapped, sb)
      /\ sb \in [Superblocks -> SuperblockHeader(Heaps)]
      /\ ManagerIn(Mapped, bm) /\ v \in Mapped \cup {NULL}
  BY <1>2, Facts DEF HeapIn, HeadersIn
<1> HIDE DEF r
<1>6. \A q \in Superblocks : sbNew[q] = IF q = s THEN r ELSE sb[q]
  BY <1>5
<1>7. HeadersIn(Heaps, Mapped, sbNew) /\ SameOwners(sb, sbNew)
  BY <1>2, <1>4, <1>5, SetHeader
<1> HIDE DEF bm, old, sbNew, s, bin, v
<1>8. SameButLinks(sbNew, sb')
  <2>1. CASE is_superblock_empty(sbNew[s])
    <3>1. HeadersIn(Heaps, Mapped, del.sb) /\ SameButLinks(sbNew, del.sb)
      BY <1>2, <1>3, <1>5, <1>7, <2>1, DeleteKeepsLists
    <3> HIDE DEF del
    <3>2. SameButLinks(del.sb, [del.sb EXCEPT ![s].next = v])
      BY <1>2, <1>5, <3>1, SetNext
    <3> QED BY <1>3, <2>1, <3>1, <3>2, SameButLinksTwice
  <2>2. CASE ~is_superblock_empty(sbNew[s])
    <3>1. SameButLinks(sbNew, upd.sb)
      BY <1>2, <1>3, <1>5, <1>7, <2>2, UpdateKeepsLists
    <3> QED BY <1>3, <2>2, <3>1
  <2> QED BY <2>1, <2>2
<1> HIDE DEF del, upd
<1>9. /\ \A q \in Superblocks \ {s} : SameBlocks(sb[q], sb'[q]) /\ sb'[q].owner = sb[q].owner
      /\ SameBlocks(r, sb'[s]) /\ sb'[s].owner = r.owner
  BY <1>2, <1>6, <1>8 DEF SameButLinks
<1> QED BY <1>2, <1>4, <1>9 DEF SameBlocks, r, s

LEMMA BinFreeBlocks ==
    ASSUME IInv, BlocksInv, NEW t \in Threads, BinFree(t)
    PROVE  BlocksInv'
<1> DEFINE s == th[t].s_ptr
           r == superblock_free(sb[s], th[t].off)
           x == [th[t] EXCEPT !.pc = "account"]
<1>1. th' = [th EXCEPT ![t] = x] /\ held' = held /\ th[t].pc = "bin_free"
  BY DEF BinFree, Goto, At
<1>2. s \in Mapped /\ s \in Superblocks /\ th[t].off \in Nat
  BY <1>1, Facts DEF PlaceIn, Thread, FreePlaces
<1>3. BlocksOK(r, HeldIn(s), BeingFreed(s) \ {t}, th)
  <2>1. t \in BeingFreed(s)
    BY <1>1 DEF BeingFreed
  <2>2. sb[s] \in SuperblockHeader(Heaps) /\ BlocksOK(sb[s], HeldIn(s), BeingFreed(s), th)
    BY <1>2, Facts DEF BlocksInv
  <2> HIDE DEF s
  <2> QED BY <1>2, <2>1, <2>2, BlocksReturn
<1>4. /\ SameBlocks(r, sb'[s])
      /\ \A q \in Superblocks \ {s} : SameBlocks(sb[q], sb'[q])
      /\ \A q \in Superblocks : sb'[q].owner = sb[q].owner
  BY BinFreeHeaders
<1> HIDE DEF r, s
<1>5. \A u \in Threads : th'[u] = IF u = t THEN x ELSE th[u]
  BY <1>1 DEF IInv, ThreadsOK
<1>6. x.pc = "account"
  BY Facts DEF Thread
<1> HIDE DEF x
<1> PICK z \in Superblocks : z = s
  BY <1>2
<1>7. /\ BeingFreed(z)' = BeingFreed(z) \ {t}
       /\ \A q \in Superblocks \ {z} : BeingFreed(q)' = BeingFreed(q)
  BY <1>1, <1>5, <1>6 DEF BeingFreed, s
<1>8. \A q \in Superblocks : \A u \in BeingFreed(q) \ {t} : th'[u].off = th[u].off
  BY <1>5 DEF BeingFreed
<1>9. \A q \in Superblocks : HeldIn(q)' = HeldIn(q)
  BY <1>1 DEF HeldIn
<1>10. BlocksOK(sb'[z], HeldIn(z)', BeingFreed(z)', th')
  <2>1. \A u \in BeingFreed(s) \ {t} : th'[u].off = th[u].off
    BY <1>2, <1>8
  <2>2. BlocksOK(sb'[s], HeldIn(s), BeingFreed(s) \ {t}, th')
    BY <1>3, <1>4, <2>1, BlocksSame
  <2> QED BY <1>2, <1>7, <1>9, <2>2
<1>11. ASSUME NEW q \in Superblocks \ {z}
       PROVE  \A u \in BeingFreed(q) : th'[u].off = th[u].off
  <2>1. t \notin BeingFreed(q)
    BY DEF BeingFreed, s
  <2> QED BY <1>8, <2>1
<1>12. Mapped' \subseteq Mapped \cup {z}
  BY <1>4 DEF Mapped
<1> QED BY <1>2, <1>4, <1>7, <1>9, <1>10, <1>11, <1>12, BlocksOfOne

(* So does superblock_alloc, in the end of bin_alloc.                      *)
LEMMA SuperblockAllocHeaders ==
    ASSUME IInv, NEW t \in Threads, SuperblockAlloc(t)
    PROVE  /\ SameBlocks(superblock_alloc(sb[th[t].s_ptr]), sb'[th[t].s_ptr])
           /\ \A q \in Superblocks \ {th[t].s_ptr} : SameBlocks(sb[q], sb'[q])
           /\ \A q \in Superblocks : /\ sb'[q].owner = sb[q].owner
                                     /\ sb'[q].block_size = sb[q].block_size
<1> DEFINE h     == th[t].heap
           s     == th[t].s_ptr
           bin   == size2idx(th[t].size)
           bm    == heap[h].size_bins[bin]
           r     == superblock_alloc(sb[s])
           sbNew == [sb EXCEPT ![s] = r]
           old   == get_eidx(sb[s])
           new   == get_eidx(sbNew[s])
           upd   == IF th[t].in_bin THEN update_emptiness_class(sbNew, bm, old, s)
                                    ELSE push_into_bin(sbNew, bm, new, s)
<1>1. sb' = upd.sb /\ th[t].pc = "sb_alloc"
  BY DEF SuperblockAlloc, At
<1>2. h \in Heaps /\ s \in Mapped /\ s \in Superblocks /\ bin \in Bins
  BY <1>1, Facts, ThreadBin DEF PlaceIn, Thread, AllocPlaces, Heaps
<1>3. /\ HasBlock(sb[s])
      /\ IF th[t].in_bin THEN UpdateDefined(sbNew, bm, old, s)
                         ELSE PushDefined(sbNew, bm, new)
  BY DEF SuperblockAlloc, AllocDefined
<1>4. /\ Mapped \in SUBSET Superblocks /\ HeadersIn(Heaps, Mapped, sb)
      /\ sb \in [Superblocks -> SuperblockHeader(Heaps)] /\ sb[s] \in SuperblockHeader(Heaps)
      /\ ManagerIn(Mapped, bm)
  BY <1>2, Facts DEF HeapIn, HeadersIn
<1>5. /\ r \in SuperblockHeader(Heaps)
      /\ r.owner = sb[s].owner /\ r.block_size = sb[s].block_size
      /\ r.prev = sb[s].prev /\ r.next = sb[s].next
  BY <1>3, <1>4, AllocTyped
<1> HIDE DEF r
<1>6. \A q \in Superblocks : sbNew[q] = IF q = s THEN r ELSE sb[q]
  BY <1>4
<1>7. HeadersIn(Heaps, Mapped, sbNew)
  BY <1>2, <1>4, <1>5, SetHeader
<1> HIDE DEF bm, old, new, sbNew, s, bin
<1>8. SameButLinks(sbNew, sb')
  <2>1. CASE th[t].in_bin
    BY <1>1, <1>2, <1>3, <1>4, <1>7, <2>1, UpdateKeepsLists
  <2>2. CASE ~th[t].in_bin
    BY <1>1, <1>2, <1>3, <1>4, <1>7, <2>2, PushKeepsLists
  <2> QED BY <2>1, <2>2
<1> HIDE DEF upd
<1> QED BY <1>2, <1>5, <1>6, <1>8 DEF SameButLinks, SameBlocks, r, s

(* A thread leaves with a block that is large enough, because it asked a   *)
(* superblock of its bin.                                                  *)
LEMMA SuperblockAllocBlocks ==
    ASSUME IInv, BlocksInv, AllocatesFromItsBin, NEW t \in Threads, SuperblockAlloc(t)
    PROVE  BlocksInv'
<1> DEFINE s == th[t].s_ptr
           r == superblock_alloc(sb[s])
           p == [sb |-> s, off |-> AllocatedPtr(sb[s]), size |-> th[t].size]
<1>1. /\ held' = held \cup {p} /\ th' = [th EXCEPT ![t] = IdleThread]
      /\ HasBlock(sb[s])
  BY DEF SuperblockAlloc, AllocDefined, Return
<1>2. th[t].pc = "sb_alloc" /\ At(t, "sb_alloc")
  BY DEF SuperblockAlloc, At
<1>3. /\ s \in Mapped /\ s \in Superblocks /\ sb[s] \in SuperblockHeader(Heaps)
      /\ th[t].size \in Nat /\ th[t].size <= max_block_size
  BY <1>2, Facts DEF PlaceIn, Thread, AllocPlaces
<1>4. th[t].size <= sb[s].block_size
  <2>1. sb[s].block_size = idx2class(size2idx(th[t].size))
    BY <1>2 DEF AllocatesFromItsBin
  <2> QED BY <1>3, <2>1, SizeHasBin
<1>5. BlocksOK(r, HeldIn(s) \cup {p}, BeingFreed(s), th)
  <2>1. BlocksOK(sb[s], HeldIn(s), BeingFreed(s), th)
    BY <1>3 DEF BlocksInv
  <2>2. p.off = AllocatedPtr(sb[s]) /\ p.size <= sb[s].block_size
    BY <1>4
  <2> HIDE DEF p, s
  <2> QED BY <1>1, <1>3, <2>1, <2>2, BlocksAlloc
<1>6. p.sb = s
  OBVIOUS
<1>7. /\ SameBlocks(r, sb'[s])
      /\ \A q \in Superblocks \ {s} : SameBlocks(sb[q], sb'[q])
      /\ \A q \in Superblocks : sb'[q].owner = sb[q].owner
  BY SuperblockAllocHeaders
<1> HIDE DEF r, s, p
<1> PICK z \in Superblocks : z = s
  BY <1>3
<1>8. SameReturn(th[t], IdleThread)
  BY <1>2 DEF SameReturn, Returning, IdleThread
<1>9. \A q \in Superblocks :
        /\ BeingFreed(q)' = BeingFreed(q)
        /\ \A u \in BeingFreed(q) : th'[u].off = th[u].off
  BY <1>1, <1>8, ReturnsKept
<1>10. /\ HeldIn(z)' = HeldIn(z) \cup {p}
       /\ \A q \in Superblocks \ {z} : HeldIn(q)' = HeldIn(q)
  BY <1>1, <1>6 DEF HeldIn
<1>11. BlocksOK(sb'[z], HeldIn(z)', BeingFreed(z)', th')
  <2>1. BlocksOK(r, HeldIn(z) \cup {p}, BeingFreed(z), th)
    BY <1>5
  <2>2. BlocksOK(sb'[z], HeldIn(z) \cup {p}, BeingFreed(z), th')
    BY <1>7, <1>9, <2>1, BlocksSame
  <2> QED BY <1>9, <1>10, <2>2
<1>12. Mapped' \subseteq Mapped \cup {z}
  BY <1>7 DEF Mapped
<1> QED BY <1>7, <1>9, <1>10, <1>11, <1>12, BlocksOfOne

(* A superblock that is cut anew has all its blocks, if nobody has one.    *)
LEMMA ResetOne ==
    ASSUME IInv, BlocksInv, NEW t \in Threads, NEW x,
           th' = [th EXCEPT ![t] = x], SameReturn(th[t], x), held' = held,
           NEW s \in Superblocks, HeldIn(s) = {}, BeingFreed(s) = {},
           NEW r, sb' = [sb EXCEPT ![s] = r],
           NEW b \in Nat \ {0}, b % MIN_BLOCK_SIZE = 0,
           SameBlocks(reset_superblock(sb[s], b), r)
    PROVE  BlocksInv'
<1>1. \A q \in Superblocks : sb'[q] = IF q = s THEN r ELSE sb[q]
  BY Facts DEF HeadersIn
<1>2. \A q \in Superblocks :
        /\ BeingFreed(q)' = BeingFreed(q)
        /\ \A u \in BeingFreed(q) : th'[u].off = th[u].off
  BY ReturnsKept
<1>3. \A q \in Superblocks : HeldIn(q)' = HeldIn(q)
  BY DEF HeldIn
<1>4. BlocksOK(sb'[s], HeldIn(s)', BeingFreed(s)', th')
  <2>1. BlocksOK(reset_superblock(sb[s], b), {}, {}, th)
    BY Facts, BlocksReset
  <2>2. BlocksOK(r, {}, {}, th')
    BY <2>1, BlocksSame
  <2> QED BY <1>1, <1>2, <1>3, <2>2
<1>5. Mapped' \subseteq Mapped \cup {s}
  BY <1>1 DEF Mapped
<1>6. \A q \in Superblocks \ {s} : SameBlocks(sb[q], sb'[q])
  BY <1>1 DEF SameBlocks
<1> QED BY <1>2, <1>3, <1>4, <1>5, <1>6, BlocksOfOne

(* The head of a list is on it.                                            *)
LEMMA HeadIsOn ==
    ASSUME NEW s \in Superblocks
    PROVE  s \in ListFrom(s)
  BY NullAssumption DEF ListFrom

LEMMA RecycleBlocks ==
    ASSUME IInv, BlocksInv, RecycledEmpty, NEW t \in Threads, Recycle(t)
    PROVE  BlocksInv'
<1> DEFINE h == th[t].heap
           s == heap[h].recycled_superblock
           b == idx2class(size2idx(th[t].size))
           r == reset_superblock(sb[s], b)
           x == [th[t] EXCEPT !.pc = "sb_alloc", !.s_ptr = s]
<1>1. /\ sb' = [sb EXCEPT ![s] = r] /\ th' = [th EXCEPT ![t] = x] /\ held' = held
      /\ th[t].pc = "bin_alloc" /\ s # NULL
  BY DEF Recycle, At
<1>2. h \in Heaps
  <2>1. th[t].pc = "bin_alloc"
    BY DEF Recycle, At
  <2> QED BY <2>1, Facts DEF PlaceIn, AllocPlaces, Heaps
<1>3. s \in Superblocks
  BY <1>1, <1>2, Facts DEF HeapIn
<1>4. HeldIn(s) = {} /\ BeingFreed(s) = {}
  <2>1. s \in RecycledBy(h)
    BY <1>3, HeadIsOn DEF RecycledBy
  <2> QED BY <1>2, <2>1 DEF RecycledEmpty
<1>5. b \in Nat \ {0} /\ b % MIN_BLOCK_SIZE = 0
  BY ThreadBin, SizeTableAssumption DEF idx2class
<1>6. SameReturn(th[t], x)
  <2>1. th[t].pc = "bin_alloc"
    BY DEF Recycle, At
  <2> QED BY <2>1, Facts DEF SameReturn, Returning, Thread
<1>7. SameBlocks(r, r)
  BY DEF SameBlocks
<1> PICK z \in Superblocks : z = s
  BY <1>3
<1> HIDE DEF s, b, x
<1> QED BY <1>1, <1>4, <1>5, <1>6, <1>7, ResetOne

LEMMA MapSuperblockBlocks ==
    ASSUME IInv, BlocksInv, NEW t \in Threads, NEW s \in Superblocks, MapSuperblock(t, s)
    PROVE  BlocksInv'
<1> DEFINE h == th[t].heap
           b == idx2class(size2idx(th[t].size))
           z == reset_superblock(sb[s], b)
           r == [z EXCEPT !.owner = h]
           x == [th[t] EXCEPT !.pc = "sb_alloc", !.s_ptr = s]
<1>1. sb' = [sb EXCEPT ![s] = r] /\ th' = [th EXCEPT ![t] = x] /\ held' = held
  BY DEF MapSuperblock
<1>2. HeldIn(s) = {} /\ BeingFreed(s) = {}
  BY UnmappedUnused DEF MapSuperblock, Mapped
<1>3. b \in Nat \ {0} /\ b % MIN_BLOCK_SIZE = 0
  BY ThreadBin, SizeTableAssumption DEF idx2class
<1>4. SameReturn(th[t], x)
  <2>1. th[t].pc = "map"
    BY DEF MapSuperblock, At
  <2> QED BY <2>1, Facts DEF SameReturn, Returning, Thread
<1>5. SameBlocks(z, r)
  <2>1. z \in SuperblockHeader(Heaps)
    BY <1>3, Facts, ResetTyped
  <2> HIDE DEF z
  <2> QED BY <2>1 DEF SameBlocks, SuperblockHeader
<1> HIDE DEF r, b, x
<1> QED BY <1>1, <1>2, <1>3, <1>4, <1>5, ResetOne

LEMMA CrashBlocks ==
    ASSUME BlocksInv, NEW t \in Threads, Crash(t)
    PROVE  BlocksInv'
  BY DEF Crash, BlocksInv, Mapped, HeldIn, BeingFreed

LEMMA StoppedBlocks ==
    ASSUME BlocksInv, UNCHANGED vars
    PROVE  BlocksInv'
  BY DEF vars, BlocksInv, Mapped, HeldIn, BeingFreed

-----------------------------------------------------------------------------
(* Every state *)

LEMMA BlocksInitially == Init => BlocksInv
<1> SUFFICES ASSUME Init PROVE Mapped = {}
  BY DEF BlocksInv
<1>1. \A s \in Superblocks : sb[s].owner = NULL
  BY DEF Init, Unmapped
<1> QED BY <1>1 DEF Mapped

LEMMA BlocksInductive ==
    IInv /\ BlocksInv /\ RecycledEmpty /\ AllocatesFromItsBin /\ [Next]_vars => BlocksInv'
<1> SUFFICES ASSUME IInv, BlocksInv, RecycledEmpty, AllocatesFromItsBin, [Next]_vars
             PROVE  BlocksInv'
  OBVIOUS
<1>1. ASSUME NEW t \in Threads, Call(t) PROVE BlocksInv'
  BY <1>1, MallocBlocks, FreeCallBlocks DEF Call
<1>2. ASSUME NEW t \in Threads, Continue(t) PROVE BlocksInv'
  <2>1. CASE LockHeap(t)
    BY <2>1, LockHeapBlocks
  <2>2. CASE ChooseInBin(t)
    BY <2>2, ChooseInBinBlocks
  <2>3. CASE Recycle(t)
    BY <2>3, RecycleBlocks
  <2>4. CASE AskGlobal(t)
    BY <2>4, AskGlobalBlocks
  <2>5. CASE LockGlobal(t)
    BY <2>5, LockGlobalBlocks
  <2>6. CASE TakeNonfull(t)
    BY <2>6, TakeNonfullBlocks
  <2>7. CASE TakeRecycled(t)
    BY <2>7, TakeRecycledBlocks
  <2>8. CASE TakeNothing(t)
    BY <2>8, TakeNothingBlocks
  <2>9. CASE Adopt(t)
    BY <2>9, AdoptBlocks
  <2>10. CASE \E s \in Superblocks : MapSuperblock(t, s)
    BY <2>10, MapSuperblockBlocks
  <2>11. CASE MmapFails(t)
    BY <2>11, MmapFailsBlocks
  <2>12. CASE SuperblockAlloc(t)
    BY <2>12, SuperblockAllocBlocks
  <2>13. CASE LockSuperblock(t)
    BY <2>13, LockSuperblockBlocks
  <2>14. CASE LockOwner(t)
    BY <2>14, LockOwnerBlocks
  <2>15. CASE BinFree(t)
    BY <2>15, BinFreeBlocks
  <2>16. CASE FreeFromGlobal(t)
    BY <2>16, FreeFromGlobalBlocks
  <2>17. CASE FreeAndKeep(t)
    BY <2>17, FreeAndKeepBlocks
  <2>18. CASE GiveRecycled(t)
    BY <2>18, GiveRecycledBlocks
  <2>19. CASE GiveEmptiest(t)
    BY <2>19, GiveEmptiestBlocks
  <2>20. CASE LockGlobalForTransfer(t)
    BY <2>20, LockGlobalForTransferBlocks
  <2>21. CASE InsertRecycled(t)
    BY <2>21, InsertRecycledBlocks
  <2>22. CASE InsertIntoBin(t)
    BY <2>22, InsertIntoBinBlocks
  <2>23. CASE Crash(t)
    BY <2>23, CrashBlocks
  <2> QED BY <1>2, <2>1, <2>2, <2>3, <2>4, <2>5, <2>6, <2>7, <2>8, <2>9, <2>10, <2>11, <2>12,
              <2>13, <2>14, <2>15, <2>16, <2>17, <2>18, <2>19, <2>20, <2>21, <2>22, <2>23 DEF Continue
<1>3. CASE UNCHANGED vars
  BY <1>3, StoppedBlocks
<1> QED BY <1>1, <1>2, <1>3 DEF Next, Stopped

LEMMA BlocksInvHolds == Spec /\ []RecycledEmpty /\ []AllocatesFromItsBin => []BlocksInv
<1>1. Init => BlocksInv
  BY BlocksInitially
<1>2. IInv /\ BlocksInv /\ RecycledEmpty /\ AllocatesFromItsBin /\ [Next]_vars => BlocksInv'
  BY BlocksInductive
<1> QED BY <1>1, <1>2, InvariantHolds, PTL DEF Spec

(* As long as superblocks taken from a recycling bin are empty and blocks  *)
(* come from superblocks cut for them, superblock_alloc never hands out    *)
(* memory that overlaps a block in use, on its way back or still free.     *)
THEOREM BlocksApart ==
    Spec /\ []RecycledEmpty /\ []AllocatesFromItsBin => []BlocksDisjoint
<1>1. IInv /\ BlocksInv => BlocksDisjoint
  BY BlocksInvImplies
<1> QED BY <1>1, InvariantHolds, BlocksInvHolds, PTL

(* Under the same hypotheses num_free_blocks counts the blocks that can    *)
(* still be handed out, and every other block of a mapped superblock is    *)
(* with the program or in a call of free: superblock_alloc and             *)
(* superblock_free lose none, and no free list holds one twice.            *)
THEOREM NoBlockLost ==
    Spec /\ []RecycledEmpty /\ []AllocatesFromItsBin => []EveryBlockAccounted
<1>1. IInv /\ BlocksInv => EveryBlockAccounted
  BY BlocksInvImplies
<1> QED BY <1>1, InvariantHolds, BlocksInvHolds, PTL

-----------------------------------------------------------------------------
(* The heap implements the promise of malloc and free                      *)

(* The call a thread in state x is in.                                     *)
CallIn(x) ==
    IF x.pc \in AllocPlaces THEN [op |-> "malloc", size |-> x.size]
    ELSE IF x.pc \in FreePlaces THEN [op |-> "free", size |-> 0]
    ELSE [op |-> "none", size |-> 0]

Calls == [t \in Threads |-> CallIn(th[t])]

(* What a thread allocates, the program asked for.                         *)
SizesAsked == \A t \in Threads : th[t].pc \in AllocPlaces => th[t].size \in Requests

LEMMA PlacesApart ==
    /\ "idle" \notin AllocPlaces /\ "idle" \notin FreePlaces
    /\ AllocPlaces \cap FreePlaces = {}
  BY DEF AllocPlaces, FreePlaces

LEMMA CallsMapped ==
    /\ Abstract!NoCall = CallIn(IdleThread) /\ Abstract!FreeCall = [op |-> "free", size |-> 0]
    /\ \A size : Abstract!MallocCall(size) = [op |-> "malloc", size |-> size]
    /\ [t \in Threads |-> CallOf(t)] = Calls /\ [t \in Threads |-> CallOf(t)]' = Calls'
  BY PlacesApart DEF Abstract!NoCall, Abstract!FreeCall, Abstract!MallocCall, CallIn, CallOf, Calls, IdleThread

LEMMA CallMoves ==
    ASSUME IInv, NEW t \in Threads, NEW x, th' = [th EXCEPT ![t] = x]
    PROVE  Calls' = [Calls EXCEPT ![t] = CallIn(x)] /\ Calls[t] = CallIn(th[t])
  BY DEF IInv, ThreadsOK, Calls

(* A step inside a call changes nothing the program sees.                  *)
LEMMA InsideCall ==
    ASSUME IInv, SizesAsked, NEW t \in Threads, NEW x, th' = [th EXCEPT ![t] = x],
           held' = held,
           \/ th[t].pc \in AllocPlaces /\ x.pc \in AllocPlaces /\ x.size = th[t].size
           \/ th[t].pc \in FreePlaces /\ x.pc \in FreePlaces
    PROVE  SizesAsked' /\ [Abstract!AbsNext]_Abstract!absVars
<1>1. CallIn(x) = CallIn(th[t])
  BY PlacesApart DEF CallIn
<1>2. Calls' = Calls
  BY <1>1, CallMoves DEF Calls
<1>3. [u \in Threads |-> CallOf(u)]' = [u \in Threads |-> CallOf(u)]
  BY <1>2, CallsMapped
<1>4. \A u \in Threads : th'[u] = IF u = t THEN x ELSE th[u]
  BY OthersStay
<1>5. SizesAsked'
  BY <1>4, PlacesApart DEF SizesAsked
<1> QED BY <1>3, <1>5 DEF Abstract!absVars


(* A step out of the allocator returns.                                    *)
LEMMA CallReturns ==
    ASSUME IInv, SizesAsked, NEW t \in Threads, th' = [th EXCEPT ![t] = IdleThread],
           held' = held, th[t].pc \in AllocPlaces \cup FreePlaces
    PROVE  SizesAsked' /\ Abstract!AbsNext
<1>1. Calls' = [Calls EXCEPT ![t] = Abstract!NoCall] /\ Calls[t] = CallIn(th[t])
  BY CallMoves, CallsMapped
<1>2. Abstract!ReturnNull(t) \/ Abstract!ReturnFree(t)
  <2>1. CASE th[t].pc \in AllocPlaces
    <3>1. Calls[t].op = "malloc"
      BY <1>1, <2>1 DEF CallIn
    <3> QED BY <1>1, <3>1, CallsMapped DEF Abstract!ReturnNull
  <2>2. CASE th[t].pc \in FreePlaces
    <3>1. Calls[t] = Abstract!FreeCall
      BY <1>1, <2>2, PlacesApart, CallsMapped DEF CallIn
    <3> QED BY <1>1, <3>1, CallsMapped DEF Abstract!ReturnFree
  <2> QED BY <2>1, <2>2
<1>3. \A u \in Threads : th'[u] = IF u = t THEN IdleThread ELSE th[u]
  BY OthersStay
<1>4. SizesAsked'
  BY <1>3, PlacesApart DEF SizesAsked, IdleThread
<1> QED BY <1>2, <1>4 DEF Abstract!AbsNext

LEMMA MallocCalls ==
    ASSUME IInv, SizesAsked, NEW t \in Threads, NEW size \in Requests, Malloc(t, size)
    PROVE  SizesAsked' /\ Abstract!AbsNext
<1> DEFINE x == [th[t] EXCEPT !.pc = "lock_heap", !.heap = HeapOf[t], !.size = size]
<1>1. th[t].pc = "idle" /\ th' = [th EXCEPT ![t] = x] /\ held' = held
  BY DEF Malloc, At
<1>2. x.pc = "lock_heap" /\ x.size = size
  BY Facts DEF Thread
<1> HIDE DEF x
<1>3. /\ Calls' = [Calls EXCEPT ![t] = CallIn(x)] /\ Calls[t] = CallIn(th[t])
      /\ CallIn(x) = Abstract!MallocCall(size) /\ CallIn(th[t]) = Abstract!NoCall
  <2>1. CallIn(x) = [op |-> "malloc", size |-> size]
    BY <1>2 DEF CallIn, AllocPlaces
  <2>2. CallIn(th[t]) = CallIn(IdleThread)
    BY <1>1, PlacesApart DEF CallIn, IdleThread
  <2> QED BY <1>1, <2>1, <2>2, CallMoves, CallsMapped
<1>4. Abstract!CallMalloc(t, size)
  BY <1>1, <1>3, CallsMapped DEF Abstract!CallMalloc
<1>5. \A u \in Threads : th'[u] = IF u = t THEN x ELSE th[u]
  BY <1>1, OthersStay
<1>6. SizesAsked'
  BY <1>2, <1>5 DEF SizesAsked
<1> QED BY <1>4, <1>6 DEF Abstract!AbsNext

LEMMA FreeCalls ==
    ASSUME IInv, SizesAsked, NEW t \in Threads, NEW p \in held, Free(t, p)
    PROVE  SizesAsked' /\ Abstract!AbsNext
<1> DEFINE x == [th[t] EXCEPT !.pc = "lock_superblock", !.s_ptr = p.sb, !.off = p.off]
<1>1. th[t].pc = "idle" /\ th' = [th EXCEPT ![t] = x] /\ held' = held \ {p}
  BY DEF Free, At
<1>2. x.pc = "lock_superblock"
  BY Facts DEF Thread
<1> HIDE DEF x
<1>3. /\ Calls' = [Calls EXCEPT ![t] = CallIn(x)] /\ Calls[t] = CallIn(th[t])
      /\ CallIn(x) = Abstract!FreeCall /\ CallIn(th[t]) = Abstract!NoCall
  <2>1. CallIn(x) = [op |-> "free", size |-> 0]
    BY <1>2 DEF CallIn, AllocPlaces, FreePlaces
  <2>2. CallIn(th[t]) = CallIn(IdleThread)
    BY <1>1, PlacesApart DEF CallIn, IdleThread
  <2> QED BY <1>1, <2>1, <2>2, CallMoves, CallsMapped
<1>4. Abstract!CallFree(t, p)
  BY <1>1, <1>3, CallsMapped DEF Abstract!CallFree
<1>5. \A u \in Threads : th'[u] = IF u = t THEN x ELSE th[u]
  BY <1>1, OthersStay
<1>6. SizesAsked'
  BY <1>2, <1>5 DEF SizesAsked, AllocPlaces
<1> QED BY <1>4, <1>6 DEF Abstract!AbsNext

(* The block malloc returns is new, in one chunk, and of the size asked.   *)
LEMMA BlockReturned ==
    ASSUME IInv, BlocksInv, SizesAsked, IInv', BlocksInv',
           NEW t \in Threads, SuperblockAlloc(t)
    PROVE  SizesAsked' /\ Abstract!AbsNext
<1> DEFINE s == th[t].s_ptr
           a == AllocatedPtr(sb[s])
           p == [sb |-> s, off |-> a, size |-> th[t].size]
<1>1. /\ th[t].pc = "sb_alloc" /\ th' = [th EXCEPT ![t] = IdleThread]
      /\ held' = held \cup {p}
  BY DEF SuperblockAlloc, At, Return
<1>2. th[t].pc \in AllocPlaces /\ th[t].size \in Requests /\ s \in Superblocks
  BY <1>1, Facts DEF SizesAsked, PlaceIn, AllocPlaces
<1>3. p.sb = s /\ p.off = a /\ p.size = th[t].size
  OBVIOUS
<1>4. HasBlock(sb[s])
  BY DEF SuperblockAlloc, AllocDefined
<1> HIDE DEF p, a, s
<1> PICK z \in Superblocks : z = s
  BY <1>2
<1>5. p \notin held
  <2>1. BlocksOK(sb[z], HeldIn(z), BeingFreed(z), th) /\ sb[z] \in SuperblockHeader(Heaps)
    <3>1. z \in Mapped
      BY <1>1, Facts DEF PlaceIn, s
    <3> QED BY <3>1, Facts DEF BlocksInv
  <2>2. a \in FreeBlocks(sb[z])
    BY <1>4, <2>1, AllocBlocks DEF BlocksOK, a
  <2> QED BY <1>3, <2>1, <2>2 DEF BlocksOK, HeldIn
<1>6. BlocksDisjoint' /\ held' \subseteq Block
  <2>1. BlocksDisjoint'
    BY BlocksInvImplies, PTL
  <2> QED BY <2>1 DEF IInv, HeldOK
<1>7. th[t].size \in Nat \ {0}
  <2>1. max_block_size \in Nat
    BY Facts
  <2>2. Requests \subseteq 1 .. max_block_size
    BY HeapAssumption
  <2>3. th[t].size \in Requests
    BY <1>2
  <2>4. \A n \in Requests : n \in Nat \ {0}
    BY <2>1, <2>2
  <2> QED BY <2>3, <2>4
<1>8. p \in Block /\ p \in HeldIn(z)' /\ \A q \in held : q \in Block
  BY <1>1, <1>3, <1>6 DEF HeldIn
<1>9. /\ p.off + p.size <= BufferSize
      /\ \A q \in HeldIn(z)' \ {p} : p.off + p.size <= q.off \/ q.off + q.size <= p.off
  BY <1>6, <1>8 DEF BlocksDisjoint
<1>10. p \in [sb : Superblocks, off : 0 .. BufferSize - 1, size : Requests]
  <2>1. p.off \in Nat /\ BufferSize \in Nat
    BY <1>8, SizesAssumption DEF Block, BufferSize
  <2>2. p.off \in 0 .. BufferSize - 1
    BY <1>3, <1>7, <1>9, <2>1
  <2> QED BY <1>2, <1>3, <1>8, <2>2 DEF Block
<1>11. ASSUME NEW q \in held PROVE ~Abstract!Overlap(p, q)
  <2>1. CASE q.sb # p.sb
    BY <2>1 DEF Abstract!Overlap
  <2>2. CASE q.sb = p.sb
    <3>1. q \in HeldIn(z)' \ {p}
      BY <1>1, <1>3, <1>5, <2>2 DEF HeldIn
    <3>2. p.off + p.size <= q.off \/ q.off + q.size <= p.off
      BY <1>9, <3>1
    <3>3. p.off \in Nat /\ p.size \in Nat /\ q.off \in Nat /\ q.size \in Nat
      BY <1>8 DEF Block
    <3> QED BY <3>2, <3>3 DEF Abstract!Overlap
  <2> QED BY <2>1, <2>2
<1>12. Calls' = [Calls EXCEPT ![t] = Abstract!NoCall] /\ Calls[t] = CallIn(th[t])
  BY <1>1, CallMoves, CallsMapped
<1>13. Calls[t].op = "malloc" /\ Calls[t].size = p.size
  BY <1>2, <1>3, <1>12 DEF CallIn
<1>14. Abstract!ReturnBlock(t, p)
  BY <1>1, <1>9, <1>11, <1>12, <1>13, CallsMapped DEF Abstract!ReturnBlock
<1>15. \A u \in Threads : th'[u] = IF u = t THEN IdleThread ELSE th[u]
  BY <1>1, OthersStay
<1>16. SizesAsked'
  BY <1>15, PlacesApart DEF SizesAsked, IdleThread
<1> QED BY <1>10, <1>14, <1>16 DEF Abstract!AbsNext

(* Thread t goes on with its call, in state x.                             *)
Inside(t, x) ==
    /\ th' = [th EXCEPT ![t] = x] /\ held' = held
    /\ \/ th[t].pc \in AllocPlaces /\ x.pc \in AllocPlaces /\ x.size = th[t].size
       \/ th[t].pc \in FreePlaces /\ x.pc \in FreePlaces

(* A step of a call stays inside it, returns or crashes.                   *)
LEMMA CallContinues ==
    ASSUME IInv, NEW t \in Threads, Continue(t)
    PROVE  \/ \E x : Inside(t, x)
           \/ /\ th' = [th EXCEPT ![t] = IdleThread]
              /\ th[t].pc \in AllocPlaces \cup FreePlaces
              /\ held' = held \/ SuperblockAlloc(t)
           \/ Crash(t)
<1>1. th[t] \in Thread
  BY Facts DEF PlaceIn
<1>2. CASE \/ LockHeap(t) \/ AskGlobal(t) \/ LockGlobal(t) \/ TakeNothing(t) \/ Adopt(t)
           \/ LockOwner(t) \/ BinFree(t) \/ LockGlobalForTransfer(t)
  <2>1. PICK pc : Inside(t, [th[t] EXCEPT !.pc = pc])
    BY <1>1, <1>2 DEF LockHeap, AskGlobal, LockGlobal, TakeNothing, Adopt, LockOwner,
          BinFree, LockGlobalForTransfer, At, Goto, Thread, AllocPlaces, FreePlaces, Inside
  <2> QED BY <2>1
<1>3. CASE \/ ChooseInBin(t) \/ Recycle(t) \/ TakeNonfull(t) \/ TakeRecycled(t)
           \/ \E s \in Superblocks : MapSuperblock(t, s)
  <2> DEFINE To(pc, s)   == [th[t] EXCEPT !.pc = pc, !.s_ptr = s]
             InBinTo(s) == [th[t] EXCEPT !.pc = "sb_alloc", !.in_bin = TRUE, !.s_ptr = s]
  <2>1. PICK pc, s : /\ th' = [th EXCEPT ![t] = To(pc, s)] \/ th' = [th EXCEPT ![t] = InBinTo(s)]
                     /\ held' = held /\ th[t].pc \in AllocPlaces /\ pc \in AllocPlaces
    <3>1. "sb_alloc" \in AllocPlaces /\ "adopt" \in AllocPlaces
      BY DEF AllocPlaces
    <3> QED BY <1>3, <3>1, FoundMoves
  <2>2. /\ To(pc, s).pc = pc /\ To(pc, s).size = th[t].size
        /\ InBinTo(s).pc = "sb_alloc" /\ InBinTo(s).size = th[t].size
    BY <1>1 DEF Thread
  <2>3. Inside(t, To(pc, s)) \/ Inside(t, InBinTo(s))
    BY <2>1, <2>2 DEF AllocPlaces, Inside
  <2> QED BY <2>3
<1>4. CASE LockSuperblock(t) \/ GiveRecycled(t) \/ GiveEmptiest(t)
  <2>1. PICK x : th' = [th EXCEPT ![t] = x] /\ x.pc \in { "lock_owner", "transfer" }
    <3>1. CASE LockSuperblock(t)
      <4> DEFINE s == th[t].s_ptr
                 x == [th[t] EXCEPT !.pc = "lock_owner", !.heap = sb[s].owner,
                                    !.size = sb[s].block_size]
      <4>1. th' = [th EXCEPT ![t] = x]
        BY <3>1 DEF LockSuperblock
      <4>2. x.pc = "lock_owner"
        BY <1>1 DEF Thread
      <4> HIDE DEF x
      <4> QED BY <4>1, <4>2
    <3>2. CASE GiveRecycled(t) \/ GiveEmptiest(t)
      BY <1>1, <3>2, GivesMove
    <3> QED BY <1>4, <3>1, <3>2
  <2>2. th[t].pc \in { "lock_superblock", "account" } /\ held' = held
    BY <1>4 DEF LockSuperblock, GiveRecycled, GiveEmptiest, At
  <2>3. Inside(t, x)
    BY <2>1, <2>2 DEF FreePlaces, Inside
  <2> QED BY <2>3
<1>5. CASE \/ MmapFails(t) \/ FreeFromGlobal(t) \/ FreeAndKeep(t)
           \/ InsertRecycled(t) \/ InsertIntoBin(t)
  BY <1>5 DEF MmapFails, FreeFromGlobal, FreeAndKeep, InsertRecycled, InsertIntoBin,
     At, Return, AllocPlaces, FreePlaces
<1>6. CASE SuperblockAlloc(t)
  BY <1>6 DEF SuperblockAlloc, At, Return, AllocPlaces
<1>7. CASE Crash(t)
  BY <1>7
<1> QED BY <1>2, <1>3, <1>4, <1>5, <1>6, <1>7 DEF Continue

(* The program's sizes are all that a thread allocates.                    *)
LEMMA SizesStayAsked ==
    IInv /\ SizesAsked /\ [Next]_vars => SizesAsked'
<1> SUFFICES ASSUME IInv, SizesAsked, [Next]_vars PROVE SizesAsked'
  OBVIOUS
<1>1. ASSUME NEW t \in Threads, Call(t) PROVE SizesAsked'
  BY <1>1, MallocCalls, FreeCalls DEF Call
<1>2. ASSUME NEW t \in Threads, Continue(t) PROVE SizesAsked'
  <2>1. ASSUME NEW x, Inside(t, x) PROVE SizesAsked'
    BY <2>1, InsideCall DEF Inside
  <2>2. ASSUME th' = [th EXCEPT ![t] = IdleThread] PROVE SizesAsked'
    <3>1. \A u \in Threads : th'[u] = IF u = t THEN IdleThread ELSE th[u]
      BY <2>2, OthersStay
    <3> QED BY <3>1, PlacesApart DEF SizesAsked, IdleThread
  <2>3. ASSUME Crash(t) PROVE SizesAsked'
    BY <2>3 DEF Crash, SizesAsked
  <2> QED BY <1>2, <2>1, <2>2, <2>3, CallContinues
<1>3. ASSUME UNCHANGED vars PROVE SizesAsked'
  BY <1>3 DEF vars, SizesAsked
<1> QED BY <1>1, <1>2, <1>3 DEF Next, Stopped

LEMMA StepsImplement ==
    IInv /\ BlocksInv /\ SizesAsked /\ IInv' /\ BlocksInv' /\ [Next]_vars
    => [Abstract!AbsNext]_Abstract!absVars
<1> SUFFICES ASSUME IInv, BlocksInv, SizesAsked, IInv', BlocksInv', [Next]_vars
             PROVE  [Abstract!AbsNext]_Abstract!absVars
  OBVIOUS
<1>1. ASSUME NEW t \in Threads, Call(t)
      PROVE  Abstract!AbsNext
  BY <1>1, MallocCalls, FreeCalls DEF Call
<1>2. ASSUME NEW t \in Threads, Continue(t)
      PROVE  [Abstract!AbsNext]_Abstract!absVars
  <2>1. ASSUME NEW x, Inside(t, x) PROVE [Abstract!AbsNext]_Abstract!absVars
    BY <2>1, InsideCall DEF Inside
  <2>2. ASSUME th' = [th EXCEPT ![t] = IdleThread], held' = held,
               th[t].pc \in AllocPlaces \cup FreePlaces
        PROVE  Abstract!AbsNext
    BY <2>2, CallReturns
  <2>3. ASSUME SuperblockAlloc(t) PROVE Abstract!AbsNext
    BY <2>3, BlockReturned
  <2>4. ASSUME Crash(t) PROVE UNCHANGED Abstract!absVars
    <3>1. th' = th /\ held' = held
      BY <2>4 DEF Crash
    <3>2. [u \in Threads |-> CallOf(u)]' = [u \in Threads |-> CallOf(u)]
      BY <3>1 DEF CallOf
    <3> QED BY <3>1, <3>2 DEF Abstract!absVars
  <2> QED BY <1>2, <2>1, <2>2, <2>3, <2>4, CallContinues
<1>3. ASSUME UNCHANGED vars
      PROVE  UNCHANGED Abstract!absVars
  <2>1. th' = th /\ held' = held
    BY <1>3 DEF vars
  <2>2. [u \in Threads |-> CallOf(u)]' = [u \in Threads |-> CallOf(u)]
    BY <2>1 DEF CallOf
  <2> QED BY <2>1, <2>2 DEF Abstract!absVars
<1> QED BY <1>1, <1>2, <1>3 DEF Next, Stopped

LEMMA ImplementsInitially == Init => SizesAsked /\ Abstract!AbsInit
<1> SUFFICES ASSUME Init PROVE SizesAsked /\ Abstract!AbsInit
  OBVIOUS
<1>1. th = [t \in Threads |-> IdleThread] /\ held = {}
  BY DEF Init
<1>2. SizesAsked
  BY <1>1, PlacesApart DEF SizesAsked, IdleThread
<1>3. Calls = [t \in Threads |-> Abstract!NoCall]
  BY <1>1, CallsMapped DEF Calls
<1> QED BY <1>1, <1>2, <1>3, CallsMapped DEF Abstract!AbsInit

(* Every behaviour of the heap is one the promise of malloc and free       *)
(* allows.                                                                 *)
THEOREM HeapImplementsAllocator ==
    Spec /\ []RecycledEmpty /\ []AllocatesFromItsBin => ImplementsAllocator
<1>1. Init => SizesAsked /\ Abstract!AbsInit
  BY ImplementsInitially
<1>2. IInv /\ BlocksInv /\ SizesAsked /\ IInv' /\ BlocksInv' /\ [Next]_vars
      => [Abstract!AbsNext]_Abstract!absVars
  BY StepsImplement
<1>3. IInv /\ SizesAsked /\ [Next]_vars => SizesAsked'
  BY SizesStayAsked
<1> QED BY <1>1, <1>2, <1>3, InvariantHolds, BlocksInvHolds, PTL
     DEF Spec, ImplementsAllocator, Abstract!AbsSpec

=============================================================================
