-------------------------- MODULE BinManagerProofs --------------------------
(***************************************************************************)
(* Facts about the operators of Superblock and BinManager: what the        *)
(* searches return, what every operation keeps of the types, and where the *)
(* links it writes can lead.                                               *)
(***************************************************************************)
EXTENDS BinManager, TLAPS, WellFoundedInduction

-----------------------------------------------------------------------------
(* Arithmetic *)

(* A remainder by a positive number is smaller than the number.            *)
LEMMA RemainderRange ==
    ASSUME NEW m \in Nat \ {0}, NEW a \in Int
    PROVE  a % m \in 0 .. m - 1
  BY SMT

(* A quotient by a positive number is not larger than the dividend.        *)
LEMMA QuotientRange ==
    ASSUME NEW a \in Nat, NEW b \in Nat \ {0}
    PROVE  a \div b \in 0 .. a
  BY SMT

(* A set of natural numbers that is not empty has a least element.         *)
LEMMA LeastExists ==
    ASSUME NEW T \in SUBSET Nat, T # {}
    PROVE  \E x \in T : \A y \in T : x <= y
<1> DEFINE R == OpToRel(<, Nat)
<1>1. \E x \in T : \A y \in T : ~ (<< y, x >> \in R)
  <2>1. IsWellFoundedOn(R, Nat)
    BY NatLessThanWellFounded
  <2> HIDE DEF R
  <2> QED BY <2>1, WFMin
<1>2. \A x, y \in Nat : y < x => << y, x >> \in R
  BY DEF OpToRel
<1> HIDE DEF R
<1>3. PICK x \in T : \A y \in T : ~ (<< y, x >> \in R)
  BY <1>1
<1>4. ASSUME NEW y \in T PROVE x <= y
  <2>1. x \in Nat /\ y \in Nat
    OBVIOUS
  <2>2. ~ (y < x)
    BY <1>2, <1>3, <2>1
  <2> QED BY <2>1, <2>2
<1> QED BY <1>4

(* A bounded set of natural numbers that is not empty has a greatest one.  *)
LEMMA GreatestExists ==
    ASSUME NEW n \in Nat, NEW T \in SUBSET (0 .. n), T # {}
    PROVE  \E x \in T : \A y \in T : y <= x
<1> DEFINE U == { n - x : x \in T }
<1>1. U \in SUBSET Nat /\ U # {}
  <2>1. ASSUME NEW x \in T PROVE n - x \in Nat
    <3>1. x \in 0 .. n
      OBVIOUS
    <3> QED BY <3>1
  <2>2. PICK x \in T : TRUE
    OBVIOUS
  <2>3. n - x \in U
    OBVIOUS
  <2> QED BY <2>1, <2>3
<1>2. PICK u \in U : \A v \in U : u <= v
  <2> HIDE DEF U
  <2> QED BY <1>1, LeastExists
<1>3. PICK x \in T : u = n - x
  OBVIOUS
<1>4. \A y \in T : n - y \in U
  OBVIOUS
<1> HIDE DEF U
<1> QED BY <1>2, <1>3, <1>4

-----------------------------------------------------------------------------
(* Searches *)

(* The last bin has the largest blocks.                                    *)
LEMMA LargestBin ==
    /\ max_block_size \in Nat \ {0}
    /\ \A b \in Bins : SizeTable[b] \in Nat \ {0} /\ SizeTable[b] <= max_block_size
<1>1. num_size_bins - 1 \in Bins
  BY SizeTableAssumption DEF Bins
<1>2. \A b \in Bins : b = num_size_bins - 1 \/ b < num_size_bins - 1
  BY SizeTableAssumption DEF Bins
<1> QED BY <1>1, <1>2, SizeTableAssumption DEF max_block_size

(* Every size heap_alloc serves has a bin, and its blocks are no smaller.  *)
LEMMA SizeHasBin ==
    ASSUME NEW size \in Nat, size <= max_block_size
    PROVE  size2idx(size) \in Bins /\ size <= idx2class(size2idx(size))
<1> DEFINE T == { i \in Bins : size <= SizeTable[i] }
<1>1. T \in SUBSET Nat
  BY DEF Bins
<1>2. num_size_bins - 1 \in T
  BY SizeTableAssumption DEF Bins, max_block_size
<1>3. PICK i \in T : \A j \in T : i <= j
  <2> HIDE DEF T
  <2> QED BY <1>1, <1>2, LeastExists
<1>4. i \in Bins /\ size <= SizeTable[i] /\ \A j \in Bins : size <= SizeTable[j] => i <= j
  BY <1>3
<1> QED BY <1>4 DEF size2idx, idx2class

-----------------------------------------------------------------------------
(* Superblock operations *)

(* reset_superblock gives a well typed header, of the same owner and on no *)
(* list.                                                                   *)
LEMMA ResetTyped ==
    ASSUME NEW H, NEW header \in SuperblockHeader(H), NEW b \in Nat \ {0}
    PROVE  LET r == reset_superblock(header, b)
           IN  /\ r \in SuperblockHeader(H)
               /\ r.owner = header.owner /\ r.block_size = b
               /\ r.prev = NULL /\ r.next = NULL
<1> DEFINE total == BufferSize \div b
<1>1. BufferSize \in Nat /\ BufferSize < UINT_MOD
  BY SizesAssumption DEF BufferSize
<1>2. total \in Nat /\ total \in 0 .. UINT_MOD - 1
  <2>1. total \in 0 .. BufferSize
    BY <1>1, QuotientRange
  <2> HIDE DEF total
  <2> QED BY <2>1, <1>1, SizesAssumption
<1>3. << >> \in Seq(Nat)
  OBVIOUS
<1> DEFINE r1 == [header EXCEPT !.block_size = b, !.total_blocks = total,
                                !.prev = NULL, !.next = NULL]
           r2 == [r1 EXCEPT !.reapable_blocks = total, !.num_free_blocks = total,
                            !.free_list = << >>, !.reap_position = 0]
<1>4. reset_superblock(header, b) = r2
  BY DEF reset_superblock
<1> HIDE DEF total
<1>5. /\ r1 \in SuperblockHeader(H)
      /\ r1.owner = header.owner /\ r1.block_size = b
      /\ r1.prev = NULL /\ r1.next = NULL
  BY <1>2 DEF SuperblockHeader
<1> HIDE DEF r1
<1>6. /\ r2 \in SuperblockHeader(H)
      /\ r2.owner = r1.owner /\ r2.block_size = r1.block_size
      /\ r2.prev = r1.prev /\ r2.next = r1.next
  BY <1>2, <1>3, <1>5 DEF SuperblockHeader
<1> HIDE DEF r2
<1> QED BY <1>4, <1>5, <1>6

(* superblock_alloc keeps owner, block size and links.                     *)
LEMMA AllocTyped ==
    ASSUME NEW H, NEW header \in SuperblockHeader(H), HasBlock(header)
    PROVE  LET r == superblock_alloc(header)
           IN  /\ r \in SuperblockHeader(H)
               /\ r.owner = header.owner /\ r.block_size = header.block_size
               /\ r.prev = header.prev /\ r.next = header.next
               /\ AllocatedPtr(header) \in Nat
<1> DEFINE n == (header.num_free_blocks - 1) % UINT_MOD
<1>1. n \in 0 .. UINT_MOD - 1
  <2>1. header.num_free_blocks - 1 \in Int /\ UINT_MOD \in Nat \ {0}
    BY SizesAssumption DEF SuperblockHeader
  <2> QED BY <2>1, RemainderRange
<1>2. CASE header.reapable_blocks > 0
  <2>1. superblock_alloc(header) =
          [header EXCEPT !.num_free_blocks = n,
                         !.reap_position = header.reap_position + header.block_size,
                         !.reapable_blocks = header.reapable_blocks - 1]
    BY <1>2 DEF superblock_alloc, SuperblockHeader
  <2>2. AllocatedPtr(header) = header.reap_position
    BY <1>2 DEF AllocatedPtr
  <2>3. /\ header.reapable_blocks - 1 \in 0 .. UINT_MOD - 1
        /\ header.reap_position + header.block_size \in Nat
        /\ header.reap_position \in Nat
    BY <1>2, SizesAssumption DEF SuperblockHeader
  <2> HIDE DEF n
  <2> QED BY <1>1, <2>1, <2>2, <2>3 DEF SuperblockHeader
<1>3. CASE ~(header.reapable_blocks > 0)
  <2>1. superblock_alloc(header) =
          [header EXCEPT !.num_free_blocks = n, !.free_list = Tail(header.free_list)]
    BY <1>3 DEF superblock_alloc, SuperblockHeader
  <2>2. AllocatedPtr(header) = Head(header.free_list)
    BY <1>3 DEF AllocatedPtr
  <2>3. header.free_list \in Seq(Nat) /\ header.free_list # << >>
    BY <1>3 DEF HasBlock, SuperblockHeader
  <2>4. Tail(header.free_list) \in Seq(Nat) /\ Head(header.free_list) \in Nat
    BY <2>3
  <2> HIDE DEF n
  <2> QED BY <1>1, <2>1, <2>2, <2>4 DEF SuperblockHeader
<1> QED BY <1>2, <1>3

(* So does superblock_free.                                                *)
LEMMA FreeTyped ==
    ASSUME NEW H, NEW header \in SuperblockHeader(H), NEW ptr \in Nat
    PROVE  LET r == superblock_free(header, ptr)
           IN  /\ r \in SuperblockHeader(H)
               /\ r.owner = header.owner /\ r.block_size = header.block_size
               /\ r.prev = header.prev /\ r.next = header.next
<1> DEFINE n == (header.num_free_blocks + 1) % UINT_MOD
           l == << ptr >> \o header.free_list
<1>1. n \in 0 .. UINT_MOD - 1
  <2>1. header.num_free_blocks + 1 \in Int /\ UINT_MOD \in Nat \ {0}
    BY SizesAssumption DEF SuperblockHeader
  <2> QED BY <2>1, RemainderRange
<1>2. l \in Seq(Nat)
  BY DEF SuperblockHeader
<1>3. superblock_free(header, ptr) =
        IF Misaligned(ptr) THEN header
        ELSE [header EXCEPT !.free_list = l, !.num_free_blocks = n]
  BY DEF superblock_free
<1> HIDE DEF n, l
<1> QED BY <1>1, <1>2, <1>3 DEF SuperblockHeader

(* used_bytes is an integer.                                               *)
LEMMA UsedBytesTyped ==
    ASSUME NEW H, NEW header \in SuperblockHeader(H)
    PROVE  used_bytes(header) \in Int
<1>1. /\ header.total_blocks - header.num_free_blocks \in Int
      /\ header.block_size \in Int
  BY DEF SuperblockHeader
<1>2. \A a, b \in Int : a * b \in Int
  OBVIOUS
<1> QED BY <1>1, <1>2 DEF used_bytes

-----------------------------------------------------------------------------
(* List operations *)

(* The headers and one bin manager are well typed, and no pointer in them  *)
(* leads out of the set M of superblocks.                                  *)
HeadersIn(H, M, sb) ==
    /\ sb \in [Superblocks -> SuperblockHeader(H)]
    /\ \A s \in Superblocks : /\ sb[s].prev \in M \cup {NULL}
                              /\ sb[s].next \in M \cup {NULL}

ManagerIn(M, bm) ==
    /\ bm \in BinManagerRecord
    /\ \A e \in EmptinessClasses : bm.emptiness_bins[e] \in M \cup {NULL}

(* Two headers count and hand out the same blocks.                         *)
SameBlocks(h1, h2) ==
    /\ h2.block_size      = h1.block_size
    /\ h2.total_blocks    = h1.total_blocks
    /\ h2.reapable_blocks = h1.reapable_blocks
    /\ h2.num_free_blocks = h1.num_free_blocks
    /\ h2.free_list       = h1.free_list
    /\ h2.reap_position   = h1.reap_position

(* Only links differ.                                                      *)
SameButLinks(sb1, sb2) ==
    \A s \in Superblocks : sb2[s].owner = sb1[s].owner /\ SameBlocks(sb1[s], sb2[s])

(* Links and blocks may differ.                                            *)
SameOwners(sb1, sb2) ==
    \A s \in Superblocks : /\ sb2[s].owner      = sb1[s].owner
                           /\ sb2[s].block_size = sb1[s].block_size

LEMMA SameButLinksTwice ==
    ASSUME NEW f, NEW g, NEW h, SameButLinks(f, g), SameButLinks(g, h)
    PROVE  SameButLinks(f, h)
<1>1. ASSUME NEW s \in Superblocks
      PROVE  h[s].owner = f[s].owner /\ SameBlocks(f[s], h[s])
  <2>1. SameBlocks(f[s], g[s]) /\ SameBlocks(g[s], h[s])
        /\ g[s].owner = f[s].owner /\ h[s].owner = g[s].owner
    BY DEF SameButLinks
  <2> QED BY <2>1 DEF SameBlocks
<1> QED BY <1>1 DEF SameButLinks

(* Writing one link.                                                       *)
LEMMA SetNext ==
    ASSUME NEW H, NEW M \in SUBSET Superblocks, NEW sb, HeadersIn(H, M, sb),
           NEW a \in Superblocks, NEW v \in M \cup {NULL}
    PROVE  /\ HeadersIn(H, M, [sb EXCEPT ![a].next = v])
           /\ SameButLinks(sb, [sb EXCEPT ![a].next = v])
<1> DEFINE new == [sb EXCEPT ![a].next = v]
<1>1. \A s \in Superblocks : sb[s] \in SuperblockHeader(H)
  BY DEF HeadersIn
<1>2. new \in [Superblocks -> SuperblockHeader(H)]
  <2> DEFINE r == [sb[a] EXCEPT !.next = v]
  <2>1. r \in SuperblockHeader(H)
    BY <1>1 DEF SuperblockHeader
  <2>2. new = [sb EXCEPT ![a] = r] /\ sb \in [Superblocks -> SuperblockHeader(H)]
    BY DEF HeadersIn
  <2> HIDE DEF new, r
  <2> QED BY <2>1, <2>2
<1>3. \A s \in Superblocks : /\ new[s].prev = sb[s].prev
                             /\ new[s].next = IF s = a THEN v ELSE sb[s].next
                             /\ new[s].owner = sb[s].owner
                             /\ SameBlocks(sb[s], new[s])
  BY <1>1 DEF HeadersIn, SuperblockHeader, SameBlocks
<1>4. HeadersIn(H, M, new) /\ SameButLinks(sb, new)
  <2> HIDE DEF new
  <2> QED BY <1>2, <1>3 DEF HeadersIn, SameButLinks
<1> QED BY <1>4

LEMMA SetPrev ==
    ASSUME NEW H, NEW M \in SUBSET Superblocks, NEW sb, HeadersIn(H, M, sb),
           NEW a \in Superblocks, NEW v \in M \cup {NULL}
    PROVE  /\ HeadersIn(H, M, [sb EXCEPT ![a].prev = v])
           /\ SameButLinks(sb, [sb EXCEPT ![a].prev = v])
<1> DEFINE new == [sb EXCEPT ![a].prev = v]
<1>1. \A s \in Superblocks : sb[s] \in SuperblockHeader(H)
  BY DEF HeadersIn
<1>2. new \in [Superblocks -> SuperblockHeader(H)]
  <2> DEFINE r == [sb[a] EXCEPT !.prev = v]
  <2>1. r \in SuperblockHeader(H)
    BY <1>1 DEF SuperblockHeader
  <2>2. new = [sb EXCEPT ![a] = r] /\ sb \in [Superblocks -> SuperblockHeader(H)]
    BY DEF HeadersIn
  <2> HIDE DEF new, r
  <2> QED BY <2>1, <2>2
<1>3. \A s \in Superblocks : /\ new[s].next = sb[s].next
                             /\ new[s].prev = IF s = a THEN v ELSE sb[s].prev
                             /\ new[s].owner = sb[s].owner
                             /\ SameBlocks(sb[s], new[s])
  BY <1>1 DEF HeadersIn, SuperblockHeader, SameBlocks
<1>4. HeadersIn(H, M, new) /\ SameButLinks(sb, new)
  <2> HIDE DEF new
  <2> QED BY <1>2, <1>3 DEF HeadersIn, SameButLinks
<1> QED BY <1>4

(* push_into_bin, where it is defined, keeps the pointers in M.            *)
LEMMA PushKeepsLists ==
    ASSUME NEW H, NEW M \in SUBSET Superblocks,
           NEW sb, HeadersIn(H, M, sb), NEW bm, ManagerIn(M, bm),
           NEW s \in M, NEW eidx, PushDefined(sb, bm, eidx)
    PROVE  LET r == push_into_bin(sb, bm, eidx, s)
           IN  /\ HeadersIn(H, M, r.sb) /\ SameButLinks(sb, r.sb)
               /\ ManagerIn(M, r.bm)
<1> DEFINE head == bm.emptiness_bins[eidx]
           tail == sb[head].prev
           r    == push_into_bin(sb, bm, eidx, s)
<1>1. eidx \in EmptinessClasses /\ head \in M \cup {NULL}
  BY DEF PushDefined, ManagerIn
<1>2. HeadersIn(H, M, r.sb) /\ SameButLinks(sb, r.sb)
  <2>1. CASE head = NULL
    <3> DEFINE a == [sb EXCEPT ![s].prev = s]
               b == [a EXCEPT ![s].next = s]
    <3>1. HeadersIn(H, M, a) /\ SameButLinks(sb, a)
      BY SetPrev
    <3>2. HeadersIn(H, M, b) /\ SameButLinks(a, b)
      <4> HIDE DEF a
      <4> QED BY <3>1, SetNext
    <3>3. r.sb = b
      BY <2>1 DEF push_into_bin
    <3> HIDE DEF a, b
    <3> QED BY <3>1, <3>2, <3>3, SameButLinksTwice
  <2>2. CASE head # NULL
    <3> DEFINE a == [sb EXCEPT ![tail].next = s]
               b == [a EXCEPT ![s].prev = tail]
               c == [b EXCEPT ![s].next = head]
               d == [c EXCEPT ![head].prev = s]
    <3>1. head \in M /\ tail \in M
      BY <1>1, <2>2 DEF PushDefined, HeadersIn
    <3>2. HeadersIn(H, M, a) /\ SameButLinks(sb, a)
      BY <3>1, SetNext
    <3>3. HeadersIn(H, M, b) /\ SameButLinks(a, b)
      <4> HIDE DEF a
      <4> QED BY <3>1, <3>2, SetPrev
    <3>4. HeadersIn(H, M, c) /\ SameButLinks(b, c)
      <4> HIDE DEF b
      <4> QED BY <3>1, <3>3, SetNext
    <3>5. HeadersIn(H, M, d) /\ SameButLinks(c, d)
      <4> HIDE DEF c
      <4> QED BY <3>1, <3>4, SetPrev
    <3>6. r.sb = d
      BY <2>2 DEF push_into_bin
    <3> HIDE DEF a, b, c, d
    <3> QED BY <3>2, <3>3, <3>4, <3>5, <3>6, SameButLinksTwice
  <2> QED BY <2>1, <2>2
<1>3. ManagerIn(M, r.bm)
  <2> DEFINE n == bm.num_nonfull_superblocks
  <2>1. n \in 0 .. UINT_MOD - 1 /\ (n + 1) % UINT_MOD \in 0 .. UINT_MOD - 1
    <3>1. n \in 0 .. UINT_MOD - 1
      BY DEF ManagerIn, BinManagerRecord
    <3>2. n + 1 \in Int /\ UINT_MOD \in Nat \ {0}
      BY <3>1, SizesAssumption
    <3> HIDE DEF n
    <3>3. (n + 1) % UINT_MOD \in 0 .. UINT_MOD - 1
      BY <3>2, RemainderRange
    <3> QED BY <3>1, <3>3
  <2>2. r.bm = [ emptiness_bins |-> [bm.emptiness_bins EXCEPT ![eidx] = s],
                 num_nonfull_superblocks |-> IF eidx > 0 THEN (n + 1) % UINT_MOD ELSE n ]
    BY DEF push_into_bin, ManagerIn, BinManagerRecord
  <2> DEFINE bins == [bm.emptiness_bins EXCEPT ![eidx] = s]
             m    == IF eidx > 0 THEN (n + 1) % UINT_MOD ELSE n
  <2>5. /\ bins \in [EmptinessClasses -> Superblocks \cup {NULL}]
        /\ \A e \in EmptinessClasses : bins[e] \in M \cup {NULL}
    <3>1. bm.emptiness_bins \in [EmptinessClasses -> Superblocks \cup {NULL}]
      BY DEF ManagerIn, BinManagerRecord
    <3> QED BY <3>1, <1>1 DEF ManagerIn
  <2>6. m \in 0 .. UINT_MOD - 1
    BY <2>1
  <2>7. r.bm = [ emptiness_bins |-> bins, num_nonfull_superblocks |-> m ]
    BY <2>2
  <2> HIDE DEF r, bins, m
  <2>8. r.bm \in BinManagerRecord /\ r.bm.emptiness_bins = bins
    BY <2>5, <2>6, <2>7 DEF BinManagerRecord
  <2> QED BY <2>5, <2>8 DEF ManagerIn
<1> QED BY <1>2, <1>3

(* So does delete_from_bin.                                                *)
LEMMA DeleteKeepsLists ==
    ASSUME NEW H, NEW M \in SUBSET Superblocks,
           NEW sb, HeadersIn(H, M, sb), NEW bm, ManagerIn(M, bm),
           NEW s \in M, NEW eidx, DeleteDefined(sb, eidx, s)
    PROVE  LET r == delete_from_bin(sb, bm, eidx, s)
           IN  /\ HeadersIn(H, M, r.sb) /\ SameButLinks(sb, r.sb)
               /\ ManagerIn(M, r.bm)
<1> DEFINE prev_sb == sb[s].prev
           next_sb == sb[s].next
           r       == delete_from_bin(sb, bm, eidx, s)
<1>1. eidx \in EmptinessClasses /\ prev_sb \in M \cup {NULL} /\ next_sb \in M \cup {NULL}
  BY DEF DeleteDefined, HeadersIn
<1>2. HeadersIn(H, M, r.sb) /\ SameButLinks(sb, r.sb)
  <2>1. CASE prev_sb = s
    BY <2>1 DEF delete_from_bin, SameButLinks, SameBlocks
  <2>2. CASE prev_sb # s
    <3> DEFINE a == [sb EXCEPT ![prev_sb].next = next_sb]
               b == [a EXCEPT ![next_sb].prev = prev_sb]
    <3>1. prev_sb \in M /\ next_sb \in M
      BY <1>1, <2>2 DEF DeleteDefined
    <3>2. HeadersIn(H, M, a) /\ SameButLinks(sb, a)
      BY <3>1, SetNext
    <3>3. HeadersIn(H, M, b) /\ SameButLinks(a, b)
      <4> HIDE DEF a
      <4> QED BY <3>1, <3>2, SetPrev
    <3>4. r.sb = b
      BY <2>2 DEF delete_from_bin
    <3> HIDE DEF a, b
    <3> QED BY <3>2, <3>3, <3>4, SameButLinksTwice
  <2> QED BY <2>1, <2>2
<1>3. ManagerIn(M, r.bm)
  <2> DEFINE n == bm.num_nonfull_superblocks
             h == IF prev_sb = s THEN NULL
                  ELSE IF bm.emptiness_bins[eidx] = s THEN next_sb
                  ELSE bm.emptiness_bins[eidx]
  <2>1. n \in 0 .. UINT_MOD - 1 /\ (n - 1) % UINT_MOD \in 0 .. UINT_MOD - 1
    <3>1. n \in 0 .. UINT_MOD - 1
      BY DEF ManagerIn, BinManagerRecord
    <3>2. n - 1 \in Int /\ UINT_MOD \in Nat \ {0}
      BY <3>1, SizesAssumption
    <3> HIDE DEF n
    <3>3. (n - 1) % UINT_MOD \in 0 .. UINT_MOD - 1
      BY <3>2, RemainderRange
    <3> QED BY <3>1, <3>3
  <2>2. h \in M \cup {NULL}
    BY <1>1 DEF ManagerIn
  <2>3. r.bm = [ emptiness_bins |-> [bm.emptiness_bins EXCEPT ![eidx] = h],
                 num_nonfull_superblocks |-> IF eidx > 0 THEN (n - 1) % UINT_MOD ELSE n ]
    BY DEF delete_from_bin, ManagerIn, BinManagerRecord
  <2> HIDE DEF h
  <2> DEFINE bins == [bm.emptiness_bins EXCEPT ![eidx] = h]
             m    == IF eidx > 0 THEN (n - 1) % UINT_MOD ELSE n
  <2>5. /\ bins \in [EmptinessClasses -> Superblocks \cup {NULL}]
        /\ \A e \in EmptinessClasses : bins[e] \in M \cup {NULL}
    <3>1. bm.emptiness_bins \in [EmptinessClasses -> Superblocks \cup {NULL}]
      BY DEF ManagerIn, BinManagerRecord
    <3> QED BY <3>1, <2>2, <1>1 DEF ManagerIn
  <2>6. m \in 0 .. UINT_MOD - 1
    BY <2>1
  <2>7. r.bm = [ emptiness_bins |-> bins, num_nonfull_superblocks |-> m ]
    BY <2>3
  <2> HIDE DEF r, bins, m
  <2>8. r.bm \in BinManagerRecord /\ r.bm.emptiness_bins = bins
    BY <2>5, <2>6, <2>7 DEF BinManagerRecord
  <2> QED BY <2>5, <2>8 DEF ManagerIn
<1> QED BY <1>2, <1>3

(* And update_emptiness_class, which does one after the other.             *)
LEMMA UpdateKeepsLists ==
    ASSUME NEW H, NEW M \in SUBSET Superblocks,
           NEW sb, HeadersIn(H, M, sb), NEW bm, ManagerIn(M, bm),
           NEW s \in M, NEW eidx, UpdateDefined(sb, bm, eidx, s)
    PROVE  LET r == update_emptiness_class(sb, bm, eidx, s)
           IN  /\ HeadersIn(H, M, r.sb) /\ SameButLinks(sb, r.sb)
               /\ ManagerIn(M, r.bm)
<1> DEFINE d == delete_from_bin(sb, bm, eidx, s)
           r == push_into_bin(d.sb, d.bm, get_eidx(sb[s]), s)
<1>1. HeadersIn(H, M, d.sb) /\ SameButLinks(sb, d.sb) /\ ManagerIn(M, d.bm)
  BY DeleteKeepsLists DEF UpdateDefined
<1>2. PushDefined(d.sb, d.bm, get_eidx(sb[s]))
  BY DEF UpdateDefined
<1>3. HeadersIn(H, M, r.sb) /\ SameButLinks(d.sb, r.sb) /\ ManagerIn(M, r.bm)
  <2> HIDE DEF d
  <2> QED BY <1>1, <1>2, PushKeepsLists
<1>4. r = update_emptiness_class(sb, bm, eidx, s)
  BY DEF update_emptiness_class
<1> HIDE DEF d, r
<1> QED BY <1>1, <1>3, <1>4, SameButLinksTwice

=============================================================================
