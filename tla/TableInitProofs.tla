-------------------------- MODULE TableInitProofs --------------------------
(***************************************************************************)
(* The unsynchronised first calls of malloc are harmless, for any number   *)
(* of threads and any constants: every thread stores the same values, so a *)
(* thread that finds the flag set finds the table complete, and nobody     *)
(* ever sees it change again.  On a complete table the binary search of    *)
(* size2idx finds the first bin that is large enough.                      *)
(***************************************************************************)
EXTENDS TableInit, TLAPS, WellFoundedInduction

(* The numbers of the recurrence.                                          *)
LEMMA Multiple ==
    ASSUME NEW a \in Nat, NEW b \in Nat \ {0}
    PROVE  a \div b \in Nat /\ (a \div b) * b \in Nat /\ (a \div b + 1) * b > a
  BY SMT

LEMMA PartOf ==
    ASSUME NEW a \in Nat, NEW r \in 0 .. 100
    PROVE  (a * r) \div 100 \in Nat /\ (a * r) \div 100 <= a
<1>1. a * r \in Nat /\ a * r <= a * 100
  BY SMT
<1>2. ASSUME NEW m \in Nat, m <= a * 100  PROVE m \div 100 \in Nat /\ m \div 100 <= a
  BY <1>2, SMT
<1>. QED  BY <1>1, <1>2

LEMMA HalfRange ==
    half_sb \in Nat /\ half_sb >= MIN_BLOCK_SIZE
  BY TableAssumption, SMT DEF RightTable, half_sb

LEMMA ThresholdBelowHalf ==
    max_block_size_threshold \in Nat /\ max_block_size_threshold <= half_sb
  BY TableAssumption, HalfRange, PartOf DEF RightTable, max_block_size_threshold

LEMMA NextIsLarger ==
    ASSUME NEW sz \in Nat
    PROVE  NextSize(sz) \in Nat /\ NextSize(sz) > sz
<1> DEFINE new_sz == (((sz * SIZE_RATIO) \div 100) \div MIN_BLOCK_SIZE) * MIN_BLOCK_SIZE
<1>1. MIN_BLOCK_SIZE \in Nat \ {0} /\ SIZE_RATIO \in Nat
  BY TableAssumption DEF RightTable
<1>2. sz * SIZE_RATIO \in Nat
  BY <1>1, SMT
<1>3. (sz * SIZE_RATIO) \div 100 \in Nat
  BY <1>2, Multiple
<1>4. new_sz \in Nat
  BY <1>1, <1>3, Multiple
<1> HIDE DEF new_sz
<1>5. NextSize(sz) = IF new_sz > sz THEN new_sz
                     ELSE new_sz + ((sz - new_sz) \div MIN_BLOCK_SIZE + 1) * MIN_BLOCK_SIZE
  BY DEF NextSize, new_sz
<1>6. CASE new_sz > sz
  BY <1>4, <1>5, <1>6
<1>7. CASE ~(new_sz > sz)
  <2>1. sz - new_sz \in Nat
    BY <1>4, <1>7
  <2> DEFINE gap == ((sz - new_sz) \div MIN_BLOCK_SIZE + 1) * MIN_BLOCK_SIZE
  <2>2. gap \in Nat /\ gap > sz - new_sz
    BY <1>1, <2>1, Multiple
  <2>3. NextSize(sz) = new_sz + gap
    BY <1>5, <1>7
  <2> HIDE DEF gap
  <2>. QED  BY <1>4, <2>2, <2>3
<1>. QED  BY <1>6, <1>7

(* The size added after the loop is the last.                              *)
LEMMA HalfIsLargest == IsLargest(half_sb)
  BY HalfRange, NextIsLarger, ThresholdBelowHalf DEF IsLargest, LoopEnds

LEMMA TableFacts ==
    /\ NumBins \in Nat \ {0} /\ MAX_NUM_BINS \in Nat /\ NumBins <= MAX_NUM_BINS
    /\ TableBins \subseteq 0 .. MAX_NUM_BINS - 1 /\ NumBins - 1 \in TableBins
    /\ 0 \in TableBins /\ Table[0] = MIN_BLOCK_SIZE
    /\ \A i \in TableBins : /\ Table[i] \in Nat
                            /\ IsLargest(Table[i]) => i = NumBins - 1
                            /\ ~IsLargest(Table[i]) =>
                                 i + 1 \in TableBins /\ Table[i + 1] = Successor(Table[i])
  BY TableAssumption DEF RightTable, TableBins

-----------------------------------------------------------------------------
(* The sizes *)

LEMMA SuccessorIsLarger ==
    ASSUME NEW sz \in Nat, ~IsLargest(sz)
    PROVE  sz < Successor(sz) /\ Successor(sz) <= half_sb
<1>1. CASE LoopEnds(sz)
  <2>1. sz < max_block_size_threshold
    BY <1>1, ThresholdBelowHalf DEF IsLargest
  <2>2. Successor(sz) = half_sb
    BY <1>1 DEF Successor
  <2>. QED  BY <2>1, <2>2, HalfRange, ThresholdBelowHalf
<1>2. CASE ~LoopEnds(sz)
  <2>1. Successor(sz) = NextSize(sz) /\ NextSize(sz) <= half_sb
    BY <1>2, NextIsLarger, HalfRange DEF Successor, LoopEnds
  <2>. QED  BY <2>1, NextIsLarger
<1>. QED  BY <1>1, <1>2

LEMMA PreviousSize ==
    ASSUME NEW i \in TableBins, i # 0
    PROVE  /\ i - 1 \in TableBins
           /\ Table[i - 1] < Table[i] /\ Table[i] <= half_sb
<1>1. i - 1 \in TableBins /\ i - 1 # NumBins - 1
  BY TableFacts DEF TableBins
<1>2. ~IsLargest(Table[i - 1]) /\ Table[i - 1] \in Nat
  BY <1>1, TableFacts
<1>3. i = (i - 1) + 1
  BY DEF TableBins
<1>4. Table[i] = Successor(Table[i - 1])
  BY <1>1, <1>2, <1>3, TableFacts
<1>. QED  BY <1>1, <1>2, <1>4, SuccessorIsLarger

(* A set of natural numbers that is not empty has a least element.         *)
LEMMA LeastExists ==
    ASSUME NEW T \in SUBSET Nat, T # {}
    PROVE  \E x \in T : \A y \in T : x <= y
<1>1. \E x \in T : \A y \in T : ~ (<< y, x >> \in OpToRel(<, Nat))
  BY NatLessThanWellFounded, WFMin
<1>2. \A x, y \in Nat : y < x => << y, x >> \in OpToRel(<, Nat)
  BY DEF OpToRel
<1>3. \A x, y \in Nat : ~(y < x) => x <= y
  OBVIOUS
<1> HIDE DEF OpToRel
<1>. QED  BY <1>1, <1>2, <1>3

(* What the bins rely on: block sizes grow from bin to bin, as size2idx    *)
(* needs, and two blocks of any size fit into a superblock, as             *)
(* init_size_table asserts at its end.                                     *)
THEOREM SizesServeBins ==
    /\ \A i, j \in TableBins : i < j => Table[i] < Table[j]
    /\ \A i \in TableBins : 2 * Table[i] + HEADER_SIZE <= SUPERBLOCK_SIZE
<1>1. ASSUME NEW i \in TableBins, NEW j \in TableBins, i < j, ~(Table[i] < Table[j])
      PROVE  FALSE
  <2> DEFINE Bad == { n \in TableBins : i < n /\ ~(Table[i] < Table[n]) }
  <2>1. Bad \in SUBSET Nat /\ j \in Bad
    BY <1>1 DEF TableBins
  <2>2. PICK n \in Bad : \A m \in Bad : n <= m
    BY <2>1, LeastExists
  <2>3. n \in TableBins /\ n # 0 /\ i < n /\ ~(Table[i] < Table[n])
    BY <2>2 DEF TableBins
  <2>4. n - 1 \in TableBins /\ Table[n - 1] < Table[n]
    BY <2>3, PreviousSize
  <2>5. n - 1 \notin Bad
    BY <2>1, <2>2, <2>3 DEF TableBins
  <2>6. i = n - 1 \/ Table[i] < Table[n - 1]
    BY <2>3, <2>4, <2>5 DEF TableBins
  <2>7. Table[i] \in Nat /\ Table[n - 1] \in Nat /\ Table[n] \in Nat
    BY <2>3, <2>4, TableFacts
  <2>. QED  BY <2>3, <2>4, <2>6, <2>7
<1>2. ASSUME NEW i \in TableBins  PROVE 2 * Table[i] + HEADER_SIZE <= SUPERBLOCK_SIZE
  <2>1. Table[i] \in Nat /\ Table[i] <= half_sb
    BY TableFacts, HalfRange, PreviousSize
  <2>2. 2 * half_sb + HEADER_SIZE <= SUPERBLOCK_SIZE
    BY TableAssumption, SMT DEF RightTable, half_sb
  <2>3. HEADER_SIZE \in Nat /\ SUPERBLOCK_SIZE \in Nat
    BY TableAssumption DEF RightTable
  <2>. QED  BY <2>1, <2>2, <2>3, HalfRange
<1>. QED  BY <1>1, <1>2

-----------------------------------------------------------------------------
(* The invariant *)

Written(n) == \A i \in TableBins : i < n => size_table[i] = Table[i]

Types ==
    /\ size_table \in [0 .. MAX_NUM_BINS - 1 -> Nat]
    /\ size_table_initialized \in BOOLEAN
    /\ tl \in [Threads -> [ at  : Storing \cup { "out", "in" }, idx : Nat, sz : Nat ]]

(* What a thread has stored so far, whatever the others are doing; it only *)
(* ever stores sizes of Table.                                             *)
Progress(t) ==
    LET l == tl[t]
    IN  /\ l.at \in Storing =>
             l.idx \in TableBins /\ l.sz = Table[l.idx] /\ Written(l.idx)
        /\ l.at = "extra" => l.sz = half_sb
        /\ l.at \in { "bins", "largest", "flag" } =>
             l.idx = NumBins - 1 /\ Written(NumBins)
        /\ l.at \in { "largest", "flag" } => num_size_bins = NumBins
        /\ l.at = "flag" => max_block_size = Table[NumBins - 1]
        /\ l.at = "in" => TableComplete

IInv ==
    /\ Types
    /\ \A t \in Threads : Progress(t)
    /\ size_table_initialized => TableComplete

(* One store of a size of Table, by any thread, takes nothing away.        *)
LEMMA StoringKeepsWritten ==
    ASSUME Types, NEW k \in TableBins,
           size_table' = [size_table EXCEPT ![k] = Table[k]]
    PROVE  /\ size_table'[k] = Table[k]
           /\ \A i \in TableBins : size_table[i] = Table[i] => size_table'[i] = Table[i]
           /\ \A n : Written(n) => Written(n)'
  BY TableFacts DEF Types, Written

(* Nor is a complete table ever lost.                                      *)
LEMMA CompleteStays ==
    ASSUME \A n : Written(n) => Written(n)',
           num_size_bins' \in { num_size_bins, NumBins },
           max_block_size' \in { max_block_size, Table[NumBins - 1] }
    PROVE  TableComplete => TableComplete'
<1>1. TableComplete <=> /\ Written(NumBins) /\ num_size_bins = NumBins
                        /\ max_block_size = Table[NumBins - 1]
  BY TableFacts DEF TableComplete, Written, TableBins
<1>2. TableComplete' <=> /\ Written(NumBins)' /\ num_size_bins' = NumBins
                         /\ max_block_size' = Table[NumBins - 1]
  BY TableFacts DEF TableComplete, Written, TableBins
<1>. QED  BY <1>1, <1>2

(* Steps of one thread leave what the others know.                         *)
LEMMA OthersKeepProgress ==
    ASSUME NEW t \in Threads, NEW u \in Threads, u # t, Progress(u),
           tl' = [tl EXCEPT ![t] = tl'[t]], Types,
           \A n : Written(n) => Written(n)',
           num_size_bins' \in { num_size_bins, NumBins },
           max_block_size' \in { max_block_size, Table[NumBins - 1] }
    PROVE  Progress(u)'
<1>1. tl'[u] = tl[u]
  BY DEF Types
<1>. QED  BY <1>1, CompleteStays DEF Progress

LEMMA InitHolds ==
    ASSUME TableInit
    PROVE  IInv
<1>1. Types
  BY TableFacts DEF TableInit, Types, Storing
<1>2. \A t \in Threads : Progress(t)
  BY DEF TableInit, Progress, Storing
<1>. QED  BY <1>1, <1>2 DEF IInv, TableInit

LEMMA EnterHolds ==
    ASSUME IInv, NEW t \in Threads, EnterMalloc(t)
    PROVE  IInv'
<1>. USE DEF IInv
<1>1. Types'
  BY TableAssumption DEF RightTable, EnterMalloc, Types, table, Storing
<1>2. TableComplete' <=> TableComplete
  BY DEF EnterMalloc, table, TableComplete
<1>3. \A n : Written(n)' <=> Written(n)
  BY DEF EnterMalloc, table, Written
<1>4. Written(0)
  BY TableFacts DEF Written, TableBins
<1>5. Progress(t)'
  <2>1. tl'[t] = [at  |-> IF size_table_initialized THEN "in" ELSE "store",
                  idx |-> 0, sz |-> MIN_BLOCK_SIZE]
    BY DEF EnterMalloc, Types
  <2>. QED  BY <1>2, <1>3, <1>4, <2>1, TableFacts DEF Progress
<1>6. ASSUME NEW u \in Threads, u # t  PROVE Progress(u)'
  BY <1>2, <1>3, <1>6 DEF EnterMalloc, table, Types, Progress
<1>. QED  BY <1>1, <1>2, <1>5, <1>6 DEF EnterMalloc, table

LEMMA StoreSizeHolds ==
    ASSUME IInv, NEW t \in Threads, StoreSize(t)
    PROVE  IInv'
<1>. USE DEF IInv
<1>0. PICK k : k = tl[t].idx
  OBVIOUS
<1>1. k \in TableBins /\ tl[t].sz = Table[k] /\ Written(k)
  <2>1. tl[t].at \in Storing
    BY DEF StoreSize, Storing
  <2>2. Progress(t)
    OBVIOUS
  <2>. QED  BY <1>0, <2>1, <2>2 DEF Progress
<1>2. size_table' = [size_table EXCEPT ![k] = Table[k]]
  BY <1>0, <1>1 DEF StoreSize
<1>3. /\ size_table'[k] = Table[k]
      /\ \A n : Written(n) => Written(n)'
  BY <1>1, <1>2, StoringKeepsWritten
<1>4. Written(k + 1)'
  BY <1>1, <1>3 DEF Written, TableBins
<1>5. tl'[t] = IF IsLargest(Table[k]) THEN [tl[t] EXCEPT !.at = "bins"]
               ELSE [at  |-> IF LoopEnds(Table[k]) THEN "extra" ELSE "store",
                     idx |-> k + 1, sz |-> Successor(Table[k])]
  BY <1>0, <1>1 DEF StoreSize, Types
<1>6. Progress(t)' /\ tl'[t] \in [ at : Storing \cup { "out", "in" }, idx : Nat, sz : Nat ]
  <2>0. tl[t] \in [ at : Storing \cup { "out", "in" }, idx : Nat, sz : Nat ]
    BY DEF Types
  <2>1. CASE IsLargest(Table[k])
    <3>1. k = NumBins - 1 /\ k + 1 = NumBins
      BY <1>1, <2>1, TableFacts
    <3>2. tl'[t] = [at |-> "bins", idx |-> k, sz |-> Table[k]]
      BY <1>0, <1>1, <1>5, <2>0, <2>1
    <3>3. Written(NumBins)' /\ Written(k)'
      BY <1>1, <1>3, <1>4, <3>1
    <3>4. k \in TableBins /\ k \in Nat /\ Table[k] \in Nat
      BY <1>1, TableFacts DEF TableBins
    <3>5. Progress(t)'
      BY <3>1, <3>2, <3>3, <3>4 DEF Progress, Storing
    <3>. QED  BY <3>2, <3>4, <3>5 DEF Storing
  <2>2. CASE ~IsLargest(Table[k])
    <3>1. k + 1 \in TableBins /\ Table[k + 1] = Successor(Table[k])
      BY <1>1, <2>2, TableFacts
    <3>2. tl'[t] = [at  |-> IF LoopEnds(Table[k]) THEN "extra" ELSE "store",
                    idx |-> k + 1, sz |-> Table[k + 1]]
      BY <1>5, <2>2, <3>1
    <3>3. LoopEnds(Table[k]) => Table[k + 1] = half_sb
      BY <3>1 DEF Successor
    <3>4. Table[k + 1] \in Nat /\ k + 1 \in Nat
      BY <3>1, TableFacts DEF TableBins
    <3>5. Progress(t)'
      BY <1>4, <3>1, <3>2, <3>3 DEF Progress, Storing
    <3>. QED  BY <3>2, <3>4, <3>5 DEF Storing
  <2>. QED  BY <2>1, <2>2
<1>7. Types'
  <2>1. Table[k] \in Nat /\ k \in 0 .. MAX_NUM_BINS - 1
    BY <1>1, TableFacts
  <2>2. tl' = [tl EXCEPT ![t] = tl'[t]]
    BY DEF StoreSize, Types
  <2>. QED  BY <1>2, <1>6, <2>1, <2>2 DEF StoreSize, Types
<1>8. tl' = [tl EXCEPT ![t] = tl'[t]]
  BY DEF StoreSize, Types
<1>9. \A u \in Threads : u # t => Progress(u)'
  BY <1>3, <1>8, OthersKeepProgress DEF StoreSize
<1>10. TableComplete => TableComplete'
  BY <1>3, CompleteStays DEF StoreSize
<1>. QED  BY <1>6, <1>7, <1>9, <1>10 DEF StoreSize

LEMMA StoreExtraHolds ==
    ASSUME IInv, NEW t \in Threads, StoreExtra(t)
    PROVE  IInv'
<1>. USE DEF IInv
<1>0. PICK k : k = tl[t].idx
  OBVIOUS
<1>1. k \in TableBins /\ tl[t].sz = Table[k] /\ Written(k) /\ Table[k] = half_sb
  <2>1. tl[t].at \in Storing /\ tl[t].at = "extra"
    BY DEF StoreExtra, Storing
  <2>2. Progress(t)
    OBVIOUS
  <2>. QED  BY <1>0, <2>1, <2>2 DEF Progress
<1>2. size_table' = [size_table EXCEPT ![k] = Table[k]]
  BY <1>0, <1>1 DEF StoreExtra
<1>3. /\ size_table'[k] = Table[k]
      /\ \A n : Written(n) => Written(n)'
  BY <1>1, <1>2, StoringKeepsWritten
<1>4. k = NumBins - 1
  BY <1>1, HalfIsLargest, TableFacts
<1>5. Written(NumBins)' /\ Written(k)'
  <2>1. Written(k)'
    BY <1>1, <1>3
  <2>2. \A i \in TableBins : i < k \/ i = k
    BY <1>4, TableFacts DEF TableBins
  <2>. QED  BY <1>3, <2>1, <2>2 DEF Written
<1>6. tl[t] \in [ at : Storing \cup { "out", "in" }, idx : Nat, sz : Nat ]
  BY DEF Types
<1>7. tl'[t] = [at |-> "bins", idx |-> k, sz |-> Table[k]]
  BY <1>0, <1>1, <1>6 DEF StoreExtra, Types
<1>8. tl' = [tl EXCEPT ![t] = tl'[t]]
  BY DEF StoreExtra, Types
<1>9. k \in Nat /\ Table[k] \in Nat /\ k \in 0 .. MAX_NUM_BINS - 1
  BY <1>1, TableFacts DEF TableBins
<1>10. Types'
  BY <1>2, <1>7, <1>8, <1>9 DEF StoreExtra, Types, Storing
<1>11. Progress(t)'
  BY <1>1, <1>4, <1>5, <1>7 DEF Progress, Storing
<1>12. \A u \in Threads : u # t => Progress(u)'
  BY <1>3, <1>8, OthersKeepProgress DEF StoreExtra
<1>13. TableComplete => TableComplete'
  BY <1>3, CompleteStays DEF StoreExtra
<1>. QED  BY <1>10, <1>11, <1>12, <1>13 DEF StoreExtra

(* The three stores after the loop.                                        *)
LEMMA StoreLastHolds ==
    ASSUME IInv, NEW t \in Threads,
           StoreNumBins(t) \/ StoreLargest(t) \/ StoreFlag(t)
    PROVE  IInv'
<1>. USE DEF IInv
<1>0. PICK k : k = tl[t].idx
  OBVIOUS
<1>1. /\ k \in TableBins /\ tl[t].sz = Table[k] /\ Written(k)
      /\ k = NumBins - 1 /\ k + 1 = NumBins /\ Written(NumBins)
  <2>1. tl[t].at \in Storing /\ tl[t].at \in { "bins", "largest", "flag" }
    BY DEF StoreNumBins, StoreLargest, StoreFlag, Storing
  <2>2. Progress(t)
    OBVIOUS
  <2>. QED  BY <1>0, <2>1, <2>2, TableFacts DEF Progress
<1>2. tl[t] \in [ at : Storing \cup { "out", "in" }, idx : Nat, sz : Nat ]
  BY DEF Types
<1>3. PICK next \in { "largest", "flag", "in" } : tl' = [tl EXCEPT ![t].at = next]
  BY DEF StoreNumBins, StoreLargest, StoreFlag
<1>4. tl'[t] = [at |-> next, idx |-> k, sz |-> Table[k]]
  BY <1>0, <1>1, <1>2, <1>3 DEF Types
<1>5. tl' = [tl EXCEPT ![t] = tl'[t]]
  BY <1>3 DEF Types
<1>6. Types'
  BY <1>2, <1>3 DEF StoreNumBins, StoreLargest, StoreFlag, Types, Storing
<1>7. \A n : Written(n) <=> Written(n)'
  BY DEF StoreNumBins, StoreLargest, StoreFlag, Written
<1>8. /\ num_size_bins' \in { num_size_bins, NumBins }
      /\ max_block_size' \in { max_block_size, Table[NumBins - 1] }
  BY <1>0, <1>1 DEF StoreNumBins, StoreLargest, StoreFlag
<1>9. \A u \in Threads : u # t => Progress(u)'
  BY <1>5, <1>7, <1>8, OthersKeepProgress
<1>10. TableComplete => TableComplete'
  BY <1>7, <1>8, CompleteStays
<1>11. /\ next \in { "largest", "flag", "in" } => num_size_bins' = NumBins
       /\ next \in { "flag", "in" } => max_block_size' = Table[NumBins - 1]
       /\ size_table_initialized' => next = "in" \/ size_table_initialized
  <2>1. CASE StoreNumBins(t)
    <3>1. tl'[t].at = "largest"
      BY <1>2, <2>1 DEF StoreNumBins, Types
    <3>. QED  BY <1>0, <1>1, <1>4, <2>1, <3>1 DEF StoreNumBins
  <2>2. CASE StoreLargest(t)
    <3>1. tl'[t].at = "flag" /\ num_size_bins = NumBins
      BY <1>2, <2>2 DEF StoreLargest, Types, Progress
    <3>. QED  BY <1>0, <1>1, <1>4, <2>2, <3>1 DEF StoreLargest
  <2>3. CASE StoreFlag(t)
    <3>1. tl'[t].at = "in" /\ num_size_bins = NumBins
            /\ max_block_size = Table[NumBins - 1]
      BY <1>2, <2>3 DEF StoreFlag, Types, Progress
    <3>. QED  BY <1>4, <2>3, <3>1 DEF StoreFlag
  <2>. QED  BY <2>1, <2>2, <2>3
<1>12. next = "in" => TableComplete'
  <2>1. Written(NumBins)'
    BY <1>1, <1>7
  <2>2. \A i \in TableBins : i < NumBins
    BY TableFacts DEF TableBins
  <2>. QED  BY <1>11, <2>1, <2>2 DEF TableComplete, Written
<1>13. Progress(t)'
  BY <1>1, <1>4, <1>7, <1>11, <1>12 DEF Progress, Storing
<1>. QED  BY <1>6, <1>9, <1>10, <1>11, <1>12, <1>13

LEMMA LeaveHolds ==
    ASSUME IInv, NEW t \in Threads, LeaveMalloc(t)
    PROVE  IInv'
<1>. USE DEF IInv
<1>1. Types'
  BY DEF LeaveMalloc, Types, table, Storing
<1>2. TableComplete' <=> TableComplete
  BY DEF LeaveMalloc, table, TableComplete
<1>3. \A n : Written(n)' <=> Written(n)
  BY DEF LeaveMalloc, table, Written
<1>4. Progress(t)'
  <2>1. tl'[t] = [at |-> "out", idx |-> 0, sz |-> 0]
    BY DEF LeaveMalloc, Types
  <2>. QED  BY <2>1 DEF Progress, Storing
<1>5. ASSUME NEW u \in Threads, u # t  PROVE Progress(u)'
  BY <1>2, <1>3, <1>5 DEF LeaveMalloc, table, Types, Progress
<1>. QED  BY <1>1, <1>2, <1>4, <1>5 DEF LeaveMalloc, table

LEMMA StepHolds ==
    ASSUME IInv, [TableNext]_tableVars
    PROVE  IInv'
<1>1. CASE UNCHANGED tableVars
  BY <1>1 DEF tableVars, table, IInv, Types, Progress, Written, TableComplete
<1>2. ASSUME NEW t \in Threads, InitSizeTable(t)  PROVE IInv'
  BY <1>2, StoreSizeHolds, StoreExtraHolds, StoreLastHolds DEF InitSizeTable
<1>. QED  BY <1>1, <1>2, EnterHolds, LeaveHolds DEF TableNext

-----------------------------------------------------------------------------
(* A thread that goes on in malloc finds the whole size table, however     *)
(* many threads run init_size_table at the same time.                      *)
THEOREM TableIsReady == TableSpec => []TableReady
<1>1. TableInit => IInv
  BY InitHolds
<1>2. IInv /\ [TableNext]_tableVars => IInv'
  BY StepHolds
<1>3. IInv => TableReady
  BY DEF IInv, Progress, TableReady
<1>. QED  BY <1>1, <1>2, <1>3, PTL DEF TableSpec

(* What a thread has not finished storing is there already once the flag   *)
(* is set.                                                                 *)
LEMMA NothingNewStored ==
    ASSUME IInv, [TableNext]_tableVars, size_table_initialized
    PROVE  UNCHANGED table
<1>. USE DEF IInv
<1>1. TableComplete
  OBVIOUS
<1>2. ASSUME NEW t \in Threads, tl[t].at \in Storing
      PROVE  [size_table EXCEPT ![tl[t].idx] = tl[t].sz] = size_table
  <2>1. tl[t].idx \in TableBins /\ tl[t].sz = Table[tl[t].idx]
    BY <1>2 DEF Progress
  <2>2. size_table[tl[t].idx] = tl[t].sz
    BY <1>1, <2>1 DEF TableComplete
  <2>. QED  BY <2>2 DEF Types
<1>3. ASSUME NEW t \in Threads, StoreSize(t) \/ StoreExtra(t)  PROVE UNCHANGED table
  BY <1>2, <1>3 DEF StoreSize, StoreExtra, Storing, table
<1>4. ASSUME NEW t \in Threads, StoreNumBins(t) \/ StoreLargest(t) \/ StoreFlag(t)
      PROVE  UNCHANGED table
  <2>1. /\ tl[t].idx = NumBins - 1 /\ tl[t].idx + 1 = NumBins
        /\ tl[t].sz = Table[NumBins - 1]
    <3>1. tl[t].at \in Storing /\ tl[t].at \in { "bins", "largest", "flag" }
      BY <1>4 DEF StoreNumBins, StoreLargest, StoreFlag, Storing
    <3>2. Progress(t)
      OBVIOUS
    <3>. QED  BY <3>1, <3>2, TableFacts DEF Progress
  <2>. QED  BY <1>1, <1>4, <2>1
            DEF StoreNumBins, StoreLargest, StoreFlag, TableComplete, table, Types
<1>. QED  BY <1>3, <1>4
          DEF TableNext, InitSizeTable, EnterMalloc, LeaveMalloc, tableVars

(* Once the flag is set the table never changes, although threads that     *)
(* found it unset may still be in init_size_table.                         *)
THEOREM TableIsStable == TableSpec => TableStable
<1>1. TableInit => IInv
  BY InitHolds
<1>2. IInv /\ [TableNext]_tableVars => IInv'
  BY StepHolds
<1>3. IInv /\ [TableNext]_tableVars
        => [size_table_initialized => UNCHANGED table]_tableVars
  BY NothingNewStored
<1>. QED  BY <1>1, <1>2, <1>3, PTL DEF TableSpec, TableStable

-----------------------------------------------------------------------------
(* Of the two other variables only the final values are ever stored.       *)
LEMMA OnlyFinalStored ==
    ASSUME IInv, [TableNext]_tableVars
    PROVE  /\ num_size_bins' \in { num_size_bins, NumBins }
           /\ max_block_size' \in { max_block_size, Table[NumBins - 1] }
<1>1. ASSUME NEW t \in Threads, StoreNumBins(t) \/ StoreLargest(t)
      PROVE  tl[t].idx + 1 = NumBins /\ tl[t].sz = Table[NumBins - 1]
  <2>1. tl[t].at \in Storing /\ tl[t].at \in { "bins", "largest", "flag" }
    BY <1>1 DEF StoreNumBins, StoreLargest, Storing
  <2>2. Progress(t)
    BY DEF IInv
  <2>. QED  BY <2>1, <2>2, TableFacts DEF Progress
<1>2. ASSUME NEW t \in Threads, StoreSize(t) \/ StoreExtra(t) \/ StoreFlag(t)
      PROVE  UNCHANGED << num_size_bins, max_block_size >>
  BY <1>2 DEF StoreSize, StoreExtra, StoreFlag
<1>3. ASSUME NEW t \in Threads, EnterMalloc(t) \/ LeaveMalloc(t)
      PROVE  UNCHANGED << num_size_bins, max_block_size >>
  BY <1>3 DEF EnterMalloc, LeaveMalloc, table
<1>4. ASSUME NEW t \in Threads, StoreNumBins(t) \/ StoreLargest(t)
      PROVE  /\ num_size_bins' \in { num_size_bins, NumBins }
             /\ max_block_size' \in { max_block_size, Table[NumBins - 1] }
  BY <1>1, <1>4 DEF StoreNumBins, StoreLargest
<1>. QED  BY <1>2, <1>3, <1>4 DEF TableNext, InitSizeTable, tableVars, table

(* No store is outside size_table.                                         *)
Indices == \A t \in Threads : tl[t].idx \in TableBins

LEMMA IndicesStay ==
    ASSUME IInv, Indices, [TableNext]_tableVars
    PROVE  Indices'
<1>1. /\ IInv' /\ Types /\ Types' /\ 0 \in TableBins
      /\ \A u \in Threads : tl[u].idx \in TableBins
  BY StepHolds, TableFacts DEF IInv, TableBins, Indices
<1>2. ASSUME NEW t \in Threads, NEW l, tl' = [tl EXCEPT ![t] = l],
             l.idx \in TableBins \/ l.at \in Storing
      PROVE  Indices'
  <2>1. Progress(t)' /\ tl'[t] = l
    BY <1>1, <1>2 DEF IInv, Types
  <2>2. l.idx \in TableBins
    BY <1>2, <2>1 DEF Progress
  <2>3. \A u \in Threads : u # t => tl'[u] = tl[u]
    BY <1>1, <1>2 DEF Types
  <2>. QED  BY <1>1, <2>1, <2>2, <2>3 DEF Indices
<1>3. ASSUME NEW t \in Threads, InitSizeTable(t)  PROVE Indices'
  <2>1. PICK l : tl' = [tl EXCEPT ![t] = l]
    BY <1>3 DEF InitSizeTable, StoreSize, StoreExtra, StoreNumBins, StoreLargest, StoreFlag
  <2>2. tl'[t] = l
    BY <1>1, <2>1 DEF Types
  <2>3. CASE StoreSize(t)
    <3>1. l = IF IsLargest(tl[t].sz) THEN [tl[t] EXCEPT !.at = "bins"]
              ELSE [at  |-> IF LoopEnds(tl[t].sz) THEN "extra" ELSE "store",
                    idx |-> tl[t].idx + 1, sz |-> Successor(tl[t].sz)]
      BY <1>1, <2>2, <2>3 DEF StoreSize, Types
    <3>2. l.at \in Storing
      BY <1>1, <3>1 DEF Types, Storing
    <3>. QED  BY <1>2, <2>1, <3>2
  <2>4. CASE StoreExtra(t) \/ StoreNumBins(t) \/ StoreLargest(t) \/ StoreFlag(t)
    <3>1. l.idx = tl[t].idx
      BY <1>1, <2>2, <2>4 DEF StoreExtra, StoreNumBins, StoreLargest, StoreFlag, Types
    <3>. QED  BY <1>1, <1>2, <2>1, <3>1
  <2>. QED  BY <1>3, <2>3, <2>4 DEF InitSizeTable
<1>4. ASSUME NEW t \in Threads, EnterMalloc(t) \/ LeaveMalloc(t)  PROVE Indices'
  <2>1. CASE EnterMalloc(t)
    <3>1. PICK l : /\ l = [at  |-> IF size_table_initialized THEN "in" ELSE "store",
                           idx |-> 0, sz |-> MIN_BLOCK_SIZE]
                   /\ tl' = [tl EXCEPT ![t] = l]
      BY <2>1 DEF EnterMalloc
    <3>. QED  BY <1>1, <1>2, <3>1
  <2>2. CASE LeaveMalloc(t)
    <3>1. PICK l : l = [at |-> "out", idx |-> 0, sz |-> 0] /\ tl' = [tl EXCEPT ![t] = l]
      BY <2>2 DEF LeaveMalloc
    <3>. QED  BY <1>1, <1>2, <3>1
  <2>. QED  BY <1>4, <2>1, <2>2
<1>5. CASE UNCHANGED tableVars
  BY <1>5 DEF tableVars, Indices
<1>. QED  BY <1>3, <1>4, <1>5 DEF TableNext

(* The variables of the table have their types.                            *)
LEMMA SizeTableTyped == TableSpec => []TableTypeOK
<1> DEFINE Bins == num_size_bins \in { 0, NumBins } /\ max_block_size \in { 0, Table[NumBins - 1] }
<1>1. TableInit => IInv /\ Indices /\ Bins
  <2>1. 0 \in TableBins
    BY TableFacts DEF TableBins
  <2>2. ASSUME TableInit, NEW t \in Threads  PROVE tl[t].idx \in TableBins
    <3>1. tl[t] = [at |-> "out", idx |-> 0, sz |-> 0]
      BY <2>2 DEF TableInit
    <3>. QED  BY <2>1, <3>1
  <2>3. TableInit => Indices
    BY <2>2 DEF Indices
  <2>. QED  BY <2>3, InitHolds DEF TableInit
<1>2. IInv /\ Indices /\ Bins /\ [TableNext]_tableVars => (IInv /\ Indices /\ Bins)'
  BY StepHolds, IndicesStay, OnlyFinalStored
<1>3. IInv /\ Indices /\ Bins => TableTypeOK
  <2>. SUFFICES ASSUME IInv, Indices, Bins PROVE TableTypeOK
    OBVIOUS
  <2>1. /\ TableBins \subseteq 0 .. MAX_NUM_BINS - 1 /\ NumBins \in 0 .. MAX_NUM_BINS
        /\ 0 \in 0 .. MAX_NUM_BINS /\ Table[NumBins - 1] \in Nat
    BY TableFacts, TableAssumption DEF TableBins, RightTable
  <2>2. num_size_bins \in 0 .. MAX_NUM_BINS /\ max_block_size \in Nat
    BY <2>1
  <2>3. tl \in [Threads -> [ at : Storing \cup { "out", "in" },
                             idx : 0 .. MAX_NUM_BINS - 1, sz : Nat ]]
    BY <2>1 DEF IInv, Types, Indices
  <2>. QED  BY <2>2, <2>3 DEF IInv, Types, TableTypeOK
<1>. HIDE DEF Bins
<1>. QED  BY <1>1, <1>2, <1>3, PTL DEF TableSpec

-----------------------------------------------------------------------------
(* The binary search of size2idx, by induction on the interval it looks   *)
(* in, for any table whose sizes grow.                                     *)

(* The first bin of i .. j - 1 whose blocks have the size, or else j.      *)
IsFirst(k, sizes, size, i, j) ==
    /\ k \in i .. j
    /\ k < j => size <= sizes[k]
    /\ \A m \in i .. j - 1 : m < k => sizes[m] < size

LEMMA FirstExists ==
    ASSUME NEW i \in Nat, NEW j \in Nat, i <= j, NEW size \in Nat, NEW sizes,
           \A m \in i .. j - 1 : sizes[m] \in Nat
    PROVE  /\ \E k : IsFirst(k, sizes, size, i, j)
           /\ \A k, l : IsFirst(k, sizes, size, i, j) /\ IsFirst(l, sizes, size, i, j)
                          => k = l
<1>1. \E k : IsFirst(k, sizes, size, i, j)
  <2> DEFINE Large == { k \in i .. j : k = j \/ size <= sizes[k] }
  <2>1. j \in Large /\ Large \in SUBSET Nat
    OBVIOUS
  <2>2. PICK k \in Large : \A l \in Large : k <= l
    BY <2>1, LeastExists
  <2>. QED  BY <2>1, <2>2 DEF IsFirst
<1>2. ASSUME NEW k, NEW l, IsFirst(k, sizes, size, i, j), IsFirst(l, sizes, size, i, j),
             k < l
      PROVE  FALSE
  BY <1>2 DEF IsFirst
<1>3. ASSUME NEW k, NEW l, IsFirst(k, sizes, size, i, j), IsFirst(l, sizes, size, i, j)
      PROVE  k = l
  <2>1. k \in Nat /\ l \in Nat
    BY <1>3 DEF IsFirst
  <2>2. ~(k < l) /\ ~(l < k)
    BY <1>2, <1>3
  <2>. QED  BY <2>1, <2>2
<1>. QED  BY <1>1, <1>3, Zenon

(* Halving the interval finds the first.                                   *)
LEMMA HalfStep ==
    ASSUME NEW i \in Nat, NEW j \in Nat, i < j, NEW size \in Nat, NEW sizes,
           \A m \in i .. j - 1 : sizes[m] \in Nat,
           \A m, n \in i .. j - 1 : m < n => sizes[m] < sizes[n],
           NEW s, s = i + (j - i) \div 2, NEW k
    PROVE  /\ s \in i .. j - 1
           /\ size > sizes[s] /\ IsFirst(k, sizes, size, s + 1, j)
                => IsFirst(k, sizes, size, i, j)
           /\ ~(size > sizes[s]) /\ IsFirst(k, sizes, size, i, s)
                => IsFirst(k, sizes, size, i, j)
<1>1. s \in i .. j - 1
  OBVIOUS
<1>2. ASSUME size > sizes[s], IsFirst(k, sizes, size, s + 1, j)
      PROVE  IsFirst(k, sizes, size, i, j)
  BY <1>1, <1>2 DEF IsFirst
<1>3. ASSUME ~(size > sizes[s]), IsFirst(k, sizes, size, i, s)
      PROVE  IsFirst(k, sizes, size, i, j)
  BY <1>1, <1>3 DEF IsFirst
<1>. QED  BY <1>1, <1>2, <1>3

LEMMA SearchFindsFirst ==
    ASSUME NEW bins \in Nat, NEW size \in Nat, NEW sizes,
           \A m \in 0 .. bins - 1 : sizes[m] \in Nat,
           \A m, n \in 0 .. bins - 1 : m < n => sizes[m] < sizes[n]
    PROVE  IsFirst(FirstBin(sizes, bins, size), sizes, size, 0, bins)
<1> DEFINE Ranges == (0 .. bins) \X (0 .. bins)
           First(i, j) == CHOOSE k : IsFirst(k, sizes, size, i, j)
           Value(f, i, j) == LET s == i + (j - i) \div 2
                             IN  IF i >= j THEN j
                                 ELSE IF size > sizes[s] THEN f[<< s + 1, j >>]
                                                         ELSE f[<< i, s >>]
           Search(f) == f = [r \in Ranges |-> Value(f, r[1], r[2])]
           found == [r \in Ranges |-> IF r[1] >= r[2] THEN r[2] ELSE First(r[1], r[2])]
           F == CHOOSE f : Search(f)
<1>1. FirstBin(sizes, bins, size) = F[<< 0, bins >>]
  BY DEF FirstBin
<1>2. ASSUME NEW i \in 0 .. bins, NEW j \in 0 .. bins, i < j, NEW k
      PROVE  IsFirst(k, sizes, size, i, j) => First(i, j) = k
  <2>1. i \in Nat /\ j \in Nat /\ \A m \in i .. j - 1 : sizes[m] \in Nat
    OBVIOUS
  <2>2. IsFirst(k, sizes, size, i, j) => IsFirst(First(i, j), sizes, size, i, j)
    OBVIOUS
  <2> HIDE DEF First
  <2>. QED  BY <1>2, <2>1, <2>2, FirstExists
<1>3. ASSUME NEW i \in 0 .. bins, NEW j \in 0 .. bins
      PROVE  found[<< i, j >>] = IF i >= j THEN j ELSE First(i, j)
  <2>1. << i, j >> \in Ranges /\ << i, j >>[1] = i /\ << i, j >>[2] = j
    OBVIOUS
  <2> HIDE DEF First
  <2>. QED  BY <2>1
<1>4. ASSUME NEW i \in 0 .. bins, NEW j \in 0 .. bins, i <= j
      PROVE  IsFirst(found[<< i, j >>], sizes, size, i, j)
  <2>1. i \in Nat /\ j \in Nat /\ \A m \in i .. j - 1 : sizes[m] \in Nat
    OBVIOUS
  <2>2. CASE i = j
    <3>1. found[<< i, j >>] = j
      BY <1>3, <2>2
    <3> HIDE DEF found
    <3>. QED  BY <2>1, <2>2, <3>1 DEF IsFirst
  <2>3. CASE i # j
    <3>1. i < j /\ ~(i >= j)
      BY <1>4, <2>3
    <3>2. PICK k : IsFirst(k, sizes, size, i, j)
      BY <1>4, <2>1, FirstExists
    <3>3. First(i, j) = k
      BY <1>2, <3>1, <3>2
    <3>4. found[<< i, j >>] = k
      BY <1>3, <3>1, <3>3
    <3>. QED  BY <3>2, <3>4
  <2>. QED  BY <2>2, <2>3
<1>5. ASSUME NEW i \in 0 .. bins, NEW j \in 0 .. bins, i < j,
             NEW s, s = i + (j - i) \div 2
      PROVE  /\ s \in i .. j - 1 /\ s \in 0 .. bins /\ s + 1 \in 0 .. bins
             /\ found[<< i, j >>] = IF size > sizes[s] THEN found[<< s + 1, j >>] ELSE found[<< i, s >>]
  <2>1. /\ i \in Nat /\ j \in Nat /\ \A m \in i .. j - 1 : sizes[m] \in Nat
        /\ \A m, n \in i .. j - 1 : m < n => sizes[m] < sizes[n]
    OBVIOUS
  <2>2. s \in i .. j - 1
    BY <1>5, <2>1, HalfStep
  <2>3. s \in 0 .. bins /\ s + 1 \in 0 .. bins /\ i <= s /\ s + 1 <= j
    BY <2>2
  <2>4. /\ IsFirst(found[<< i, s >>], sizes, size, i, s)
        /\ IsFirst(found[<< s + 1, j >>], sizes, size, s + 1, j)
    BY <1>4, <2>3
  <2>5. found[<< i, j >>] = First(i, j)
    BY <1>3, <1>5
  <2> HIDE DEF found, First
  <2>6. IF size > sizes[s] THEN IsFirst(found[<< s + 1, j >>], sizes, size, i, j)
                           ELSE IsFirst(found[<< i, s >>], sizes, size, i, j)
    BY <1>5, <2>1, <2>4, HalfStep
  <2>. QED  BY <1>2, <1>5, <2>2, <2>3, <2>5, <2>6
<1>6. Search(found)
  <2>1. ASSUME NEW r \in Ranges
        PROVE  found[r] = Value(found, r[1], r[2])
    <3>1. r[1] \in 0 .. bins /\ r[2] \in 0 .. bins /\ r = << r[1], r[2] >>
      OBVIOUS
    <3>2. r[1] < r[2] \/ r[1] >= r[2]
      BY <3>1
    <3>3. r[1] >= r[2] => found[r] = r[2]
      OBVIOUS
    <3> HIDE DEF found, First
    <3>. QED  BY <1>5, <3>1, <3>2, <3>3
  <2>2. found = [r \in Ranges |-> found[r]]
    OBVIOUS
  <2> HIDE DEF found, Value
  <2>. QED  BY <2>1, <2>2
<1>7. Search(F)
  <2> HIDE DEF found, Search
  <2>. QED  BY <1>6
<1> HIDE DEF F, found, First
<1>8. ASSUME NEW i \in 0 .. bins, NEW j \in 0 .. bins
      PROVE  F[<< i, j >>] = Value(F, i, j)
  <2>1. << i, j >> \in Ranges
    OBVIOUS
  <2> HIDE DEF Value
  <2>. QED  BY <1>7, <2>1
<1> HIDE DEF Search
(* By induction on the length of the interval.                             *)
<1> DEFINE Right(i, j) == IsFirst(F[<< i, j >>], sizes, size, i, j)
           Wrong == { n \in Nat : \E i, j \in 0 .. bins : i + n = j /\ ~Right(i, j) }
<1>9. Wrong = {}
  <2>. SUFFICES ASSUME Wrong # {}  PROVE FALSE
    OBVIOUS
  <2>1. PICK n \in Wrong : \A m \in Wrong : n <= m
    <3>1. Wrong \in SUBSET Nat
      OBVIOUS
    <3> HIDE DEF Wrong
    <3>. QED  BY <3>1, LeastExists
  <2>2. PICK i \in 0 .. bins, j \in 0 .. bins : i + n = j /\ ~Right(i, j)
    OBVIOUS
  <2>3. ASSUME NEW k \in 0 .. bins, NEW l \in 0 .. bins, k <= l, l - k < n
        PROVE  Right(k, l)
    <3>1. l - k \in Nat /\ k + (l - k) = l /\ ~(n <= l - k) /\ n \in Nat
      BY <2>3
    <3>2. l - k \notin Wrong
      BY <2>1, <3>1
    <3> HIDE DEF Right
    <3>. QED  BY <3>1, <3>2
  <2>4. CASE i = j
    <3>1. F[<< i, j >>] = j
      <4>1. i >= j
        BY <2>4
      <4>2. F[<< i, j >>] = Value(F, i, j)
        <5> HIDE DEF Value, Right, Wrong
        <5>. QED  BY <1>8
      <4>. QED  BY <4>1, <4>2
    <3>. QED  BY <2>2, <2>4, <3>1 DEF IsFirst
  <2>5. CASE i < j
    <3> DEFINE s == i + (j - i) \div 2
    <3>1. /\ i \in Nat /\ j \in Nat /\ \A m \in i .. j - 1 : sizes[m] \in Nat
          /\ \A m, o \in i .. j - 1 : m < o => sizes[m] < sizes[o]
      OBVIOUS
    <3>2. s \in i .. j - 1 /\ s \in 0 .. bins /\ s + 1 \in 0 .. bins
      BY <1>5, <2>5
    <3>3. F[<< i, j >>] = IF size > sizes[s] THEN F[<< s + 1, j >>] ELSE F[<< i, s >>]
      BY <1>8, <2>5
    <3>4. PICK h : h = s
      OBVIOUS
    <3>5. Right(i, h) /\ Right(h + 1, j)
      <4>1. i <= h /\ h - i < n /\ h + 1 <= j /\ j - (h + 1) < n
        BY <2>2, <3>2, <3>4
      <4> HIDE DEF Right, Wrong
      <4>. QED  BY <2>3, <3>2, <3>4, <4>1
    <3>6. Right(i, j)
      <4> HIDE DEF s
      <4>1. ASSUME size > sizes[s]  PROVE Right(i, j)
        <5>1. F[<< i, j >>] = F[<< s + 1, j >>] /\ Right(s + 1, j)
          BY <3>3, <3>4, <3>5, <4>1
        <5>. QED  BY <2>5, <3>1, <4>1, <5>1, HalfStep DEF s
      <4>2. ASSUME ~(size > sizes[s])  PROVE Right(i, j)
        <5>1. F[<< i, j >>] = F[<< i, s >>] /\ Right(i, s)
          BY <3>3, <3>4, <3>5, <4>2
        <5>. QED  BY <2>5, <3>1, <4>2, <5>1, HalfStep DEF s
      <4>. QED  BY <4>1, <4>2
    <3>. QED  BY <2>2, <3>6
  <2>6. i = j \/ i < j
    BY <2>2
  <2>. QED  BY <2>4, <2>5, <2>6
<1>10. 0 \in 0 .. bins /\ bins \in 0 .. bins /\ 0 + bins = bins
  OBVIOUS
<1>11. Right(0, bins)
  <2> HIDE DEF Right
  <2>. QED  BY <1>9, <1>10
<1>. QED  BY <1>1, <1>11

LEMMA LookupOnTable ==
    ASSUME Types, TableComplete, NEW size \in Nat, size <= max_block_size
    PROVE  /\ size2idx(size) \in TableBins
           /\ size <= Table[size2idx(size)]
           /\ \A j \in TableBins : j < size2idx(size) => Table[j] < size
<1>1. NumBins \in Nat \ {0} /\ TableBins = 0 .. NumBins - 1
  BY TableFacts DEF TableBins
<1>2. /\ \A m \in 0 .. NumBins - 1 : size_table[m] = Table[m] /\ Table[m] \in Nat
      /\ num_size_bins = NumBins
  BY <1>1, TableFacts DEF TableComplete
<1>3. \A m, n \in 0 .. NumBins - 1 : m < n => size_table[m] < size_table[n]
  BY <1>1, <1>2, SizesServeBins
<1>4. PICK k : k = size2idx(size)
  OBVIOUS
<1>5. IsFirst(k, size_table, size, 0, NumBins)
  BY <1>1, <1>2, <1>3, <1>4, SearchFindsFirst DEF size2idx
<1>6. k \in 0 .. NumBins /\ \A m \in 0 .. NumBins - 1 : m < k => Table[m] < size
  BY <1>2, <1>5 DEF IsFirst
<1>7. k # NumBins
  BY <1>1, <1>2, <1>6 DEF TableComplete
<1>8. size <= Table[k]
  BY <1>1, <1>2, <1>5, <1>6, <1>7 DEF IsFirst
<1>. QED  BY <1>1, <1>4, <1>6, <1>7, <1>8

=============================================================================
