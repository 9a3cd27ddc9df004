----------------------------- MODULE TableInit -----------------------------
(***************************************************************************)
(* The first calls of malloc (src/src/mymalloc.c, init_size_table of       *)
(* src/src/binmanager.c).  Every thread that finds size_table_initialized  *)
(* unset computes the table of block sizes into the same global variables, *)
(* without synchronisation.  A step is one store of init_size_table; they  *)
(* take effect in program order, the order compilers give them and x86     *)
(* keeps.                                                                  *)
(*                                                                         *)
(* Table is the table the computation has to end with: the assumption      *)
(* states the recurrence of the loop, and that it stays inside the array.  *)
(***************************************************************************)
EXTENDS Integers

CONSTANTS
    Threads,
    SUPERBLOCK_SIZE, HEADER_SIZE, MIN_BLOCK_SIZE,
    SIZE_RATIO,                       \* in per cent: 150 in macros.h
    MAX_BLOCK_SIZE_THRESHOLD_RATIO,   \* in per cent: 80
    MAX_NUM_BINS,
    Table, NumBins                    \* what size_table, num_size_bins become

half_sb == (SUPERBLOCK_SIZE - HEADER_SIZE) \div 2
max_block_size_threshold == (half_sb * MAX_BLOCK_SIZE_THRESHOLD_RATIO) \div 100

(* The size after sz: grown, aligned, and larger than sz.                  *)
NextSize(sz) ==
    LET new_sz == (((sz * SIZE_RATIO) \div 100) \div MIN_BLOCK_SIZE) * MIN_BLOCK_SIZE
    IN  IF new_sz > sz
          THEN new_sz
          ELSE new_sz + ((sz - new_sz) \div MIN_BLOCK_SIZE + 1) * MIN_BLOCK_SIZE

LoopEnds(sz)   == NextSize(sz) > half_sb
IsLargest(sz)  == LoopEnds(sz) /\ sz >= max_block_size_threshold
Successor(sz)  == IF LoopEnds(sz) THEN half_sb ELSE NextSize(sz)

TableBins == 0 .. NumBins - 1

RightTable ==
    /\ MIN_BLOCK_SIZE \in Nat \ {0}
    /\ SUPERBLOCK_SIZE \in Nat /\ HEADER_SIZE \in Nat
    /\ SUPERBLOCK_SIZE >= HEADER_SIZE + 2 * MIN_BLOCK_SIZE
    /\ SIZE_RATIO \in Nat
    /\ MAX_BLOCK_SIZE_THRESHOLD_RATIO \in 0 .. 100
    /\ MAX_NUM_BINS \in Nat
    /\ NumBins \in 1 .. MAX_NUM_BINS
    /\ Table \in [TableBins -> Nat]
    /\ Table[0] = MIN_BLOCK_SIZE
    /\ \A i \in TableBins :
         IF IsLargest(Table[i])
           THEN i = NumBins - 1
           ELSE i + 1 \in TableBins /\ Table[i + 1] = Successor(Table[i])

ASSUME TableAssumption == RightTable

VARIABLES
    size_table, num_size_bins, max_block_size, size_table_initialized,
    tl         \* each thread's place in malloc up to line 13, idx and sz

table     == << size_table, num_size_bins, max_block_size, size_table_initialized >>
tableVars == << table, tl >>

Storing == { "store", "extra", "bins", "largest", "flag" }

TableInit ==
    /\ size_table = [i \in 0 .. MAX_NUM_BINS - 1 |-> 0]
    /\ num_size_bins = 0
    /\ max_block_size = 0
    /\ size_table_initialized = FALSE
    /\ tl = [t \in Threads |-> [at |-> "out", idx |-> 0, sz |-> 0]]

TableTypeOK ==
    /\ size_table \in [0 .. MAX_NUM_BINS - 1 -> Nat]
    /\ num_size_bins \in 0 .. MAX_NUM_BINS
    /\ max_block_size \in Nat
    /\ size_table_initialized \in BOOLEAN
    /\ tl \in [Threads -> [ at  : Storing \cup { "out", "in" },
                            idx : 0 .. MAX_NUM_BINS - 1, sz : Nat ]]

-----------------------------------------------------------------------------
(* Mutant: the flag is taken for set once the table is not empty.          *)
EnterMalloc_Early(t) ==
    /\ tl[t].at = "out"
    /\ tl' = [tl EXCEPT ![t] =
                [at  |-> IF size_table[0] # 0 THEN "in" ELSE "store",
                 idx |-> 0, sz |-> MIN_BLOCK_SIZE]]
    /\ UNCHANGED table

(* malloc reads the flag.                                                  *)
EnterMalloc(t) ==
    /\ tl[t].at = "out"
    /\ tl' = [tl EXCEPT ![t] =
                [at  |-> IF size_table_initialized THEN "in" ELSE "store",
                 idx |-> 0, sz |-> MIN_BLOCK_SIZE]]
    /\ UNCHANGED table

(* Mutant: the loop does not end.                                          *)
StoreSize_Endless(t) ==
    LET sz == tl[t].sz
    IN  /\ tl[t].at = "store"
        /\ size_table' = [size_table EXCEPT ![tl[t].idx] = sz]
        /\ tl' = [tl EXCEPT ![t].idx = @ + 1, ![t].sz = NextSize(sz)]
        /\ UNCHANGED << num_size_bins, max_block_size, size_table_initialized >>

StoreSize(t) ==
    LET sz == tl[t].sz
    IN  /\ tl[t].at = "store"
        /\ size_table' = [size_table EXCEPT ![tl[t].idx] = sz]
        /\ tl' = [tl EXCEPT ![t] =
                    IF IsLargest(sz) THEN [@ EXCEPT !.at = "bins"]
                    ELSE [at  |-> IF LoopEnds(sz) THEN "extra" ELSE "store",
                          idx |-> @.idx + 1, sz |-> Successor(sz)]]
        /\ UNCHANGED << num_size_bins, max_block_size, size_table_initialized >>

StoreExtra(t) ==
    /\ tl[t].at = "extra"
    /\ size_table' = [size_table EXCEPT ![tl[t].idx] = tl[t].sz]
    /\ tl' = [tl EXCEPT ![t].at = "bins"]
    /\ UNCHANGED << num_size_bins, max_block_size, size_table_initialized >>

(* Mutant: the flag is set before max_block_size.                          *)
StoreNumBins_Flag(t) ==
    /\ tl[t].at = "bins"
    /\ num_size_bins' = tl[t].idx + 1
    /\ size_table_initialized' = TRUE
    /\ tl' = [tl EXCEPT ![t].at = "largest"]
    /\ UNCHANGED << size_table, max_block_size >>

StoreNumBins(t) ==
    /\ tl[t].at = "bins"
    /\ num_size_bins' = tl[t].idx + 1
    /\ tl' = [tl EXCEPT ![t].at = "largest"]
    /\ UNCHANGED << size_table, max_block_size, size_table_initialized >>

StoreLargest(t) ==
    /\ tl[t].at = "largest"
    /\ max_block_size' = tl[t].sz
    /\ tl' = [tl EXCEPT ![t].at = "flag"]
    /\ UNCHANGED << size_table, num_size_bins, size_table_initialized >>

StoreFlag(t) ==
    /\ tl[t].at = "flag"
    /\ size_table_initialized' = TRUE
    /\ tl' = [tl EXCEPT ![t].at = "in"]
    /\ UNCHANGED << size_table, num_size_bins, max_block_size >>

(* The call has used the table.                                            *)
LeaveMalloc(t) ==
    /\ tl[t].at = "in"
    /\ tl' = [tl EXCEPT ![t] = [at |-> "out", idx |-> 0, sz |-> 0]]
    /\ UNCHANGED table

InitSizeTable(t) ==
    \/ StoreSize(t) \/ StoreExtra(t)
    \/ StoreNumBins(t) \/ StoreLargest(t) \/ StoreFlag(t)

TableNext == \E t \in Threads : EnterMalloc(t) \/ InitSizeTable(t) \/ LeaveMalloc(t)

TableSpec == TableInit /\ [][TableNext]_tableVars

-----------------------------------------------------------------------------
(* The binary search of size2idx                                           *)
FirstBin(sizes, bins, size) ==
    LET search[range \in (0 .. bins) \X (0 .. bins)] ==
          LET i == range[1]
              j == range[2]
              s == i + (j - i) \div 2
          IN  IF i >= j THEN j
              ELSE IF size > sizes[s] THEN search[<< s + 1, j >>]
                                      ELSE search[<< i, s >>]
    IN  search[<< 0, bins >>]

(* Mutant: sizes equal to a block size go one bin too far.                 *)
size2idx_AtLeast(size) == FirstBin(size_table, num_size_bins, size + 1)

size2idx(size) == FirstBin(size_table, num_size_bins, size)

-----------------------------------------------------------------------------
(* Properties *)

TableComplete ==
    /\ \A i \in TableBins : size_table[i] = Table[i]
    /\ num_size_bins = NumBins
    /\ max_block_size = Table[NumBins - 1]

(* A thread that goes on in malloc finds the whole table, whichever        *)
(* threads are filling it, and again until the end of the program.         *)
TableReady ==
    \A t \in Threads : tl[t].at = "in" => TableComplete

(* Once the flag is set nobody sees the table change, although threads     *)
(* that found it unset are still storing.                                  *)
TableStable == [][ size_table_initialized => UNCHANGED table ]_tableVars

=============================================================================
