----------------------------- MODULE MCMyMalloc -----------------------------
(***************************************************************************)
(* Small instances of the malloc interface, and the size table of the real *)
(* build.                                                                  *)
(***************************************************************************)
EXTENDS MyMallocProperties, TLC, FiniteSetsExt

CONSTANTS t1, t2, c2, c8, r1, r2, w

(* A ratio of 2.5 and a superblock of 16 cells make a table of three sizes *)
(* in which the loop and the size added after it both have a part.         *)
ThreeSizes == 0 :> 2 @@ 1 :> 4 @@ 2 :> 8

TwoChunks  == c2 :> 0 @@ c8 :> 2
ThreeBlocks == { [base |-> c2, at |-> 2], [base |-> c8, at |-> 2],
                 [base |-> c8, at |-> 10] }

EightCells == { << 1, 2 >>, << 13, 5 >> }   \* 13 * 5 wraps around
NoCalloc   == {}

Alike == Permutations(Threads) \cup Permutations(Mappings)

(* What macros.h and a header of 128 bytes make of init_size_table: 23     *)
(* bins, up to 129472 bytes.                                               *)
RealSizes == [ i \in 0 .. 22 |->
    << 16, 32, 48, 64, 96, 144, 208, 304, 448, 672, 1008, 1504, 2256, 3376,
       5056, 7584, 11376, 17056, 25584, 38368, 57552, 86320, 129472 >>[i + 1] ]

MacrosH == INSTANCE TableInit WITH
    SUPERBLOCK_SIZE <- 262144, HEADER_SIZE <- 128, MIN_BLOCK_SIZE <- 16,
    SIZE_RATIO <- 150, MAX_BLOCK_SIZE_THRESHOLD_RATIO <- 80, MAX_NUM_BINS <- 128,
    Table <- RealSizes, NumBins <- 23

ASSUME RealTableIsRight == MacrosH!RightTable

(* size2idx on it, one below, at and one above each block size             *)
ASSUME RealLookups ==
    \A i \in 0 .. 22 :
       /\ FirstBin(RealSizes, 23, RealSizes[i] - 1) = i
       /\ FirstBin(RealSizes, 23, RealSizes[i]) = i
       /\ i < 22 => FirstBin(RealSizes, 23, RealSizes[i] + 1) = i + 1

=============================================================================
