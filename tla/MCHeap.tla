------------------------------- MODULE MCHeap -------------------------------
(***************************************************************************)
(* Small instances of the concurrent heap.                                 *)
(***************************************************************************)
EXTENDS HeapProperties, TLC

CONSTANTS t1, t2, h1, h2, s1, s2, s3

OneClass    == 0 :> 4              \* two blocks in a buffer of 8 bytes
TwoClasses  == 0 :> 3 @@ 1 :> 4    \* two blocks either way
ThreeBlocks == 0 :> 2              \* three in a buffer of 6 bytes

OneHeap  == t1 :> h1 @@ t2 :> h1
TwoHeaps == t1 :> h1 @@ t2 :> h2

(* Superblocks are alike; so are two threads of one heap, and two threads  *)
(* with a heap each, when their heaps are exchanged with them.             *)
Threads_alike == Permutations(Superblocks) \cup Permutations(Threads)
Pairs_alike   == Permutations(Superblocks)
                   \cup { t1 :> t2 @@ t2 :> t1 @@ h1 :> h2 @@ h2 :> h1 }

=============================================================================
