------------------------- MODULE MyMallocProperties -------------------------
(***************************************************************************)
(* What a program may rely on when it calls malloc, calloc, realloc and    *)
(* free, and exactly where it may not.                                     *)
(***************************************************************************)
EXTENDS MyMalloc

BlockType == [ base : Chunks \cup Mappings \cup {NULL}, at : Cells,
               size : Nat, word : Words \cup {0}, filled : Nat ]

TypeOK ==
    /\ TableTypeOK
    /\ mem \in [Chunks \cup Mappings ->
                  [Cells -> Words \cup {MAGIC, LINK} \cup 0 .. SIZE_MOD - 1]]
    /\ \A r \in Mappings : mapped[r] \in Cells \cup {MaxCells} /\ mapped[r] % PAGE = 0
    /\ small \subseteq SmallBlocks
    /\ held  \subseteq BlockType
    /\ th \in [Threads -> [ pc : { "idle", "malloc", "zero", "copy", "free",
                                   "large_map", "large_copy" },
                            op : { "none", "malloc", "calloc", "realloc", "free" },
                            size : 0 .. SIZE_MOD - 1, want : Nat,
                            old : BlockType, old_large : BOOLEAN,
                            new : BlockType ]]
    /\ crashed \in BOOLEAN

(* What the program wrote into a block is there until it writes again or   *)
(* frees the block, and goes along to the new block when realloc moves it, *)
(* up to the smaller size; what calloc returns is zero.  Neither the free  *)
(* list, nor headers, nor another thread's block get in the way.           *)
ContentsKept ==
    \A b \in Blocks : \A i \in 0 .. b.filled - 1 : mem[b.base][b.at + i] = b.word

(* A block is as large as the program asked, calloc's product included,    *)
(* but for malloc of sizes that wrap around when the header is added.      *)
LargeEnough ==
    \A b \in Blocks : b.size <= Room(b) \/ Wraps(b.size)

(* A block is held by the program, or has one place in one call.           *)
Apart(b, c) == b = NoBlock \/ c = NoBlock \/ ~Is(b, c)

OneOwner ==
    /\ \A b, c \in held : Is(b, c) => b = c
    /\ \A b \in held, t \in Threads : Apart(b, th[t].old) /\ Apart(b, th[t].new)
    /\ \A t, u \in Threads :
         /\ Apart(th[t].old, th[u].new)
         /\ t # u => Apart(th[t].old, th[u].old) /\ Apart(th[t].new, th[u].new)

(* Each block in use, small or large, is held by the program or on its way *)
(* through a call, once: whatever fails, nothing leaks, and nothing is     *)
(* freed that is still held.  A realloc that fails keeps the old block if  *)
(* both sizes are large, and frees it otherwise.                           *)
NothingLeaked ==
    /\ OneOwner
    /\ small = { p \in SmallBlocks : \E b \in Blocks : Is(b, p) }
    /\ \A r \in Mappings : mapped[r] # 0 <=> \E b \in Blocks : b.base = r

(* The blocks of a call, without one that large_realloc has just mapped.   *)
Finished(t) == IF th[t].pc = "large_copy" THEN {th[t].old} ELSE Owned(t)

(* The header of a large block says how large the block is, and that it is *)
(* large, while the program holds it, writes into it and moves it with     *)
(* realloc: that is all free and realloc know of the mapping when they     *)
(* unmap it.  Only large_realloc writes its header late.                   *)
HeadersKept ==
    \A b \in held \cup UNION { Finished(t) : t \in Threads } :
        b.base \in Mappings => is_large_alloc(mem, b) /\ header_size(mem, b) = b.size

(* A small block with another in front of it in its superblock: the two    *)
(* cells in front of the block are that one's.                             *)
BehindNeighbour(b) ==
    /\ b.base \in Chunks
    /\ \E p \in SmallBlocks :
          /\ p.base = b.base /\ p.at < b.at
          /\ b.at - SizeOfMmapHeader < p.at + get_block_size(p)

TakenForLarge(t) ==
    LET b == th[t].old
    IN  BehindNeighbour(b) /\ (is_large_alloc(mem, b) \/ th[t].old_large)

(* The code itself runs into undefined behaviour in three cases only: a    *)
(* small block is taken for a large one, which takes a neighbour in front  *)
(* of it that holds the magic number (LargeByTag); a size wraps around; or *)
(* a large block is made smaller (ReallocCopiesLesser).                    *)
OnlyKnownFaults ==
    \A t \in Threads : Faults(t) =>
        \/ TakenForLarge(t)
        \/ Wraps(th[t].want) \/ Wraps(th[t].old.size)
        \/ At(t, "large_copy") /\ th[t].size < th[t].old.size

(* size2idx, on the table as the threads find it, gives the first bin      *)
(* whose blocks are large enough.                                          *)
LookupFindsFirst ==
    \A t \in Threads : AtMalloc(t) /\ th[t].size <= max_block_size =>
        LET i == size2idx(th[t].size)
        IN  /\ i \in TableBins /\ th[t].size <= Table[i]
            /\ \A j \in TableBins : j < i => Table[j] < th[t].size

-----------------------------------------------------------------------------
(* realloc copies "min(old_size, new_size)" (src/mymalloc.c:67), and       *)
(* test/malloc_test.c:80 makes blocks smaller as well as larger.          *)
ReallocCopiesLesser ==
    \A t \in Threads :
        At(t, "large_copy") /\ th[t].old.base \in Mappings =>
          header_size(mem, th[t].old) <= Lesser(th[t].old.size, th[t].size)

(* is_large_alloc is to "Determine if a pointer was allocated using        *)
(* large_alloc" (include/largealloc.h:14).                                 *)
LargeByTag ==
    \A b \in held : is_large_alloc(mem, b) <=> b.base \in Mappings

=============================================================================
