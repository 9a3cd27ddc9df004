----------------------------- MODULE Superblock -----------------------------
(***************************************************************************)
(* The superblock of src/src/superblock.c: a chunk of SUPERBLOCK_SIZE      *)
(* bytes whose header is followed by a buffer cut into blocks of one size. *)
(* Blocks are handed out by a cursor that walks the fresh part of the      *)
(* buffer ("reap mode") and, when that is used up, from a LIFO list of     *)
(* freed blocks.                                                           *)
(*                                                                         *)
(* The module has no variables: each operator maps the header a function   *)
(* finds to the header it leaves.  A pointer to a block is its byte        *)
(* offset in the buffer, so that a changed block size moves blocks the way *)
(* it does in memory, and the list threaded through the freed blocks is    *)
(* the sequence of their offsets.  The `magic' tag is left out: it is only *)
(* read by a debug assertion.  The mutex of the header lives in the lock   *)
(* table of module Heap.                                                   *)
(***************************************************************************)
EXTENDS Integers, Sequences

CONSTANTS
    Superblocks,       \* the superblocks the operating system can provide
    NULL,              \* the null pointer
    SUPERBLOCK_SIZE,   \* bytes in a superblock, header included
    HEADER_SIZE,       \* sizeof(SuperblockHeader)
    MIN_BLOCK_SIZE,    \* alignment of every block
    UINT_MOD           \* 2^w for the width w of an unsigned int

ASSUME NullAssumption == NULL \notin Superblocks

ASSUME SizesAssumption ==
    /\ HEADER_SIZE \in Nat \ {0}
    /\ SUPERBLOCK_SIZE \in Nat /\ SUPERBLOCK_SIZE > HEADER_SIZE
    /\ MIN_BLOCK_SIZE \in Nat \ {0}
    /\ HEADER_SIZE % MIN_BLOCK_SIZE = 0    \* the header's type is aligned
    /\ UINT_MOD \in Nat /\ UINT_MOD > SUPERBLOCK_SIZE

BufferSize == SUPERBLOCK_SIZE - HEADER_SIZE

(* Heaps is a parameter here because a header names the heap that owns it. *)
SuperblockHeader(Heaps) ==
    [ owner           : Heaps \cup {NULL},
      block_size      : Nat \ {0},
      total_blocks    : Nat,
      prev            : Superblocks \cup {NULL},
      next            : Superblocks \cup {NULL},
      reapable_blocks : 0 .. UINT_MOD - 1,
      num_free_blocks : 0 .. UINT_MOD - 1,
      free_list       : Seq(Nat),
      reap_position   : Nat ]

(* Mutant: the header is not subtracted from the buffer.                   *)
reset_superblock_HeaderForgotten(header, block_size) ==
    LET total == SUPERBLOCK_SIZE \div block_size
    IN  [header EXCEPT !.block_size = block_size, !.total_blocks = total,
                       !.prev = NULL, !.next = NULL, !.free_list = << >>,
                       !.reapable_blocks = total, !.num_free_blocks = total,
                       !.reap_position = 0]

reset_superblock(header, block_size) ==
    LET total == BufferSize \div block_size
    IN  [header EXCEPT !.block_size      = block_size,
                       !.total_blocks    = total,
                       !.prev            = NULL,
                       !.next            = NULL,
                       !.reapable_blocks = total,
                       !.num_free_blocks = total,
                       !.free_list       = << >>,
                       !.reap_position   = 0]

(* superblock_alloc: the pointer it returns, and the header it leaves.  It *)
(* follows the head of the free list without looking: with no block left   *)
(* it dereferences a null pointer.                                         *)
HasBlock(header) == header.reapable_blocks > 0 \/ header.free_list # << >>

AllocatedPtr(header) ==
    IF header.reapable_blocks > 0 THEN header.reap_position
                                  ELSE Head(header.free_list)

(* Mutants: the cursor moves on past the end of the buffer; the cursor     *)
(* moves by one byte less than a block.                                    *)
superblock_alloc_AlwaysReaps(header) ==
    [header EXCEPT !.num_free_blocks = (@ - 1) % UINT_MOD,
                   !.reap_position   = @ + header.block_size,
                   !.reapable_blocks = @ - 1]

superblock_alloc_ShortStep(header) ==
    LET taken == [header EXCEPT !.num_free_blocks = (@ - 1) % UINT_MOD]
    IN  IF header.reapable_blocks > 0
          THEN [taken EXCEPT !.reap_position   = @ + header.block_size - 1,
                             !.reapable_blocks = @ - 1]
          ELSE [taken EXCEPT !.free_list = Tail(@)]

superblock_alloc(header) ==
    LET taken == [header EXCEPT !.num_free_blocks = (@ - 1) % UINT_MOD]
    IN  IF header.reapable_blocks > 0
          THEN [taken EXCEPT !.reap_position   = @ + header.block_size,
                             !.reapable_blocks = @ - 1]
          ELSE [taken EXCEPT !.free_list = Tail(@)]

(* The buffer starts HEADER_SIZE bytes into an aligned superblock.         *)
Misaligned(ptr) == (HEADER_SIZE + ptr) % MIN_BLOCK_SIZE # 0

(* Mutant: the freed block is not counted.                                 *)
superblock_free_Uncounted(header, ptr) ==
    IF Misaligned(ptr) THEN header
                       ELSE [header EXCEPT !.free_list = << ptr >> \o @]

superblock_free(header, ptr) ==
    IF Misaligned(ptr)
      THEN header
      ELSE [header EXCEPT !.free_list       = << ptr >> \o @,
                          !.num_free_blocks = (@ + 1) % UINT_MOD]

(* Mutant: one block may still be in use.                                  *)
is_superblock_empty_Nearly(header) ==
    header.num_free_blocks + 1 >= header.total_blocks

is_superblock_empty(header) == header.num_free_blocks = header.total_blocks

(* In bytes, before the conversion to size_t that the caller's addition    *)
(* makes.                                                                  *)
used_bytes(header) ==
    (header.total_blocks - header.num_free_blocks) * header.block_size

(* The offsets of the blocks a header can still hand out.                  *)
FreeBlocks(header) ==
    { header.reap_position + i * header.block_size :
        i \in 0 .. header.reapable_blocks - 1 }
    \cup { header.free_list[i] : i \in 1 .. Len(header.free_list) }

=============================================================================
