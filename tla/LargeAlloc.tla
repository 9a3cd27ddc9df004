----------------------------- MODULE LargeAlloc -----------------------------
(***************************************************************************)
(* The large allocations of src/src/largealloc.c: a block larger than      *)
(* max_block_size gets a mapping of its own, with an MmapHeader in front.  *)
(* What is in front of a pointer also tells large blocks from small ones.  *)
(*                                                                         *)
(* The module has no variables: operators map the memory mem to the memory *)
(* a function leaves.  Memory is counted in cells of 8 bytes, half an      *)
(* MmapHeader: the magic number and the size.  mem[base] is the mapping or *)
(* the superblock at base, from the MmapHeader, or from the last 16 bytes  *)
(* of the SuperblockHeader, on; a block is a base and an index in it.      *)
(***************************************************************************)
EXTENDS Integers

CONSTANTS
    Mappings,      \* places where mmap can put a large block
    MAGIC,         \* a cell that starts with MMAP_HEADER_MAGIC
    PAGE,          \* cells in a page
    SIZE_MOD       \* 2^w for the width w of a size_t, in cells

SizeOfMmapHeader == 2

(* The length mmap and munmap are given; the sum wraps around.             *)
alloced_size(size) == (size + SizeOfMmapHeader) % SIZE_MOD

(* mmap and munmap work on whole pages.                                    *)
InPages(length) == ((length + PAGE - 1) \div PAGE) * PAGE

(* Placing the header at the start of a mapping.                           *)
WithMmapHeader(cells, size) == [cells EXCEPT ![0] = MAGIC, ![1] = size]

header_size(mem, p) == mem[p.base][p.at - 1]

is_large_alloc(mem, p) == mem[p.base][p.at - SizeOfMmapHeader] = MAGIC

(* memcpy between two bases.                                               *)
memcpy(mem, to, from, n) ==
    [mem EXCEPT ![to.base] =
       [i \in DOMAIN @ |->
          IF i \in to.at .. to.at + n - 1
            THEN mem[from.base][from.at + (i - to.at)] ELSE @[i]]]

=============================================================================
