------------------------------ MODULE MyMalloc ------------------------------
(***************************************************************************)
(* The interface of src/src/mymalloc.c: malloc, calloc, realloc and free,  *)
(* called by several threads, over the size table that the first calls     *)
(* compute, the large allocations, and the heaps.  The heaps are what      *)
(* module Allocator promises of them, which Heap is shown to keep:         *)
(* heap_alloc returns NULL or a block of the class that is not in use,     *)
(* heap_free takes it back and links it into a free list.  Two things are  *)
(* assumed of them besides: a superblock stays with one class, and its     *)
(* blocks lie side by side, each as large as the class says.  Heap may cut *)
(* an empty superblock for another class, and where superblocks move it    *)
(* may use one without cutting it anew: both are studied there, not here.  *)
(*                                                                         *)
(* Memory is modelled with its contents: the program writes into blocks,   *)
(* realloc copies, and is_large_alloc reads in front of a pointer, which   *)
(* for a small block is the end of its neighbour.                          *)
(***************************************************************************)
EXTENDS TableInit, LargeAlloc, FiniteSets

CONSTANTS
    NULL,
    Chunks,          \* superblocks
    ChunkBin,        \* the bin each is cut for
    SmallBlocks,     \* bound: the blocks the heaps have, as [base, at]
    LINK,            \* a cell that holds the next pointer of a FreeBlock
    Words,           \* what a program writes into cells
    MallocRequests, ReallocRequests,   \* the sizes programs ask for,
    CallocRequests,                    \* and the nmemb and size for calloc
    MaxCells,        \* bound: cells of a mapping
    MaxBlocks        \* bound: blocks malloc and calloc make, at a time

ASSUME InterfaceAssumption ==
    /\ Chunks \cap Mappings = {} /\ NULL \notin Chunks \cup Mappings
    /\ ChunkBin \in [Chunks -> TableBins]
    /\ SmallBlocks \subseteq [ base : Chunks, at : Nat ]
    /\ \A b \in SmallBlocks : /\ b.at >= SizeOfMmapHeader   \* after a header
                              /\ b.at + Table[ChunkBin[b.base]] <= MaxCells
    /\ \A b, c \in SmallBlocks :                      \* side by side
         b.base = c.base /\ b.at < c.at => b.at + Table[ChunkBin[b.base]] <= c.at
    /\ MAGIC # 0
    /\ PAGE \in Nat /\ PAGE >= SizeOfMmapHeader     \* a header fits into a page
    /\ MaxCells \in Nat /\ MaxCells > SizeOfMmapHeader
    /\ SIZE_MOD \in Nat /\ SIZE_MOD > MaxCells
    /\ MallocRequests \cup ReallocRequests \subseteq 1 .. SIZE_MOD - 1 /\ MaxBlocks \in Nat
    /\ CallocRequests \subseteq (0 .. SIZE_MOD - 1) \X (0 .. SIZE_MOD - 1)

VARIABLES
    mem,        \* the contents of memory
    mapped,     \* cells of each mapping, 0 when it is not mapped
    small,      \* the blocks the heaps have handed out
    held,       \* the blocks the program holds, with what it knows of them
    th,         \* each thread's call and its local variables
    crashed     \* the process has run into undefined behaviour

memVars == << mem, mapped, small >>
vars    == << tableVars, memVars, held, th, crashed >>

-----------------------------------------------------------------------------
(* A block: where it is, the size asked for, and the word the program      *)
(* expects in its first `filled' cells.                                    *)
BlockAt(p, size) == [base |-> p.base, at |-> p.at, size |-> size,
                     word |-> 0, filled |-> 0]
(* The same block, as far as the program knows what is in it.              *)
Holding(b, word, filled) == [base |-> b.base, at |-> b.at, size |-> b.size,
                             word |-> word, filled |-> filled]
NoBlock == BlockAt([base |-> NULL, at |-> 0], 0)

Cells == 0 .. MaxCells - 1

Calling(pc, op, size, want, old, old_large) ==
    [pc |-> pc, op |-> op, size |-> size, want |-> want,
     old |-> old, old_large |-> old_large, new |-> NoBlock]

Idle == Calling("idle", "none", 0, 0, NoBlock, FALSE)

Init ==
    /\ TableInit
    /\ mem     = [b \in Chunks \cup Mappings |-> [i \in Cells |-> 0]]
    /\ mapped  = [r \in Mappings |-> 0]
    /\ small   = {}
    /\ held    = {}
    /\ th      = [t \in Threads |-> Idle]
    /\ crashed = FALSE

Is(b, p) == b.base = p.base /\ b.at = p.at

(* What the code may access from the start of the block on.                *)
Room(p) == IF p.base \in Chunks THEN Table[ChunkBin[p.base]]
                                ELSE mapped[p.base] - p.at

(* The block_size of the superblock the pointer lies in.                   *)
get_block_size(p) == Table[ChunkBin[p.base]]

Lesser(a, b) == IF a < b THEN a ELSE b

(* A size to which the size of the header cannot be added.                 *)
Wraps(size) == size \in SIZE_MOD - SizeOfMmapHeader .. SIZE_MOD - 1

(* What the program may expect in a block of the new size; a block whose   *)
(* size wraps around is too small for anything.                            *)
StillFilled(b, size) == IF Wraps(size) THEN 0 ELSE Lesser(b.filled, size)

At(t, pc) == ~crashed /\ th[t].pc = pc
GoOn(t, pc, new) == th' = [th EXCEPT ![t] = [@ EXCEPT !.pc = pc, !.new = new]]
Return(t) == th' = [th EXCEPT ![t] = Idle]
Hand(t, b) == held' = held \cup {b} /\ Return(t)
Return_NULL(t) == Return(t) /\ UNCHANGED held

-----------------------------------------------------------------------------
(* Calls.  Those that return at once change nothing: malloc and calloc of  *)
(* nothing, a calloc whose product would wrap around, realloc and free of  *)
(* NULL.                                                                   *)
Enter(t, call) ==
    /\ At(t, "idle")
    /\ EnterMalloc(t)
    /\ th' = [th EXCEPT ![t] = call]
    /\ UNCHANGED << memVars, crashed >>

(* The bound: room for one more block.                                     *)
Owned(t) == { th[t].old, th[t].new } \ {NoBlock}
Blocks  == held \cup UNION { Owned(t) : t \in Threads }
Pending == { t \in Threads : th[t].pc = "malloc" /\ th[t].old = NoBlock }
OneMore == Cardinality(Blocks) + Cardinality(Pending) < MaxBlocks

CallMalloc(t, size) ==
    /\ OneMore
    /\ Enter(t, Calling("malloc", "malloc", size, size, NoBlock, FALSE))
    /\ UNCHANGED held

(* Mutant: the product is not checked.                                     *)
CallCalloc_Unchecked(t, nmemb, size) ==
    /\ nmemb # 0 /\ size # 0 /\ OneMore
    /\ Enter(t, Calling("malloc", "calloc", (nmemb * size) % SIZE_MOD, nmemb * size,
                        NoBlock, FALSE))
    /\ UNCHANGED held

CallCalloc(t, nmemb, size) ==
    /\ nmemb # 0 /\ size # 0 /\ OneMore
    /\ size <= (SIZE_MOD - 1) \div nmemb
    /\ Enter(t, Calling("malloc", "calloc", (nmemb * size) % SIZE_MOD, nmemb * size,
                        NoBlock, FALSE))
    /\ UNCHANGED held

(* realloc reads the tag of the block and compares sizes: both large, ...  *)
CallReallocLarge(t, b, size) ==
    /\ At(t, "idle")
    /\ size > max_block_size /\ is_large_alloc(mem, b)
    /\ th' = [th EXCEPT ![t] = Calling("large_map", "realloc", size, size, b, TRUE)]
    /\ held' = held \ {b}
    /\ UNCHANGED << tableVars, memVars, crashed >>

(* ... or not.                                                             *)
CallRealloc(t, b, size) ==
    /\ ~(size > max_block_size /\ is_large_alloc(mem, b))
    /\ Enter(t, Calling("malloc", "realloc", size, size, b, is_large_alloc(mem, b)))
    /\ held' = held \ {b}

(* free, and realloc to size 0                                             *)
CallFree(t, b) ==
    /\ At(t, "idle")
    /\ th' = [th EXCEPT ![t] = Calling("free", "free", 0, 0, b, FALSE)]
    /\ held' = held \ {b}
    /\ UNCHANGED << tableVars, memVars, crashed >>

(* The program fills a block it holds.                                     *)
Write(t, b, w) ==
    /\ At(t, "idle")
    /\ b.size <= Room(b)
    /\ mem' = [mem EXCEPT ![b.base] =
                 [i \in Cells |-> IF i \in b.at .. b.at + b.size - 1 THEN w ELSE @[i]]]
    /\ held' = (held \ {b}) \cup { Holding(b, w, b.size) }
    /\ UNCHANGED << tableVars, mapped, small, th, crashed >>

-----------------------------------------------------------------------------
(* malloc, once the thread is past init_size_table                         *)
AtMalloc(t) == At(t, "malloc") /\ tl[t].at = "in"

(* What the caller does with the block: return it, set it to zero, or copy *)
(* the old block into it.                                                  *)
Deliver(t, p) ==
    LET b == BlockAt(p, th[t].want)
    IN  CASE th[t].op = "malloc"  -> Hand(t, b)
          [] th[t].op = "calloc"  -> GoOn(t, "zero", b) /\ UNCHANGED held
          [] th[t].op = "realloc" -> GoOn(t, "copy", b) /\ UNCHANGED held

HeapAlloc(t, p) ==
    /\ AtMalloc(t)
    /\ th[t].size <= max_block_size
    /\ p \notin small /\ ChunkBin[p.base] = size2idx(th[t].size)
    /\ small' = small \cup {p}
    /\ LeaveMalloc(t)
    /\ Deliver(t, p)
    /\ UNCHANGED << mem, mapped, crashed >>

(* mmap of a length that is not zero                                       *)
Map(r, size) ==
    LET length == alloced_size(size)
    IN  /\ mapped[r] = 0
        /\ length # 0 /\ InPages(length) <= MaxCells
        /\ mapped' = [mapped EXCEPT ![r] = InPages(length)]

large_alloc(t, r) ==
    /\ AtMalloc(t)
    /\ th[t].size > max_block_size
    /\ Map(r, th[t].size)
    /\ mem' = [mem EXCEPT ![r] = WithMmapHeader(@, th[t].size)]
    /\ LeaveMalloc(t)
    /\ Deliver(t, [base |-> r, at |-> SizeOfMmapHeader])
    /\ UNCHANGED << small, crashed >>

(* Mutant: a realloc that fails forgets its block.                         *)
MallocFails_Forgets(t) ==
    /\ AtMalloc(t)
    /\ LeaveMalloc(t)
    /\ Return_NULL(t)
    /\ UNCHANGED << memVars, crashed >>

(* Memory can run out at any time.  A realloc then frees its old block.    *)
MallocFails(t) ==
    /\ AtMalloc(t)
    /\ LeaveMalloc(t)
    /\ IF th[t].op = "realloc" THEN GoOn(t, "free", NoBlock) ELSE Return(t)
    /\ UNCHANGED << memVars, held, crashed >>

(* calloc sets the block to zero.                                          *)
ZeroFits(t) == th[t].want <= Room(th[t].new)

Zero(t) ==
    LET b == th[t].new
    IN  /\ At(t, "zero") /\ ZeroFits(t)
        /\ mem' = [mem EXCEPT ![b.base] =
                     [i \in Cells |->
                        IF i \in b.at .. b.at + th[t].want - 1 THEN 0 ELSE @[i]]]
        /\ Hand(t, Holding(b, 0, th[t].want))
        /\ UNCHANGED << tableVars, mapped, small, crashed >>

-----------------------------------------------------------------------------
(* realloc of a small block, or to a small size: copy, then free the old   *)
(* block.                                                                  *)
(* Mutant: the larger of the two sizes is copied.                          *)
NumToCopy_Larger(t) ==
    IF th[t].old_large \/ get_block_size(th[t].old) < th[t].size
      THEN th[t].size ELSE get_block_size(th[t].old)

NumToCopy(t) ==
    IF th[t].old_large THEN th[t].size
                       ELSE Lesser(get_block_size(th[t].old), th[t].size)

CopyFits(t) ==
    NumToCopy(t) <= Lesser(Room(th[t].old), Room(th[t].new))

Copy(t) ==
    /\ At(t, "copy") /\ CopyFits(t)
    /\ mem' = memcpy(mem, th[t].new, th[t].old, NumToCopy(t))
    /\ GoOn(t, "free", Holding(th[t].new, th[t].old.word,
                               StillFilled(th[t].old, th[t].size)))
    /\ UNCHANGED << tableVars, mapped, small, held, crashed >>

(* The end of free and of such a realloc, which may return a new block.    *)
HandNew(t) == IF th[t].new = NoBlock THEN Return_NULL(t) ELSE Hand(t, th[t].new)

HeapFree(t) ==
    LET p == [base |-> th[t].old.base, at |-> th[t].old.at]
    IN  /\ At(t, "free")
        /\ ~is_large_alloc(mem, p) /\ p.base \in Chunks
        /\ small' = small \ {p}
        /\ mem' = [mem EXCEPT ![p.base][p.at] = LINK]
        /\ HandNew(t)
        /\ UNCHANGED << tableVars, mapped, crashed >>

(* munmap from the start of a mapping: the pages of that length are gone,  *)
(* the others stay.  What is at an address that is not mapped is of no     *)
(* interest: all zero.                                                     *)
UnmapFits(r, length) == InPages(length) <= mapped[r]
Unmap(r, length) == mapped' = [mapped EXCEPT ![r] = @ - InPages(length)]
WithoutPages(cells, length) ==
    [i \in Cells |-> IF i < InPages(length) THEN 0 ELSE cells[i]]

(* The length is computed from the header.                                 *)
FreedLength(t) == alloced_size(header_size(mem, th[t].old))

large_free(t) ==
    LET r == th[t].old.base
    IN  /\ At(t, "free")
        /\ is_large_alloc(mem, th[t].old) /\ r \in Mappings
        /\ UnmapFits(r, FreedLength(t))
        /\ Unmap(r, FreedLength(t))
        /\ mem' = [mem EXCEPT ![r] = WithoutPages(@, FreedLength(t))]
        /\ HandNew(t)
        /\ UNCHANGED << tableVars, small, crashed >>

-----------------------------------------------------------------------------
(* large_realloc                                                           *)
LargeMap(t, r) ==
    /\ At(t, "large_map")
    /\ Map(r, th[t].size)
    /\ GoOn(t, "large_copy",
            BlockAt([base |-> r, at |-> SizeOfMmapHeader], th[t].size))
    /\ UNCHANGED << tableVars, mem, small, held, crashed >>

(* The old block stays as it was.                                          *)
LargeMapFails(t) ==
    /\ At(t, "large_map")
    /\ Hand(t, th[t].old)
    /\ UNCHANGED << tableVars, memVars, crashed >>

(* Mutant: the size of the header is not added.                            *)
OldAlloced_NoHeader(t) == header_size(mem, th[t].old)

(* The header is copied with the block: old_alloced_size cells from the    *)
(* old header on.                                                          *)
OldAlloced(t) == alloced_size(header_size(mem, th[t].old))

LargeCopyFits(t) ==
    /\ th[t].old.base \in Mappings
    /\ OldAlloced(t) <= Lesser(mapped[th[t].old.base], mapped[th[t].new.base])

(* Mutant: the new block keeps the header that was copied.                 *)
LargeCopy_HeaderKept(t) ==
    LET old    == th[t].old
        new    == th[t].new
        Start(p) == [base |-> p.base, at |-> 0]
        copied == memcpy(mem, Start(new), Start(old), OldAlloced(t))
    IN  /\ At(t, "large_copy") /\ LargeCopyFits(t)
        /\ mem' = [copied EXCEPT ![old.base] = WithoutPages(@, OldAlloced(t))]
        /\ Unmap(old.base, OldAlloced(t))
        /\ Hand(t, Holding(new, old.word, StillFilled(old, th[t].size)))
        /\ UNCHANGED << tableVars, small, crashed >>

LargeCopy(t) ==
    LET old    == th[t].old
        new    == th[t].new
        Start(p) == [base |-> p.base, at |-> 0]
        copied == memcpy(mem, Start(new), Start(old), OldAlloced(t))
    IN  /\ At(t, "large_copy") /\ LargeCopyFits(t)
        /\ mem' = [copied EXCEPT ![new.base] = WithMmapHeader(@, th[t].size),
                                 ![old.base] = WithoutPages(@, OldAlloced(t))]
        /\ Unmap(old.base, OldAlloced(t))
        /\ Hand(t, Holding(new, old.word, StillFilled(old, th[t].size)))
        /\ UNCHANGED << tableVars, small, crashed >>

-----------------------------------------------------------------------------
(* Undefined behaviour in the step a thread is about to take: an access    *)
(* beyond a block or a mapping, munmap of a piece of a superblock or of    *)
(* what is behind a mapping.                                               *)
Faults(t) ==
    \/ At(t, "zero") /\ ~ZeroFits(t)
    \/ At(t, "copy") /\ ~CopyFits(t)
    \/ At(t, "free") /\ is_large_alloc(mem, th[t].old) # (th[t].old.base \in Mappings)
    \/ At(t, "free") /\ th[t].old.base \in Mappings
                     /\ ~UnmapFits(th[t].old.base, FreedLength(t))
    \/ At(t, "large_copy") /\ ~LargeCopyFits(t)

(* The program uses all of a block.                                        *)
WriteFaults(t) == At(t, "idle") /\ \E b \in held : b.size > Room(b)

Crash(t) ==
    /\ Faults(t) \/ WriteFaults(t)
    /\ crashed' = TRUE
    /\ UNCHANGED << tableVars, memVars, held, th >>

Call(t) ==
    \/ \E size \in MallocRequests : CallMalloc(t, size)
    \/ \E r \in CallocRequests : CallCalloc(t, r[1], r[2])
    \/ \E b \in held, size \in ReallocRequests :
          CallRealloc(t, b, size) \/ CallReallocLarge(t, b, size)
    \/ \E b \in held : CallFree(t, b)
    \/ \E b \in held, w \in Words : Write(t, b, w)

(* A call in progress goes on.                                             *)
Continue(t) ==
    \/ InitSizeTable(t) /\ UNCHANGED << memVars, held, th, crashed >>
    \/ (\E p \in SmallBlocks : HeapAlloc(t, p))
    \/ (\E r \in Mappings : large_alloc(t, r) \/ LargeMap(t, r))
    \/ MallocFails(t) \/ Zero(t) \/ Copy(t) \/ HeapFree(t) \/ large_free(t)
    \/ LargeMapFails(t) \/ LargeCopy(t)

(* The process has died.                                                   *)
Stopped == crashed /\ UNCHANGED vars

Next ==
    \/ \E t \in Threads : Call(t) \/ Continue(t) \/ Crash(t)
    \/ Stopped

Spec == Init /\ [][Next]_vars

=============================================================================
