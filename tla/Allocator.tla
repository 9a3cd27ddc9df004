----------------------------- MODULE Allocator -----------------------------
(***************************************************************************)
(* What malloc and free promise a program (src/include/mymalloc.h),        *)
(* whatever heaps, superblocks and locks are behind them: a call of malloc *)
(* returns NULL, or memory of the size asked for that no block the program *)
(* holds overlaps; a block stops being held when its free is called, and   *)
(* not before.                                                             *)
(***************************************************************************)
EXTENDS Integers

CONSTANTS Threads, Chunks, ChunkSize, Sizes

VARIABLES
    held,      \* the blocks the program holds
    calls      \* calls[t]: the call thread t has in progress

absVars == << held, calls >>

NoCall     == [op |-> "none", size |-> 0]
FreeCall   == [op |-> "free", size |-> 0]
MallocCall(size) == [op |-> "malloc", size |-> size]

Overlap(p, q) ==
    p.sb = q.sb /\ p.off < q.off + q.size /\ q.off < p.off + p.size

AbsInit == held = {} /\ calls = [t \in Threads |-> NoCall]

CallMalloc(t, size) ==
    /\ calls[t] = NoCall
    /\ calls' = [calls EXCEPT ![t] = MallocCall(size)]
    /\ UNCHANGED held

ReturnNull(t) ==
    /\ calls[t].op = "malloc"
    /\ calls' = [calls EXCEPT ![t] = NoCall]
    /\ UNCHANGED held

ReturnBlock(t, p) ==
    /\ calls[t].op = "malloc" /\ p.size = calls[t].size
    /\ p.off + p.size <= ChunkSize
    /\ \A q \in held : ~Overlap(p, q)
    /\ held'  = held \cup {p}
    /\ calls' = [calls EXCEPT ![t] = NoCall]

CallFree(t, p) ==
    /\ calls[t] = NoCall
    /\ held'  = held \ {p}
    /\ calls' = [calls EXCEPT ![t] = FreeCall]

ReturnFree(t) ==
    /\ calls[t] = FreeCall
    /\ calls' = [calls EXCEPT ![t] = NoCall]
    /\ UNCHANGED held

AbsNext ==
    \E t \in Threads :
        \/ \E size \in Sizes : CallMalloc(t, size)
        \/ ReturnNull(t)
        \/ \E p \in [sb : Chunks, off : 0 .. ChunkSize - 1, size : Sizes] :
              ReturnBlock(t, p)
        \/ \E p \in held : CallFree(t, p)
        \/ ReturnFree(t)

AbsSpec == AbsInit /\ [][AbsNext]_absVars

=============================================================================
