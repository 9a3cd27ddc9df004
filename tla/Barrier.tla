------------------------------ MODULE Barrier ------------------------------
(***************************************************************************)
(* The stand-in for pthread barriers of src/include/ptbarrier.h, which the *)
(* linux-scalability benchmark uses where POSIX barriers are missing.  The *)
(* threads it was initialised for wait again and again.                    *)
(*                                                                         *)
(* pthread_cond_wait may return without a broadcast: SpuriousWakeup.       *)
(***************************************************************************)
EXTENDS Naturals, FiniteSets

CONSTANTS
    Threads,    \* the threads that wait: needed of them
    Nobody,     \* who holds a mutex that is free
    MaxRounds   \* bound: how often a thread waits

VARIABLES
    mutex,      \* who holds the barrier's mutex
    called,     \* the barrier's counter
    pc,         \* where each thread is in pthread_barrier_wait
    round       \* how often each thread has waited until the end

vars == << mutex, called, pc, round >>

needed == Cardinality(Threads)

Init ==
    /\ mutex  = Nobody
    /\ called = 0
    /\ pc     = [t \in Threads |-> "out"]
    /\ round  = [t \in Threads |-> 0]

-----------------------------------------------------------------------------
Call(t) ==
    /\ pc[t] = "out" /\ round[t] < MaxRounds
    /\ pc' = [pc EXCEPT ![t] = "lock"]
    /\ UNCHANGED << mutex, called, round >>

LockAndCount(t) ==
    /\ pc[t] = "lock" /\ mutex = Nobody
    /\ mutex'  = t
    /\ called' = called + 1
    /\ pc'     = [pc EXCEPT ![t] = "counted"]
    /\ UNCHANGED round

(* The last to come starts the next round and wakes the others.            *)
Broadcast(t) ==
    /\ pc[t] = "counted" /\ called = needed
    /\ called' = 0
    /\ pc' = [u \in Threads |-> IF u = t THEN "unlock"
                                ELSE IF pc[u] = "waiting" THEN "woken" ELSE pc[u]]
    /\ UNCHANGED << mutex, round >>

(* pthread_cond_wait releases the mutex and has it back when it returns.   *)
CondWait(t) ==
    /\ pc[t] = "counted" /\ called # needed
    /\ mutex' = Nobody
    /\ pc' = [pc EXCEPT ![t] = "waiting"]
    /\ UNCHANGED << called, round >>

SpuriousWakeup(t) ==
    /\ pc[t] = "waiting"
    /\ pc' = [pc EXCEPT ![t] = "woken"]
    /\ UNCHANGED << mutex, called, round >>

CondReturn(t) ==
    /\ pc[t] = "woken" /\ mutex = Nobody
    /\ mutex' = t
    /\ pc' = [pc EXCEPT ![t] = "unlock"]
    /\ UNCHANGED << called, round >>

Unlock(t) ==
    /\ pc[t] = "unlock"
    /\ mutex' = Nobody
    /\ pc'    = [pc EXCEPT ![t] = "out"]
    /\ round' = [round EXCEPT ![t] = @ + 1]
    /\ UNCHANGED called

pthread_barrier_wait(t) ==
    \/ Call(t) \/ LockAndCount(t) \/ Broadcast(t) \/ CondWait(t)
    \/ CondReturn(t) \/ Unlock(t)

Next == \E t \in Threads : pthread_barrier_wait(t) \/ SpuriousWakeup(t)

Spec == Init /\ [][Next]_vars

(* A system in which only broadcasts wake a thread.                        *)
QuietNext == \E t \in Threads : pthread_barrier_wait(t)

QuietSpec == Init /\ [][QuietNext]_vars

-----------------------------------------------------------------------------
(* The waits a thread has begun, from the moment it is counted.            *)
Arrivals(t) ==
    IF pc[t] \in { "counted", "waiting", "woken", "unlock" }
      THEN round[t] + 1 ELSE round[t]

(* No thread gets through the barrier before all have come to it: "use     *)
(* barriers so all threads start at the same time"                         *)
(* (benchmarks/linux-scalability/linux-scalability.c:14).                  *)
BarrierHolds == \A t, u \in Threads : round[t] <= Arrivals(u)

=============================================================================
