--------------------------- MODULE BarrierProofs ---------------------------
(***************************************************************************)
(* Where only broadcasts wake threads the barrier holds, for any finite    *)
(* set of threads and any number of rounds: what breaks it is the wake-up  *)
(* that pthread_cond_wait may make without a broadcast, and nothing else.  *)
(***************************************************************************)
EXTENDS Barrier, FiniteSetTheorems, TLAPS

(* The threads counted in this round.                                      *)
Counted == { t \in Threads : pc[t] \in { "counted", "waiting" } }

(* The threads of the last round that are still to leave.                  *)
Leaving == { t \in Threads : pc[t] \in { "woken", "unlock" } }

Types ==
    /\ mutex \in Threads \cup {Nobody}
    /\ called \in Nat
    /\ pc \in [Threads -> { "out", "lock", "counted", "waiting", "woken", "unlock" }]
    /\ round \in [Threads -> Nat]

(* The mutex is held from counting to the broadcast or the wait, and       *)
(* from there to the end.                                                  *)
MutexFollowsPc == \A t \in Threads : pc[t] \in { "counted", "unlock" } <=> mutex = t

CalledCounts == called = Cardinality(Counted)

(* All are in round k, but for those that have not left the one before.    *)
InRound(k) == \A t \in Threads :
                 IF t \in Leaving THEN round[t] + 1 = k ELSE round[t] = k
OneRound == \E k \in Nat : InRound(k)

IInv == Types /\ MutexFollowsPc /\ CalledCounts /\ OneRound

-----------------------------------------------------------------------------
(* One more thread counted is one more called.                             *)
LEMMA OneMoreCounted ==
    ASSUME IsFiniteSet(Threads), Types, CalledCounts, NEW t \in Threads,
           pc[t] = "lock", called' = called + 1,
           pc' = [pc EXCEPT ![t] = "counted"]
    PROVE  CalledCounts'
<1>1. Counted' = Counted \cup {t} /\ t \notin Counted
  BY DEF Counted, Types
<1>2. IsFiniteSet(Counted)
  BY FS_Subset DEF Counted
<1>3. Cardinality(Counted \cup {t}) = Cardinality(Counted) + 1
  BY <1>1, <1>2, FS_AddElement
<1>. QED  BY <1>1, <1>3 DEF CalledCounts

(* When as many have called as there are threads, all of them are counted, *)
(* so nobody of the round before is left.                                  *)
LEMMA AllCounted ==
    ASSUME IsFiniteSet(Threads), CalledCounts, called = needed
    PROVE  Counted = Threads
<1>1. Counted \subseteq Threads
  BY DEF Counted
<1>. QED  BY <1>1, FS_Subset DEF CalledCounts, needed

LEMMA InitHolds ==
    ASSUME Nobody \notin Threads, Init
    PROVE  IInv
<1>1. Types
  BY DEF Init, Types
<1>2. MutexFollowsPc
  BY DEF Init, MutexFollowsPc
<1>3. Counted = {}
  BY DEF Init, Counted
<1>4. CalledCounts
  BY <1>3, FS_EmptySet DEF Init, CalledCounts
<1>5. InRound(0)
  BY DEF Init, InRound, Leaving
<1>. QED  BY <1>1, <1>2, <1>4, <1>5 DEF IInv, OneRound

LEMMA StepHolds ==
    ASSUME IsFiniteSet(Threads), Nobody \notin Threads, IInv, [QuietNext]_vars
    PROVE  IInv'
<1>. USE DEF IInv
<1>0. CASE UNCHANGED vars
  <2>1. Types' /\ MutexFollowsPc'
    BY <1>0 DEF vars, Types, MutexFollowsPc
  <2>2. Counted' = Counted /\ Leaving' = Leaving
    BY <1>0 DEF vars, Counted, Leaving
  <2>. QED  BY <1>0, <2>1, <2>2 DEF vars, CalledCounts, OneRound, InRound
<1>1. ASSUME NEW t \in Threads, Call(t)  PROVE IInv'
  <2>1. Types' /\ MutexFollowsPc'
    BY <1>1 DEF Call, Types, MutexFollowsPc
  <2>2. Counted' = Counted /\ Leaving' = Leaving
    BY <1>1 DEF Call, Types, Counted, Leaving
  <2>. QED  BY <1>1, <2>1, <2>2 DEF Call, CalledCounts, OneRound, InRound
<1>2. ASSUME NEW t \in Threads, LockAndCount(t)  PROVE IInv'
  <2>1. Types' /\ MutexFollowsPc'
    BY <1>2 DEF LockAndCount, Types, MutexFollowsPc
  <2>2. CalledCounts'
    BY <1>2, OneMoreCounted DEF LockAndCount
  <2>3. Leaving' = Leaving
    BY <1>2 DEF LockAndCount, Types, Leaving
  <2>. QED  BY <1>2, <2>1, <2>2, <2>3 DEF LockAndCount, OneRound, InRound
<1>3. ASSUME NEW t \in Threads, Broadcast(t)  PROVE IInv'
  <2>1. Counted = Threads
    BY <1>3, AllCounted DEF Broadcast
  <2>2. \A u \in Threads : u # t => pc[u] = "waiting"
    BY <1>3, <2>1 DEF Broadcast, Counted, MutexFollowsPc
  <2>3. \A u \in Threads : pc'[u] = IF u = t THEN "unlock" ELSE "woken"
    BY <1>3, <2>2 DEF Broadcast
  <2>4. Types' /\ MutexFollowsPc'
    BY <1>3, <2>2, <2>3 DEF Broadcast, Types, MutexFollowsPc
  <2>5. Counted' = {} /\ Leaving' = Threads
    BY <2>3 DEF Counted, Leaving
  <2>6. CalledCounts'
    BY <1>3, <2>5, FS_EmptySet DEF Broadcast, CalledCounts
  <2>7. PICK k \in Nat : InRound(k)
    BY DEF OneRound
  <2>8. \A u \in Threads : u \notin Leaving
    BY <2>1 DEF Counted, Leaving
  <2>9. InRound(k + 1)'
    BY <1>3, <2>5, <2>7, <2>8 DEF Broadcast, InRound
  <2>. QED  BY <2>4, <2>6, <2>9 DEF OneRound
<1>4. ASSUME NEW t \in Threads, CondWait(t)  PROVE IInv'
  <2>1. Types' /\ MutexFollowsPc'
    BY <1>4 DEF CondWait, Types, MutexFollowsPc
  <2>2. Counted' = Counted /\ Leaving' = Leaving
    BY <1>4 DEF CondWait, Types, Counted, Leaving
  <2>. QED  BY <1>4, <2>1, <2>2 DEF CondWait, CalledCounts, OneRound, InRound
<1>5. ASSUME NEW t \in Threads, CondReturn(t)  PROVE IInv'
  <2>1. Types' /\ MutexFollowsPc'
    BY <1>5 DEF CondReturn, Types, MutexFollowsPc
  <2>2. Counted' = Counted /\ Leaving' = Leaving
    BY <1>5 DEF CondReturn, Types, Counted, Leaving
  <2>. QED  BY <1>5, <2>1, <2>2 DEF CondReturn, CalledCounts, OneRound, InRound
<1>6. ASSUME NEW t \in Threads, Unlock(t)  PROVE IInv'
  <2>1. Types' /\ MutexFollowsPc'
    BY <1>6 DEF Unlock, Types, MutexFollowsPc
  <2>2. Counted' = Counted /\ Leaving' = Leaving \ {t} /\ t \in Leaving
    BY <1>6 DEF Unlock, Types, Counted, Leaving
  <2>3. CalledCounts'
    BY <1>6, <2>2 DEF Unlock, CalledCounts
  <2>4. PICK k \in Nat : InRound(k)
    BY DEF OneRound
  <2>5. InRound(k)'
    BY <1>6, <2>2, <2>4 DEF Unlock, InRound, Types
  <2>. QED  BY <2>1, <2>3, <2>5 DEF OneRound
<1>. QED  BY <1>0, <1>1, <1>2, <1>3, <1>4, <1>5, <1>6
          DEF QuietNext, pthread_barrier_wait

LEMMA InvariantSuffices ==
    ASSUME IInv
    PROVE  BarrierHolds
<1>1. PICK k \in Nat : InRound(k)
  BY DEF IInv, OneRound
<1>2. \A t \in Threads : round[t] \in Nat /\ round[t] <= k
  BY <1>1 DEF IInv, Types, InRound
<1>3. \A u \in Threads : Arrivals(u) \in Nat /\ k <= Arrivals(u)
  BY <1>1 DEF IInv, Types, InRound, Leaving, Arrivals
<1>. QED  BY <1>2, <1>3 DEF BarrierHolds

(* Where only broadcasts wake threads, no thread gets through the barrier  *)
(* before all have come to it, however many they are and however often     *)
(* they wait (pthread_barrier_wait).                                       *)
THEOREM QuietBarrierHolds ==
    ASSUME IsFiniteSet(Threads), Nobody \notin Threads
    PROVE  QuietSpec => []BarrierHolds
<1>1. Init => IInv
  BY InitHolds
<1>2. IInv /\ [QuietNext]_vars => IInv'
  BY StepHolds
<1>3. IInv => BarrierHolds
  BY InvariantSuffices
<1>. QED  BY <1>1, <1>2, <1>3, PTL DEF QuietSpec

=============================================================================
