----------------------------- MODULE ListProofs -----------------------------
(***************************************************************************)
(* What the lists of superblocks hold, for any number of threads, heaps    *)
(* and superblocks.                                                        *)
(*                                                                         *)
(* The inductive invariant ListInv says of every state: each list of a bin *)
(* is a ring and each recycling bin a stack, of superblocks that have the  *)
(* list's owner, block size and emptiness class, each on one list          *)
(* (ListsOK); where a thread is determines what it has found there, and    *)
(* the superblocks that threads are moving are on no list and all          *)
(* different (PlacesOK, HandsApart); every superblock is cut for a size of *)
(* the table (AllCut); one with a block in use is on its list or being     *)
(* moved (Placed); `alloced' follows what a heap owns (AllocedOK); and no  *)
(* step was undefined. It is proved together with the IInv of HeapProofs   *)
(* and the BlocksInv of BlockProofs, since lists are only as good as the   *)
(* headers that they go through.                                           *)
(*                                                                         *)
(* The theorems have two hypotheses: delete_from_bin is called for the     *)
(* list that the superblock is on (DeletedFromItsList), and a block is     *)
(* taken from a superblock of its size (AllocatesFromItsBin). Both hold in *)
(* the runs `shared', `transfer' and `fullness'; the first fails in        *)
(* `stale_owner' and `race', the second in `wrong_size'. RegimeProofs      *)
(* proves them where the code does guarantee them.                         *)
(***************************************************************************)
EXTENDS BlockProofs

-----------------------------------------------------------------------------
(* What next links lead to, in headers f                                   *)

Closed(f, T) == \A x \in T : f[x].next \in T \cup {NULL}

Reach(f, head) ==
    IF head = NULL THEN {}
    ELSE { s \in Superblocks :
             \A T \in SUBSET Superblocks : head \in T /\ Closed(f, T) => s \in T }

LEMMA ListIsReach ==
    /\ \A head : ListFrom(head) = Reach(sb, head)
    /\ \A h, b, e : ListOf(h, b, e) = Reach(sb, heap[h].size_bins[b].emptiness_bins[e])
    /\ \A h : RecycledBy(h) = Reach(sb, heap[h].recycled_superblock)
<1>1. \A head : ListFrom(head) = Reach(sb, head)
  BY DEF ListFrom, Reach, Closed
<1> QED BY <1>1 DEF ListOf, RecycledBy

LEMMA ReachIn ==
    ASSUME NEW f, NEW head
    PROVE  Reach(f, head) \subseteq Superblocks
  BY DEF Reach

LEMMA ReachHead ==
    ASSUME NEW f, NEW head \in Superblocks
    PROVE  head \in Reach(f, head)
  BY NullAssumption DEF Reach

LEMMA ReachLeast ==
    ASSUME NEW f, NEW T \in SUBSET Superblocks, Closed(f, T), NEW head \in T \cup {NULL}
    PROVE  Reach(f, head) \subseteq T
  BY DEF Reach

(* Where one can get to from the list is on the list.                      *)
LEMMA ReachClosed ==
    ASSUME NEW f, NEW head, NEW x \in Reach(f, head),
           f[x].next \in Superblocks \cup {NULL}
    PROVE  f[x].next \in Reach(f, head) \cup {NULL}
<1> SUFFICES ASSUME f[x].next \in Superblocks, NEW T \in SUBSET Superblocks,
                    head \in T, Closed(f, T)
             PROVE  f[x].next \in T
  BY DEF Reach
<1>1. x \in T /\ f[x].next # NULL
  BY NullAssumption DEF Reach
<1> QED BY <1>1 DEF Closed

(* A list is the same in headers that agree on its next links.             *)
LEMMA ReachSame ==
    ASSUME NEW f, NEW g, NEW head \in Superblocks \cup {NULL},
           \A x \in Reach(f, head) : /\ f[x].next \in Superblocks \cup {NULL}
                                     /\ g[x].next = f[x].next
    PROVE  Reach(g, head) = Reach(f, head)
<1> DEFINE L == Reach(f, head)
<1>1. L \subseteq Superblocks /\ head \in L \cup {NULL}
  BY ReachIn, ReachHead
<1>2. Closed(f, L)
  BY ReachClosed DEF Closed
<1>3. Closed(g, L)
  BY <1>2 DEF Closed
<1>4. Reach(g, head) \subseteq L
  <2> HIDE DEF L
  <2> QED BY <1>1, <1>3, ReachLeast
<1>5. ASSUME NEW s \in L, NEW T \in SUBSET Superblocks, head \in T, Closed(g, T)
      PROVE  s \in T
  <2> DEFINE U == T \cap L
  <2>1. head \in U
    BY <1>1, <1>5, NullAssumption
  <2>2. Closed(f, U)
    BY <1>2, <1>5 DEF Closed
  <2>3. L \subseteq U
    <3> HIDE DEF U
    <3>1. U \in SUBSET Superblocks
      BY DEF U
    <3> QED BY <2>1, <2>2, <3>1, ReachLeast
  <2> QED BY <2>3
<1>6. L \subseteq Reach(g, head)
  <2>1. CASE head = NULL
    BY <2>1 DEF Reach
  <2>2. CASE head # NULL
    <3> HIDE DEF L
    <3> QED BY <1>1, <1>5, <2>2 DEF Reach
  <2> QED BY <2>1, <2>2
<1> QED BY <1>4, <1>6

(* The rest of a list is part of it.                                       *)
LEMMA ReachRest ==
    ASSUME NEW f, NEW head \in Superblocks \cup {NULL}, NEW x \in Reach(f, head),
           \A y \in Reach(f, head) : f[y].next \in Superblocks \cup {NULL}
    PROVE  Reach(f, f[x].next) \subseteq Reach(f, head)
<1> DEFINE L == Reach(f, head)
<1>1. L \in SUBSET Superblocks /\ Closed(f, L)
  BY ReachIn, ReachClosed DEF Closed
<1>2. f[x].next \in L \cup {NULL}
  BY ReachClosed
<1> HIDE DEF L
<1> QED BY <1>1, <1>2, ReachLeast DEF L

-----------------------------------------------------------------------------
(* Rings: the lists of a bin                                               *)

Ring(f, L) ==
    \A x \in L : /\ f[x].next \in L /\ f[f[x].next].prev = x
                 /\ f[x].prev \in L /\ f[f[x].prev].next = x

(* A ring is the same in headers that agree on its links.                  *)
LEMMA RingSame ==
    ASSUME NEW f, NEW g, NEW head \in Superblocks \cup {NULL}, Ring(f, Reach(f, head)),
           \A x \in Reach(f, head) : g[x].next = f[x].next /\ g[x].prev = f[x].prev
    PROVE  Reach(g, head) = Reach(f, head) /\ Ring(g, Reach(g, head))
<1>1. Reach(g, head) = Reach(f, head)
  <2>1. \A x \in Reach(f, head) : f[x].next \in Superblocks \cup {NULL}
    BY ReachIn DEF Ring
  <2> QED BY <2>1, ReachSame
<1> QED BY <1>1 DEF Ring

(* What push_into_bin writes puts s in front of a ring,                    *)
LEMMA RingPush ==
    ASSUME NEW f, NEW g, NEW head \in Superblocks, Ring(f, Reach(f, head)),
           NEW s \in Superblocks, s \notin Reach(f, head),
           \A x \in Superblocks :
              /\ g[x].next = IF x = s THEN head
                             ELSE IF x = f[head].prev THEN s ELSE f[x].next
              /\ g[x].prev = IF x = head THEN s
                             ELSE IF x = s THEN f[head].prev ELSE f[x].prev
    PROVE  Reach(g, s) = Reach(f, head) \cup {s} /\ Ring(g, Reach(g, s))
<1> DEFINE L == Reach(f, head)
           N == L \cup {s}
           tail == f[head].prev
<1>1. L \in SUBSET Superblocks /\ N \in SUBSET Superblocks /\ head \in L
  BY ReachIn, ReachHead
<1>2. tail \in L /\ f[tail].next = head
  BY <1>1 DEF Ring
<1>3. \A x \in L : /\ f[x].next \in L /\ f[f[x].next].prev = x
                   /\ f[x].prev \in L /\ f[f[x].prev].next = x
  BY DEF Ring
<1>4. s \notin L /\ s # NULL /\ head # NULL
  BY NullAssumption
<1>5. Closed(f, L)
  BY <1>3 DEF Closed
<1>6. \A x \in Superblocks :
        /\ g[x].next = IF x = s THEN head ELSE IF x = tail THEN s ELSE f[x].next
        /\ g[x].prev = IF x = head THEN s ELSE IF x = s THEN tail ELSE f[x].prev
  OBVIOUS
<1>7. \A T : head \in T /\ Closed(f, T) /\ T \in SUBSET Superblocks => L \subseteq T
  BY ReachLeast
<1> HIDE DEF L, tail
<1>8. Ring(g, N)
  <2> SUFFICES ASSUME NEW x \in N
               PROVE  /\ g[x].next \in N /\ g[g[x].next].prev = x
                      /\ g[x].prev \in N /\ g[g[x].prev].next = x
    BY DEF Ring
  <2>1. CASE x = s
    BY <1>1, <1>2, <1>4, <1>6, <2>1
  <2>2. CASE x \in L
    <3>1. x # s /\ x \in Superblocks
      BY <1>1, <1>4, <2>2
    <3>2. g[x].next \in N /\ g[g[x].next].prev = x
      <4>1. CASE x = tail
        BY <1>1, <1>2, <1>4, <1>6, <3>1, <4>1
      <4>2. CASE x # tail
        <5>1. g[x].next = f[x].next /\ f[x].next \in L /\ f[f[x].next].prev = x
          BY <1>3, <1>6, <2>2, <3>1, <4>2
        <5>2. f[x].next # head
          BY <4>2, <5>1 DEF tail
        <5>3. f[x].next # s /\ f[x].next \in Superblocks
          BY <1>1, <1>4, <5>1
        <5> QED BY <1>6, <5>1, <5>2, <5>3
      <4> QED BY <4>1, <4>2
    <3>3. g[x].prev \in N /\ g[g[x].prev].next = x
      <4>1. CASE x = head
        BY <1>1, <1>6, <4>1
      <4>2. CASE x # head
        <5>1. g[x].prev = f[x].prev /\ f[x].prev \in L /\ f[f[x].prev].next = x
          BY <1>3, <1>6, <2>2, <3>1, <4>2
        <5>2. f[x].prev # tail
          BY <1>2, <4>2, <5>1
        <5>3. f[x].prev # s /\ f[x].prev \in Superblocks
          BY <1>1, <1>4, <5>1
        <5> QED BY <1>6, <5>1, <5>2, <5>3
      <4> QED BY <4>1, <4>2
    <3> QED BY <3>2, <3>3
  <2> QED BY <2>1, <2>2
<1>9. Reach(g, s) \subseteq N
  <2>1. Closed(g, N)
    BY <1>8 DEF Ring, Closed
  <2> HIDE DEF N
  <2>2. s \in N
    BY DEF N
  <2> QED BY <1>1, <2>1, <2>2, ReachLeast
<1>10. ASSUME NEW T \in SUBSET Superblocks, s \in T, Closed(g, T)
       PROVE  L \subseteq T
  <2> DEFINE U == T \cap L
  <2>1. head \in U
    BY <1>1, <1>4, <1>6, <1>10 DEF Closed
  <2>2. Closed(f, U)
    <3> SUFFICES ASSUME NEW x \in U PROVE f[x].next \in U
      BY DEF Closed
    <3>1. CASE x = tail
      BY <1>2, <2>1, <3>1
    <3>2. CASE x # tail
      <4>1. g[x].next = f[x].next /\ f[x].next \in L
        BY <1>1, <1>3, <1>4, <1>6, <3>2
      <4>2. g[x].next \in T \cup {NULL} /\ f[x].next # NULL
        BY <1>1, <1>10, <4>1, NullAssumption DEF Closed
      <4> QED BY <4>1, <4>2
    <3> QED BY <3>1, <3>2
  <2>3. L \subseteq U
    <3> HIDE DEF U
    <3>1. U \in SUBSET Superblocks
      BY DEF U
    <3> QED BY <1>7, <2>1, <2>2, <3>1
  <2> QED BY <2>3
<1>11. N \subseteq Reach(g, s)
  <2>1. s \in Reach(g, s)
    BY ReachHead
  <2>2. ASSUME NEW x \in L PROVE x \in Reach(g, s)
    BY <1>1, <1>4, <1>10 DEF Reach
  <2> QED BY <2>1, <2>2
<1>12. Reach(g, s) = N
  BY <1>9, <1>11
<1> QED BY <1>8, <1>12 DEF L

(* or makes a ring of s alone.                                             *)
LEMMA RingAlone ==
    ASSUME NEW g, NEW s \in Superblocks, g[s].next = s, g[s].prev = s
    PROVE  Reach(g, s) = {s} /\ Ring(g, Reach(g, s))
<1>1. Closed(g, {s})
  BY DEF Closed
<1>2. Reach(g, s) \subseteq {s} /\ s \in Reach(g, s)
  BY <1>1, ReachLeast, ReachHead
<1>3. Reach(g, s) = {s}
  BY <1>2
<1> QED BY <1>3 DEF Ring

(* Its own successor is alone.                                             *)
LEMMA AloneInRing ==
    ASSUME NEW f, NEW head \in Superblocks \cup {NULL}, Ring(f, Reach(f, head)),
           NEW s \in Reach(f, head), f[s].prev = s
    PROVE  Reach(f, head) = {s} /\ head = s
<1> DEFINE L == Reach(f, head)
           R == L \ {s}
<1>1. L \in SUBSET Superblocks /\ R \in SUBSET Superblocks /\ s \in Superblocks
  BY ReachIn
<1>2. head # NULL
  BY DEF Reach
<1>3. f[s].next = s
  BY DEF Ring
<1>4. Closed(f, R) /\ Closed(f, {s})
  BY <1>3 DEF Ring, Closed
<1>5. head = s
  <2> SUFFICES ASSUME head # s PROVE FALSE
    OBVIOUS
  <2>1. head \in R
    BY <1>2, ReachHead
  <2> HIDE DEF R
  <2>2. L \subseteq R
    BY <1>1, <1>4, <2>1, ReachLeast
  <2> QED BY <2>2 DEF R
<1>6. L \subseteq {s}
  BY <1>1, <1>4, <1>5, ReachLeast
<1> QED BY <1>5, <1>6

(* What delete_from_bin writes takes s out of a ring of several.           *)
LEMMA RingDelete ==
    ASSUME NEW f, NEW g, NEW head \in Superblocks \cup {NULL}, Ring(f, Reach(f, head)),
           NEW s \in Reach(f, head), f[s].prev # s,
           \A x \in Superblocks :
              /\ g[x].next = IF x = f[s].prev THEN f[s].next ELSE f[x].next
              /\ g[x].prev = IF x = f[s].next THEN f[s].prev ELSE f[x].prev,
           NEW new, new = IF head = s THEN f[s].next ELSE head
    PROVE  Reach(g, new) = Reach(f, head) \ {s} /\ Ring(g, Reach(g, new))
<1> DEFINE L == Reach(f, head)
           N == L \ {s}
           p == f[s].prev
           n == f[s].next
<1>1. L \in SUBSET Superblocks /\ N \in SUBSET Superblocks /\ head \in L
  <2>1. head # NULL
    BY DEF Reach
  <2> QED BY <2>1, ReachIn, ReachHead
<1>2. \A x \in L : /\ f[x].next \in L /\ f[f[x].next].prev = x
                   /\ f[x].prev \in L /\ f[f[x].prev].next = x
  BY DEF Ring
<1>3. p \in N /\ n \in N /\ f[p].next = s /\ f[n].prev = s
  BY <1>2
<1>4. \A x \in Superblocks :
        /\ g[x].next = IF x = p THEN n ELSE f[x].next
        /\ g[x].prev = IF x = n THEN p ELSE f[x].prev
  OBVIOUS
<1>5. \A T : head \in T /\ Closed(f, T) /\ T \in SUBSET Superblocks => L \subseteq T
  BY ReachLeast
<1>6. s \in L /\ new \in N /\ new # NULL
  BY <1>1, <1>3, NullAssumption
<1>7. new = IF head = s THEN n ELSE head
  OBVIOUS
<1> HIDE DEF L, p, n
<1>8. Ring(g, N)
  <2> SUFFICES ASSUME NEW x \in N
               PROVE  /\ g[x].next \in N /\ g[g[x].next].prev = x
                      /\ g[x].prev \in N /\ g[g[x].prev].next = x
    BY DEF Ring
  <2>1. x \in L /\ x # s /\ x \in Superblocks
    BY <1>1
  <2>2. g[x].next \in N /\ g[g[x].next].prev = x
    <3>1. CASE x = p
      BY <1>1, <1>3, <1>4, <3>1
    <3>2. CASE x # p
      <4>1. g[x].next = f[x].next /\ f[x].next \in L /\ f[f[x].next].prev = x
        BY <1>2, <1>4, <2>1, <3>2
      <4>2. f[x].next # s
        BY <3>2, <4>1 DEF p
      <4>3. f[x].next # n
        BY <1>3, <2>1, <4>1
      <4> QED BY <1>1, <1>4, <4>1, <4>2, <4>3
    <3> QED BY <3>1, <3>2
  <2>3. g[x].prev \in N /\ g[g[x].prev].next = x
    <3>1. CASE x = n
      BY <1>1, <1>3, <1>4, <3>1
    <3>2. CASE x # n
      <4>1. g[x].prev = f[x].prev /\ f[x].prev \in L /\ f[f[x].prev].next = x
        BY <1>2, <1>4, <2>1, <3>2
      <4>2. f[x].prev # s
        BY <3>2, <4>1 DEF n
      <4>3. f[x].prev # p
        BY <1>3, <2>1, <4>1
      <4> QED BY <1>1, <1>4, <4>1, <4>2, <4>3
    <3> QED BY <3>1, <3>2
  <2> QED BY <2>2, <2>3
<1>9. Reach(g, new) \subseteq N
  <2>1. Closed(g, N)
    BY <1>8 DEF Ring, Closed
  <2> HIDE DEF N
  <2> QED BY <1>1, <1>6, <2>1, ReachLeast
<1>10. ASSUME NEW T \in SUBSET Superblocks, new \in T, Closed(g, T)
       PROVE  N \subseteq T
  <2>1. ASSUME NEW x \in T \cap L, x # p, x # s
        PROVE  f[x].next \in T \cap L /\ f[x].next # s
    <3>1. g[x].next = f[x].next /\ f[x].next \in L /\ f[x].next # NULL
      BY <1>1, <1>2, <1>4, <2>1, NullAssumption
    <3>2. f[x].next \in T
      BY <1>10, <2>1, <3>1 DEF Closed
    <3>3. f[x].next # s
      BY <1>2, <2>1 DEF p
    <3> QED BY <3>1, <3>2, <3>3
  <2>2. n \in T
    <3>1. CASE head = s
      BY <1>7, <1>10, <3>1
    <3>2. CASE head # s
      <4>1. p \in T
        <5> SUFFICES ASSUME p \notin T PROVE FALSE
          OBVIOUS
        <5> DEFINE U == (T \cap L) \ {s}
        <5>1. Closed(f, U)
          BY <2>1 DEF Closed
        <5>2. head \in U /\ U \in SUBSET Superblocks
          BY <1>1, <1>7, <1>10, <3>2
        <5> HIDE DEF U
        <5>3. L \subseteq U
          BY <1>5, <5>1, <5>2
        <5> QED BY <1>6, <5>3 DEF U
      <4>2. g[p].next = n /\ n # NULL
        BY <1>1, <1>3, <1>4, NullAssumption
      <4> QED BY <1>10, <4>1, <4>2 DEF Closed
    <3> QED BY <3>1, <3>2
  <2> DEFINE U == (T \cap L) \cup {s}
  <2>3. Closed(f, U)
    <3> SUFFICES ASSUME NEW x \in U PROVE f[x].next \in U
      BY DEF Closed
    <3>1. CASE x = s
      BY <1>3, <2>2, <3>1 DEF n
    <3>2. CASE x = p
      BY <1>3, <3>2
    <3>3. CASE x # s /\ x # p
      BY <2>1, <3>3
    <3> QED BY <3>1, <3>2, <3>3
  <2>4. head \in U /\ U \in SUBSET Superblocks
    BY <1>1, <1>6, <1>7, <1>10
  <2>5. L \subseteq U
    <3> HIDE DEF U
    <3> QED BY <1>5, <2>3, <2>4
  <2> QED BY <2>5
<1>11. N \subseteq Reach(g, new)
  BY <1>1, <1>6, <1>10 DEF Reach
<1>12. Reach(g, new) = N
  BY <1>9, <1>11
<1> QED BY <1>8, <1>12 DEF L

-----------------------------------------------------------------------------
(* Stacks: the recycling bins, which no superblock is on twice             *)

Linked(f) == \A x \in Superblocks : f[x].next \in Superblocks \cup {NULL}

Stack(f, L) == \A x \in L : x \notin Reach(f, f[x].next)

LEMMA StackSame ==
    ASSUME NEW f, NEW g, Linked(f), NEW head \in Superblocks \cup {NULL},
           Stack(f, Reach(f, head)),
           \A x \in Reach(f, head) : g[x].next = f[x].next
    PROVE  Reach(g, head) = Reach(f, head) /\ Stack(g, Reach(g, head))
<1> DEFINE L == Reach(f, head)
<1>1. L \subseteq Superblocks /\ \A x \in L : f[x].next \in Superblocks \cup {NULL}
  BY ReachIn DEF Linked
<1>2. Reach(g, head) = L
  BY <1>1, ReachSame
<1>3. ASSUME NEW x \in L PROVE Reach(g, g[x].next) = Reach(f, f[x].next)
  <2>1. Reach(f, f[x].next) \subseteq L /\ f[x].next \in Superblocks \cup {NULL}
    BY <1>1, ReachRest
  <2>2. g[x].next = f[x].next
    OBVIOUS
  <2>3. \A y \in Reach(f, f[x].next) : /\ f[y].next \in Superblocks \cup {NULL}
                                       /\ g[y].next = f[y].next
    BY <1>1, <2>1
  <2> HIDE DEF L
  <2>4. Reach(g, f[x].next) = Reach(f, f[x].next)
    BY <2>1, <2>3, ReachSame
  <2> QED BY <2>2, <2>4
<1> QED BY <1>2, <1>3 DEF Stack

LEMMA StackPush ==
    ASSUME NEW f, NEW g, Linked(f), NEW head \in Superblocks \cup {NULL},
           Stack(f, Reach(f, head)),
           NEW s \in Superblocks, s \notin Reach(f, head), g[s].next = head,
           \A x \in Superblocks \ {s} : g[x].next = f[x].next
    PROVE  Reach(g, s) = Reach(f, head) \cup {s} /\ Stack(g, Reach(g, s))
<1> DEFINE L == Reach(f, head)
<1>1. L \subseteq Superblocks /\ head \in L \cup {NULL}
  BY ReachIn, ReachHead
<1>2. Reach(g, head) = L /\ Stack(g, L)
  <2>1. \A x \in Reach(f, head) : g[x].next = f[x].next
    BY <1>1
  <2> QED BY <2>1, StackSame
<1>3. Reach(g, s) \subseteq L \cup {s}
  <2>1. Closed(f, L)
    BY <1>1, ReachClosed DEF Closed, Linked
  <2>2. Closed(g, L \cup {s})
    BY <1>1, <2>1 DEF Closed
  <2> HIDE DEF L
  <2> QED BY <1>1, <2>2, ReachLeast
<1>4. L \cup {s} \subseteq Reach(g, s)
  <2>1. s \in Reach(g, s)
    BY ReachHead
  <2>2. Linked(g)
    BY DEF Linked
  <2>3. Reach(g, g[s].next) \subseteq Reach(g, s)
    <3>1. Reach(g, s) \subseteq Superblocks
      BY ReachIn
    <3>2. \A y \in Reach(g, s) : g[y].next \in Superblocks \cup {NULL}
      BY <2>2, <3>1 DEF Linked
    <3> QED BY <2>1, <3>2, ReachRest
  <2> QED BY <1>2, <2>1, <2>3
<1>5. Reach(g, s) = L \cup {s}
  BY <1>3, <1>4
<1>6. s \notin Reach(g, g[s].next)
  BY <1>2
<1> QED BY <1>2, <1>5, <1>6 DEF Stack

LEMMA StackPop ==
    ASSUME NEW f, Linked(f), NEW s \in Superblocks, Stack(f, Reach(f, s))
    PROVE  /\ Reach(f, f[s].next) \subseteq Reach(f, s) \ {s}
           /\ Stack(f, Reach(f, f[s].next))
<1>1. s \in Reach(f, s) /\ Reach(f, s) \subseteq Superblocks
  BY ReachHead, ReachIn
<1>2. Reach(f, f[s].next) \subseteq Reach(f, s)
  BY <1>1, ReachRest DEF Linked
<1> QED BY <1>1, <1>2 DEF Stack

-----------------------------------------------------------------------------
(* All lists, of headers f and heaps hp                                    *)

InBin(f, hp, h, b, e)  == Reach(f, hp[h].size_bins[b].emptiness_bins[e])
InRecycling(f, hp, h)  == Reach(f, hp[h].recycled_superblock)
Nonfull(f, hp, h, b)   == { s \in Superblocks :
                              \E e \in NonfullClasses : s \in InBin(f, hp, h, b, e) }

Listed(f, hp, s) ==
    \/ \E h \in Heaps, b \in Bins, e \in EmptinessClasses : s \in InBin(f, hp, h, b, e)
    \/ \E h \in Heaps : s \in InRecycling(f, hp, h)

(* A superblock with header r may be on list e of bin b of heap h.         *)
Fits(r, h, b, e) == /\ r.owner = h /\ r.block_size = SizeTable[b]
                    /\ get_eidx(r) = e /\ ~is_superblock_empty(r)

BinOK(f, hp, h, b, e) ==
    /\ Ring(f, InBin(f, hp, h, b, e))
    /\ \A s \in InBin(f, hp, h, b, e) : Fits(f[s], h, b, e)

RecyclingOK(f, hp, h) ==
    /\ Stack(f, InRecycling(f, hp, h))
    /\ \A s \in InRecycling(f, hp, h) : f[s].owner = h /\ is_superblock_empty(f[s])

CountOK(f, hp, h, b) ==
    hp[h].size_bins[b].num_nonfull_superblocks = Cardinality(Nonfull(f, hp, h, b))

ListsOK(f, hp) ==
    /\ \A h \in Heaps, b \in Bins, e \in EmptinessClasses : BinOK(f, hp, h, b, e)
    /\ \A h \in Heaps : RecyclingOK(f, hp, h)
    /\ \A h \in Heaps, b \in Bins : CountOK(f, hp, h, b)

Typed(f, hp) == /\ f  \in [Superblocks -> SuperblockHeader(Heaps)]
                /\ hp \in [Heaps -> HeapRecord]

LEMMA TypedFacts ==
    ASSUME NEW f, NEW hp, Typed(f, hp)
    PROVE  /\ HeadersIn(Heaps, Superblocks, f) /\ Linked(f)
           /\ \A h \in Heaps : hp[h].recycled_superblock \in Superblocks \cup {NULL}
           /\ \A h \in Heaps, b \in Bins :
                /\ ManagerIn(Superblocks, hp[h].size_bins[b])
                /\ \A e \in EmptinessClasses :
                     hp[h].size_bins[b].emptiness_bins[e] \in Superblocks \cup {NULL}
<1>1. HeadersIn(Heaps, Superblocks, f) /\ Linked(f)
  BY DEF Typed, HeadersIn, Linked, SuperblockHeader
<1>2. \A h \in Heaps : /\ hp[h].recycled_superblock \in Superblocks \cup {NULL}
                       /\ hp[h].size_bins \in [Bins -> BinManagerRecord]
  BY DEF Typed, HeapRecord
<1>3. ASSUME NEW h \in Heaps, NEW b \in Bins
      PROVE  /\ ManagerIn(Superblocks, hp[h].size_bins[b])
             /\ \A e \in EmptinessClasses :
                  hp[h].size_bins[b].emptiness_bins[e] \in Superblocks \cup {NULL}
  <2>1. hp[h].size_bins[b] \in BinManagerRecord
    BY <1>2
  <2> QED BY <2>1 DEF ManagerIn, BinManagerRecord
<1> QED BY <1>1, <1>2, <1>3

(* No superblock is on two lists.                                          *)
LEMMA ListsApart ==
    ASSUME NEW f, NEW hp, ListsOK(f, hp), NEW s
    PROVE  /\ \A h, g \in Heaps, b, c \in Bins, e, d \in EmptinessClasses :
                s \in InBin(f, hp, h, b, e) /\ s \in InBin(f, hp, g, c, d)
                => h = g /\ b = c /\ e = d
           /\ \A h, g \in Heaps, b \in Bins, e \in EmptinessClasses :
                s \in InBin(f, hp, h, b, e) => s \notin InRecycling(f, hp, g)
           /\ \A h, g \in Heaps :
                s \in InRecycling(f, hp, h) /\ s \in InRecycling(f, hp, g) => h = g
<1>1. \A b, c \in Bins : SizeTable[b] = SizeTable[c] => b = c
  <2> TAKE b, c \in Bins
  <2>1. b < c => SizeTable[b] < SizeTable[c]
    BY SizeTableAssumption
  <2>2. c < b => SizeTable[c] < SizeTable[b]
    BY SizeTableAssumption
  <2>3. SizeTable[b] \in Nat /\ SizeTable[c] \in Nat /\ b \in Int /\ c \in Int
    BY SizeTableAssumption DEF Bins
  <2> QED BY <2>1, <2>2, <2>3
<1>2. \A h \in Heaps, b \in Bins, e \in EmptinessClasses :
        s \in InBin(f, hp, h, b, e) => Fits(f[s], h, b, e)
  BY DEF ListsOK, BinOK
<1>3. \A h \in Heaps : s \in InRecycling(f, hp, h) =>
        f[s].owner = h /\ is_superblock_empty(f[s])
  BY DEF ListsOK, RecyclingOK
<1> QED BY <1>1, <1>2, <1>3 DEF Fits

(* What a step writes into the heaps: one manager, one recycling bin, or   *)
(* statistics only.                                                        *)
SameLists(hp, hp2, h) == /\ hp2[h].size_bins = hp[h].size_bins
                         /\ hp2[h].recycled_superblock = hp[h].recycled_superblock

SetsBin(hp, hp2, h, b, bm) ==
    /\ hp2[h].size_bins[b] = bm
    /\ \A c \in Bins \ {b} : hp2[h].size_bins[c] = hp[h].size_bins[c]
    /\ hp2[h].recycled_superblock = hp[h].recycled_superblock
    /\ \A g \in Heaps \ {h} : SameLists(hp, hp2, g)

SetsRecycled(hp, hp2, h, s) ==
    /\ hp2[h].size_bins = hp[h].size_bins
    /\ hp2[h].recycled_superblock = s
    /\ \A g \in Heaps \ {h} : SameLists(hp, hp2, g)

(* What a step does to the lists of other superblocks than s.              *)
Moves(f, hp, g, hp2, s) ==
    /\ \A h \in Heaps, b \in Bins, e \in EmptinessClasses :
         InBin(g, hp2, h, b, e) \ {s} = InBin(f, hp, h, b, e) \ {s}
    /\ \A h \in Heaps : InRecycling(g, hp2, h) \ {s} \subseteq InRecycling(f, hp, h)

LEMMA MovesTwice ==
    ASSUME NEW f, NEW g, NEW k, NEW hp, NEW hp2, NEW hp3, NEW s,
           Moves(f, hp, g, hp2, s), Moves(g, hp2, k, hp3, s)
    PROVE  Moves(f, hp, k, hp3, s)
  BY DEF Moves

LEMMA OthersListed ==
    ASSUME NEW f, NEW g, NEW hp, NEW hp2, NEW s, Moves(f, hp, g, hp2, s),
           NEW x, x # s, Listed(g, hp2, x)
    PROVE  Listed(f, hp, x)
  BY DEF Moves, Listed

LEMMA SameFits ==
    ASSUME NEW r, NEW q, q.owner = r.owner, SameBlocks(r, q)
    PROVE  /\ \A h, b, e : Fits(r, h, b, e) => Fits(q, h, b, e)
           /\ is_superblock_empty(q) <=> is_superblock_empty(r)
           /\ get_eidx(q) = get_eidx(r)
  BY DEF SameBlocks, Fits, is_superblock_empty, get_eidx

(* One list changes, by superblock s, and the links of no other.           *)
OneListChanges(f, hp, g, hp2, h, b, e, s) ==
    /\ h \in Heaps /\ b \in Bins /\ e \in EmptinessClasses
    /\ SetsBin(hp, hp2, h, b, hp2[h].size_bins[b])
    /\ \A d \in EmptinessClasses \ {e} : hp2[h].size_bins[b].emptiness_bins[d]
                                           = hp[h].size_bins[b].emptiness_bins[d]
    /\ s \in InBin(f, hp, h, b, e) \/ ~Listed(f, hp, s)
    /\ \A x \in Superblocks : x \notin InBin(f, hp, h, b, e) \cup {s} =>
          g[x].next = f[x].next /\ g[x].prev = f[x].prev
    /\ SameButLinks(f, g)
    /\ Ring(g, InBin(g, hp2, h, b, e))
    /\ InBin(g, hp2, h, b, e) \ {s} = InBin(f, hp, h, b, e) \ {s}
    /\ s \in InBin(g, hp2, h, b, e) => Fits(f[s], h, b, e)

LEMMA OneBinChanges ==
    ASSUME NEW f, NEW hp, Typed(f, hp), ListsOK(f, hp), NEW g, NEW hp2,
           NEW h, NEW b, NEW e, NEW s, OneListChanges(f, hp, g, hp2, h, b, e, s)
    PROVE  /\ Moves(f, hp, g, hp2, s)
           /\ CountOK(g, hp2, h, b) => ListsOK(g, hp2)
           /\ \A k \in Heaps, c \in Bins, d \in EmptinessClasses :
                << k, c, d >> # << h, b, e >> => s \notin InBin(g, hp2, k, c, d)
           /\ \A k \in Heaps : s \notin InRecycling(g, hp2, k)
<1> USE DEF OneListChanges
<1> DEFINE L == InBin(f, hp, h, b, e)
<1>1. /\ \A k \in Heaps, c \in Bins, d \in EmptinessClasses : BinOK(f, hp, k, c, d)
      /\ \A k \in Heaps : RecyclingOK(f, hp, k)
      /\ \A k \in Heaps, c \in Bins : CountOK(f, hp, k, c)
  BY DEF ListsOK
<1>2. Linked(f) /\ \A k \in Heaps, c \in Bins, d \in EmptinessClasses :
                      InBin(f, hp, k, c, d) \subseteq Superblocks
  BY TypedFacts, ReachIn DEF InBin
<1>3. ASSUME NEW k \in Heaps, NEW c \in Bins, NEW d \in EmptinessClasses,
             << k, c, d >> # << h, b, e >>
      PROVE  /\ InBin(g, hp2, k, c, d) = InBin(f, hp, k, c, d)
             /\ Ring(g, InBin(g, hp2, k, c, d))
             /\ s \notin InBin(g, hp2, k, c, d)
  <2> DEFINE head == hp[k].size_bins[c].emptiness_bins[d]
  <2>1. hp2[k].size_bins[c].emptiness_bins[d] = head
    BY <1>3 DEF SetsBin, SameLists
  <2>2. head \in Superblocks \cup {NULL}
    BY TypedFacts
  <2>3. ASSUME NEW x \in InBin(f, hp, k, c, d) PROVE x \notin L /\ x # s
    <3>1. x \notin L
      BY <1>3, <2>3, ListsApart
    <3>2. Listed(f, hp, x)
      BY <2>3 DEF Listed
    <3> QED BY <3>1, <3>2
  <2>4. \A x \in Reach(f, head) : g[x].next = f[x].next /\ g[x].prev = f[x].prev
    BY <1>2, <2>3 DEF InBin
  <2>5. Ring(f, Reach(f, head))
    BY <1>1 DEF BinOK, InBin
  <2> HIDE DEF head
  <2>6. Reach(g, head) = Reach(f, head) /\ Ring(g, Reach(g, head))
    BY <2>2, <2>4, <2>5, RingSame
  <2> QED BY <2>1, <2>3, <2>6 DEF InBin, head
<1>4. ASSUME NEW k \in Heaps
      PROVE  /\ InRecycling(g, hp2, k) = InRecycling(f, hp, k)
             /\ Stack(g, InRecycling(g, hp2, k))
             /\ s \notin InRecycling(g, hp2, k)
  <2> DEFINE head == hp[k].recycled_superblock
  <2>1. hp2[k].recycled_superblock = head
    BY DEF SetsBin, SameLists
  <2>2. head \in Superblocks \cup {NULL}
    BY TypedFacts
  <2>3. ASSUME NEW x \in InRecycling(f, hp, k) PROVE x \notin L /\ x # s
    <3>1. x \notin L
      BY <2>3, ListsApart
    <3>2. Listed(f, hp, x)
      BY <2>3 DEF Listed
    <3> QED BY <3>1, <3>2
  <2>4. \A x \in Reach(f, head) : g[x].next = f[x].next
    BY <2>3, ReachIn DEF InRecycling
  <2>5. Stack(f, Reach(f, head))
    BY <1>1 DEF RecyclingOK, InRecycling
  <2> HIDE DEF head
  <2>6. Reach(g, head) = Reach(f, head) /\ Stack(g, Reach(g, head))
    BY <1>2, <2>2, <2>4, <2>5, StackSame
  <2> QED BY <2>1, <2>3, <2>6 DEF InRecycling, head
<1>5. Moves(f, hp, g, hp2, s)
  BY <1>3, <1>4 DEF Moves
<1>6. ASSUME NEW k \in Heaps, NEW c \in Bins, NEW d \in EmptinessClasses
      PROVE  BinOK(g, hp2, k, c, d)
  <2>1. Ring(g, InBin(g, hp2, k, c, d))
    BY <1>3
  <2>2. ASSUME NEW x \in InBin(g, hp2, k, c, d) PROVE Fits(f[x], k, c, d)
    <3>1. CASE << k, c, d >> = << h, b, e >>
      <4>1. x = s \/ x \in L
        BY <2>2, <3>1
      <4> QED BY <1>1, <2>2, <3>1, <4>1 DEF BinOK
    <3>2. CASE << k, c, d >> # << h, b, e >>
      BY <1>1, <1>3, <2>2, <3>2 DEF BinOK
    <3> QED BY <3>1, <3>2
  <2>3. \A x \in InBin(g, hp2, k, c, d) : x \in Superblocks
    BY ReachIn DEF InBin
  <2> QED BY <2>1, <2>2, <2>3, SameFits DEF BinOK, SameButLinks
<1>7. ASSUME NEW k \in Heaps PROVE RecyclingOK(g, hp2, k)
  <2>1. \A x \in InRecycling(f, hp, k) : /\ x \in Superblocks /\ f[x].owner = k
                                         /\ is_superblock_empty(f[x])
    BY <1>1, ReachIn DEF RecyclingOK, InRecycling
  <2> QED BY <1>4, <2>1, SameFits DEF RecyclingOK, SameButLinks
<1>8. ASSUME NEW k \in Heaps, NEW c \in Bins, << k, c >> # << h, b >>
      PROVE  CountOK(g, hp2, k, c)
  <2>1. hp2[k].size_bins[c] = hp[k].size_bins[c]
    BY <1>8 DEF SetsBin, SameLists
  <2>2. NonfullClasses \subseteq EmptinessClasses
    BY NonfullClass
  <2>3. Nonfull(g, hp2, k, c) = Nonfull(f, hp, k, c)
    BY <1>3, <1>8, <2>2 DEF Nonfull
  <2> QED BY <1>1, <2>1, <2>3 DEF CountOK
<1>9. CountOK(g, hp2, h, b) => ListsOK(g, hp2)
  BY <1>6, <1>7, <1>8 DEF ListsOK
<1> QED BY <1>3, <1>4, <1>5, <1>9

-----------------------------------------------------------------------------
(* List operations                                                         *)

LEMMA NextWritten ==
    ASSUME NEW f \in [Superblocks -> SuperblockHeader(Heaps)],
           NEW a \in Superblocks, NEW v \in Superblocks \cup {NULL}
    PROVE  LET g == [f EXCEPT ![a].next = v]
           IN  /\ g \in [Superblocks -> SuperblockHeader(Heaps)]
               /\ \A x \in Superblocks : /\ g[x].next = IF x = a THEN v ELSE f[x].next
                                         /\ g[x].prev = f[x].prev
                                         /\ x # a => g[x] = f[x]
<1>1. \A x \in Superblocks : f[x] \in SuperblockHeader(Heaps)
  OBVIOUS
<1> QED BY <1>1 DEF SuperblockHeader

LEMMA PrevWritten ==
    ASSUME NEW f \in [Superblocks -> SuperblockHeader(Heaps)],
           NEW a \in Superblocks, NEW v \in Superblocks \cup {NULL}
    PROVE  LET g == [f EXCEPT ![a].prev = v]
           IN  /\ g \in [Superblocks -> SuperblockHeader(Heaps)]
               /\ \A x \in Superblocks : /\ g[x].prev = IF x = a THEN v ELSE f[x].prev
                                         /\ g[x].next = f[x].next
                                         /\ x # a => g[x] = f[x]
<1>1. \A x \in Superblocks : f[x] \in SuperblockHeader(Heaps)
  OBVIOUS
<1> QED BY <1>1 DEF SuperblockHeader

(* Only class 0 holds full superblocks.                                    *)
LEMMA NonfullIsNotFull ==
    /\ NonfullClasses = EmptinessClasses \ {0} /\ EmptinessClasses \subseteq Nat
    /\ \A e \in NonfullClasses : e > 0 /\ e # -1
    /\ \A e \in EmptinessClasses : e > 0 => e \in NonfullClasses
  BY SizeTableAssumption DEF NonfullClasses, EmptinessClasses

(* What delete_from_bin writes into headers.                               *)
LEMMA DeleteWrites ==
    ASSUME NEW f \in [Superblocks -> SuperblockHeader(Heaps)], NEW bm, NEW e,
           NEW s, f[s].prev # s, f[s].prev \in Superblocks, f[s].next \in Superblocks,
           NEW g, g = delete_from_bin(f, bm, e, s).sb
    PROVE  \A x \in Superblocks :
             /\ g[x].next = IF x = f[s].prev THEN f[s].next ELSE f[x].next
             /\ g[x].prev = IF x = f[s].next THEN f[s].prev ELSE f[x].prev
             /\ x \notin { f[s].prev, f[s].next } => g[x] = f[x]
<1> DEFINE p == f[s].prev
           n == f[s].next
           a == [f EXCEPT ![p].next = n]
<1>1. g = [a EXCEPT ![n].prev = p]
  BY DEF delete_from_bin
<1>2. /\ a \in [Superblocks -> SuperblockHeader(Heaps)]
      /\ \A x \in Superblocks : /\ a[x].next = IF x = p THEN n ELSE f[x].next
                                /\ a[x].prev = f[x].prev
                                /\ x # p => a[x] = f[x]
  BY NextWritten
<1> HIDE DEF a
<1> DEFINE c == [a EXCEPT ![n].prev = p]
<1>3. \A x \in Superblocks : /\ c[x].prev = IF x = n THEN p ELSE a[x].prev
                             /\ c[x].next = a[x].next
                             /\ x # n => c[x] = a[x]
  <2>1. n \in Superblocks /\ a[n] \in SuperblockHeader(Heaps)
    BY <1>2
  <2>2. \A x \in Superblocks : c[x] = IF x = n THEN [a[n] EXCEPT !.prev = p] ELSE a[x]
    BY <1>2
  <2>3. [a[n] EXCEPT !.prev = p].prev = p /\ [a[n] EXCEPT !.prev = p].next = a[n].next
    BY <2>1 DEF SuperblockHeader
  <2> HIDE DEF c, p, n
  <2> QED BY <2>2, <2>3
<1> HIDE DEF c
<1>4. g = c
  BY <1>1 DEF c
<1> SUFFICES ASSUME NEW x \in Superblocks
             PROVE  /\ g[x].next = IF x = p THEN n ELSE f[x].next
                    /\ g[x].prev = IF x = n THEN p ELSE f[x].prev
                    /\ x \notin { p, n } => g[x] = f[x]
  OBVIOUS
<1> HIDE DEF p, n
<1>5. /\ g[x].prev = IF x = n THEN p ELSE a[x].prev
      /\ g[x].next = a[x].next
      /\ x # n => g[x] = a[x]
  BY <1>3, <1>4
<1>6. /\ a[x].next = IF x = p THEN n ELSE f[x].next
      /\ a[x].prev = f[x].prev
      /\ x # p => a[x] = f[x]
  BY <1>2
<1> QED BY <1>5, <1>6

(* What push_into_bin writes into headers.                                 *)
LEMMA PushWrites ==
    ASSUME NEW f \in [Superblocks -> SuperblockHeader(Heaps)], NEW bm, NEW e,
           NEW s \in Superblocks, NEW head \in Superblocks,
           head = bm.emptiness_bins[e], f[head].prev \in Superblocks \ {s}, head # s,
           NEW g, g = push_into_bin(f, bm, e, s).sb
    PROVE  \A x \in Superblocks :
             /\ g[x].next = IF x = s THEN head
                            ELSE IF x = f[head].prev THEN s ELSE f[x].next
             /\ g[x].prev = IF x = head THEN s
                            ELSE IF x = s THEN f[head].prev ELSE f[x].prev
<1> DEFINE tail == f[head].prev
           a == [f EXCEPT ![tail].next = s]
           c == [a EXCEPT ![s].prev = tail]
           d == [c EXCEPT ![s].next = head]
<1>1. g = [d EXCEPT ![head].prev = s]
  BY NullAssumption DEF push_into_bin
<1>2. /\ a \in [Superblocks -> SuperblockHeader(Heaps)]
      /\ \A x \in Superblocks : /\ a[x].next = IF x = tail THEN s ELSE f[x].next
                                /\ a[x].prev = f[x].prev
  <2>1. tail \in Superblocks
    OBVIOUS
  <2> HIDE DEF tail
  <2> QED BY <2>1, NextWritten
<1> HIDE DEF a
<1>3. /\ c \in [Superblocks -> SuperblockHeader(Heaps)]
      /\ \A x \in Superblocks : /\ c[x].prev = IF x = s THEN tail ELSE a[x].prev
                                /\ c[x].next = a[x].next
  BY <1>2, PrevWritten
<1> HIDE DEF c
<1>4. /\ d \in [Superblocks -> SuperblockHeader(Heaps)]
      /\ \A x \in Superblocks : /\ d[x].next = IF x = s THEN head ELSE c[x].next
                                /\ d[x].prev = c[x].prev
  BY <1>3, NextWritten
<1> HIDE DEF d
<1> DEFINE k == [d EXCEPT ![head].prev = s]
<1>5. \A x \in Superblocks : /\ k[x].prev = IF x = head THEN s ELSE d[x].prev
                             /\ k[x].next = d[x].next
  <2>1. d[head] \in SuperblockHeader(Heaps)
    BY <1>4
  <2>2. \A x \in Superblocks :
          k[x] = IF x = head THEN [d[head] EXCEPT !.prev = s] ELSE d[x]
    BY <1>4
  <2>3. [d[head] EXCEPT !.prev = s].prev = s /\ [d[head] EXCEPT !.prev = s].next = d[head].next
    BY <2>1 DEF SuperblockHeader
  <2> HIDE DEF k
  <2> QED BY <2>2, <2>3
<1>6. g = k
  BY <1>1
<1> HIDE DEF k, tail
<1>7. ASSUME NEW x \in Superblocks
      PROVE  /\ k[x].next = IF x = s THEN head ELSE IF x = tail THEN s ELSE f[x].next
             /\ k[x].prev = IF x = head THEN s ELSE IF x = s THEN tail ELSE f[x].prev
  <2>1. k[x].next = d[x].next /\ k[x].prev = IF x = head THEN s ELSE d[x].prev
    BY <1>5
  <2>2. d[x].prev = c[x].prev /\ d[x].next = IF x = s THEN head ELSE c[x].next
    BY <1>4
  <2>3. c[x].next = a[x].next /\ c[x].prev = IF x = s THEN tail ELSE a[x].prev
    BY <1>3
  <2>4. a[x].prev = f[x].prev /\ a[x].next = IF x = tail THEN s ELSE f[x].next
    BY <1>2
  <2> QED BY <2>1, <2>2, <2>3, <2>4
<1> QED BY <1>6, <1>7 DEF tail

LEMMA PushAloneWrites ==
    ASSUME NEW f \in [Superblocks -> SuperblockHeader(Heaps)], NEW bm, NEW e,
           NEW s \in Superblocks, bm.emptiness_bins[e] = NULL,
           NEW g, g = push_into_bin(f, bm, e, s).sb
    PROVE  /\ g[s].next = s /\ g[s].prev = s
           /\ \A x \in Superblocks \ {s} : g[x] = f[x]
<1> DEFINE a == [f EXCEPT ![s].prev = s]
<1>1. g = [a EXCEPT ![s].next = s]
  BY DEF push_into_bin
<1>2. /\ a \in [Superblocks -> SuperblockHeader(Heaps)] /\ a[s].prev = s
      /\ \A x \in Superblocks \ {s} : a[x] = f[x]
  BY PrevWritten
<1> HIDE DEF a
<1> QED BY <1>1, <1>2, NextWritten

(* What both do to a manager.                                              *)
LEMMA DeleteManager ==
    ASSUME NEW f, NEW bm, ManagerIn(Superblocks, bm), NEW e \in EmptinessClasses, NEW s,
           NEW r, r = delete_from_bin(f, bm, e, s).bm
    PROVE  /\ r.emptiness_bins[e] = IF f[s].prev = s THEN NULL
                                    ELSE IF bm.emptiness_bins[e] = s THEN f[s].next
                                    ELSE bm.emptiness_bins[e]
           /\ \A d \in EmptinessClasses \ {e} : r.emptiness_bins[d] = bm.emptiness_bins[d]
           /\ r.num_nonfull_superblocks =
                IF e > 0 THEN (bm.num_nonfull_superblocks - 1) % UINT_MOD
                         ELSE bm.num_nonfull_superblocks
<1>1. bm \in BinManagerRecord
  BY DEF ManagerIn
<1> QED BY <1>1 DEF delete_from_bin, BinManagerRecord

Pushed(bm, e, s, r) ==
    /\ r.emptiness_bins[e] = s
    /\ \A d \in EmptinessClasses \ {e} : r.emptiness_bins[d] = bm.emptiness_bins[d]
    /\ r.num_nonfull_superblocks =
         IF e > 0 THEN (bm.num_nonfull_superblocks + 1) % UINT_MOD
                  ELSE bm.num_nonfull_superblocks

LEMMA PushManager ==
    ASSUME NEW f, NEW bm, ManagerIn(Superblocks, bm), NEW e \in EmptinessClasses, NEW s
    PROVE  Pushed(bm, e, s, push_into_bin(f, bm, e, s).bm)
<1>1. bm \in BinManagerRecord
  BY DEF ManagerIn
<1> QED BY <1>1 DEF push_into_bin, BinManagerRecord, Pushed

(* An unsigned int can count any set of superblocks.                       *)
LEMMA Counting ==
    ASSUME NEW T \in SUBSET Superblocks, NEW s \in Superblocks
    PROVE  /\ IsFiniteSet(T) /\ Cardinality(T) \in Nat
           /\ s \in T => (Cardinality(T) - 1) % UINT_MOD = Cardinality(T \ {s})
           /\ s \notin T => (Cardinality(T) + 1) % UINT_MOD = Cardinality(T \cup {s})
<1>1. \A U \in SUBSET Superblocks :
        IsFiniteSet(U) /\ Cardinality(U) \in Nat /\ Cardinality(U) < UINT_MOD
  <2> TAKE U \in SUBSET Superblocks
  <2>1. IsFiniteSet(U) /\ Cardinality(U) <= Cardinality(Superblocks)
    BY AddressSpaceAssumption, FS_Subset
  <2>2. Cardinality(U) \in Nat /\ Cardinality(Superblocks) \in Nat /\ UINT_MOD \in Nat
    BY <2>1, AddressSpaceAssumption, FS_CardinalityType, SizesAssumption
  <2> QED BY <2>1, <2>2, AddressSpaceAssumption
<1>2. \A n \in Nat : n < UINT_MOD => n % UINT_MOD = n
  BY SizesAssumption
<1>3. ASSUME s \in T PROVE (Cardinality(T) - 1) % UINT_MOD = Cardinality(T \ {s})
  <2>1. Cardinality(T \ {s}) = Cardinality(T) - 1
    BY <1>1, <1>3, FS_RemoveElement
  <2> QED BY <1>1, <1>2, <2>1
<1>4. ASSUME s \notin T PROVE (Cardinality(T) + 1) % UINT_MOD = Cardinality(T \cup {s})
  <2>1. Cardinality(T \cup {s}) = Cardinality(T) + 1
    BY <1>1, <1>4, FS_AddElement
  <2>2. T \cup {s} \in SUBSET Superblocks
    OBVIOUS
  <2> QED BY <1>1, <1>2, <2>1, <2>2
<1> QED BY <1>1, <1>3, <1>4

(* delete_from_bin takes a superblock off its list, and changes no other.  *)
Deletes(f, hp, h, b, e, s, del, hp2) ==
    /\ Typed(f, hp) /\ ListsOK(f, hp)
    /\ h \in Heaps /\ b \in Bins /\ e \in EmptinessClasses
    /\ s \in InBin(f, hp, h, b, e)
    /\ del = delete_from_bin(f, hp[h].size_bins[b], e, s)
    /\ SetsBin(hp, hp2, h, b, del.bm)

LEMMA DeleteLists ==
    ASSUME NEW f, NEW hp, NEW h, NEW b, NEW e, NEW s, NEW del, NEW hp2,
           Deletes(f, hp, h, b, e, s, del, hp2)
    PROVE  /\ DeleteDefined(f, e, s)
           /\ ListsOK(del.sb, hp2) /\ Moves(f, hp, del.sb, hp2, s)
           /\ ~Listed(del.sb, hp2, s)
           /\ SameButLinks(f, del.sb) /\ del.sb[s] = f[s]
           /\ del.sb \in [Superblocks -> SuperblockHeader(Heaps)]
           /\ ManagerIn(Superblocks, del.bm)
<1> USE DEF Deletes
<1> DEFINE g    == del.sb
           bm   == hp[h].size_bins[b]
           head == bm.emptiness_bins[e]
           L    == Reach(f, head)
           new  == IF f[s].prev = s THEN NULL ELSE IF head = s THEN f[s].next ELSE head
<1>1. /\ HeadersIn(Heaps, Superblocks, f) /\ ManagerIn(Superblocks, bm)
      /\ f \in [Superblocks -> SuperblockHeader(Heaps)]
      /\ head \in Superblocks \cup {NULL}
  BY TypedFacts DEF HeadersIn
<1>2. L = InBin(f, hp, h, b, e) /\ L \subseteq Superblocks /\ s \in L
  BY ReachIn DEF InBin
<1>3. Ring(f, L) /\ f[s].prev \in L /\ f[s].next \in L
  BY <1>2 DEF ListsOK, BinOK, Ring
<1>4. DeleteDefined(f, e, s)
  BY <1>2, <1>3, NullAssumption DEF DeleteDefined
<1>5. HeadersIn(Heaps, Superblocks, g) /\ SameButLinks(f, g) /\ ManagerIn(Superblocks, del.bm)
  <2> HIDE DEF bm
  <2>1. s \in Superblocks
    BY <1>2
  <2> QED BY <1>1, <1>4, <2>1, DeleteKeepsLists DEF bm
<1>6. /\ del.bm.emptiness_bins[e] = new
      /\ \A d \in EmptinessClasses \ {e} : del.bm.emptiness_bins[d] = bm.emptiness_bins[d]
      /\ del.bm.num_nonfull_superblocks =
           IF e > 0 THEN (bm.num_nonfull_superblocks - 1) % UINT_MOD
                    ELSE bm.num_nonfull_superblocks
  <2>1. ManagerIn(Superblocks, bm) /\ e \in EmptinessClasses
    BY <1>1
  <2>2. del.bm = delete_from_bin(f, bm, e, s).bm
    OBVIOUS
  <2>3. new = IF f[s].prev = s THEN NULL
              ELSE IF bm.emptiness_bins[e] = s THEN f[s].next ELSE bm.emptiness_bins[e]
    OBVIOUS
  <2> HIDE DEF bm, Deletes, new, head
  <2> DEFINE r == del.bm
  <2>4. r = delete_from_bin(f, bm, e, s).bm
    BY <2>2
  <2> HIDE DEF r
  <2>5. /\ r.emptiness_bins[e] = IF f[s].prev = s THEN NULL
                                  ELSE IF bm.emptiness_bins[e] = s THEN f[s].next
                                  ELSE bm.emptiness_bins[e]
        /\ \A d \in EmptinessClasses \ {e} : r.emptiness_bins[d] = bm.emptiness_bins[d]
        /\ r.num_nonfull_superblocks =
             IF e > 0 THEN (bm.num_nonfull_superblocks - 1) % UINT_MOD
                      ELSE bm.num_nonfull_superblocks
    BY <2>1, <2>4, DeleteManager
  <2> QED BY <2>3, <2>5 DEF r
<1>7. InBin(g, hp2, h, b, e) = Reach(g, new)
  BY <1>6 DEF InBin, SetsBin
<1>8. /\ Reach(g, new) = L \ {s} /\ Ring(g, Reach(g, new)) /\ g[s] = f[s]
      /\ \A x \in Superblocks \ L : g[x].next = f[x].next /\ g[x].prev = f[x].prev
  <2>1. CASE f[s].prev = s
    <3>1. g = f
      BY <2>1 DEF delete_from_bin
    <3>2. L = {s}
      <4> HIDE DEF head
      <4> QED BY <1>1, <1>3, <1>2, <2>1, AloneInRing
    <3>3. Reach(g, new) = {}
      BY <2>1 DEF Reach
    <3> QED BY <3>1, <3>2, <3>3 DEF Ring
  <2>2. CASE f[s].prev # s
    <3>1. f[s].prev \in Superblocks /\ f[s].next \in Superblocks
      BY <1>2, <1>3
    <3>2. \A x \in Superblocks :
            /\ g[x].next = IF x = f[s].prev THEN f[s].next ELSE f[x].next
            /\ g[x].prev = IF x = f[s].next THEN f[s].prev ELSE f[x].prev
            /\ x \notin { f[s].prev, f[s].next } => g[x] = f[x]
      <4>1. g = delete_from_bin(f, bm, e, s).sb /\ f \in [Superblocks -> SuperblockHeader(Heaps)]
        BY <1>1
      <4> HIDE DEF bm, head, new, Deletes
      <4> QED BY <2>2, <3>1, <4>1, DeleteWrites
    <3>3. new = IF head = s THEN f[s].next ELSE head
      BY <2>2
    <3> HIDE DEF head, new, g
    <3>4. Reach(g, new) = L \ {s} /\ Ring(g, Reach(g, new))
      BY <1>1, <1>2, <1>3, <2>2, <3>2, <3>3, RingDelete
    <3>5. g[s] = f[s]
      <4>1. f[s].next # s /\ s \in Superblocks
        BY <1>2, <1>3, <2>2 DEF Ring
      <4> QED BY <2>2, <3>2, <4>1
    <3>6. \A x \in Superblocks \ L : g[x].next = f[x].next /\ g[x].prev = f[x].prev
      BY <1>3, <3>2
    <3> QED BY <3>4, <3>5, <3>6
  <2> QED BY <2>1, <2>2
<1> HIDE DEF head, new, g
<1>9. /\ Moves(f, hp, g, hp2, s)
      /\ CountOK(g, hp2, h, b) => ListsOK(g, hp2)
      /\ \A k \in Heaps, c \in Bins, d \in EmptinessClasses :
           << k, c, d >> # << h, b, e >> => s \notin InBin(g, hp2, k, c, d)
      /\ \A k \in Heaps : s \notin InRecycling(g, hp2, k)
  <2>1. \A x \in Superblocks : x \notin InBin(f, hp, h, b, e) \cup {s} =>
                                 g[x].next = f[x].next /\ g[x].prev = f[x].prev
    BY <1>2, <1>8
  <2>2. /\ Ring(g, InBin(g, hp2, h, b, e)) /\ s \notin InBin(g, hp2, h, b, e)
        /\ InBin(g, hp2, h, b, e) \ {s} = InBin(f, hp, h, b, e) \ {s}
    BY <1>2, <1>7, <1>8
  <2>3. \A d \in EmptinessClasses \ {e} :
          del.bm.emptiness_bins[d] = hp[h].size_bins[b].emptiness_bins[d]
    BY <1>6
  <2>4. \A d \in EmptinessClasses \ {e} : hp2[h].size_bins[b].emptiness_bins[d]
                                           = hp[h].size_bins[b].emptiness_bins[d]
    BY <2>3 DEF SetsBin
  <2> HIDE DEF bm, L
  <2>5. OneListChanges(f, hp, g, hp2, h, b, e, s)
    BY <1>5, <2>1, <2>2, <2>4 DEF OneListChanges, SetsBin
  <2> QED BY <2>5, OneBinChanges
<1>10. ~Listed(g, hp2, s)
  <2>1. s \notin InBin(g, hp2, h, b, e)
    BY <1>7, <1>8
  <2> QED BY <1>9, <2>1 DEF Listed
<1>11. CountOK(g, hp2, h, b)
  <2> DEFINE T == Nonfull(f, hp, h, b)
             U == Nonfull(g, hp2, h, b)
  <2>1. NonfullClasses = EmptinessClasses \ {0} /\ e \in Nat
    BY NonfullIsNotFull
  <2>2. \A d \in EmptinessClasses : InBin(g, hp2, h, b, d) = InBin(f, hp, h, b, d) \ {s}
    BY <1>9, <1>10 DEF Moves, Listed
  <2>3. U = T \ {s}
    BY <2>1, <2>2 DEF Nonfull
  <2>4. e > 0 <=> s \in T
    <3>1. \A d \in EmptinessClasses : s \in InBin(f, hp, h, b, d) => d = e
      BY <1>2, ListsApart
    <3> QED BY <1>2, <2>1, <3>1 DEF Nonfull
  <2>5. bm.num_nonfull_superblocks = Cardinality(T) /\ T \in SUBSET Superblocks
    BY DEF ListsOK, CountOK, Nonfull
  <2>6. del.bm.num_nonfull_superblocks = Cardinality(U)
    <3> HIDE DEF T, U
    <3>1. CASE e > 0
      BY <1>2, <1>6, <2>3, <2>4, <2>5, <3>1, Counting
    <3>2. CASE ~(e > 0)
      <4>1. U = T
        BY <2>3, <2>4, <3>2
      <4> QED BY <1>6, <2>5, <3>2, <4>1
    <3> QED BY <3>1, <3>2
  <2> QED BY <2>6 DEF CountOK, SetsBin
<1>12. g \in [Superblocks -> SuperblockHeader(Heaps)]
  BY <1>5 DEF HeadersIn
<1> QED BY <1>4, <1>5, <1>8, <1>9, <1>10, <1>11, <1>12 DEF g

(* push_into_bin puts one on a list that it fits and that was on none.     *)
Pushes(f, hp, h, b, e, s, push, hp2) ==
    /\ Typed(f, hp) /\ ListsOK(f, hp)
    /\ h \in Heaps /\ b \in Bins /\ e \in EmptinessClasses
    /\ s \in Superblocks /\ ~Listed(f, hp, s) /\ Fits(f[s], h, b, e)
    /\ push = push_into_bin(f, hp[h].size_bins[b], e, s)
    /\ SetsBin(hp, hp2, h, b, push.bm)

LEMMA PushLists ==
    ASSUME NEW f, NEW hp, NEW h, NEW b, NEW e, NEW s, NEW push, NEW hp2,
           Pushes(f, hp, h, b, e, s, push, hp2)
    PROVE  /\ PushDefined(f, hp[h].size_bins[b], e)
           /\ ListsOK(push.sb, hp2) /\ Moves(f, hp, push.sb, hp2, s)
           /\ s \in InBin(push.sb, hp2, h, b, e)
           /\ SameButLinks(f, push.sb)
           /\ push.sb \in [Superblocks -> SuperblockHeader(Heaps)]
           /\ ManagerIn(Superblocks, push.bm)
<1> USE DEF Pushes
<1> DEFINE g    == push.sb
           bm   == hp[h].size_bins[b]
           head == bm.emptiness_bins[e]
           L    == Reach(f, head)
<1>1. /\ HeadersIn(Heaps, Superblocks, f) /\ ManagerIn(Superblocks, bm)
      /\ f \in [Superblocks -> SuperblockHeader(Heaps)]
      /\ head \in Superblocks \cup {NULL}
  BY TypedFacts DEF HeadersIn
<1>2. L = InBin(f, hp, h, b, e) /\ L \subseteq Superblocks /\ s \notin L
  BY ReachIn DEF InBin, Listed
<1>3. Ring(f, L)
  BY <1>2 DEF ListsOK, BinOK
<1>4. head # NULL => head \in L /\ f[head].prev \in L
  BY <1>1, <1>3, ReachHead DEF Ring
<1>5. PushDefined(f, bm, e)
  BY <1>2, <1>4, NullAssumption DEF PushDefined
<1>6. HeadersIn(Heaps, Superblocks, g) /\ SameButLinks(f, g) /\ ManagerIn(Superblocks, push.bm)
  <2> HIDE DEF bm
  <2> QED BY <1>1, <1>5, PushKeepsLists DEF bm
<1>7. /\ push.bm.emptiness_bins[e] = s
      /\ \A d \in EmptinessClasses \ {e} : push.bm.emptiness_bins[d] = bm.emptiness_bins[d]
      /\ push.bm.num_nonfull_superblocks =
           IF e > 0 THEN (bm.num_nonfull_superblocks + 1) % UINT_MOD
                    ELSE bm.num_nonfull_superblocks
  <2> HIDE DEF bm, head
  <2>1. Pushed(bm, e, s, push_into_bin(f, bm, e, s).bm)
    BY <1>1, PushManager
  <2> QED BY <2>1 DEF Pushed, bm
<1>8. InBin(g, hp2, h, b, e) = Reach(g, s)
  BY <1>7 DEF InBin, SetsBin
<1>9. /\ Reach(g, s) = L \cup {s} /\ Ring(g, Reach(g, s))
      /\ \A x \in Superblocks \ (L \cup {s}) : g[x].next = f[x].next /\ g[x].prev = f[x].prev
  <2>1. CASE head = NULL
    <3>1. /\ g[s].next = s /\ g[s].prev = s
          /\ \A x \in Superblocks \ {s} : g[x] = f[x]
      <4>1. /\ f \in [Superblocks -> SuperblockHeader(Heaps)] /\ s \in Superblocks
            /\ bm.emptiness_bins[e] = NULL /\ g = push_into_bin(f, bm, e, s).sb
        BY <1>1, <2>1
      <4> HIDE DEF g, bm, head, L
      <4> QED BY <4>1, PushAloneWrites
    <3>2. L = {}
      BY <2>1 DEF Reach
    <3> HIDE DEF g
    <3> QED BY <3>1, <3>2, RingAlone
  <2>2. CASE head # NULL
    <3>1. /\ head \in Superblocks /\ head # s /\ f[head].prev \in Superblocks \ {s}
      BY <1>2, <1>4, <2>2
    <3>2. \A x \in Superblocks :
            /\ g[x].next = IF x = s THEN head
                           ELSE IF x = f[head].prev THEN s ELSE f[x].next
            /\ g[x].prev = IF x = head THEN s
                           ELSE IF x = s THEN f[head].prev ELSE f[x].prev
      <4>1. head = bm.emptiness_bins[e] /\ g = push_into_bin(f, bm, e, s).sb
        OBVIOUS
      <4>2. f \in [Superblocks -> SuperblockHeader(Heaps)] /\ s \in Superblocks
        BY <1>1
      <4> HIDE DEF head, g, bm
      <4> QED BY <3>1, <4>1, <4>2, PushWrites
    <3> HIDE DEF head, g
    <3>3. Reach(g, s) = L \cup {s} /\ Ring(g, Reach(g, s))
      BY <1>2, <1>3, <3>1, <3>2, RingPush
    <3>4. \A x \in Superblocks \ (L \cup {s}) :
            g[x].next = f[x].next /\ g[x].prev = f[x].prev
      BY <1>4, <2>2, <3>2
    <3> QED BY <3>3, <3>4
  <2> QED BY <2>1, <2>2
<1> HIDE DEF head, g
<1>10. OneListChanges(f, hp, g, hp2, h, b, e, s)
  <2>1. \A x \in Superblocks : x \notin InBin(f, hp, h, b, e) \cup {s} =>
                                 g[x].next = f[x].next /\ g[x].prev = f[x].prev
    BY <1>2, <1>9
  <2>2. /\ Ring(g, InBin(g, hp2, h, b, e))
        /\ InBin(g, hp2, h, b, e) \ {s} = InBin(f, hp, h, b, e) \ {s}
    BY <1>2, <1>8, <1>9
  <2>3. \A d \in EmptinessClasses \ {e} : hp2[h].size_bins[b].emptiness_bins[d]
                                           = hp[h].size_bins[b].emptiness_bins[d]
    BY <1>7 DEF SetsBin
  <2> HIDE DEF bm, L
  <2> QED BY <1>6, <2>1, <2>2, <2>3 DEF OneListChanges, SetsBin
<1>11. Moves(f, hp, g, hp2, s) /\ (CountOK(g, hp2, h, b) => ListsOK(g, hp2))
  BY <1>10, OneBinChanges
<1>12. \A d \in EmptinessClasses : d # e => s \notin InBin(g, hp2, h, b, d)
  BY <1>10, OneBinChanges
<1>13. CountOK(g, hp2, h, b)
  <2> DEFINE T == Nonfull(f, hp, h, b)
             U == Nonfull(g, hp2, h, b)
  <2>1. NonfullClasses = EmptinessClasses \ {0} /\ e \in Nat
    BY NonfullIsNotFull
  <2>2. \A d \in EmptinessClasses : /\ InBin(g, hp2, h, b, d) \ {s} = InBin(f, hp, h, b, d) \ {s}
                                    /\ s \notin InBin(f, hp, h, b, d)
    BY <1>11 DEF Moves, Listed
  <2>3. s \in InBin(g, hp2, h, b, e)
    BY <1>8, <1>9
  <2>4. U \ {s} = T /\ s \notin T
    BY <2>1, <2>2 DEF Nonfull
  <2>5. e > 0 <=> s \in U
    BY <1>12, <2>1, <2>3 DEF Nonfull
  <2>6. bm.num_nonfull_superblocks = Cardinality(T) /\ T \in SUBSET Superblocks
    BY DEF ListsOK, CountOK, Nonfull
  <2>7. push.bm.num_nonfull_superblocks = Cardinality(U)
    <3> HIDE DEF T, U
    <3>1. CASE e > 0
      <4>1. U = T \cup {s}
        BY <2>4, <2>5, <3>1
      <4>2. s \in Superblocks /\ (Cardinality(T) + 1) % UINT_MOD = Cardinality(U)
        BY <2>4, <2>6, <4>1, Counting
      <4> QED BY <1>7, <2>6, <3>1, <4>2
    <3>2. CASE ~(e > 0)
      <4>1. U = T
        BY <2>4, <2>5, <3>2
      <4> QED BY <1>7, <2>6, <3>2, <4>1
    <3> QED BY <3>1, <3>2
  <2> QED BY <2>7 DEF CountOK, SetsBin
<1>14. s \in InBin(g, hp2, h, b, e)
  BY <1>8, <1>9
<1>15. g \in [Superblocks -> SuperblockHeader(Heaps)]
  BY <1>6 DEF HeadersIn
<1> QED BY <1>5, <1>6, <1>11, <1>13, <1>14, <1>15 DEF g

(* Where the lists start has not changed.                                  *)
LEMMA SameHeads ==
    ASSUME NEW f, NEW hp, NEW hp2, \A h \in Heaps : SameLists(hp, hp2, h), NEW s
    PROVE  /\ \A h \in Heaps : \A b, e : InBin(f, hp2, h, b, e) = InBin(f, hp, h, b, e)
           /\ \A h \in Heaps : InRecycling(f, hp2, h) = InRecycling(f, hp, h)
           /\ ListsOK(f, hp) => ListsOK(f, hp2)
           /\ Listed(f, hp2, s) <=> Listed(f, hp, s)
           /\ Moves(f, hp, f, hp2, s)
<1>1. \A h \in Heaps : \A b, e : InBin(f, hp2, h, b, e) = InBin(f, hp, h, b, e)
  BY DEF SameLists, InBin
<1>2. \A h \in Heaps : InRecycling(f, hp2, h) = InRecycling(f, hp, h)
  BY DEF SameLists, InRecycling
<1>3. \A h \in Heaps : \A b : /\ Nonfull(f, hp2, h, b) = Nonfull(f, hp, h, b)
                              /\ hp2[h].size_bins[b] = hp[h].size_bins[b]
  BY <1>1 DEF Nonfull, SameLists
<1>4. ListsOK(f, hp) => ListsOK(f, hp2)
  BY <1>1, <1>2, <1>3 DEF ListsOK, BinOK, RecyclingOK, CountOK
<1>5. Listed(f, hp2, s) <=> Listed(f, hp, s)
  BY <1>1, <1>2 DEF Listed
<1>6. Moves(f, hp, f, hp2, s)
  BY <1>1, <1>2 DEF Moves
<1> QED BY <1>1, <1>2, <1>4, <1>5, <1>6

(* The header of a superblock on no list matters to none.                  *)
LEMMA SetUnlisted ==
    ASSUME NEW f, NEW hp, Typed(f, hp), ListsOK(f, hp),
           NEW s \in Superblocks, ~Listed(f, hp, s),
           NEW g, \A x \in Superblocks \ {s} : g[x] = f[x]
    PROVE  ListsOK(g, hp) /\ Moves(f, hp, g, hp, s) /\ ~Listed(g, hp, s)
<1>1. /\ \A h \in Heaps, b \in Bins, e \in EmptinessClasses : BinOK(f, hp, h, b, e)
      /\ \A h \in Heaps : RecyclingOK(f, hp, h)
      /\ \A h \in Heaps, b \in Bins : CountOK(f, hp, h, b)
  BY DEF ListsOK
<1>2. ASSUME NEW h \in Heaps, NEW b \in Bins, NEW e \in EmptinessClasses
      PROVE  /\ InBin(g, hp, h, b, e) = InBin(f, hp, h, b, e)
             /\ BinOK(g, hp, h, b, e) /\ s \notin InBin(g, hp, h, b, e)
  <2> DEFINE head == hp[h].size_bins[b].emptiness_bins[e]
  <2>1. head \in Superblocks \cup {NULL} /\ Ring(f, Reach(f, head))
    BY <1>1, TypedFacts DEF BinOK, InBin
  <2>2. s \notin Reach(f, head)
    BY DEF Listed, InBin
  <2> HIDE DEF head
  <2>3. \A x \in Reach(f, head) : g[x] = f[x]
    BY <2>2, ReachIn
  <2>4. Reach(g, head) = Reach(f, head) /\ Ring(g, Reach(g, head))
    BY <2>1, <2>3, RingSame
  <2> QED BY <1>1, <2>2, <2>3, <2>4 DEF BinOK, InBin, head
<1>3. ASSUME NEW h \in Heaps
      PROVE  /\ InRecycling(g, hp, h) = InRecycling(f, hp, h)
             /\ RecyclingOK(g, hp, h) /\ s \notin InRecycling(g, hp, h)
  <2> DEFINE head == hp[h].recycled_superblock
  <2>1. /\ head \in Superblocks \cup {NULL} /\ Stack(f, Reach(f, head)) /\ Linked(f)
    BY <1>1, TypedFacts DEF RecyclingOK, InRecycling
  <2>2. s \notin Reach(f, head)
    BY DEF Listed, InRecycling
  <2> HIDE DEF head
  <2>3. \A x \in Reach(f, head) : g[x] = f[x]
    BY <2>2, ReachIn
  <2>4. Reach(g, head) = Reach(f, head) /\ Stack(g, Reach(g, head))
    BY <2>1, <2>3, StackSame
  <2> QED BY <1>1, <2>2, <2>3, <2>4 DEF RecyclingOK, InRecycling, head
<1>4. \A h \in Heaps, b \in Bins : CountOK(g, hp, h, b)
  <2> TAKE h \in Heaps, b \in Bins
  <2>1. NonfullClasses \subseteq EmptinessClasses
    BY NonfullClass
  <2>2. Nonfull(g, hp, h, b) = Nonfull(f, hp, h, b)
    BY <1>2, <2>1 DEF Nonfull
  <2> QED BY <1>1, <2>2 DEF CountOK
<1> QED BY <1>2, <1>3, <1>4 DEF ListsOK, Moves, Listed

(* A recycling bin loses its head, or all it holds.                        *)
LEMMA RecyclingShrinks ==
    ASSUME NEW f, NEW hp, Typed(f, hp), ListsOK(f, hp), NEW h \in Heaps,
           NEW s \in Superblocks, s = hp[h].recycled_superblock,
           NEW v, v = NULL \/ v = f[s].next,
           NEW hp2, SetsRecycled(hp, hp2, h, v)
    PROVE  /\ ListsOK(f, hp2) /\ Moves(f, hp, f, hp2, s) /\ ~Listed(f, hp2, s)
           /\ f[s].owner = h /\ is_superblock_empty(f[s])
<1>1. Linked(f) /\ Stack(f, Reach(f, s)) /\ s \in Reach(f, s)
  BY TypedFacts, ReachHead DEF ListsOK, RecyclingOK, InRecycling
<1>2. /\ InRecycling(f, hp2, h) \subseteq InRecycling(f, hp, h) \ {s}
      /\ Stack(f, InRecycling(f, hp2, h))
  <2>1. InRecycling(f, hp2, h) = Reach(f, v) /\ InRecycling(f, hp, h) = Reach(f, s)
    BY DEF InRecycling, SetsRecycled
  <2>2. CASE v = NULL
    BY <2>1, <2>2 DEF Reach, Stack
  <2>3. CASE v = f[s].next
    BY <1>1, <2>1, <2>3, StackPop
  <2> QED BY <2>2, <2>3
<1>3. /\ \A k \in Heaps : \A b, e : InBin(f, hp2, k, b, e) = InBin(f, hp, k, b, e)
      /\ \A k \in Heaps : \A b : hp2[k].size_bins[b] = hp[k].size_bins[b]
      /\ \A k \in Heaps \ {h} : InRecycling(f, hp2, k) = InRecycling(f, hp, k)
  BY DEF SetsRecycled, SameLists, InBin, InRecycling
<1>4. s \in InRecycling(f, hp, h)
  BY <1>1 DEF InRecycling
<1>5. Moves(f, hp, f, hp2, s)
  BY <1>2, <1>3 DEF Moves
<1>6. ~Listed(f, hp2, s)
  <2>1. \A k \in Heaps, b \in Bins, e \in EmptinessClasses : s \notin InBin(f, hp, k, b, e)
    BY <1>4, ListsApart
  <2>2. \A k \in Heaps \ {h} : s \notin InRecycling(f, hp, k)
    BY <1>4, ListsApart
  <2> QED BY <1>2, <1>3, <2>1, <2>2 DEF Listed
<1>7. ListsOK(f, hp2)
  <2>1. \A k \in Heaps, b \in Bins, e \in EmptinessClasses : BinOK(f, hp2, k, b, e)
    BY <1>3 DEF ListsOK, BinOK
  <2>2. \A k \in Heaps : RecyclingOK(f, hp2, k)
    BY <1>2, <1>3 DEF ListsOK, RecyclingOK
  <2>3. \A k \in Heaps, b \in Bins : CountOK(f, hp2, k, b)
    <3>1. \A k \in Heaps, b \in Bins : Nonfull(f, hp2, k, b) = Nonfull(f, hp, k, b)
      BY <1>3 DEF Nonfull
    <3> QED BY <1>3, <3>1 DEF ListsOK, CountOK
  <2> QED BY <2>1, <2>2, <2>3 DEF ListsOK
<1>8. f[s].owner = h /\ is_superblock_empty(f[s])
  BY <1>4 DEF ListsOK, RecyclingOK
<1> QED BY <1>5, <1>6, <1>7, <1>8

(* A recycling bin gains an empty superblock.                              *)
LEMMA RecyclingGrows ==
    ASSUME NEW f, NEW hp, Typed(f, hp), ListsOK(f, hp), NEW h \in Heaps,
           NEW s \in Superblocks, ~Listed(f, hp, s),
           NEW g, \A x \in Superblocks \ {s} : g[x] = f[x],
           g[s].next = hp[h].recycled_superblock, g[s].owner = h, is_superblock_empty(g[s]),
           NEW hp2, SetsRecycled(hp, hp2, h, s)
    PROVE  ListsOK(g, hp2) /\ Moves(f, hp, g, hp2, s) /\ s \in InRecycling(g, hp2, h)
<1> DEFINE head == hp[h].recycled_superblock
<1>1. Linked(f) /\ head \in Superblocks \cup {NULL} /\ Stack(f, Reach(f, head))
  BY TypedFacts DEF ListsOK, RecyclingOK, InRecycling
<1>2. s \notin Reach(f, head)
  BY DEF Listed, InRecycling
<1>3. Reach(g, s) = Reach(f, head) \cup {s} /\ Stack(g, Reach(g, s))
  <2> HIDE DEF head
  <2>1. g[s].next = head
    BY DEF head
  <2>2. \A x \in Superblocks \ {s} : g[x].next = f[x].next
    OBVIOUS
  <2> QED BY <1>1, <1>2, <2>1, <2>2, StackPush
<1>4. ListsOK(g, hp) /\ Moves(f, hp, g, hp, s) /\ ~Listed(g, hp, s)
  BY SetUnlisted
<1>5. InRecycling(g, hp2, h) = Reach(g, s)
  BY DEF InRecycling, SetsRecycled
<1>6. /\ \A k \in Heaps : \A b, e : InBin(g, hp2, k, b, e) = InBin(g, hp, k, b, e)
      /\ \A k \in Heaps : \A b : hp2[k].size_bins[b] = hp[k].size_bins[b]
      /\ \A k \in Heaps \ {h} : InRecycling(g, hp2, k) = InRecycling(g, hp, k)
  BY DEF SetsRecycled, SameLists, InBin, InRecycling
<1>7. InRecycling(f, hp, h) = Reach(f, head)
  BY DEF InRecycling
<1>8. Moves(f, hp, g, hp2, s)
  BY <1>3, <1>4, <1>5, <1>6, <1>7 DEF Moves
<1>9. ListsOK(g, hp2)
  <2>1. \A k \in Heaps, b \in Bins, e \in EmptinessClasses : BinOK(g, hp2, k, b, e)
    BY <1>4, <1>6 DEF ListsOK, BinOK
  <2>2. ASSUME NEW x \in InRecycling(g, hp2, h)
        PROVE  g[x].owner = h /\ is_superblock_empty(g[x])
    <3>1. CASE x = s
      BY <3>1
    <3>2. CASE x # s
      <4>1. x \in InRecycling(f, hp, h) /\ x \in Superblocks
        BY <1>3, <1>5, <1>7, <2>2, <3>2, ReachIn
      <4> QED BY <3>2, <4>1 DEF ListsOK, RecyclingOK
    <3> QED BY <3>1, <3>2
  <2>3. \A k \in Heaps : RecyclingOK(g, hp2, k)
    <3>1. \A k \in Heaps : RecyclingOK(g, hp, k)
      BY <1>4 DEF ListsOK
    <3> TAKE k \in Heaps
    <3>2. CASE k = h
      BY <1>3, <1>5, <2>2, <3>2 DEF RecyclingOK
    <3>3. CASE k # h
      BY <1>6, <3>1, <3>3 DEF RecyclingOK
    <3> QED BY <3>2, <3>3
  <2>4. \A k \in Heaps, b \in Bins : CountOK(g, hp2, k, b)
    <3>1. \A k \in Heaps, b \in Bins : Nonfull(g, hp2, k, b) = Nonfull(g, hp, k, b)
      BY <1>6 DEF Nonfull
    <3> QED BY <1>4, <1>6, <3>1 DEF ListsOK, CountOK
  <2> QED BY <2>1, <2>3, <2>4 DEF ListsOK
<1> QED BY <1>3, <1>5, <1>8, <1>9

(* Taking a superblock off its list commutes with changing its blocks.     *)
PutHeader(f, s, r) == [f EXCEPT ![s] = r]

BothDelete(f, f2, s, r, bm, e, new, old) ==
    /\ f \in [Superblocks -> SuperblockHeader(Heaps)] /\ s \in Superblocks
    /\ f[s].prev # s => f[s].prev \in Superblocks \ {s} /\ f[s].next \in Superblocks \ {s}
    /\ r \in SuperblockHeader(Heaps) /\ r.prev = f[s].prev /\ r.next = f[s].next
    /\ f2 = [f EXCEPT ![s] = r]
    /\ new = delete_from_bin(f2, bm, e, s)
    /\ old = delete_from_bin(f, bm, e, s)

LEMMA DeleteCommutes ==
    ASSUME NEW f, NEW f2, NEW s, NEW r, NEW bm, NEW e, NEW new, NEW old,
           BothDelete(f, f2, s, r, bm, e, new, old)
    PROVE  new.bm = old.bm /\ new.sb = PutHeader(old.sb, s, r)
<1> USE DEF BothDelete, PutHeader
<1> DEFINE p   == f[s].prev
           n   == f[s].next
<1>1. f2[s] = r /\ f2[s].prev = p /\ f2[s].next = n
  OBVIOUS
<1>2. new.bm = old.bm
  <2> HIDE DEF p, n
  <2>1. f[s].prev = p /\ f[s].next = n
    BY DEF p, n
  <2> QED BY <1>1, <2>1 DEF delete_from_bin
<1>3. CASE p = s
  <2>1. new.sb = f2 /\ old.sb = f
    BY <1>1, <1>3 DEF delete_from_bin
  <2> QED BY <1>2, <2>1
<1>4. CASE p # s
  <2>1. /\ new.sb = [[f2 EXCEPT ![p].next = n] EXCEPT ![n].prev = p]
        /\ old.sb = [[f EXCEPT ![p].next = n] EXCEPT ![n].prev = p]
    BY <1>1, <1>4 DEF delete_from_bin
  <2>2. p \in Superblocks \ {s} /\ n \in Superblocks \ {s}
    BY <1>4
  <2> HIDE DEF p, n
  <2>3. [[f2 EXCEPT ![p].next = n] EXCEPT ![n].prev = p]
          = [[[f EXCEPT ![p].next = n] EXCEPT ![n].prev = p] EXCEPT ![s] = r]
    BY <2>2
  <2>4. new.sb = [old.sb EXCEPT ![s] = r]
    BY <2>1, <2>3
  <2> QED BY <1>2, <2>4
<1> QED BY <1>3, <1>4

-----------------------------------------------------------------------------
(* Emptiness classes                                                       *)

LEMMA TimesMonotone ==
    ASSUME NEW a \in Nat, NEW b \in Nat, NEW m \in Nat, a <= b
    PROVE  a * m <= b * m
<1> DEFINE d == b - a
<1>1. d \in Nat /\ b = a + d
  OBVIOUS
<1> HIDE DEF d
<1>2. (a + d) * m = a * m + d * m /\ d * m \in Nat /\ a * m \in Nat
  BY <1>1
<1> QED BY <1>1, <1>2

LEMMA QuotientBounds ==
    ASSUME NEW a \in Nat, NEW n \in Nat \ {0}
    PROVE  /\ a \div n \in Nat
           /\ (a \div n) * n <= a /\ a < (a \div n) * n + n
  OBVIOUS

(* A superblock has a class, and class 0 when it has no block left.        *)
LEMMA ClassOf ==
    ASSUME NEW r \in SuperblockHeader(Heaps), r.total_blocks > 0,
           r.total_blocks <= SUPERBLOCK_SIZE, r.num_free_blocks <= r.total_blocks
    PROVE  /\ get_eidx(r) \in EmptinessClasses
           /\ get_eidx(r) > 0 <=> r.num_free_blocks > 0
<1> DEFINE total == r.total_blocks
           full  == r.total_blocks - r.num_free_blocks
           m     == NUM_EMPTINESS_CLASSES - 1
           q     == (full * m) \div total
<1>1. /\ total \in Nat \ {0} /\ full \in Nat /\ full <= total /\ total <= SUPERBLOCK_SIZE
      /\ r.num_free_blocks = total - full
  BY HeaderTypes
<1>2. /\ m \in Nat \ {0} /\ UINT_MOD \in Nat \ {0} /\ SUPERBLOCK_SIZE \in Nat
      /\ SUPERBLOCK_SIZE < UINT_MOD /\ SUPERBLOCK_SIZE * m < UINT_MOD
  BY SizesAssumption, SizeTableAssumption, AddressSpaceAssumption
<1>3. get_eidx(r) = (m - (((full % UINT_MOD) * m) % UINT_MOD) \div total) % UINT_MOD
  BY DEF get_eidx
<1> HIDE DEF total, full, m
<1>4. \A n \in Nat : n < UINT_MOD => n % UINT_MOD = n
  BY <1>2
<1>5. full * m \in Nat /\ full * m <= SUPERBLOCK_SIZE * m
  BY <1>1, <1>2, TimesMonotone
<1>6. full % UINT_MOD = full /\ (full * m) % UINT_MOD = full * m
  <2>1. full < UINT_MOD /\ full * m < UINT_MOD
    BY <1>1, <1>2, <1>5
  <2> QED BY <1>1, <1>4, <1>5, <2>1
<1>7. q \in Nat /\ q * total <= full * m /\ full * m < q * total + total
  BY <1>1, <1>5, QuotientBounds
<1>8. get_eidx(r) = (m - q) % UINT_MOD
  BY <1>3, <1>6
<1> HIDE DEF q
<1>9. q <= m
  <2>1. full * m <= total * m
    BY <1>1, <1>2, TimesMonotone
  <2>2. CASE q > m
    <3>1. (m + 1) * total <= q * total
      BY <1>1, <1>2, <1>7, <2>2, TimesMonotone
    <3>2. (m + 1) * total = total * m + total
      BY <1>1, <1>2
    <3> QED BY <1>1, <1>2, <1>5, <1>7, <2>1, <3>1, <3>2
  <2> QED BY <1>2, <1>7, <2>2
<1>10. q = m <=> full = total
  <2>1. ASSUME full = total PROVE q = m
    <3>1. CASE q < m
      <4>1. (q + 1) * total <= m * total
        BY <1>1, <1>2, <1>7, <3>1, TimesMonotone
      <4>2. (q + 1) * total = q * total + total /\ m * total = full * m
        BY <1>1, <1>2, <1>7, <2>1
      <4> QED BY <1>1, <1>5, <1>7, <4>1, <4>2
    <3> QED BY <1>2, <1>7, <1>9, <3>1
  <2>2. ASSUME full # total PROVE q # m
    <3>1. full + 1 <= total
      BY <1>1, <2>2
    <3>2. (full + 1) * m <= total * m
      BY <1>1, <1>2, <3>1, TimesMonotone
    <3>3. (full + 1) * m = full * m + m /\ total * m = m * total
      BY <1>1, <1>2
    <3> QED BY <1>1, <1>2, <1>5, <1>7, <3>2, <3>3
  <2> QED BY <2>1, <2>2
<1>11. m - q \in 0 .. m /\ (m - q) % UINT_MOD = m - q
  <2>1. m < UINT_MOD
    <3>1. 1 * m <= SUPERBLOCK_SIZE * m
      BY <1>1, <1>2, TimesMonotone
    <3> QED BY <1>2, <3>1
  <2> QED BY <1>2, <1>4, <1>7, <1>9, <2>1
<1>12. get_eidx(r) = m - q /\ m - q \in EmptinessClasses
  BY <1>8, <1>11 DEF EmptinessClasses, m
<1> QED BY <1>1, <1>2, <1>7, <1>9, <1>10, <1>12

-----------------------------------------------------------------------------
(* The invariant                                                           *)

(* The superblock a thread in state x has taken off its list, if any.      *)
InHand(x) ==
    IF x.pc = "adopt" \/ (x.pc = "sb_alloc" /\ ~x.in_bin) THEN { x.s_ptr }
    ELSE IF x.pc \in { "transfer", "insert_global" } THEN { x.victim }
    ELSE { }

(* A heap has a superblock to give away.                                   *)
CanGive(h) == h.recycled_superblock # NULL \/ Candidates(h) # {}

(* What a thread in state x relies on.                                     *)
PlaceOK(f, hp, x) ==
    /\ \A s \in InHand(x) : ~Listed(f, hp, s)
    /\ x.pc = "adopt" => f[x.s_ptr].owner = GlobalHeap
    /\ x.pc \in { "adopt", "sb_alloc" } => f[x.s_ptr].num_free_blocks > 0
    /\ x.pc = "sb_alloc" /\ ~x.in_bin => f[x.s_ptr].owner = x.heap
    /\ x.pc = "sb_alloc" /\ x.in_bin =>
         x.s_ptr \in InBin(f, hp, x.heap, size2idx(x.size), get_eidx(f[x.s_ptr]))
    /\ x.pc # "sb_alloc" => ~x.in_bin
    /\ x.pc = "account" => CanGive(hp[x.heap])
    /\ x.pc \in { "transfer", "insert_global" } =>
         IF x.eidx = -1
           THEN f[x.victim].owner = x.heap /\ is_superblock_empty(f[x.victim])
           ELSE Fits(f[x.victim], x.heap, x.bin_idx, x.eidx)
    /\ x.pc \notin { "transfer", "insert_global" } => x.eidx = -1

PlacesOK   == \A t \in Threads : PlaceOK(sb, heap, th[t])
HandsApart == \A t, u \in Threads : t # u => InHand(th[t]) \cap InHand(th[u]) = {}

(* A mapped superblock has blocks, of the size of some bin.                *)
CutOK(r) == r.total_blocks > 0 /\ \E b \in Bins : r.block_size = SizeTable[b]
AllCut   == \A s \in Mapped : CutOK(sb[s])

(* One with a block in use can be found.                                   *)
OnItsList(f, hp, s) ==
    \E b \in Bins : s \in InBin(f, hp, f[s].owner, b, get_eidx(f[s]))
Placed == \A s \in Mapped : is_superblock_empty(sb[s])
                            \/ (\E t \in Threads : s \in InHand(th[t]))
                            \/ OnItsList(sb, heap, s)

AllocedOK == \A h \in ThreadHeaps :
               heap[h].alloced = SUPERBLOCK_SIZE * Cardinality(Owned(h))

ListInv == /\ ListsOK(sb, heap)
           /\ PlacesOK
           /\ HandsApart
           /\ AllCut
           /\ Placed
           /\ AllocedOK
           /\ ~crashed

-----------------------------------------------------------------------------
(* Steps                                                                   *)

(* The class of a superblock whose blocks are in order.                    *)
LEMMA ClassIn ==
    ASSUME NEW r \in SuperblockHeader(Heaps), NEW P, NEW B, NEW T,
           BlocksOK(r, P, B, T), r.total_blocks > 0
    PROVE  /\ get_eidx(r) \in EmptinessClasses
           /\ get_eidx(r) > 0 <=> r.num_free_blocks > 0
           /\ r.num_free_blocks > 0 => HasBlock(r)
           /\ r.num_free_blocks <= r.total_blocks
<1>1. /\ r.total_blocks \in Nat /\ r.block_size \in Nat \ {0} /\ r.num_free_blocks \in Nat
      /\ r.reapable_blocks \in Nat /\ r.free_list \in Seq(Nat)
  BY HeaderTypes
<1>2. r.num_free_blocks <= r.total_blocks
  <2>1. Cardinality(P) \in Nat /\ Cardinality(B) \in Nat
    BY FS_CardinalityType DEF BlocksOK
  <2>2. r.total_blocks - r.num_free_blocks = Cardinality(P) + Cardinality(B)
    BY DEF BlocksOK
  <2> QED BY <1>1, <2>1, <2>2
<1>3. r.total_blocks <= SUPERBLOCK_SIZE
  <2>1. 1 * r.total_blocks <= r.block_size * r.total_blocks
    BY <1>1, TimesMonotone
  <2>2. r.total_blocks * r.block_size <= BufferSize
    BY DEF BlocksOK, HeaderOK
  <2>3. r.block_size * r.total_blocks = r.total_blocks * r.block_size
        /\ r.total_blocks * r.block_size \in Nat
    BY <1>1
  <2> QED BY <1>1, <2>1, <2>2, <2>3, SizesAssumption DEF BufferSize
<1>4. get_eidx(r) \in EmptinessClasses /\ (get_eidx(r) > 0 <=> r.num_free_blocks > 0)
  BY <1>2, <1>3, ClassOf
<1>5. ASSUME r.num_free_blocks > 0 PROVE HasBlock(r)
  <2>1. r.num_free_blocks = Cardinality(FreeBlocks(r))
    BY DEF BlocksOK
  <2>2. FreeBlocks(r) # {}
    <3> SUFFICES ASSUME FreeBlocks(r) = {} PROVE Cardinality(FreeBlocks(r)) = 0
      BY <1>5, <2>1
    <3> QED BY FS_EmptySet
  <2> QED BY <1>1, <2>2 DEF FreeBlocks, HasBlock
<1> QED BY <1>2, <1>4, <1>5

LEMMA MappedClass ==
    ASSUME IInv, BlocksInv, AllCut, NEW s \in Mapped
    PROVE  /\ get_eidx(sb[s]) \in EmptinessClasses
           /\ get_eidx(sb[s]) > 0 <=> sb[s].num_free_blocks > 0
           /\ sb[s].num_free_blocks > 0 => HasBlock(sb[s])
           /\ sb[s].num_free_blocks <= sb[s].total_blocks
<1>1. sb[s] \in SuperblockHeader(Heaps)
  BY DEF IInv, HeadersOK, HeadersIn, Mapped
<1>2. BlocksOK(sb[s], HeldIn(s), BeingFreed(s), th) /\ sb[s].total_blocks > 0
  BY DEF BlocksInv, AllCut, CutOK
<1> QED BY <1>1, <1>2, ClassIn

(* What IInv says of the superblocks and heaps of a thread.                *)
LEMMA ThreadFacts ==
    ASSUME IInv, NEW u \in Threads
    PROVE  /\ InHand(th[u]) \subseteq Mapped
           /\ th[u].pc \in { "adopt", "sb_alloc" } => th[u].s_ptr \in Mapped
           /\ th[u].pc \in { "transfer", "insert_global" } => th[u].victim \in Mapped
           /\ Mapped \subseteq Superblocks
<1>1. PlaceIn(Mapped, th[u]) /\ Mapped \subseteq Superblocks
  BY Facts
<1> QED BY <1>1 DEF PlaceIn, InHand, FreePlaces

LEMMA HoldsLock ==
    ASSUME IInv, NEW u \in Threads, NEW h \in Heaps
    PROVE  h \in LocksOf(u) <=> lock[h] = u
  BY DEF IInv, LocksOK, LockDiscipline, Locks

(* No thread but t has anything to do with superblock s.                   *)
NobodyElse(t, s) ==
    \A u \in Threads \ {t} :
       s \notin InHand(th[u]) /\ ~(th[u].pc = "sb_alloc" /\ th[u].s_ptr = s)

Headers(s) == \A y \in Superblocks \ {s} :
                 sb'[y].owner = sb[y].owner /\ SameBlocks(sb[y], sb'[y])

(* Thread t goes to state x, and changes the header and the place of s.    *)
ListStep(t, x, s) ==
    /\ \A u \in Threads : th'[u] = IF u = t THEN x ELSE th[u]
    /\ Headers(s) /\ NobodyElse(t, s)
    /\ ListsOK(sb', heap') /\ Moves(sb, heap, sb', heap', s)
    /\ \A h \in Heaps : SameLists(heap, heap', h) \/ lock[h] = t
    /\ InHand(th[t]) \subseteq {s} /\ InHand(x) \subseteq {s}
    /\ PlaceOK(sb', heap', x)
    /\ sb'[s].owner # NULL => CutOK(sb'[s])
    /\ is_superblock_empty(sb'[s]) \/ s \in InHand(x) \/ OnItsList(sb', heap', s)
    /\ AllocedOK' /\ ~crashed'

LEMMA OthersPlace ==
    ASSUME IInv, BlocksInv, ListInv, NEW t \in Threads, NEW x, NEW s, ListStep(t, x, s),
           NEW u \in Threads \ {t}
    PROVE  PlaceOK(sb', heap', th[u])
<1> DEFINE y == th[u]
<1>1. PlaceOK(sb, heap, y)
  BY DEF ListInv, PlacesOK
<1>2. s \notin InHand(y) /\ ~(y.pc = "sb_alloc" /\ y.s_ptr = s)
  BY DEF ListStep, NobodyElse
<1>3. /\ InHand(y) \subseteq Superblocks
      /\ y.pc \in { "adopt", "sb_alloc" } => y.s_ptr \in Superblocks
      /\ y.pc \in { "transfer", "insert_global" } => y.victim \in Superblocks
  BY ThreadFacts
<1>4. Moves(sb, heap, sb', heap', s) /\ Headers(s)
  BY DEF ListStep
<1>5. y.pc = "account" => CanGive(heap'[y.heap])
  <2> SUFFICES ASSUME y.pc = "account" PROVE CanGive(heap'[y.heap])
    OBVIOUS
  <2>1. y.heap \in Heaps /\ y.heap \in LocksOf(u)
    BY Facts DEF PlaceIn, FreePlaces, LocksOf
  <2>2. lock[y.heap] # t
    BY <2>1, HoldsLock
  <2>3. SameLists(heap, heap', y.heap)
    BY <2>1, <2>2 DEF ListStep
  <2>4. CanGive(heap[y.heap])
    BY <1>1 DEF PlaceOK
  <2> QED BY <2>3, <2>4 DEF SameLists, CanGive, Candidates
<1> SUFFICES PlaceOK(sb', heap', y)
  OBVIOUS
<1> HIDE DEF y
<1>6. \A z \in InHand(y) : ~Listed(sb', heap', z)
  BY <1>1, <1>2, <1>4, OthersListed DEF PlaceOK
<1>7. CASE y.pc = "adopt"
  <2>1. y.s_ptr \in Superblocks \ {s}
    BY <1>2, <1>3, <1>7 DEF InHand
  <2>2. sb'[y.s_ptr].owner = sb[y.s_ptr].owner /\ SameBlocks(sb[y.s_ptr], sb'[y.s_ptr])
    BY <1>4, <2>1 DEF Headers
  <2> QED BY <1>1, <1>6, <1>7, <2>2 DEF PlaceOK, SameBlocks
<1>8. CASE y.pc = "sb_alloc"
  <2> DEFINE z == y.s_ptr
  <2>1. z \in Superblocks \ {s}
    BY <1>2, <1>3, <1>8
  <2>2. sb'[z].owner = sb[z].owner /\ SameBlocks(sb[z], sb'[z])
    BY <1>4, <2>1 DEF Headers
  <2>3. get_eidx(sb'[z]) = get_eidx(sb[z])
    BY <2>2, SameFits
  <2>4. ASSUME y.in_bin
        PROVE  z \in InBin(sb', heap', y.heap, size2idx(y.size), get_eidx(sb'[z]))
    <3> DEFINE b == size2idx(y.size)
               e == get_eidx(sb[z])
    <3>1. z \in InBin(sb, heap, y.heap, b, e)
      BY <1>1, <1>8, <2>4 DEF PlaceOK
    <3>2. y.heap \in Heaps /\ b \in Bins
      BY <1>8, Facts, ThreadBin DEF PlaceIn, AllocPlaces, Heaps, y
    <3>3. e \in EmptinessClasses
      <4>1. z \in Mapped
        BY <1>8, ThreadFacts DEF y
      <4> QED BY <4>1, MappedClass DEF ListInv
    <3> HIDE DEF b, e
    <3> QED BY <1>4, <2>1, <2>3, <3>1, <3>2, <3>3 DEF Moves, b, e
  <2> QED BY <1>1, <1>6, <1>8, <2>2, <2>4 DEF PlaceOK, SameBlocks
<1>9. CASE y.pc \in { "transfer", "insert_global" }
  <2>1. y.victim \in Superblocks \ {s}
    BY <1>2, <1>3, <1>9 DEF InHand
  <2>2. sb'[y.victim].owner = sb[y.victim].owner /\ SameBlocks(sb[y.victim], sb'[y.victim])
    BY <1>4, <2>1 DEF Headers
  <2> QED BY <1>1, <1>6, <1>9, <2>2, SameFits DEF PlaceOK
<1>10. CASE y.pc \notin { "adopt", "sb_alloc", "transfer", "insert_global" }
  BY <1>1, <1>5, <1>6, <1>10 DEF PlaceOK, y
<1> QED BY <1>7, <1>8, <1>9, <1>10

LEMMA ListStepKeeps ==
    ASSUME IInv, BlocksInv, ListInv, NEW t \in Threads, NEW x, NEW s, ListStep(t, x, s)
    PROVE  ListInv'
<1>1. \A u \in Threads : th'[u] = IF u = t THEN x ELSE th[u]
  BY DEF ListStep
<1>2. PlacesOK'
  <2>1. \A u \in Threads \ {t} : PlaceOK(sb', heap', th[u])
    BY OthersPlace
  <2>2. PlaceOK(sb', heap', x)
    BY DEF ListStep
  <2> QED BY <1>1, <2>1, <2>2 DEF PlacesOK
<1>3. HandsApart'
  <2>1. InHand(x) \subseteq {s} /\ \A u \in Threads \ {t} : s \notin InHand(th[u])
    BY DEF ListStep, NobodyElse
  <2> SUFFICES ASSUME NEW u \in Threads, NEW v \in Threads, u # v
               PROVE  InHand(th'[u]) \cap InHand(th'[v]) = {}
    BY DEF HandsApart
  <2>2. CASE u = t
    BY <1>1, <2>1, <2>2
  <2>3. CASE v = t
    BY <1>1, <2>1, <2>3
  <2>4. CASE u # t /\ v # t
    BY <1>1, <2>4 DEF ListInv, HandsApart
  <2> QED BY <2>2, <2>3, <2>4
<1>4. ASSUME NEW y \in Mapped', y # s
      PROVE  /\ y \in Mapped /\ y \in Superblocks
             /\ sb'[y].owner = sb[y].owner /\ SameBlocks(sb[y], sb'[y])
  BY <1>4 DEF Mapped, ListStep, Headers
<1>5. AllCut'
  <2> SUFFICES ASSUME NEW y \in Mapped' PROVE CutOK(sb'[y])
    BY DEF AllCut
  <2>1. CASE y = s
    BY <2>1 DEF ListStep, Mapped
  <2>2. CASE y # s
    <3>1. CutOK(sb[y]) /\ SameBlocks(sb[y], sb'[y])
      BY <1>4, <2>2 DEF ListInv, AllCut
    <3> QED BY <3>1 DEF CutOK, SameBlocks
  <2> QED BY <2>1, <2>2
<1>6. Placed'
  <2> SUFFICES ASSUME NEW y \in Mapped'
               PROVE  \/ is_superblock_empty(sb'[y])
                      \/ \E u \in Threads : y \in InHand(th'[u])
                      \/ OnItsList(sb', heap', y)
    BY DEF Placed
  <2>1. CASE y = s
    BY <1>1, <2>1 DEF ListStep
  <2>2. CASE y # s
    <3>1. /\ y \in Mapped /\ y \in Superblocks
          /\ sb'[y].owner = sb[y].owner /\ SameBlocks(sb[y], sb'[y])
      BY <1>4, <2>2
    <3>2. /\ is_superblock_empty(sb'[y]) <=> is_superblock_empty(sb[y])
          /\ get_eidx(sb'[y]) = get_eidx(sb[y])
      BY <3>1, SameFits
    <3>3. ASSUME NEW u \in Threads, y \in InHand(th[u]) PROVE y \in InHand(th'[u])
      <4>1. u # t
        BY <2>2, <3>3 DEF ListStep
      <4> QED BY <1>1, <3>3, <4>1
    <3>4. ASSUME OnItsList(sb, heap, y) PROVE OnItsList(sb', heap', y)
      <4> DEFINE h == sb[y].owner
                 e == get_eidx(sb[y])
      <4>1. PICK b \in Bins : y \in InBin(sb, heap, h, b, e)
        BY <3>4 DEF OnItsList
      <4>2. h \in Heaps
        BY <3>1, Facts DEF HeadersIn, SuperblockHeader, Mapped
      <4>3. e \in EmptinessClasses
        BY <3>1, MappedClass DEF ListInv
      <4> HIDE DEF h, e
      <4>4. y \in InBin(sb', heap', h, b, e)
        BY <2>2, <4>1, <4>2, <4>3 DEF ListStep, Moves
      <4> QED BY <3>1, <3>2, <4>4 DEF OnItsList, h, e
    <3>5. \/ is_superblock_empty(sb[y])
          \/ \E u \in Threads : y \in InHand(th[u])
          \/ OnItsList(sb, heap, y)
      BY <3>1 DEF ListInv, Placed
    <3> QED BY <3>2, <3>3, <3>4, <3>5
  <2> QED BY <2>1, <2>2
<1> QED BY <1>2, <1>3, <1>5, <1>6 DEF ListInv, ListStep

(* Thread t goes to state x, and no list or header changes.                *)
OnlyMoves(t, x) ==
    /\ \A u \in Threads : th'[u] = IF u = t THEN x ELSE th[u]
    /\ sb' = sb
    /\ \A h \in Heaps : SameLists(heap, heap', h) /\ heap'[h].alloced = heap[h].alloced
    /\ InHand(x) = InHand(th[t])
    /\ PlaceOK(sb, heap', x)
    /\ ~crashed'

(* The place of a thread, with the heaps' statistics changed.              *)
LEMMA PlaceSame ==
    ASSUME NEW hp, NEW hp2, \A h \in Heaps : SameLists(hp, hp2, h), NEW f,
           NEW x, x.pc \in { "sb_alloc", "account" } => x.heap \in Heaps
    PROVE  PlaceOK(f, hp, x) => PlaceOK(f, hp2, x)
<1>1. /\ \A h \in Heaps : \A b, e : InBin(f, hp2, h, b, e) = InBin(f, hp, h, b, e)
      /\ \A s : Listed(f, hp2, s) <=> Listed(f, hp, s)
  BY SameHeads
<1>2. \A h \in Heaps : CanGive(hp[h]) => CanGive(hp2[h])
  BY DEF SameLists, CanGive, Candidates
<1> QED BY <1>1, <1>2 DEF PlaceOK

LEMMA QuietLists ==
    ASSUME IInv, ListInv, NEW t \in Threads, NEW x, OnlyMoves(t, x)
    PROVE  ListInv'
<1>1. /\ \A u \in Threads : th'[u] = IF u = t THEN x ELSE th[u]
      /\ sb' = sb /\ \A h \in Heaps : SameLists(heap, heap', h)
  BY DEF OnlyMoves
<1>2. ListsOK(sb', heap')
  BY <1>1, SameHeads DEF ListInv
<1>3. PlacesOK'
  <2>1. ASSUME NEW u \in Threads \ {t} PROVE PlaceOK(sb, heap', th[u])
    <3>1. PlaceOK(sb, heap, th[u])
      BY DEF ListInv, PlacesOK
    <3>2. th[u].pc \in { "sb_alloc", "account" } => th[u].heap \in Heaps
      BY Facts DEF PlaceIn, AllocPlaces, FreePlaces, Heaps
    <3> QED BY <1>1, <3>1, <3>2, PlaceSame
  <2> QED BY <1>1, <2>1 DEF PlacesOK, OnlyMoves
<1>4. \A u \in Threads : InHand(th'[u]) = InHand(th[u])
  BY <1>1 DEF OnlyMoves
<1>5. HandsApart'
  BY <1>4 DEF HandsApart, ListInv
<1>6. Mapped' = Mapped /\ AllCut'
  BY <1>1 DEF Mapped, AllCut, ListInv
<1>7. Placed'
  <2>1. \A s \in Mapped : OnItsList(sb, heap, s) => OnItsList(sb', heap', s)
    <3>1. \A s \in Mapped : sb[s].owner \in Heaps
      BY Facts DEF HeadersIn, SuperblockHeader, Mapped
    <3>2. \A h \in Heaps : \A b, e : InBin(sb, heap', h, b, e) = InBin(sb, heap, h, b, e)
      BY <1>1, SameHeads
    <3> QED BY <1>1, <3>1, <3>2 DEF OnItsList
  <2> QED BY <1>1, <1>4, <1>6, <2>1 DEF Placed, ListInv
<1>8. AllocedOK'
  <2>1. \A h : Owned(h)' = Owned(h)
    BY <1>1 DEF Owned
  <2>2. \A h \in ThreadHeaps : heap'[h].alloced = heap[h].alloced
    BY DEF OnlyMoves, Heaps
  <2> QED BY <2>1, <2>2 DEF AllocedOK, ListInv
<1> QED BY <1>2, <1>3, <1>5, <1>6, <1>7, <1>8 DEF ListInv, OnlyMoves

(* Why no other thread has anything to do with s: t has it in hand,        *)
LEMMA NobodyElseHolds ==
    ASSUME IInv, BlocksInv, ListInv, NEW t \in Threads, NEW s \in InHand(th[t])
    PROVE  NobodyElse(t, s) /\ ~Listed(sb, heap, s)
<1>1. ~Listed(sb, heap, s)
  BY DEF ListInv, PlacesOK, PlaceOK
<1>2. ASSUME NEW u \in Threads \ {t}
      PROVE  s \notin InHand(th[u]) /\ ~(th[u].pc = "sb_alloc" /\ th[u].s_ptr = s)
  <2>1. s \notin InHand(th[u])
    BY DEF ListInv, HandsApart
  <2>2. ASSUME th[u].pc = "sb_alloc", th[u].s_ptr = s, th[u].in_bin PROVE FALSE
    <3> DEFINE b == size2idx(th[u].size)
    <3>1. s \in InBin(sb, heap, th[u].heap, b, get_eidx(sb[s]))
      BY <2>2 DEF ListInv, PlacesOK, PlaceOK
    <3>2. th[u].heap \in Heaps /\ b \in Bins
      BY <2>2, Facts, ThreadBin DEF PlaceIn, AllocPlaces, Heaps
    <3>3. get_eidx(sb[s]) \in EmptinessClasses
      BY <2>2, ThreadFacts, MappedClass DEF ListInv
    <3> HIDE DEF b
    <3> QED BY <1>1, <3>1, <3>2, <3>3 DEF Listed
  <2> QED BY <2>1, <2>2 DEF InHand
<1> QED BY <1>1, <1>2 DEF NobodyElse

(* or s is on a list of a heap that t has locked,                          *)
LEMMA NobodyElseLocks ==
    ASSUME IInv, BlocksInv, ListInv, NEW t \in Threads, NEW h \in Heaps, lock[h] = t,
           NEW s, Listed(sb, heap, s), sb[s].owner = h
    PROVE  NobodyElse(t, s)
<1> SUFFICES ASSUME NEW u \in Threads \ {t}
             PROVE  s \notin InHand(th[u]) /\ ~(th[u].pc = "sb_alloc" /\ th[u].s_ptr = s)
  BY DEF NobodyElse
<1>1. s \notin InHand(th[u])
  BY DEF ListInv, PlacesOK, PlaceOK
<1>2. ASSUME th[u].pc = "sb_alloc", th[u].s_ptr = s, th[u].in_bin PROVE FALSE
  <2> DEFINE b == size2idx(th[u].size)
             e == get_eidx(sb[s])
  <2>1. s \in InBin(sb, heap, th[u].heap, b, e)
    BY <1>2 DEF ListInv, PlacesOK, PlaceOK
  <2>2. /\ th[u].heap \in Heaps /\ b \in Bins /\ th[u].s_ptr \in Mapped
        /\ th[u].heap \in LocksOf(u)
    BY <1>2, Facts, ThreadBin DEF PlaceIn, AllocPlaces, Heaps, LocksOf
  <2>3. e \in EmptinessClasses
    BY <1>2, <2>2, MappedClass DEF ListInv
  <2> HIDE DEF b, e
  <2>4. sb[s].owner = th[u].heap
    BY <2>1, <2>2, <2>3 DEF ListInv, ListsOK, BinOK, Fits
  <2> QED BY <2>2, <2>4, HoldsLock
<1> QED BY <1>1, <1>2 DEF InHand

(* or s is not mapped yet.                                                 *)
LEMMA NobodyElseUnmapped ==
    ASSUME IInv, NEW t \in Threads, NEW s \in Superblocks, s \notin Mapped
    PROVE  NobodyElse(t, s)
  BY ThreadFacts DEF NobodyElse

LEMMA UnmappedUnlisted ==
    ASSUME IInv, ListInv, NEW s \in Superblocks, s \notin Mapped
    PROVE  ~Listed(sb, heap, s)
<1>1. sb[s].owner = NULL /\ NULL \notin Heaps
  BY HeapAssumption DEF Mapped
<1> QED BY <1>1 DEF Listed, ListInv, ListsOK, BinOK, RecyclingOK, Fits

-----------------------------------------------------------------------------
(* The statistic `alloced'                                                 *)

(* A size_t can hold the size of any set of superblocks.                   *)
LEMMA AllocedBytes ==
    ASSUME NEW T \in SUBSET Superblocks, NEW s \in Superblocks
    PROVE  /\ s \notin T => (SUPERBLOCK_SIZE * Cardinality(T) + SUPERBLOCK_SIZE) % SIZE_MOD
                              = SUPERBLOCK_SIZE * Cardinality(T \cup {s})
           /\ s \in T => (SUPERBLOCK_SIZE * Cardinality(T) - SUPERBLOCK_SIZE) % SIZE_MOD
                           = SUPERBLOCK_SIZE * Cardinality(T \ {s})
<1> DEFINE z == SUPERBLOCK_SIZE
<1>1. \A U \in SUBSET Superblocks :
        /\ IsFiniteSet(U) /\ Cardinality(U) \in Nat
        /\ z * Cardinality(U) \in Nat /\ z * Cardinality(U) < SIZE_MOD
  <2> TAKE U \in SUBSET Superblocks
  <2>1. IsFiniteSet(U) /\ Cardinality(U) <= Cardinality(Superblocks)
    BY AddressSpaceAssumption, FS_Subset
  <2>2. Cardinality(U) \in Nat /\ Cardinality(Superblocks) \in Nat
    BY <2>1, AddressSpaceAssumption, FS_CardinalityType
  <2>3. z \in Nat /\ SIZE_MOD \in Nat
    BY SizesAssumption, HeapAssumption
  <2>4. Cardinality(U) * z <= Cardinality(Superblocks) * z
    BY <2>1, <2>2, <2>3, TimesMonotone
  <2>5. /\ z * Cardinality(U) = Cardinality(U) * z
        /\ z * Cardinality(Superblocks) = Cardinality(Superblocks) * z
        /\ z * Cardinality(U) \in Nat /\ z * Cardinality(Superblocks) \in Nat
    BY <2>2, <2>3
  <2>6. z * Cardinality(Superblocks) < SIZE_MOD
    BY AddressSpaceAssumption
  <2> HIDE DEF z
  <2> QED BY <2>1, <2>2, <2>3, <2>4, <2>5, <2>6
<1>2. \A n \in Nat : n < SIZE_MOD => n % SIZE_MOD = n
  BY HeapAssumption
<1>3. \A n \in Nat : z * (n + 1) = z * n + z
  BY SizesAssumption
<1> HIDE DEF z
<1>4. ASSUME s \notin T PROVE (z * Cardinality(T) + z) % SIZE_MOD = z * Cardinality(T \cup {s})
  <2>1. Cardinality(T \cup {s}) = Cardinality(T) + 1 /\ T \cup {s} \in SUBSET Superblocks
    BY <1>1, <1>4, FS_AddElement
  <2>2. z * Cardinality(T) + z = z * Cardinality(T \cup {s})
    BY <1>1, <1>3, <2>1
  <2> QED BY <1>1, <1>2, <2>1, <2>2
<1>5. ASSUME s \in T PROVE (z * Cardinality(T) - z) % SIZE_MOD = z * Cardinality(T \ {s})
  <2>1. Cardinality(T \ {s}) = Cardinality(T) - 1 /\ T \ {s} \in SUBSET Superblocks
    BY <1>1, <1>5, FS_RemoveElement
  <2>2. Cardinality(T \ {s}) \in Nat /\ Cardinality(T) = Cardinality(T \ {s}) + 1
    BY <1>1, <2>1
  <2>3. z * Cardinality(T) = z * Cardinality(T \ {s}) + z
    BY <1>3, <2>2
  <2>4. z \in Nat /\ z * Cardinality(T \ {s}) \in Nat
    BY <1>1, <2>1, SizesAssumption DEF z
  <2>5. z * Cardinality(T) - z = z * Cardinality(T \ {s})
    BY <2>3, <2>4
  <2> QED BY <1>1, <1>2, <2>1, <2>5
<1> QED BY <1>4, <1>5 DEF z

LEMMA AllocedSame ==
    ASSUME ListInv, \A s \in Superblocks : sb'[s].owner = sb[s].owner,
           \A h \in ThreadHeaps : heap'[h].alloced = heap[h].alloced
    PROVE  AllocedOK'
<1>1. \A h : Owned(h)' = Owned(h)
  BY DEF Owned
<1> QED BY <1>1 DEF ListInv, AllocedOK

LEMMA AllocedGain ==
    ASSUME ListInv, NEW s \in Superblocks, NEW h \in ThreadHeaps,
           sb[s].owner \notin ThreadHeaps, sb'[s].owner = h,
           \A y \in Superblocks \ {s} : sb'[y].owner = sb[y].owner,
           heap'[h].alloced = (heap[h].alloced + SUPERBLOCK_SIZE) % SIZE_MOD,
           \A g \in ThreadHeaps \ {h} : heap'[g].alloced = heap[g].alloced
    PROVE  AllocedOK'
<1>1. Owned(h)' = Owned(h) \cup {s} /\ s \notin Owned(h) /\ Owned(h) \in SUBSET Superblocks
  BY DEF Owned
<1>2. \A g \in ThreadHeaps \ {h} : Owned(g)' = Owned(g)
  BY DEF Owned
<1>3. \A g \in ThreadHeaps : heap[g].alloced = SUPERBLOCK_SIZE * Cardinality(Owned(g))
  BY DEF ListInv, AllocedOK
<1>4. heap'[h].alloced = SUPERBLOCK_SIZE * Cardinality(Owned(h) \cup {s})
  BY <1>1, <1>3, AllocedBytes
<1> QED BY <1>1, <1>2, <1>3, <1>4 DEF AllocedOK

LEMMA AllocedLoss ==
    ASSUME ListInv, NEW s \in Superblocks, NEW h \in ThreadHeaps,
           sb[s].owner = h, sb'[s].owner \notin ThreadHeaps,
           \A y \in Superblocks \ {s} : sb'[y].owner = sb[y].owner,
           heap'[h].alloced = (heap[h].alloced - SUPERBLOCK_SIZE) % SIZE_MOD,
           \A g \in ThreadHeaps \ {h} : heap'[g].alloced = heap[g].alloced
    PROVE  AllocedOK'
<1>1. Owned(h)' = Owned(h) \ {s} /\ s \in Owned(h) /\ Owned(h) \in SUBSET Superblocks
  BY DEF Owned
<1>2. \A g \in ThreadHeaps \ {h} : Owned(g)' = Owned(g)
  BY DEF Owned
<1>3. \A g \in ThreadHeaps : heap[g].alloced = SUPERBLOCK_SIZE * Cardinality(Owned(g))
  BY DEF ListInv, AllocedOK
<1>4. heap'[h].alloced = SUPERBLOCK_SIZE * Cardinality(Owned(h) \ {s})
  BY <1>1, <1>3, AllocedBytes
<1> QED BY <1>1, <1>2, <1>3, <1>4 DEF AllocedOK

-----------------------------------------------------------------------------
(* Steps that leave all lists alone                                        *)

(* Elsewhere a thread relies on no list.                                   *)
Elsewhere(x) == /\ x.pc \notin { "adopt", "sb_alloc", "account", "transfer", "insert_global" }
                /\ ~x.in_bin /\ x.eidx = -1

LEMMA ElsewhereOK ==
    ASSUME NEW x, Elsewhere(x)
    PROVE  InHand(x) = {} /\ \A f, hp : PlaceOK(f, hp, x)
<1>1. InHand(x) = {}
  BY DEF Elsewhere, InHand
<1> QED BY <1>1 DEF Elsewhere, PlaceOK

LEMMA FromElsewhere ==
    ASSUME ListInv, NEW t \in Threads
    PROVE  /\ th[t].pc # "sb_alloc" => ~th[t].in_bin
           /\ th[t].pc \notin { "transfer", "insert_global" } => th[t].eidx = -1
           /\ th[t].pc \notin { "adopt", "sb_alloc", "transfer", "insert_global" }
                => InHand(th[t]) = {}
<1>1. PlaceOK(sb, heap, th[t])
  BY DEF ListInv, PlacesOK
<1> QED BY <1>1 DEF PlaceOK, InHand

LEMMA IdleElsewhere == Elsewhere(IdleThread)
  BY DEF IdleThread, Elsewhere

(* Only the state of one thread changes.                                   *)
LEMMA ThreadMoves ==
    ASSUME IInv, ListInv, NEW t \in Threads, NEW x, th' = [th EXCEPT ![t] = x],
           UNCHANGED << sb, heap, crashed >>,
           InHand(x) = InHand(th[t]), PlaceOK(sb, heap, x)
    PROVE  ListInv'
<1>1. \A u \in Threads : th'[u] = IF u = t THEN x ELSE th[u]
  BY OthersStay
<1>2. OnlyMoves(t, x)
  BY <1>1 DEF OnlyMoves, SameLists, ListInv
<1> QED BY <1>2, QuietLists

LEMMA ElsewhereMoves ==
    ASSUME IInv, ListInv, NEW t \in Threads, NEW x, th' = [th EXCEPT ![t] = x],
           UNCHANGED << sb, heap, crashed >>, InHand(th[t]) = {}, Elsewhere(x)
    PROVE  ListInv'
  BY ThreadMoves, ElsewhereOK

LEMMA WaitingLists ==
    ASSUME IInv, ListInv, NEW t \in Threads,
           \/ LockHeap(t) \/ AskGlobal(t) \/ LockGlobal(t) \/ TakeNothing(t) \/ LockOwner(t)
    PROVE  ListInv'
<1>1. \E pc \in { "bin_alloc", "lock_global", "get_sb_from_global", "map", "bin_free" } :
        th' = [th EXCEPT ![t].pc = pc]
  BY DEF LockHeap, AskGlobal, LockGlobal, TakeNothing, LockOwner, Goto
<1>2. /\ th[t].pc \in { "lock_heap", "bin_alloc", "lock_global", "get_sb_from_global",
                        "lock_owner" }
      /\ UNCHANGED << sb, heap, crashed >>
  BY DEF LockHeap, AskGlobal, LockGlobal, TakeNothing, LockOwner, At
<1>3. PICK pc \in { "bin_alloc", "lock_global", "get_sb_from_global", "map", "bin_free" } :
        th' = [th EXCEPT ![t].pc = pc]
  BY <1>1
<1> DEFINE x == [th[t] EXCEPT !.pc = pc]
<1>4. th' = [th EXCEPT ![t] = x]
  BY <1>3
<1>5. Elsewhere(x)
  BY <1>2, <1>3, Facts, FromElsewhere DEF Elsewhere, Thread
<1> HIDE DEF x
<1> QED BY <1>2, <1>4, <1>5, FromElsewhere, ElsewhereMoves

LEMMA LockSuperblockLists ==
    ASSUME IInv, ListInv, NEW t \in Threads, LockSuperblock(t)
    PROVE  ListInv'
<1> DEFINE s == th[t].s_ptr
           x == [th[t] EXCEPT !.pc = "lock_owner", !.heap = sb[s].owner,
                              !.size = sb[s].block_size]
<1>1. /\ th' = [th EXCEPT ![t] = x] /\ th[t].pc = "lock_superblock"
      /\ UNCHANGED << sb, heap, crashed >>
  BY DEF LockSuperblock, At
<1>2. Elsewhere(x)
  BY <1>1, Facts, FromElsewhere DEF Elsewhere, Thread
<1> HIDE DEF x
<1> QED BY <1>1, <1>2, FromElsewhere, ElsewhereMoves

LEMMA CallLists ==
    ASSUME IInv, ListInv, NEW t \in Threads, Call(t)
    PROVE  ListInv'
<1>1. ASSUME NEW size \in Requests, Malloc(t, size) PROVE ListInv'
  <2> DEFINE x == [th[t] EXCEPT !.pc = "lock_heap", !.heap = HeapOf[t], !.size = size]
  <2>1. /\ th' = [th EXCEPT ![t] = x] /\ th[t].pc = "idle"
        /\ UNCHANGED << sb, heap, crashed >>
    BY <1>1 DEF Malloc, At
  <2>2. Elsewhere(x)
    BY <2>1, Facts, FromElsewhere DEF Elsewhere, Thread
  <2> HIDE DEF x
  <2> QED BY <2>1, <2>2, FromElsewhere, ElsewhereMoves
<1>2. ASSUME NEW p \in held, Free(t, p) PROVE ListInv'
  <2> DEFINE x == [th[t] EXCEPT !.pc = "lock_superblock", !.s_ptr = p.sb, !.off = p.off]
  <2>1. /\ th' = [th EXCEPT ![t] = x] /\ th[t].pc = "idle"
        /\ UNCHANGED << sb, heap, crashed >>
    BY <1>2 DEF Free, At
  <2>2. Elsewhere(x)
    BY <2>1, Facts, FromElsewhere DEF Elsewhere, Thread
  <2> HIDE DEF x
  <2> QED BY <2>1, <2>2, FromElsewhere, ElsewhereMoves
<1> QED BY <1>1, <1>2 DEF Call

LEMMA FreeFromGlobalLists ==
    ASSUME IInv, ListInv, NEW t \in Threads, FreeFromGlobal(t)
    PROVE  ListInv'
<1>1. /\ th' = [th EXCEPT ![t] = IdleThread] /\ th[t].pc = "account"
      /\ UNCHANGED << sb, heap, crashed >>
  BY DEF FreeFromGlobal, At, Return
<1> QED BY <1>1, FromElsewhere, IdleElsewhere, ElsewhereMoves

LEMMA LockGlobalForTransferLists ==
    ASSUME IInv, ListInv, NEW t \in Threads, LockGlobalForTransfer(t)
    PROVE  ListInv'
<1> DEFINE x == [th[t] EXCEPT !.pc = "insert_global"]
<1>1. /\ th' = [th EXCEPT ![t] = x] /\ th[t].pc = "transfer"
      /\ UNCHANGED << sb, heap, crashed >>
  BY DEF LockGlobalForTransfer, At, Goto
<1>2. /\ x.pc = "insert_global" /\ x.victim = th[t].victim /\ x.eidx = th[t].eidx
      /\ x.bin_idx = th[t].bin_idx /\ x.heap = th[t].heap /\ x.in_bin = th[t].in_bin
  BY Facts DEF Thread
<1> HIDE DEF x
<1>3. InHand(x) = InHand(th[t])
  BY <1>1, <1>2 DEF InHand
<1>4. PlaceOK(sb, heap, x)
  <2>1. PlaceOK(sb, heap, th[t])
    BY DEF ListInv, PlacesOK
  <2> QED BY <1>1, <1>2, <1>3, <2>1 DEF PlaceOK
<1> QED BY <1>1, <1>3, <1>4, ThreadMoves

(* The head of a list.                                                     *)
LEMMA HeadListed ==
    ASSUME IInv, ListInv, NEW h \in Heaps, NEW b \in Bins, NEW e \in EmptinessClasses,
           NEW s, s = heap[h].size_bins[b].emptiness_bins[e], s # NULL
    PROVE  /\ s \in InBin(sb, heap, h, b, e) /\ Listed(sb, heap, s) /\ s \in Mapped
           /\ Fits(sb[s], h, b, e)
<1>1. HeapIn(Mapped, heap[h]) /\ Mapped \subseteq Superblocks
  BY DEF IInv, HeapsOK, Mapped
<1>2. s \in Mapped /\ s \in Superblocks
  BY <1>1 DEF HeapIn, ManagerIn
<1>3. s \in InBin(sb, heap, h, b, e)
  BY <1>2, ReachHead DEF InBin
<1> QED BY <1>2, <1>3 DEF Listed, ListInv, ListsOK, BinOK

LEMMA ChooseInBinLists ==
    ASSUME IInv, BlocksInv, ListInv, NEW t \in Threads, ChooseInBin(t)
    PROVE  ListInv'
<1> DEFINE h  == th[t].heap
           b  == size2idx(th[t].size)
           bm == heap[h].size_bins[b]
           e  == FullestNonfull(bm)
           s  == bm.emptiness_bins[e]
           x  == [th[t] EXCEPT !.pc = "sb_alloc", !.in_bin = TRUE, !.s_ptr = s]
<1>1. /\ th' = [th EXCEPT ![t] = x] /\ th[t].pc = "bin_alloc" /\ HasNonfull(bm)
      /\ UNCHANGED << sb, heap, crashed >>
  BY DEF ChooseInBin, At
<1>2. h \in Heaps /\ b \in Bins
  BY <1>1, Facts, ThreadBin DEF PlaceIn, AllocPlaces, Heaps
<1>3. e \in NonfullClasses /\ s # NULL
  <2> HIDE DEF bm
  <2> QED BY <1>1, FullestFound
<1>4. e \in EmptinessClasses /\ e > 0
  <2> HIDE DEF e
  <2> QED BY <1>3, NonfullIsNotFull
<1>5. /\ x.pc = "sb_alloc" /\ x.in_bin = TRUE /\ x.s_ptr = s /\ x.heap = h
      /\ x.size = th[t].size /\ x.eidx = th[t].eidx
  BY Facts DEF Thread
<1> HIDE DEF x
<1>6. InHand(x) = {} /\ InHand(th[t]) = {} /\ x.eidx = -1
  BY <1>1, <1>5, FromElsewhere DEF InHand
<1>7. s \in InBin(sb, heap, h, b, e) /\ s \in Mapped /\ Fits(sb[s], h, b, e)
  <2>1. s = heap[h].size_bins[b].emptiness_bins[e]
    OBVIOUS
  <2> HIDE DEF e, s, b, h
  <2> QED BY <1>2, <1>3, <1>4, <2>1, HeadListed
<1> HIDE DEF e, s
<1>8. get_eidx(sb[s]) = e /\ sb[s].num_free_blocks > 0
  BY <1>4, <1>7, MappedClass DEF ListInv, Fits
<1>9. PlaceOK(sb, heap, x)
  BY <1>5, <1>6, <1>7, <1>8 DEF PlaceOK, b
<1> QED BY <1>1, <1>6, <1>9, ThreadMoves

-----------------------------------------------------------------------------
(* Writing into the heaps                                                  *)

(* The statistics are apart from the lists.                                *)
LEMMA StatisticsLists ==
    ASSUME NEW y \in HeapRecord, NEW n
    PROVE  /\ inc_usage(y, n).size_bins = y.size_bins
           /\ inc_usage(y, n).recycled_superblock = y.recycled_superblock
           /\ inc_usage(y, n).alloced = y.alloced
           /\ dec_usage(y, n).size_bins = y.size_bins
           /\ dec_usage(y, n).recycled_superblock = y.recycled_superblock
           /\ dec_usage(y, n).alloced = y.alloced
           /\ inc_alloced(y, n).size_bins = y.size_bins
           /\ inc_alloced(y, n).recycled_superblock = y.recycled_superblock
           /\ inc_alloced(y, n).alloced = (y.alloced + n) % SIZE_MOD
           /\ dec_alloced(y, n).size_bins = y.size_bins
           /\ dec_alloced(y, n).recycled_superblock = y.recycled_superblock
           /\ dec_alloced(y, n).alloced = (y.alloced - n) % SIZE_MOD
<1>1. \A in_use : LET z == [y EXCEPT !.in_use = in_use]
                  IN  /\ z.size_bins = y.size_bins /\ z.alloced = y.alloced
                      /\ z.recycled_superblock = y.recycled_superblock
  BY DEF HeapRecord
<1>2. \A in_use, max : LET z == [y EXCEPT !.in_use = in_use, !.max_in_use = max]
                       IN  /\ z.size_bins = y.size_bins /\ z.alloced = y.alloced
                           /\ z.recycled_superblock = y.recycled_superblock
  BY DEF HeapRecord
<1>3. \A alloced : LET z == [y EXCEPT !.alloced = alloced]
                   IN  /\ z.size_bins = y.size_bins /\ z.alloced = alloced
                       /\ z.recycled_superblock = y.recycled_superblock
  BY DEF HeapRecord
<1>4. \A alloced, max : LET z == [y EXCEPT !.alloced = alloced, !.max_alloced = max]
                        IN  /\ z.size_bins = y.size_bins /\ z.alloced = alloced
                            /\ z.recycled_superblock = y.recycled_superblock
  BY DEF HeapRecord
<1>5. /\ inc_usage(y, n) = [y EXCEPT !.in_use = (y.in_use + n) % SIZE_MOD,
                                     !.max_in_use = IF (y.in_use + n) % SIZE_MOD > @
                                                      THEN (y.in_use + n) % SIZE_MOD ELSE @]
      /\ inc_alloced(y, n) = [y EXCEPT !.alloced = (y.alloced + n) % SIZE_MOD,
                                       !.max_alloced = IF (y.alloced + n) % SIZE_MOD > @
                                                         THEN (y.alloced + n) % SIZE_MOD ELSE @]
      /\ dec_usage(y, n) = [y EXCEPT !.in_use = (y.in_use - n) % SIZE_MOD]
      /\ dec_alloced(y, n) = [y EXCEPT !.alloced = (y.alloced - n) % SIZE_MOD]
  BY DEF inc_usage, inc_alloced, dec_usage, dec_alloced
<1> QED BY <1>1, <1>2, <1>3, <1>4, <1>5

SetBin(hp, h, b, bm)  == [hp EXCEPT ![h].size_bins[b] = bm]
SetRecycling(hp, h, v) == [hp EXCEPT ![h].recycled_superblock = v]

LEMMA WriteBin ==
    ASSUME NEW hp \in [Heaps -> HeapRecord], NEW h \in Heaps, NEW b \in Bins,
           NEW bm, ManagerIn(Superblocks, bm),
           NEW hp2, hp2 = SetBin(hp, h, b, bm)
    PROVE  /\ SetsBin(hp, hp2, h, b, bm) /\ hp2 \in [Heaps -> HeapRecord]
           /\ \A g \in Heaps : hp2[g].alloced = hp[g].alloced
<1> DEFINE y    == hp[h]
           bins == [y.size_bins EXCEPT ![b] = bm]
           z    == [y EXCEPT !.size_bins = bins]
<1>1. y \in HeapRecord /\ y.size_bins \in [Bins -> BinManagerRecord] /\ bm \in BinManagerRecord
  BY DEF HeapRecord, ManagerIn
<1>2. /\ bins \in [Bins -> BinManagerRecord] /\ bins[b] = bm
      /\ \A c \in Bins \ {b} : bins[c] = y.size_bins[c]
  BY <1>1
<1>3. hp2 = [hp EXCEPT ![h] = z]
  BY DEF SetBin
<1> HIDE DEF bins
<1>4. /\ z \in HeapRecord /\ z.size_bins = bins /\ z.alloced = y.alloced
      /\ z.recycled_superblock = y.recycled_superblock
  BY <1>1, <1>2 DEF HeapRecord
<1> HIDE DEF z
<1>5. hp2 \in [Heaps -> HeapRecord] /\ \A g \in Heaps : hp2[g] = IF g = h THEN z ELSE hp[g]
  BY <1>3, <1>4
<1>6. SetsBin(hp, hp2, h, b, bm) /\ \A g \in Heaps : hp2[g].alloced = hp[g].alloced
  BY <1>2, <1>4, <1>5 DEF SetsBin, SameLists
<1> QED BY <1>5, <1>6

LEMMA WriteRecycled ==
    ASSUME NEW hp \in [Heaps -> HeapRecord], NEW h \in Heaps,
           NEW v \in Superblocks \cup {NULL},
           NEW hp2, hp2 = SetRecycling(hp, h, v)
    PROVE  /\ SetsRecycled(hp, hp2, h, v) /\ hp2 \in [Heaps -> HeapRecord]
           /\ \A g \in Heaps : hp2[g].alloced = hp[g].alloced
<1> DEFINE y   == hp[h]
           z   == [y EXCEPT !.recycled_superblock = v]
<1>1. /\ z \in HeapRecord /\ z.size_bins = y.size_bins /\ z.alloced = y.alloced
      /\ z.recycled_superblock = v
  <2>1. y \in HeapRecord
    OBVIOUS
  <2> QED BY <2>1 DEF HeapRecord
<1>2. hp2 = [hp EXCEPT ![h] = z]
  BY DEF SetRecycling
<1> HIDE DEF z
<1>3. hp2 \in [Heaps -> HeapRecord] /\ \A g \in Heaps : hp2[g] = IF g = h THEN z ELSE hp[g]
  BY <1>1, <1>2
<1>4. SetsRecycled(hp, hp2, h, v) /\ \A g \in Heaps : hp2[g].alloced = hp[g].alloced
  BY <1>1, <1>3 DEF SetsRecycled, SameLists
<1> QED BY <1>3, <1>4

LEMMA WriteHeap ==
    ASSUME NEW hp \in [Heaps -> HeapRecord], NEW h \in Heaps, NEW y,
           y.size_bins = hp[h].size_bins, y.recycled_superblock = hp[h].recycled_superblock,
           NEW hp2, hp2 = [hp EXCEPT ![h] = y]
    PROVE  /\ \A g \in Heaps : SameLists(hp, hp2, g)
           /\ hp2[h] = y /\ \A g \in Heaps \ {h} : hp2[g] = hp[g]
  BY DEF SameLists

LEMMA MmapFailsLists ==
    ASSUME IInv, ListInv, NEW t \in Threads, MmapFails(t)
    PROVE  ListInv'
<1> DEFINE h == th[t].heap
           y == inc_usage(heap[h], idx2class(size2idx(th[t].size)))
<1>1. /\ th' = [th EXCEPT ![t] = IdleThread] /\ th[t].pc = "map"
      /\ heap' = [heap EXCEPT ![h] = y] /\ sb' = sb /\ crashed' = crashed
  BY DEF MmapFails, At, Return
<1>2. h \in Heaps /\ heap \in [Heaps -> HeapRecord] /\ heap[h] \in HeapRecord
  BY <1>1, Facts DEF PlaceIn, AllocPlaces, Heaps
<1>3. /\ y.size_bins = heap[h].size_bins /\ y.alloced = heap[h].alloced
      /\ y.recycled_superblock = heap[h].recycled_superblock
  BY <1>2, StatisticsLists
<1> HIDE DEF h, y
<1>4. \A g \in Heaps : SameLists(heap, heap', g) /\ heap'[g].alloced = heap[g].alloced
  BY <1>1, <1>2, <1>3, WriteHeap
<1>5. OnlyMoves(t, IdleThread)
  <2>1. InHand(IdleThread) = {} /\ PlaceOK(sb, heap', IdleThread)
    BY IdleElsewhere, ElsewhereOK
  <2>2. InHand(th[t]) = {}
    BY <1>1, FromElsewhere
  <2>3. th'[t] = IdleThread /\ \A u \in Threads \ {t} : th'[u] = th[u]
    BY <1>1, OthersStay
  <2> QED BY <1>1, <1>4, <2>1, <2>2, <2>3 DEF OnlyMoves, ListInv
<1> QED BY <1>5, QuietLists

LEMMA FreeAndKeepLists ==
    ASSUME IInv, ListInv, NEW t \in Threads, FreeAndKeep(t)
    PROVE  ListInv'
<1> DEFINE h == th[t].heap
           y == dec_usage(heap[h], th[t].size)
<1>1. /\ th' = [th EXCEPT ![t] = IdleThread] /\ th[t].pc = "account"
      /\ heap' = [heap EXCEPT ![h] = y] /\ sb' = sb /\ crashed' = crashed
  BY DEF FreeAndKeep, At, Return
<1>2. h \in Heaps /\ heap \in [Heaps -> HeapRecord] /\ heap[h] \in HeapRecord
  BY <1>1, Facts DEF PlaceIn, FreePlaces, Heaps
<1>3. /\ y.size_bins = heap[h].size_bins /\ y.alloced = heap[h].alloced
      /\ y.recycled_superblock = heap[h].recycled_superblock
  BY <1>2, StatisticsLists
<1> HIDE DEF h, y
<1>4. \A g \in Heaps : SameLists(heap, heap', g) /\ heap'[g].alloced = heap[g].alloced
  BY <1>1, <1>2, <1>3, WriteHeap
<1>5. OnlyMoves(t, IdleThread)
  <2>1. InHand(IdleThread) = {} /\ PlaceOK(sb, heap', IdleThread)
    BY IdleElsewhere, ElsewhereOK
  <2>2. InHand(th[t]) = {}
    BY <1>1, FromElsewhere
  <2>3. th'[t] = IdleThread /\ \A u \in Threads \ {t} : th'[u] = th[u]
    BY <1>1, OthersStay
  <2> QED BY <1>1, <1>4, <2>1, <2>2, <2>3 DEF OnlyMoves, ListInv
<1> QED BY <1>5, QuietLists

-----------------------------------------------------------------------------
(* Steps that take a superblock off a recycling bin                        *)

LEMMA TypedNow ==
    ASSUME IInv
    PROVE  /\ Typed(sb, heap) /\ GlobalHeap \in Heaps
           /\ heap \in [Heaps -> HeapRecord] /\ sb \in [Superblocks -> SuperblockHeader(Heaps)]
  BY DEF IInv, HeapsOK, HeadersOK, HeadersIn, Typed, Heaps

LEMMA RecycledHead ==
    ASSUME IInv, ListInv, NEW h \in Heaps, NEW s, s = heap[h].recycled_superblock, s # NULL
    PROVE  /\ s \in Superblocks /\ s \in Mapped /\ Listed(sb, heap, s)
           /\ sb[s].next \in Superblocks \cup {NULL}
           /\ sb[s].owner = h /\ is_superblock_empty(sb[s])
           /\ CutOK(sb[s]) /\ sb[s].num_free_blocks > 0
<1>1. HeapIn(Mapped, heap[h]) /\ Mapped \subseteq Superblocks
  BY DEF IInv, HeapsOK, Mapped
<1>2. s \in Mapped /\ s \in Superblocks
  BY <1>1 DEF HeapIn
<1>3. s \in InRecycling(sb, heap, h)
  BY <1>2, ReachHead DEF InRecycling
<1>4. sb[s].owner = h /\ is_superblock_empty(sb[s]) /\ CutOK(sb[s])
  BY <1>2, <1>3 DEF ListInv, ListsOK, RecyclingOK, AllCut
<1>5. sb[s].next \in Superblocks \cup {NULL}
  BY <1>2, TypedNow DEF Typed, SuperblockHeader
<1> QED BY <1>2, <1>3, <1>4, <1>5 DEF Listed, CutOK, is_superblock_empty

LEMMA TakeRecycledLists ==
    ASSUME IInv, BlocksInv, ListInv, NEW t \in Threads, TakeRecycled(t)
    PROVE  ListInv'
<1> DEFINE s == heap[GlobalHeap].recycled_superblock
           v == sb[s].next
           x == [th[t] EXCEPT !.pc = "adopt", !.s_ptr = s]
<1>1. /\ th' = [th EXCEPT ![t] = x] /\ th[t].pc = "get_sb_from_global" /\ s # NULL
      /\ heap' = [heap EXCEPT ![GlobalHeap].recycled_superblock = v]
      /\ sb' = sb /\ crashed' = crashed
  BY DEF TakeRecycled, At
<1>2. /\ s \in Superblocks /\ Listed(sb, heap, s) /\ v \in Superblocks \cup {NULL}
      /\ sb[s].owner = GlobalHeap /\ is_superblock_empty(sb[s])
      /\ CutOK(sb[s]) /\ sb[s].num_free_blocks > 0
  BY <1>1, TypedNow, RecycledHead
<1>3. /\ x.pc = "adopt" /\ x.s_ptr = s /\ x.in_bin = th[t].in_bin /\ x.eidx = th[t].eidx
  BY Facts DEF Thread
<1> HIDE DEF x, s, v
<1>4. lock[GlobalHeap] = t
  BY <1>1, TypedNow, HoldsLock DEF LocksOf
<1>5. /\ SetsRecycled(heap, heap', GlobalHeap, v)
      /\ \A g \in Heaps : heap'[g].alloced = heap[g].alloced
  <2>1. heap' = SetRecycling(heap, GlobalHeap, v)
    BY <1>1 DEF SetRecycling
  <2> QED BY <1>2, <2>1, TypedNow, WriteRecycled
<1>6. ListsOK(sb, heap') /\ Moves(sb, heap, sb, heap', s) /\ ~Listed(sb, heap', s)
  BY <1>2, <1>5, TypedNow, RecyclingShrinks DEF ListInv, s, v
<1>7. NobodyElse(t, s)
  BY <1>2, <1>4, TypedNow, NobodyElseLocks
<1>8. InHand(x) = {s} /\ InHand(th[t]) = {}
  BY <1>1, <1>3, FromElsewhere DEF InHand
<1>9. PlaceOK(sb, heap', x)
  BY <1>1, <1>2, <1>3, <1>6, <1>8, FromElsewhere DEF PlaceOK
<1>10. AllocedOK'
  BY <1>1, <1>5, AllocedSame DEF Heaps
<1>11. Headers(s)
  BY <1>1 DEF Headers, SameBlocks
<1>12. \A u \in Threads : th'[u] = IF u = t THEN x ELSE th[u]
  BY <1>1, OthersStay
<1>13. \A g \in Heaps : SameLists(heap, heap', g) \/ lock[g] = t
  BY <1>4, <1>5 DEF SetsRecycled
<1>14. ListStep(t, x, s)
  BY <1>1, <1>2, <1>6, <1>7, <1>8, <1>9, <1>10, <1>11, <1>12, <1>13 DEF ListStep, ListInv
<1> QED BY <1>14, ListStepKeeps

LEMMA GiveRecycledLists ==
    ASSUME IInv, BlocksInv, ListInv, NEW t \in Threads, GiveRecycled(t)
    PROVE  ListInv'
<1> DEFINE h   == th[t].heap
           dec == dec_usage(heap[h], th[t].size)
           s   == dec.recycled_superblock
           v   == sb[s].next
           y   == [dec EXCEPT !.recycled_superblock = v]
           x   == [th[t] EXCEPT !.pc = "transfer", !.victim = s]
<1>1. /\ th' = [th EXCEPT ![t] = x] /\ th[t].pc = "account" /\ s # NULL
      /\ heap' = [heap EXCEPT ![h] = y] /\ sb' = sb /\ crashed' = crashed
  BY DEF GiveRecycled, At
<1>2. h \in Heaps /\ h \in LocksOf(t) /\ heap[h] \in HeapRecord
  BY <1>1, Facts DEF PlaceIn, FreePlaces, Heaps, LocksOf
<1>3. /\ dec.size_bins = heap[h].size_bins /\ dec.alloced = heap[h].alloced
      /\ s = heap[h].recycled_superblock
  BY <1>2, StatisticsLists
<1>4. dec = [heap[h] EXCEPT !.in_use = dec.in_use]
  BY <1>2 DEF dec_usage, HeapRecord
<1> HIDE DEF dec, s, h
<1>5. /\ s \in Superblocks /\ Listed(sb, heap, s) /\ v \in Superblocks \cup {NULL}
      /\ sb[s].owner = h /\ is_superblock_empty(sb[s]) /\ CutOK(sb[s])
  BY <1>1, <1>2, <1>3, RecycledHead
<1>6. /\ x.pc = "transfer" /\ x.victim = s /\ x.in_bin = th[t].in_bin /\ x.eidx = th[t].eidx
      /\ x.heap = h
  BY Facts DEF Thread, h
<1>7. /\ y.size_bins = heap[h].size_bins /\ y.alloced = heap[h].alloced
      /\ y.recycled_superblock = v
  <2>1. y = [heap[h] EXCEPT !.in_use = dec.in_use, !.recycled_superblock = v]
    BY <1>4
  <2> QED BY <1>2, <2>1 DEF HeapRecord
<1> HIDE DEF x, v, y
<1>8. lock[h] = t
  BY <1>2, HoldsLock
<1>9. /\ SetsRecycled(heap, heap', h, v)
      /\ \A g \in Heaps : heap'[g].alloced = heap[g].alloced
  BY <1>1, <1>2, <1>7, TypedNow DEF SetsRecycled, SameLists
<1>10. ListsOK(sb, heap') /\ Moves(sb, heap, sb, heap', s) /\ ~Listed(sb, heap', s)
  BY <1>2, <1>3, <1>5, <1>9, TypedNow, RecyclingShrinks DEF ListInv, v
<1>11. NobodyElse(t, s)
  BY <1>2, <1>5, <1>8, NobodyElseLocks
<1>12. InHand(x) = {s} /\ InHand(th[t]) = {}
  BY <1>1, <1>6, FromElsewhere DEF InHand
<1>13. PlaceOK(sb, heap', x)
  BY <1>1, <1>5, <1>6, <1>10, <1>12, FromElsewhere DEF PlaceOK
<1>14. AllocedOK'
  BY <1>1, <1>9, AllocedSame DEF Heaps
<1>15. Headers(s)
  BY <1>1 DEF Headers, SameBlocks
<1>16. \A u \in Threads : th'[u] = IF u = t THEN x ELSE th[u]
  BY <1>1, OthersStay
<1>17. \A g \in Heaps : SameLists(heap, heap', g) \/ lock[g] = t
  BY <1>8, <1>9 DEF SetsRecycled
<1>18. ListStep(t, x, s)
  BY <1>1, <1>5, <1>10, <1>11, <1>12, <1>13, <1>14, <1>15, <1>16, <1>17
     DEF ListStep, ListInv
<1> QED BY <1>18, ListStepKeeps

(* A superblock that is cut anew has all its blocks.                       *)
LEMMA ResetCut ==
    ASSUME NEW r \in SuperblockHeader(Heaps), NEW b \in Bins,
           NEW q, SameBlocks(reset_superblock(r, SizeTable[b]), q)
    PROVE  CutOK(q) /\ is_superblock_empty(q) /\ q.num_free_blocks > 0
<1> DEFINE n == SizeTable[b]
           k == BufferSize \div n
<1>1. n \in Nat \ {0} /\ BufferSize \in Nat /\ n <= BufferSize
  BY SizeTableAssumption, SizesAssumption DEF BufferSize
<1>2. k \in Nat /\ BufferSize < k * n + n
  BY <1>1, QuotientBounds
<1>3. k # 0
  <2> SUFFICES ASSUME k = 0 PROVE FALSE
    OBVIOUS
  <2>1. k * n = 0
    BY <1>1
  <2> QED BY <1>1, <1>2, <2>1
<1>4. /\ q.total_blocks = k /\ q.num_free_blocks = k /\ q.block_size = n
  BY DEF SameBlocks, reset_superblock, SuperblockHeader
<1> HIDE DEF k
<1> QED BY <1>2, <1>3, <1>4 DEF CutOK, is_superblock_empty

LEMMA RecycleLists ==
    ASSUME IInv, BlocksInv, ListInv, NEW t \in Threads, Recycle(t)
    PROVE  ListInv'
<1> DEFINE h == th[t].heap
           b == size2idx(th[t].size)
           s == heap[h].recycled_superblock
           r == reset_superblock(sb[s], SizeTable[b])
           x == [th[t] EXCEPT !.pc = "sb_alloc", !.s_ptr = s]
<1>1. /\ th' = [th EXCEPT ![t] = x] /\ th[t].pc = "bin_alloc" /\ s # NULL
      /\ sb' = [sb EXCEPT ![s] = r] /\ crashed' = crashed
      /\ heap' = [heap EXCEPT ![h].recycled_superblock = sb'[s].next]
  BY DEF Recycle, At, idx2class
<1>2. h \in Heaps /\ b \in Bins /\ h \in LocksOf(t)
  BY <1>1, Facts, ThreadBin DEF PlaceIn, AllocPlaces, Heaps, LocksOf
<1>3. s \in Superblocks /\ Listed(sb, heap, s) /\ sb[s].owner = h
  BY <1>1, <1>2, RecycledHead
<1>4. sb[s] \in SuperblockHeader(Heaps) /\ SizeTable[b] \in Nat \ {0}
  BY <1>2, <1>3, Facts
<1>5. r \in SuperblockHeader(Heaps) /\ r.owner = h /\ r.next = NULL
  BY <1>3, <1>4, ResetTyped
<1>6. CutOK(r) /\ is_superblock_empty(r) /\ r.num_free_blocks > 0
  BY <1>2, <1>4, ResetCut DEF SameBlocks
<1>7. x.pc = "sb_alloc" /\ x.s_ptr = s /\ x.in_bin = th[t].in_bin /\ x.eidx = th[t].eidx
      /\ x.heap = h
  BY Facts DEF Thread
<1> HIDE DEF x, s, h, b, r
<1>8. lock[h] = t
  BY <1>2, HoldsLock
<1>9. sb'[s] = r /\ \A y \in Superblocks \ {s} : sb'[y] = sb[y]
  BY <1>1, <1>3, TypedNow
<1>10. /\ SetsRecycled(heap, heap', h, NULL) /\ heap' \in [Heaps -> HeapRecord]
       /\ \A g \in Heaps : heap'[g].alloced = heap[g].alloced
  <2>1. heap' = SetRecycling(heap, h, NULL)
    BY <1>1, <1>5, <1>9 DEF SetRecycling
  <2> QED BY <1>2, <2>1, TypedNow, WriteRecycled
<1>11. ListsOK(sb, heap') /\ Moves(sb, heap, sb, heap', s) /\ ~Listed(sb, heap', s)
  BY <1>2, <1>3, <1>10, TypedNow, RecyclingShrinks DEF ListInv, s
<1>12. Typed(sb, heap')
  BY <1>10, TypedNow DEF Typed
<1>13. ListsOK(sb', heap') /\ Moves(sb, heap', sb', heap', s) /\ ~Listed(sb', heap', s)
  BY <1>3, <1>9, <1>11, <1>12, SetUnlisted
<1>14. Moves(sb, heap, sb', heap', s)
  BY <1>11, <1>13, MovesTwice
<1>15. NobodyElse(t, s)
  BY <1>2, <1>3, <1>8, NobodyElseLocks
<1>16. InHand(x) = {s} /\ InHand(th[t]) = {}
  BY <1>1, <1>7, FromElsewhere DEF InHand
<1>17. PlaceOK(sb', heap', x)
  BY <1>1, <1>5, <1>6, <1>7, <1>9, <1>13, <1>16, FromElsewhere DEF PlaceOK
<1>18. AllocedOK'
  <2>1. \A y \in Superblocks : sb'[y].owner = sb[y].owner
    BY <1>3, <1>5, <1>9
  <2> QED BY <1>10, <2>1, AllocedSame DEF Heaps
<1>19. Headers(s)
  BY <1>9 DEF Headers, SameBlocks
<1>20. \A u \in Threads : th'[u] = IF u = t THEN x ELSE th[u]
  BY <1>1, OthersStay
<1>21. \A g \in Heaps : SameLists(heap, heap', g) \/ lock[g] = t
  BY <1>8, <1>10 DEF SetsRecycled
<1>22. ListStep(t, x, s)
  BY <1>1, <1>6, <1>9, <1>13, <1>14, <1>15, <1>16, <1>17, <1>18, <1>19, <1>20, <1>21
     DEF ListStep, ListInv
<1> QED BY <1>22, ListStepKeeps

-----------------------------------------------------------------------------
(* Steps that change the header of a superblock on no list                 *)

LEMMA UnlistedWrite ==
    ASSUME NEW f, NEW hp, Typed(f, hp), ListsOK(f, hp),
           NEW s \in Superblocks, ~Listed(f, hp, s),
           NEW g, \A y \in Superblocks \ {s} : g[y] = f[y],
           NEW hp2, \A k \in Heaps : SameLists(hp, hp2, k)
    PROVE  ListsOK(g, hp2) /\ Moves(f, hp, g, hp2, s) /\ ~Listed(g, hp2, s)
<1>1. ListsOK(g, hp) /\ Moves(f, hp, g, hp, s) /\ ~Listed(g, hp, s)
  BY SetUnlisted
<1>2. ListsOK(g, hp2) /\ Moves(g, hp, g, hp2, s) /\ ~Listed(g, hp2, s)
  BY <1>1, SameHeads
<1> QED BY <1>1, <1>2, MovesTwice

LEMMA AdoptLists ==
    ASSUME IInv, BlocksInv, ListInv, NEW t \in Threads, Adopt(t)
    PROVE  ListInv'
<1> DEFINE h == th[t].heap
           s == th[t].s_ptr
           r == [sb[s] EXCEPT !.owner = h]
           y == inc_usage(heap[h], used_bytes(sb[s]))
           z == inc_alloced(y, SUPERBLOCK_SIZE)
           x == [th[t] EXCEPT !.pc = "sb_alloc"]
<1>1. /\ th' = [th EXCEPT ![t] = x] /\ th[t].pc = "adopt"
      /\ sb' = [sb EXCEPT ![s] = r] /\ crashed' = crashed
      /\ heap' = [heap EXCEPT ![h] = z]
  BY DEF Adopt, At, Goto
<1>2. /\ h \in ThreadHeaps /\ h \in Heaps /\ heap[h] \in HeapRecord
      /\ s \in Mapped /\ s \in Superblocks /\ sb[s] \in SuperblockHeader(Heaps)
  BY <1>1, Facts DEF PlaceIn, AllocPlaces, Heaps
<1>3. HeapIn(Mapped, y) /\ used_bytes(sb[s]) \in Int
  BY <1>2, Facts, UsedBytesTyped, StatisticsTyped
<1>4. /\ z.size_bins = heap[h].size_bins
      /\ z.recycled_superblock = heap[h].recycled_superblock
      /\ z.alloced = (heap[h].alloced + SUPERBLOCK_SIZE) % SIZE_MOD
  <2>1. y \in HeapRecord
    BY <1>3 DEF HeapIn
  <2>2. /\ y.size_bins = heap[h].size_bins /\ y.alloced = heap[h].alloced
        /\ y.recycled_superblock = heap[h].recycled_superblock
    BY <1>2, StatisticsLists
  <2> HIDE DEF y
  <2> QED BY <2>1, <2>2, StatisticsLists
<1>5. r.owner = h /\ SameBlocks(sb[s], r)
  BY <1>2 DEF SuperblockHeader, SameBlocks
<1>6. /\ x.pc = "sb_alloc" /\ x.s_ptr = s /\ x.in_bin = th[t].in_bin /\ x.eidx = th[t].eidx
      /\ x.heap = h
  BY Facts DEF Thread
<1> HIDE DEF x, s, h, z, y, r
<1>7. InHand(th[t]) = {s} /\ InHand(x) = {s}
  BY <1>1, <1>6, FromElsewhere DEF InHand, s
<1>8. NobodyElse(t, s) /\ ~Listed(sb, heap, s)
  BY <1>7, NobodyElseHolds
<1>9. sb[s].owner = GlobalHeap /\ sb[s].num_free_blocks > 0
  BY <1>1 DEF ListInv, PlacesOK, PlaceOK, s
<1>10. sb'[s] = r /\ \A q \in Superblocks \ {s} : sb'[q] = sb[q]
  BY <1>1, <1>2, TypedNow
<1>11. /\ \A g \in Heaps : SameLists(heap, heap', g)
       /\ heap'[h] = z /\ \A g \in Heaps \ {h} : heap'[g] = heap[g]
  BY <1>1, <1>2, <1>4, TypedNow, WriteHeap
<1>12. ListsOK(sb', heap') /\ Moves(sb, heap, sb', heap', s) /\ ~Listed(sb', heap', s)
  BY <1>2, <1>8, <1>10, <1>11, TypedNow, UnlistedWrite DEF ListInv
<1>13. r.num_free_blocks > 0 /\ CutOK(r)
  BY <1>2, <1>5, <1>9 DEF ListInv, AllCut, CutOK, SameBlocks
<1>14. PlaceOK(sb', heap', x)
  BY <1>1, <1>5, <1>6, <1>7, <1>10, <1>12, <1>13, FromElsewhere DEF PlaceOK
<1>15. AllocedOK'
  <2>1. sb[s].owner \notin ThreadHeaps
    BY <1>9, HeapAssumption
  <2>2. \A q \in Superblocks \ {s} : sb'[q].owner = sb[q].owner
    BY <1>10
  <2>3. heap'[h].alloced = (heap[h].alloced + SUPERBLOCK_SIZE) % SIZE_MOD
    BY <1>4, <1>11
  <2>4. \A g \in ThreadHeaps \ {h} : heap'[g].alloced = heap[g].alloced
    BY <1>11 DEF Heaps
  <2>5. sb'[s].owner = h
    BY <1>5, <1>10
  <2> QED BY <1>2, <2>1, <2>2, <2>3, <2>4, <2>5, AllocedGain
<1>16. Headers(s)
  BY <1>10 DEF Headers, SameBlocks
<1>17. \A u \in Threads : th'[u] = IF u = t THEN x ELSE th[u]
  BY <1>1, OthersStay
<1>18. ListStep(t, x, s)
  BY <1>1, <1>7, <1>8, <1>10, <1>11, <1>12, <1>13, <1>14, <1>15, <1>16, <1>17
     DEF ListStep, ListInv
<1> QED BY <1>18, ListStepKeeps

LEMMA MapSuperblockLists ==
    ASSUME IInv, BlocksInv, ListInv, NEW t \in Threads, NEW s \in Superblocks,
           MapSuperblock(t, s)
    PROVE  ListInv'
<1> DEFINE h == th[t].heap
           b == size2idx(th[t].size)
           q == reset_superblock(sb[s], SizeTable[b])
           r == [q EXCEPT !.owner = h]
           z == inc_alloced(heap[h], SUPERBLOCK_SIZE)
           x == [th[t] EXCEPT !.pc = "sb_alloc", !.s_ptr = s]
<1>1. /\ th' = [th EXCEPT ![t] = x] /\ th[t].pc = "map" /\ sb[s].owner = NULL
      /\ sb' = [sb EXCEPT ![s] = r] /\ crashed' = crashed
      /\ heap' = [heap EXCEPT ![h] = z]
  BY DEF MapSuperblock, At, idx2class
<1>2. /\ h \in ThreadHeaps /\ h \in Heaps /\ heap[h] \in HeapRecord /\ b \in Bins
      /\ sb[s] \in SuperblockHeader(Heaps) /\ SizeTable[b] \in Nat \ {0}
  BY <1>1, Facts, ThreadBin DEF PlaceIn, AllocPlaces, Heaps
<1>3. /\ z.size_bins = heap[h].size_bins
      /\ z.recycled_superblock = heap[h].recycled_superblock
      /\ z.alloced = (heap[h].alloced + SUPERBLOCK_SIZE) % SIZE_MOD
  BY <1>2, StatisticsLists
<1>4. q \in SuperblockHeader(Heaps)
  BY <1>2, ResetTyped
<1>5. r.owner = h /\ SameBlocks(q, r)
  <2> HIDE DEF q
  <2> QED BY <1>4 DEF SuperblockHeader, SameBlocks
<1>6. CutOK(r) /\ is_superblock_empty(r) /\ r.num_free_blocks > 0
  <2> HIDE DEF r
  <2> QED BY <1>2, <1>5, ResetCut
<1>7. /\ x.pc = "sb_alloc" /\ x.s_ptr = s /\ x.in_bin = th[t].in_bin /\ x.eidx = th[t].eidx
      /\ x.heap = h
  BY Facts DEF Thread
<1> HIDE DEF x, h, z, r, q, b
<1>8. s \notin Mapped /\ NULL \notin ThreadHeaps
  BY <1>1, HeapAssumption DEF Mapped, Heaps
<1>9. NobodyElse(t, s) /\ ~Listed(sb, heap, s)
  BY <1>8, NobodyElseUnmapped, UnmappedUnlisted
<1>10. sb'[s] = r /\ \A y \in Superblocks \ {s} : sb'[y] = sb[y]
  BY <1>1, TypedNow
<1>11. /\ \A g \in Heaps : SameLists(heap, heap', g)
       /\ heap'[h] = z /\ \A g \in Heaps \ {h} : heap'[g] = heap[g]
  BY <1>1, <1>2, <1>3, TypedNow, WriteHeap
<1>12. ListsOK(sb', heap') /\ Moves(sb, heap, sb', heap', s) /\ ~Listed(sb', heap', s)
  BY <1>9, <1>10, <1>11, TypedNow, UnlistedWrite DEF ListInv
<1>13. InHand(th[t]) = {} /\ InHand(x) = {s}
  BY <1>1, <1>7, FromElsewhere DEF InHand
<1>14. PlaceOK(sb', heap', x)
  BY <1>1, <1>5, <1>6, <1>7, <1>10, <1>12, <1>13, FromElsewhere DEF PlaceOK
<1>15. AllocedOK'
  <2>1. \A y \in Superblocks \ {s} : sb'[y].owner = sb[y].owner
    BY <1>10
  <2>2. heap'[h].alloced = (heap[h].alloced + SUPERBLOCK_SIZE) % SIZE_MOD
    BY <1>3, <1>11
  <2>3. \A g \in ThreadHeaps \ {h} : heap'[g].alloced = heap[g].alloced
    BY <1>11 DEF Heaps
  <2>4. sb'[s].owner = h /\ sb[s].owner \notin ThreadHeaps
    BY <1>1, <1>5, <1>8, <1>10
  <2> QED BY <1>2, <2>1, <2>2, <2>3, <2>4, AllocedGain
<1>16. Headers(s)
  BY <1>10 DEF Headers, SameBlocks
<1>17. \A u \in Threads : th'[u] = IF u = t THEN x ELSE th[u]
  BY <1>1, OthersStay
<1>18. ListStep(t, x, s)
  BY <1>1, <1>6, <1>9, <1>10, <1>11, <1>12, <1>13, <1>14, <1>15, <1>16, <1>17
     DEF ListStep, ListInv
<1> QED BY <1>18, ListStepKeeps

-----------------------------------------------------------------------------
(* Steps that take a superblock out of a bin                               *)

LEMMA TakeNonfullLists ==
    ASSUME IInv, BlocksInv, ListInv, NEW t \in Threads, TakeNonfull(t)
    PROVE  ListInv'
<1> DEFINE b   == size2idx(th[t].size)
           bm  == heap[GlobalHeap].size_bins[b]
           e   == FullestNonfull(bm)
           s   == bm.emptiness_bins[e]
           del == delete_from_bin(sb, bm, e, s)
           x   == [th[t] EXCEPT !.pc = "adopt", !.s_ptr = s]
<1>1. /\ th' = [th EXCEPT ![t] = x] /\ th[t].pc = "get_sb_from_global" /\ HasNonfull(bm)
      /\ sb' = del.sb /\ heap' = SetBin(heap, GlobalHeap, b, del.bm) /\ crashed' = crashed
  BY DEF TakeNonfull, TakeDefined, GlobalBin, At, SetBin
<1>2. GlobalHeap \in Heaps /\ b \in Bins
  BY TypedNow, ThreadBin
<1>3. e \in NonfullClasses /\ s # NULL
  <2> HIDE DEF bm
  <2> QED BY <1>1, FullestFound
<1>4. e \in EmptinessClasses /\ e > 0
  <2> HIDE DEF e
  <2> QED BY <1>3, NonfullIsNotFull
<1>5. x.pc = "adopt" /\ x.s_ptr = s /\ x.in_bin = th[t].in_bin /\ x.eidx = th[t].eidx
  BY Facts DEF Thread
<1>6. /\ s \in InBin(sb, heap, GlobalHeap, b, e) /\ Listed(sb, heap, s) /\ s \in Mapped
      /\ Fits(sb[s], GlobalHeap, b, e)
  <2>1. s = heap[GlobalHeap].size_bins[b].emptiness_bins[e]
    OBVIOUS
  <2> HIDE DEF e, s, b
  <2> QED BY <1>2, <1>3, <1>4, <2>1, HeadListed
<1>7. del = delete_from_bin(sb, heap[GlobalHeap].size_bins[b], e, s)
  OBVIOUS
<1> HIDE DEF x, e, s, b, bm, del
<1>8. s \in Superblocks
  BY <1>6 DEF Mapped
<1>9. /\ get_eidx(sb[s]) = e /\ sb[s].num_free_blocks > 0 /\ sb[s].owner = GlobalHeap
      /\ CutOK(sb[s])
  BY <1>4, <1>6, MappedClass DEF ListInv, Fits, AllCut
<1>10. SameButLinks(sb, del.sb) /\ ManagerIn(Superblocks, del.bm)
  <2>1. ManagerIn(Superblocks, heap[GlobalHeap].size_bins[b]) /\ HeadersIn(Heaps, Superblocks, sb)
    BY <1>2, TypedNow, TypedFacts
  <2>2. DeleteDefined(sb, e, s)
    BY <1>1 DEF TakeNonfull, TakeDefined, GlobalBin, b, bm, e, s
  <2> QED BY <1>7, <1>8, <2>1, <2>2, DeleteKeepsLists
<1>11. /\ SetsBin(heap, heap', GlobalHeap, b, del.bm)
       /\ \A g \in Heaps : heap'[g].alloced = heap[g].alloced
  BY <1>1, <1>2, <1>10, TypedNow, WriteBin
<1>12. /\ ListsOK(sb', heap') /\ Moves(sb, heap, sb', heap', s) /\ ~Listed(sb', heap', s)
       /\ sb'[s] = sb[s]
  <2>1. ListsOK(sb, heap) /\ Typed(sb, heap)
    BY TypedNow DEF ListInv
  <2>2. Deletes(sb, heap, GlobalHeap, b, e, s, del, heap')
    BY <1>2, <1>4, <1>6, <1>7, <1>11, <2>1 DEF Deletes
  <2> QED BY <1>1, <2>2, DeleteLists
<1>13. lock[GlobalHeap] = t
  BY <1>1, TypedNow, HoldsLock DEF LocksOf
<1>14. NobodyElse(t, s)
  BY <1>2, <1>6, <1>9, <1>13, NobodyElseLocks
<1>15. InHand(x) = {s} /\ InHand(th[t]) = {}
  BY <1>1, <1>5, FromElsewhere DEF InHand
<1>16. PlaceOK(sb', heap', x)
  BY <1>1, <1>5, <1>9, <1>12, <1>15, FromElsewhere DEF PlaceOK
<1>17. AllocedOK'
  BY <1>1, <1>10, <1>11, AllocedSame DEF Heaps, SameButLinks
<1>18. Headers(s)
  BY <1>1, <1>10 DEF Headers, SameButLinks
<1>19. \A u \in Threads : th'[u] = IF u = t THEN x ELSE th[u]
  BY <1>1, OthersStay
<1>20. \A g \in Heaps : SameLists(heap, heap', g) \/ lock[g] = t
  BY <1>11, <1>13 DEF SetsBin
<1>21. ListStep(t, x, s)
  BY <1>1, <1>9, <1>12, <1>14, <1>15, <1>16, <1>17, <1>18, <1>19, <1>20
     DEF ListStep, ListInv
<1> QED BY <1>21, ListStepKeeps

LEMMA GiveEmptiestLists ==
    ASSUME IInv, BlocksInv, ListInv, NEW t \in Threads, GiveEmptiest(t)
    PROVE  ListInv'
<1> DEFINE h   == th[t].heap
           dec == dec_usage(heap[h], th[t].size)
           c   == find_emptiest_sb(dec)
           b   == c[1]
           e   == c[2]
           s   == dec.size_bins[b].emptiness_bins[e]
           del == delete_from_bin(sb, dec.size_bins[b], e, s)
           y   == [dec EXCEPT !.size_bins[b] = del.bm]
           x   == [th[t] EXCEPT !.pc = "transfer", !.victim = s,
                                !.bin_idx = b, !.eidx = e]
<1>1. /\ th' = [th EXCEPT ![t] = x] /\ th[t].pc = "account"
      /\ sb' = del.sb /\ heap' = [heap EXCEPT ![h] = y] /\ crashed' = crashed
      /\ GiveDefined(t)
  BY DEF GiveEmptiest, At
<1>2. h \in Heaps /\ h \in LocksOf(t) /\ heap[h] \in HeapRecord /\ th[t].size \in Int
  <2>1. h \in Heaps /\ th[t].size \in Int
    <3>1. th[t].pc = "account"
      BY <1>1
    <3> QED BY <3>1, Facts DEF PlaceIn, FreePlaces, Thread
  <2>2. h \in LocksOf(t)
    BY <1>1 DEF LocksOf
  <2>3. heap[h] \in HeapRecord
    BY <2>1, TypedNow
  <2> QED BY <2>1, <2>2, <2>3
<1>3. /\ dec.size_bins = heap[h].size_bins /\ dec.alloced = heap[h].alloced
      /\ dec.recycled_superblock = heap[h].recycled_superblock
  BY <1>2, StatisticsLists
<1>4. HeapIn(Mapped, dec)
  BY <1>2, Facts, StatisticsTyped
<1>5. c = find_emptiest_sb(heap[h]) /\ Candidates(dec) = Candidates(heap[h])
  <2> HIDE DEF dec, h
  <2> QED BY <1>3 DEF find_emptiest_sb, Candidates
<1>6. /\ Candidates(dec) # {}
      /\ DeleteDefined(sb, e, s)
  <2> HIDE DEF dec
  <2> QED BY <1>1, <1>3, <1>5 DEF GiveDefined
<1>7. c \in Candidates(dec)
  <2> HIDE DEF dec
  <2> QED BY <1>6, EmptiestFound
<1>8. b \in Bins /\ e \in NonfullClasses /\ s # NULL
  <2> HIDE DEF dec, c
  <2> QED BY <1>7 DEF Candidates
<1>9. e \in EmptinessClasses /\ e # -1
  <2> HIDE DEF e
  <2> QED BY <1>8, NonfullIsNotFull
<1>10. /\ x.pc = "transfer" /\ x.victim = s /\ x.in_bin = th[t].in_bin /\ x.eidx = e
       /\ x.bin_idx = b /\ x.heap = h
  <2> HIDE DEF s, b, e
  <2> QED BY Facts DEF Thread
<1>11. s = heap[h].size_bins[b].emptiness_bins[e]
       /\ del = delete_from_bin(sb, heap[h].size_bins[b], e, s)
  <2> HIDE DEF dec, b, e
  <2> QED BY <1>3
<1> HIDE DEF x, s, del, b, e, h, c
<1>12. /\ s \in InBin(sb, heap, h, b, e) /\ Listed(sb, heap, s) /\ s \in Mapped
       /\ Fits(sb[s], h, b, e)
  BY <1>2, <1>8, <1>9, <1>11, HeadListed
<1>13. s \in Superblocks /\ sb[s].owner = h /\ CutOK(sb[s])
  BY <1>12 DEF Mapped, Fits, ListInv, AllCut
<1>14. SameButLinks(sb, del.sb) /\ ManagerIn(Superblocks, del.bm)
  <2>1. ManagerIn(Superblocks, heap[h].size_bins[b]) /\ HeadersIn(Heaps, Superblocks, sb)
    BY <1>2, <1>8, TypedNow, TypedFacts
  <2> QED BY <1>6, <1>11, <1>13, <2>1, DeleteKeepsLists
<1>15. /\ y.size_bins[b] = del.bm /\ \A d \in Bins \ {b} : y.size_bins[d] = dec.size_bins[d]
       /\ y.recycled_superblock = dec.recycled_superblock /\ y.alloced = dec.alloced
  <2>1. dec \in HeapRecord /\ dec.size_bins \in [Bins -> BinManagerRecord]
    BY <1>4 DEF HeapIn, HeapRecord
  <2>2. y = [dec EXCEPT !.size_bins = [dec.size_bins EXCEPT ![b] = del.bm]]
    OBVIOUS
  <2> HIDE DEF dec, y
  <2> QED BY <1>8, <2>1, <2>2 DEF HeapRecord
<1> HIDE DEF y, dec
<1>16. /\ SetsBin(heap, heap', h, b, del.bm)
       /\ \A g \in Heaps : heap'[g].alloced = heap[g].alloced
  BY <1>1, <1>2, <1>3, <1>15, TypedNow DEF SetsBin, SameLists
<1>17. /\ ListsOK(sb', heap') /\ Moves(sb, heap, sb', heap', s) /\ ~Listed(sb', heap', s)
       /\ sb'[s] = sb[s]
  <2>1. ListsOK(sb, heap) /\ Typed(sb, heap)
    BY TypedNow DEF ListInv
  <2>2. Deletes(sb, heap, h, b, e, s, del, heap')
    BY <1>2, <1>8, <1>9, <1>11, <1>12, <1>16, <2>1 DEF Deletes
  <2> QED BY <1>1, <2>2, DeleteLists
<1>18. lock[h] = t
  BY <1>2, HoldsLock
<1>19. NobodyElse(t, s)
  BY <1>2, <1>12, <1>13, <1>18, NobodyElseLocks
<1>20. InHand(x) = {s} /\ InHand(th[t]) = {}
  BY <1>1, <1>10, FromElsewhere DEF InHand
<1>21. PlaceOK(sb', heap', x)
  BY <1>1, <1>9, <1>10, <1>12, <1>17, <1>20, FromElsewhere DEF PlaceOK
<1>22. AllocedOK'
  BY <1>1, <1>14, <1>16, AllocedSame DEF Heaps, SameButLinks
<1>23. Headers(s)
  BY <1>1, <1>14 DEF Headers, SameButLinks
<1>24. \A u \in Threads : th'[u] = IF u = t THEN x ELSE th[u]
  BY <1>1, OthersStay
<1>25. \A g \in Heaps : SameLists(heap, heap', g) \/ lock[g] = t
  BY <1>16, <1>18 DEF SetsBin
<1>26. ListStep(t, x, s)
  BY <1>1, <1>13, <1>17, <1>19, <1>20, <1>21, <1>22, <1>23, <1>24, <1>25
     DEF ListStep, ListInv
<1> QED BY <1>26, ListStepKeeps

-----------------------------------------------------------------------------
(* The end of a transfer                                                   *)

LEMMA InsertRecycledLists ==
    ASSUME IInv, BlocksInv, ListInv, NEW t \in Threads, InsertRecycled(t)
    PROVE  ListInv'
<1> DEFINE h == th[t].heap
           s == th[t].victim
           v == heap[GlobalHeap].recycled_superblock
           r == [sb[s] EXCEPT !.owner = GlobalHeap, !.next = v]
           y == [heap[GlobalHeap] EXCEPT !.recycled_superblock = s]
           z == dec_alloced(heap[h], SUPERBLOCK_SIZE)
<1>1. /\ th' = [th EXCEPT ![t] = IdleThread] /\ th[t].pc = "insert_global"
      /\ th[t].eidx = -1 /\ crashed' = crashed
  BY DEF InsertRecycled, At, Return
<1>2. /\ h \in ThreadHeaps /\ h \in Heaps /\ GlobalHeap \in Heaps /\ GlobalHeap # h
      /\ s \in Mapped /\ s \in Superblocks /\ heap \in [Heaps -> HeapRecord]
      /\ sb[s] \in SuperblockHeader(Heaps)
  BY <1>1, InsertFacts, TypedNow
<1>3. sb' = [sb EXCEPT ![s] = r]
  <2>1. sb' = [sb EXCEPT ![s].owner = GlobalHeap, ![s].next = v]
    BY DEF InsertRecycled
  <2> HIDE DEF v
  <2> QED BY <1>2, <2>1, TypedNow
<1>4. heap' = [heap EXCEPT ![GlobalHeap] = y, ![h] = z]
  <2>1. heap' = [heap EXCEPT ![GlobalHeap].recycled_superblock = s,
                             ![h] = dec_alloced(@, SUPERBLOCK_SIZE)]
    BY DEF InsertRecycled
  <2> HIDE DEF s
  <2> QED BY <1>2, <2>1
<1>5. r.owner = GlobalHeap /\ r.next = v /\ SameBlocks(sb[s], r)
  <2> HIDE DEF v
  <2> QED BY <1>2 DEF SuperblockHeader, SameBlocks
<1>6. /\ y.size_bins = heap[GlobalHeap].size_bins /\ y.recycled_superblock = s
      /\ z.size_bins = heap[h].size_bins
      /\ z.recycled_superblock = heap[h].recycled_superblock
      /\ z.alloced = (heap[h].alloced - SUPERBLOCK_SIZE) % SIZE_MOD
  <2>1. heap[h] \in HeapRecord /\ heap[GlobalHeap] \in HeapRecord
    BY <1>2
  <2>2. y.size_bins = heap[GlobalHeap].size_bins /\ y.recycled_superblock = s
    <3> HIDE DEF s
    <3> QED BY <2>1 DEF HeapRecord
  <2> QED BY <2>1, <2>2, StatisticsLists
<1> HIDE DEF h, s, v, r, y, z
<1>7. InHand(th[t]) = {s} /\ InHand(IdleThread) = {}
  BY <1>1, IdleElsewhere, ElsewhereOK DEF InHand, s
<1>8. NobodyElse(t, s) /\ ~Listed(sb, heap, s)
  BY <1>7, NobodyElseHolds
<1>9. sb[s].owner = h /\ is_superblock_empty(sb[s])
  BY <1>1 DEF ListInv, PlacesOK, PlaceOK, s, h
<1>10. sb'[s] = r /\ \A q \in Superblocks \ {s} : sb'[q] = sb[q]
  BY <1>2, <1>3, TypedNow
<1>11. /\ heap'[GlobalHeap] = y /\ heap'[h] = z
       /\ \A g \in Heaps \ {GlobalHeap, h} : heap'[g] = heap[g]
  BY <1>2, <1>4
<1>12. SetsRecycled(heap, heap', GlobalHeap, s)
  BY <1>2, <1>6, <1>11 DEF SetsRecycled, SameLists
<1>13. is_superblock_empty(r) /\ CutOK(r)
  BY <1>2, <1>5, <1>9 DEF SameBlocks, is_superblock_empty, CutOK, ListInv, AllCut
<1>14. ListsOK(sb', heap') /\ Moves(sb, heap, sb', heap', s)
  <2>1. ListsOK(sb, heap) /\ Typed(sb, heap)
    BY TypedNow DEF ListInv
  <2>2. sb'[s].next = heap[GlobalHeap].recycled_superblock
        /\ sb'[s].owner = GlobalHeap /\ is_superblock_empty(sb'[s])
    BY <1>5, <1>10, <1>13 DEF v
  <2> QED BY <1>2, <1>8, <1>10, <1>12, <2>1, <2>2, RecyclingGrows
<1>15. PlaceOK(sb', heap', IdleThread)
  BY IdleElsewhere, ElsewhereOK
<1>16. AllocedOK'
  <2>1. \A q \in Superblocks \ {s} : sb'[q].owner = sb[q].owner
    BY <1>10
  <2>2. heap'[h].alloced = (heap[h].alloced - SUPERBLOCK_SIZE) % SIZE_MOD
    BY <1>6, <1>11
  <2>3. \A g \in ThreadHeaps \ {h} : heap'[g].alloced = heap[g].alloced
    BY <1>11, HeapAssumption DEF Heaps
  <2>4. sb'[s].owner \notin ThreadHeaps
    BY <1>5, <1>10, HeapAssumption
  <2> QED BY <1>2, <1>9, <2>1, <2>2, <2>3, <2>4, AllocedLoss
<1>17. Headers(s)
  BY <1>10 DEF Headers, SameBlocks
<1>18. \A u \in Threads : th'[u] = IF u = t THEN IdleThread ELSE th[u]
  BY <1>1, OthersStay
<1>19. lock[GlobalHeap] = t
  BY <1>1, TypedNow, HoldsLock DEF LocksOf
<1>20. \A g \in Heaps : SameLists(heap, heap', g) \/ lock[g] = t
  BY <1>12, <1>19 DEF SetsRecycled
<1>21. ListStep(t, IdleThread, s)
  BY <1>1, <1>7, <1>8, <1>10, <1>13, <1>14, <1>15, <1>16, <1>17, <1>18, <1>20
     DEF ListStep, ListInv
<1> QED BY <1>21, ListStepKeeps

LEMMA InsertIntoBinLists ==
    ASSUME IInv, BlocksInv, ListInv, NEW t \in Threads, InsertIntoBin(t)
    PROVE  ListInv'
<1> DEFINE h    == th[t].heap
           s    == th[t].victim
           b    == th[t].bin_idx
           e    == th[t].eidx
           r    == [sb[s] EXCEPT !.owner = GlobalHeap]
           f    == [sb EXCEPT ![s] = r]
           push == push_into_bin(f, heap[GlobalHeap].size_bins[b], e, s)
           bins == [heap[GlobalHeap].size_bins EXCEPT ![b] = push.bm]
           y    == [heap[GlobalHeap] EXCEPT !.size_bins = bins]
           z    == dec_alloced(heap[h], SUPERBLOCK_SIZE)
<1>1. /\ th' = [th EXCEPT ![t] = IdleThread] /\ th[t].pc = "insert_global"
      /\ e # -1 /\ crashed' = crashed /\ sb' = push.sb
  BY DEF InsertIntoBin, At, Return
<1>2. /\ h \in ThreadHeaps /\ h \in Heaps /\ GlobalHeap \in Heaps /\ GlobalHeap # h
      /\ s \in Mapped /\ s \in Superblocks /\ heap \in [Heaps -> HeapRecord]
      /\ sb[s] \in SuperblockHeader(Heaps) /\ b \in Bins
  BY <1>1, InsertFacts, TypedNow
<1>3. e \in EmptinessClasses
  <2>1. e \in NonfullClasses \cup {-1}
    BY Facts DEF PlaceIn, Thread
  <2> QED BY <1>1, <2>1, NonfullClass
<1>4. heap' = [heap EXCEPT ![GlobalHeap] = y, ![h] = z]
  <2>1. heap' = [heap EXCEPT ![GlobalHeap].size_bins[b] = push.bm,
                             ![h] = dec_alloced(@, SUPERBLOCK_SIZE)]
    BY DEF InsertIntoBin
  <2> HIDE DEF push, b
  <2> QED BY <1>2, <2>1
<1>5. r.owner = GlobalHeap /\ SameBlocks(sb[s], r) /\ r \in SuperblockHeader(Heaps)
  BY <1>2 DEF SuperblockHeader, SameBlocks
<1> HIDE DEF r
<1>6. /\ f \in [Superblocks -> SuperblockHeader(Heaps)] /\ f[s] = r
      /\ \A q \in Superblocks \ {s} : f[q] = sb[q]
  BY <1>2, <1>5, TypedNow
<1> HIDE DEF f
<1>7. z.size_bins = heap[h].size_bins
      /\ z.recycled_superblock = heap[h].recycled_superblock
      /\ z.alloced = (heap[h].alloced - SUPERBLOCK_SIZE) % SIZE_MOD
  BY <1>2, StatisticsLists
<1>8. /\ y.size_bins[b] = push.bm
      /\ \A c \in Bins \ {b} : y.size_bins[c] = heap[GlobalHeap].size_bins[c]
      /\ y.recycled_superblock = heap[GlobalHeap].recycled_superblock
  <2>1. /\ heap[GlobalHeap] \in HeapRecord
        /\ heap[GlobalHeap].size_bins \in [Bins -> BinManagerRecord]
    BY <1>2 DEF HeapRecord
  <2> HIDE DEF push, b
  <2> QED BY <1>2, <2>1 DEF HeapRecord
<1> HIDE DEF h, s, b, e, push, y, z
<1>9. InHand(th[t]) = {s} /\ InHand(IdleThread) = {}
  BY <1>1, IdleElsewhere, ElsewhereOK DEF InHand, s
<1>10. NobodyElse(t, s) /\ ~Listed(sb, heap, s)
  BY <1>9, NobodyElseHolds
<1>11. Fits(sb[s], h, b, e)
  BY <1>1 DEF ListInv, PlacesOK, PlaceOK, s, h, b, e
<1>12. Fits(f[s], GlobalHeap, b, e) /\ CutOK(r) /\ sb[s].owner = h
  BY <1>2, <1>5, <1>6, <1>11
     DEF Fits, SameBlocks, get_eidx, is_superblock_empty, CutOK, ListInv, AllCut
<1>13. /\ heap'[GlobalHeap] = y /\ heap'[h] = z
       /\ \A g \in Heaps \ {GlobalHeap, h} : heap'[g] = heap[g]
  BY <1>2, <1>4
<1>14. SetsBin(heap, heap', GlobalHeap, b, push.bm)
  BY <1>2, <1>7, <1>8, <1>13 DEF SetsBin, SameLists
<1>15. /\ ListsOK(f, heap) /\ Moves(sb, heap, f, heap, s) /\ ~Listed(f, heap, s)
       /\ Typed(f, heap)
  <2>1. ListsOK(sb, heap) /\ Typed(sb, heap)
    BY TypedNow DEF ListInv
  <2> QED BY <1>2, <1>6, <1>10, <2>1, SetUnlisted DEF Typed
<1>16. Pushes(f, heap, GlobalHeap, b, e, s, push, heap')
  BY <1>2, <1>3, <1>12, <1>14, <1>15 DEF Pushes, push
<1>17. /\ ListsOK(sb', heap') /\ Moves(f, heap, sb', heap', s) /\ SameButLinks(f, sb')
       /\ s \in InBin(sb', heap', GlobalHeap, b, e)
  BY <1>1, <1>16, PushLists
<1>18. Moves(sb, heap, sb', heap', s)
  BY <1>15, <1>17, MovesTwice
<1>19. /\ sb'[s].owner = GlobalHeap /\ SameBlocks(r, sb'[s]) /\ Headers(s)
       /\ \A q \in Superblocks \ {s} : sb'[q].owner = sb[q].owner
  BY <1>2, <1>5, <1>6, <1>17 DEF SameButLinks, Headers
<1>20. CutOK(sb'[s])
  BY <1>12, <1>19 DEF CutOK, SameBlocks
<1>21. OnItsList(sb', heap', s)
  <2>1. get_eidx(sb'[s]) = e
    BY <1>6, <1>12, <1>19 DEF Fits, SameBlocks, get_eidx
  <2> QED BY <1>2, <1>17, <1>19, <2>1 DEF OnItsList
<1>22. PlaceOK(sb', heap', IdleThread)
  BY IdleElsewhere, ElsewhereOK
<1>23. AllocedOK'
  <2>1. heap'[h].alloced = (heap[h].alloced - SUPERBLOCK_SIZE) % SIZE_MOD
    BY <1>7, <1>13
  <2>2. \A g \in ThreadHeaps \ {h} : heap'[g].alloced = heap[g].alloced
    BY <1>13, HeapAssumption DEF Heaps
  <2>3. sb'[s].owner \notin ThreadHeaps
    BY <1>19, HeapAssumption
  <2> QED BY <1>2, <1>12, <1>19, <2>1, <2>2, <2>3, AllocedLoss
<1>24. \A u \in Threads : th'[u] = IF u = t THEN IdleThread ELSE th[u]
  BY <1>1, OthersStay
<1>25. lock[GlobalHeap] = t
  BY <1>1, TypedNow, HoldsLock DEF LocksOf
<1>26. \A g \in Heaps : SameLists(heap, heap', g) \/ lock[g] = t
  BY <1>14, <1>25 DEF SetsBin
<1>27. ListStep(t, IdleThread, s)
  BY <1>1, <1>9, <1>10, <1>17, <1>18, <1>19, <1>20, <1>21, <1>22, <1>23, <1>24, <1>26
     DEF ListStep, ListInv
<1> QED BY <1>27, ListStepKeeps

-----------------------------------------------------------------------------
(* Changing the blocks of a superblock in a bin                            *)

(* The header of s, on list e of bin b of heap h, becomes r.               *)
Changes(f, hp, h, b, e, s, r, F) ==
    /\ F = [f EXCEPT ![s] = r]
    /\ Typed(f, hp) /\ ListsOK(f, hp)
    /\ h \in Heaps /\ b \in Bins /\ e \in EmptinessClasses
    /\ s \in InBin(f, hp, h, b, e)
    /\ r \in SuperblockHeader(Heaps)
    /\ r.owner = f[s].owner /\ r.block_size = f[s].block_size
    /\ r.prev = f[s].prev /\ r.next = f[s].next

LEMMA BinSet ==
    ASSUME NEW hp \in [Heaps -> HeapRecord], NEW h \in Heaps, NEW b \in Bins, NEW bm
    PROVE  SetsBin(hp, SetBin(hp, h, b, bm), h, b, bm)
<1> DEFINE y    == hp[h]
           bins == [y.size_bins EXCEPT ![b] = bm]
           z    == [y EXCEPT !.size_bins = bins]
           hp2  == SetBin(hp, h, b, bm)
<1>1. y \in HeapRecord /\ y.size_bins \in [Bins -> BinManagerRecord]
  BY DEF HeapRecord
<1>2. bins[b] = bm /\ \A c \in Bins \ {b} : bins[c] = y.size_bins[c]
  BY <1>1
<1>3. hp2 = [hp EXCEPT ![h] = z]
  BY DEF SetBin
<1> HIDE DEF bins
<1>4. z.size_bins = bins /\ z.recycled_superblock = y.recycled_superblock
  BY <1>1 DEF HeapRecord
<1> HIDE DEF z, hp2
<1>5. hp2[h] = z /\ \A g \in Heaps \ {h} : hp2[g] = hp[g]
  BY <1>3
<1>6. SetsBin(hp, hp2, h, b, bm)
  BY <1>2, <1>4, <1>5 DEF SetsBin, SameLists
<1> QED BY <1>6 DEF hp2

LEMMA DeleteChanged ==
    ASSUME NEW f, NEW hp, NEW h, NEW b, NEW e, NEW s, NEW r,
           NEW F, Changes(f, hp, h, b, e, s, r, F),
           NEW del, del = delete_from_bin(F, hp[h].size_bins[b], e, s),
           NEW hp2, hp2 = SetBin(hp, h, b, del.bm)
    PROVE  /\ DeleteDefined(F, e, s)
           /\ ListsOK(del.sb, hp2) /\ Moves(f, hp, del.sb, hp2, s)
           /\ ~Listed(del.sb, hp2, s) /\ Typed(del.sb, hp2)
           /\ SameButLinks(F, del.sb) /\ del.sb[s] = r
           /\ SetsBin(hp, hp2, h, b, del.bm) /\ ManagerIn(Superblocks, del.bm)
<1> DEFINE bm  == hp[h].size_bins[b]
           old == delete_from_bin(f, bm, e, s)
<1>1. /\ Typed(f, hp) /\ f \in [Superblocks -> SuperblockHeader(Heaps)]
      /\ hp \in [Heaps -> HeapRecord] /\ h \in Heaps /\ b \in Bins
  BY DEF Changes, Typed
<1>2. s \in Superblocks /\ F[s] = r /\ \A q \in Superblocks \ {s} : F[q] = f[q]
  <2>1. s \in Superblocks /\ F = [f EXCEPT ![s] = r]
    BY ReachIn DEF Changes, InBin
  <2> QED BY <1>1, <2>1
<1>3. /\ DeleteDefined(f, e, s)
      /\ f[s].prev # s => f[s].prev \in Superblocks \ {s} /\ f[s].next \in Superblocks \ {s}
  <2> DEFINE L == InBin(f, hp, h, b, e)
  <2>1. Ring(f, L) /\ s \in L /\ L \subseteq Superblocks
    BY ReachIn DEF Changes, ListsOK, BinOK, InBin
  <2>2. /\ f[s].prev \in L /\ f[s].next \in L /\ f[f[s].next].prev = s
    BY <2>1 DEF Ring
  <2>3. f[s].next = s => f[s].prev = s
    BY <2>2
  <2>4. e \in EmptinessClasses
    BY DEF Changes
  <2> HIDE DEF L
  <2> QED BY <2>1, <2>2, <2>3, <2>4, NullAssumption DEF DeleteDefined
<1>4. F = [f EXCEPT ![s] = r] /\ r \in SuperblockHeader(Heaps) /\ r.prev = f[s].prev /\ r.next = f[s].next
  BY DEF Changes
<1>5. del.bm = old.bm /\ del.sb = PutHeader(old.sb, s, r)
  <2>1. del = delete_from_bin(F, bm, e, s) /\ old = delete_from_bin(f, bm, e, s)
    OBVIOUS
  <2> HIDE DEF bm, old
  <2>2. BothDelete(f, F, s, r, bm, e, del, old)
    BY <1>1, <1>2, <1>3, <1>4, <2>1 DEF BothDelete
  <2> QED BY <2>2, DeleteCommutes
<1>6. DeleteDefined(F, e, s)
  BY <1>2, <1>3, <1>4 DEF DeleteDefined
<1>7. SetsBin(hp, hp2, h, b, del.bm)
  BY <1>1, BinSet
<1> HIDE DEF old
<1>8. Deletes(f, hp, h, b, e, s, old, hp2)
  BY <1>5, <1>7 DEF Changes, Deletes, old, bm
<1>9. /\ ListsOK(old.sb, hp2) /\ Moves(f, hp, old.sb, hp2, s)
      /\ ~Listed(old.sb, hp2, s) /\ SameButLinks(f, old.sb)
      /\ old.sb \in [Superblocks -> SuperblockHeader(Heaps)]
      /\ ManagerIn(Superblocks, old.bm)
  BY <1>8, DeleteLists
<1>10. hp2 \in [Heaps -> HeapRecord]
  BY <1>1, <1>5, <1>9, WriteBin
<1>11. Typed(old.sb, hp2)
  BY <1>9, <1>10 DEF Typed
<1>12. /\ del.sb \in [Superblocks -> SuperblockHeader(Heaps)] /\ del.sb[s] = r
       /\ \A q \in Superblocks \ {s} : del.sb[q] = old.sb[q]
  BY <1>2, <1>4, <1>5, <1>9 DEF PutHeader
<1>13. ListsOK(del.sb, hp2) /\ Moves(old.sb, hp2, del.sb, hp2, s) /\ ~Listed(del.sb, hp2, s)
  <2> DEFINE f1 == old.sb
             g1 == del.sb
  <2>1. /\ Typed(f1, hp2) /\ ListsOK(f1, hp2) /\ ~Listed(f1, hp2, s) /\ s \in Superblocks
        /\ \A q \in Superblocks \ {s} : g1[q] = f1[q]
    BY <1>2, <1>9, <1>11, <1>12
  <2> SUFFICES ListsOK(g1, hp2) /\ Moves(f1, hp2, g1, hp2, s) /\ ~Listed(g1, hp2, s)
    OBVIOUS
  <2> HIDE DEF f1, g1
  <2> QED BY <2>1, SetUnlisted
<1>14. Moves(f, hp, del.sb, hp2, s)
  <2>1. Moves(f, hp, old.sb, hp2, s)
    BY <1>9
  <2>2. Moves(old.sb, hp2, del.sb, hp2, s)
    BY <1>13
  <2> HIDE DEF old
  <2> QED BY <2>1, <2>2, MovesTwice
<1>15. SameButLinks(F, del.sb)
  <2> SUFFICES ASSUME NEW q \in Superblocks
               PROVE  del.sb[q].owner = F[q].owner /\ SameBlocks(F[q], del.sb[q])
    BY DEF SameButLinks
  <2>1. CASE q = s
    BY <1>2, <1>12, <2>1 DEF SameBlocks
  <2>2. CASE q # s
    <3>1. F[q] = f[q] /\ del.sb[q] = old.sb[q]
      BY <1>2, <1>12, <2>2
    <3> QED BY <1>9, <3>1 DEF SameButLinks
  <2> QED BY <2>1, <2>2
<1> QED BY <1>5, <1>6, <1>7, <1>9, <1>10, <1>12, <1>13, <1>14, <1>15 DEF Typed

LEMMA UpdateLists ==
    ASSUME NEW f, NEW hp, NEW h, NEW b, NEW e, NEW s, NEW r,
           NEW F, Changes(f, hp, h, b, e, s, r, F),
           get_eidx(r) \in EmptinessClasses, ~is_superblock_empty(r),
           NEW upd, upd = update_emptiness_class(F, hp[h].size_bins[b], e, s),
           NEW hp2, hp2 = SetBin(hp, h, b, upd.bm)
    PROVE  /\ UpdateDefined(F, hp[h].size_bins[b], e, s)
           /\ ListsOK(upd.sb, hp2) /\ Moves(f, hp, upd.sb, hp2, s)
           /\ s \in InBin(upd.sb, hp2, h, b, get_eidx(r))
           /\ SameButLinks(F, upd.sb)
           /\ SetsBin(hp, hp2, h, b, upd.bm) /\ ManagerIn(Superblocks, upd.bm)
<1> DEFINE bm  == hp[h].size_bins[b]
           del == delete_from_bin(F, bm, e, s)
           mid == SetBin(hp, h, b, del.bm)
           new == get_eidx(r)
<1>1. /\ DeleteDefined(F, e, s) /\ ListsOK(del.sb, mid) /\ Moves(f, hp, del.sb, mid, s)
      /\ ~Listed(del.sb, mid, s) /\ Typed(del.sb, mid)
      /\ SameButLinks(F, del.sb) /\ del.sb[s] = r
      /\ SetsBin(hp, mid, h, b, del.bm)
  <2>1. /\ del = delete_from_bin(F, hp[h].size_bins[b], e, s)
        /\ mid = SetBin(hp, h, b, del.bm)
    OBVIOUS
  <2> HIDE DEF del, mid, bm, new
  <2>2. /\ DeleteDefined(F, e, s) /\ ListsOK(del.sb, mid) /\ Moves(f, hp, del.sb, mid, s)
        /\ ~Listed(del.sb, mid, s) /\ Typed(del.sb, mid)
        /\ SameButLinks(F, del.sb) /\ del.sb[s] = r
        /\ SetsBin(hp, mid, h, b, del.bm) /\ ManagerIn(Superblocks, del.bm)
    BY <2>1, DeleteChanged
  <2> QED BY <2>2
<1>2. /\ hp \in [Heaps -> HeapRecord] /\ f \in [Superblocks -> SuperblockHeader(Heaps)]
      /\ h \in Heaps /\ b \in Bins /\ s \in Superblocks
  BY ReachIn DEF Changes, Typed, InBin
<1>3. F[s] = r
  BY <1>2 DEF Changes
<1>4. Fits(r, h, b, new)
  BY DEF Changes, ListsOK, BinOK, Fits
<1>5. upd = push_into_bin(del.sb, del.bm, new, s)
  BY <1>3 DEF update_emptiness_class
<1> HIDE DEF del, mid, new
<1>6. mid[h].size_bins[b] = del.bm
  BY <1>1 DEF SetsBin
<1>7. SetsBin(hp, hp2, h, b, upd.bm)
  BY <1>2, BinSet
<1>8. SetsBin(mid, hp2, h, b, upd.bm)
  BY <1>1, <1>2, <1>7 DEF SetsBin, SameLists
<1>9. Pushes(del.sb, mid, h, b, new, s, upd, hp2)
  <2>1. new \in EmptinessClasses
    BY DEF new
  <2> QED BY <1>1, <1>2, <1>4, <1>5, <1>6, <1>8, <2>1 DEF Pushes
<1>10. /\ PushDefined(del.sb, del.bm, new)
       /\ ListsOK(upd.sb, hp2) /\ Moves(del.sb, mid, upd.sb, hp2, s)
       /\ s \in InBin(upd.sb, hp2, h, b, new)
       /\ SameButLinks(del.sb, upd.sb) /\ ManagerIn(Superblocks, upd.bm)
  BY <1>6, <1>9, PushLists
<1>11. UpdateDefined(F, bm, e, s)
  BY <1>1, <1>3, <1>10 DEF UpdateDefined, del, new
<1>12. Moves(f, hp, upd.sb, hp2, s) /\ SameButLinks(F, upd.sb)
  <2>1. Moves(f, hp, del.sb, mid, s) /\ Moves(del.sb, mid, upd.sb, hp2, s)
    BY <1>1, <1>10
  <2>2. SameButLinks(F, del.sb) /\ SameButLinks(del.sb, upd.sb)
    BY <1>1, <1>10
  <2>3. Moves(f, hp, upd.sb, hp2, s)
    BY <2>1, MovesTwice
  <2>4. SameButLinks(F, upd.sb)
    BY <2>2, SameButLinksTwice
  <2> QED BY <2>3, <2>4
<1> QED BY <1>7, <1>10, <1>11, <1>12 DEF new

(* superblock_alloc leaves a superblock that belongs into a bin.           *)
LEMMA AllocFacts ==
    ASSUME IInv, BlocksInv, ListInv, AllocatesFromItsBin, NEW t \in Threads,
           At(t, "sb_alloc"), NEW s, s = th[t].s_ptr,
           NEW r, r = superblock_alloc(sb[s]), NEW b, b = size2idx(th[t].size)
    PROVE  /\ th[t].heap \in Heaps /\ th[t].heap \in ThreadHeaps /\ b \in Bins
           /\ s \in Mapped /\ s \in Superblocks /\ sb[s] \in SuperblockHeader(Heaps)
           /\ HasBlock(sb[s]) /\ get_eidx(sb[s]) \in EmptinessClasses
           /\ sb[s].block_size = SizeTable[b]
           /\ r \in SuperblockHeader(Heaps)
           /\ r.owner = sb[s].owner /\ r.block_size = sb[s].block_size
           /\ r.prev = sb[s].prev /\ r.next = sb[s].next
           /\ get_eidx(r) \in EmptinessClasses /\ ~is_superblock_empty(r) /\ CutOK(r)
<1> DEFINE p == [sb |-> s, off |-> AllocatedPtr(sb[s]), size |-> th[t].size]
<1>1. th[t].pc = "sb_alloc"
  BY DEF At
<1>2. /\ th[t].heap \in Heaps /\ th[t].heap \in ThreadHeaps /\ b \in Bins
      /\ s \in Mapped /\ s \in Superblocks /\ sb[s] \in SuperblockHeader(Heaps)
      /\ th[t].size \in Nat /\ th[t].size <= max_block_size
  BY <1>1, Facts, ThreadBin DEF PlaceIn, Thread, AllocPlaces, Heaps
<1>3. sb[s].num_free_blocks > 0
  BY <1>1 DEF ListInv, PlacesOK, PlaceOK
<1>4. /\ HasBlock(sb[s]) /\ get_eidx(sb[s]) \in EmptinessClasses
      /\ sb[s].num_free_blocks <= sb[s].total_blocks
  BY <1>2, <1>3, MappedClass DEF ListInv
<1>5. sb[s].block_size = SizeTable[b] /\ th[t].size <= sb[s].block_size
  <2>1. sb[s].block_size = idx2class(b)
    BY DEF AllocatesFromItsBin
  <2> QED BY <1>2, <2>1, SizeHasBin DEF idx2class
<1>6. /\ r \in SuperblockHeader(Heaps)
      /\ r.owner = sb[s].owner /\ r.block_size = sb[s].block_size
      /\ r.prev = sb[s].prev /\ r.next = sb[s].next
  BY <1>2, <1>4, AllocTyped
<1>7. BlocksOK(sb[s], HeldIn(s), BeingFreed(s), th) /\ CutOK(sb[s])
  BY <1>2 DEF BlocksInv, ListInv, AllCut
<1>8. BlocksOK(r, HeldIn(s) \cup {p}, BeingFreed(s), th)
  <2>1. p.off = AllocatedPtr(sb[s]) /\ p.size <= sb[s].block_size
    BY <1>5
  <2> HIDE DEF p
  <2> QED BY <1>2, <1>4, <1>7, <2>1, BlocksAlloc
<1>9. /\ r.total_blocks = sb[s].total_blocks
      /\ r.num_free_blocks = (sb[s].num_free_blocks - 1) % UINT_MOD
  BY <1>2, <1>4, <1>7, AllocBlocks DEF BlocksOK
<1>10. CutOK(r)
  BY <1>6, <1>7, <1>9 DEF CutOK
<1>11. get_eidx(r) \in EmptinessClasses
  <2> HIDE DEF p
  <2> QED BY <1>6, <1>8, <1>10, ClassIn DEF CutOK
<1>12. ~is_superblock_empty(r)
  <2>1. /\ sb[s].num_free_blocks \in Nat /\ sb[s].num_free_blocks < UINT_MOD
        /\ sb[s].total_blocks \in Nat /\ UINT_MOD \in Nat
    BY <1>2, HeaderTypes, SizesAssumption
  <2>2. r.num_free_blocks = sb[s].num_free_blocks - 1
    BY <1>3, <1>9, <2>1
  <2> QED BY <1>4, <1>9, <2>1, <2>2 DEF is_superblock_empty
<1> QED BY <1>2, <1>4, <1>5, <1>6, <1>10, <1>11, <1>12

(* The end of bin_alloc: the superblock goes to the list of its class.     *)
AllocUpdate(t, s, b, F) ==
    IF th[t].in_bin
      THEN update_emptiness_class(F, heap[th[t].heap].size_bins[b], get_eidx(sb[s]), s)
      ELSE push_into_bin(F, heap[th[t].heap].size_bins[b], get_eidx(F[s]), s)

AllocStep(t, s, r, b, F, upd, hp) ==
    /\ At(t, "sb_alloc") /\ s = th[t].s_ptr /\ b = size2idx(th[t].size)
    /\ r = superblock_alloc(sb[s]) /\ F = [sb EXCEPT ![s] = r]
    /\ upd = AllocUpdate(t, s, b, F)
    /\ hp = SetBin(heap, th[t].heap, b, upd.bm)

LEMMA AllocPuts ==
    ASSUME IInv, BlocksInv, ListInv, AllocatesFromItsBin, NEW t \in Threads,
           NEW s, NEW r, NEW b, NEW F, NEW upd, NEW hp, AllocStep(t, s, r, b, F, upd, hp)
    PROVE  /\ AllocDefined(t)
           /\ ListsOK(upd.sb, hp) /\ Moves(sb, heap, upd.sb, hp, s)
           /\ s \in InBin(upd.sb, hp, th[t].heap, b, get_eidx(r))
           /\ SameButLinks(F, upd.sb) /\ sb[s].owner = th[t].heap
           /\ hp \in [Heaps -> HeapRecord] /\ SetsBin(heap, hp, th[t].heap, b, upd.bm)
           /\ \A g \in Heaps : hp[g].alloced = heap[g].alloced
           /\ NobodyElse(t, s) /\ InHand(th[t]) \subseteq {s}
<1> DEFINE h   == th[t].heap
           old == get_eidx(sb[s])
           bm  == heap[h].size_bins[b]
<1>1. /\ h \in Heaps /\ b \in Bins /\ s \in Mapped /\ s \in Superblocks
      /\ sb[s] \in SuperblockHeader(Heaps) /\ HasBlock(sb[s]) /\ old \in EmptinessClasses
      /\ sb[s].block_size = SizeTable[b]
      /\ r \in SuperblockHeader(Heaps)
      /\ r.owner = sb[s].owner /\ r.block_size = sb[s].block_size
      /\ r.prev = sb[s].prev /\ r.next = sb[s].next
      /\ get_eidx(r) \in EmptinessClasses /\ ~is_superblock_empty(r)
  <2>1. /\ At(t, "sb_alloc") /\ s = th[t].s_ptr /\ b = size2idx(th[t].size)
        /\ r = superblock_alloc(sb[s])
    BY DEF AllocStep
  <2> QED BY <2>1, AllocFacts
<1>2. /\ th[t].pc = "sb_alloc" /\ PlaceOK(sb, heap, th[t])
      /\ s = th[t].s_ptr /\ b = size2idx(th[t].size)
  <2>1. PlaceOK(sb, heap, th[t])
    BY DEF ListInv, PlacesOK, AllocStep
  <2> QED BY <2>1 DEF At, AllocStep
<1>3. Typed(sb, heap) /\ ListsOK(sb, heap)
  BY TypedNow DEF ListInv
<1>4. /\ F \in [Superblocks -> SuperblockHeader(Heaps)] /\ F[s] = r
      /\ \A q \in Superblocks \ {s} : F[q] = sb[q]
  BY <1>1, TypedNow DEF AllocStep
<1>5. AllocDefined(t) <=> IF th[t].in_bin THEN UpdateDefined(F, bm, old, s)
                                           ELSE PushDefined(F, bm, get_eidx(r))
  BY <1>1, <1>4 DEF AllocDefined, AllocStep
<1>6. SetsBin(heap, hp, h, b, upd.bm)
  <2>1. hp = SetBin(heap, h, b, upd.bm)
    BY DEF AllocStep
  <2> HIDE DEF h
  <2> QED BY <1>1, <1>3, <2>1, BinSet DEF Typed, h
<1> HIDE DEF h, old, bm
<1>7. CASE th[t].in_bin
  <2>1. s \in InBin(sb, heap, h, b, old)
    BY <1>2, <1>7 DEF PlaceOK, h, old
  <2>2. Changes(sb, heap, h, b, old, s, r, F)
    BY <1>1, <1>3, <2>1 DEF Changes, AllocStep
  <2>3. upd = update_emptiness_class(F, heap[h].size_bins[b], old, s)
        /\ hp = SetBin(heap, h, b, upd.bm)
    BY <1>7 DEF AllocUpdate, AllocStep, h, old
  <2>4. /\ UpdateDefined(F, bm, old, s)
        /\ ListsOK(upd.sb, hp) /\ Moves(sb, heap, upd.sb, hp, s)
        /\ s \in InBin(upd.sb, hp, h, b, get_eidx(r))
        /\ SameButLinks(F, upd.sb) /\ ManagerIn(Superblocks, upd.bm)
    <3>1. get_eidx(r) \in EmptinessClasses /\ ~is_superblock_empty(r)
      BY <1>1
    <3> HIDE DEF h, old
    <3> QED BY <2>2, <2>3, <3>1, UpdateLists DEF bm
  <2>5. sb[s].owner = h /\ Listed(sb, heap, s)
    BY <1>1, <1>3, <2>1 DEF ListsOK, BinOK, Fits, Listed
  <2>6. lock[h] = t
    BY <1>1, <1>2, HoldsLock DEF LocksOf, h
  <2>7. NobodyElse(t, s)
    BY <1>1, <2>5, <2>6, NobodyElseLocks
  <2>8. InHand(th[t]) = {}
    BY <1>2, <1>7 DEF InHand
  <2>9. hp \in [Heaps -> HeapRecord] /\ \A g \in Heaps : hp[g].alloced = heap[g].alloced
    <3>1. heap \in [Heaps -> HeapRecord] /\ h \in Heaps /\ b \in Bins
      BY <1>1, TypedNow
    <3>2. ManagerIn(Superblocks, upd.bm)
      BY <2>4
    <3>3. hp = SetBin(heap, h, b, upd.bm)
      BY <2>3
    <3> QED BY <3>1, <3>2, <3>3, WriteBin
  <2> QED BY <1>5, <1>6, <1>7, <2>4, <2>5, <2>7, <2>8, <2>9 DEF h
<1>8. CASE ~th[t].in_bin
  <2>1. InHand(th[t]) = {s}
    BY <1>2, <1>8 DEF InHand
  <2>2. NobodyElse(t, s) /\ ~Listed(sb, heap, s)
    BY <2>1, NobodyElseHolds
  <2>3. sb[s].owner = h
    BY <1>2, <1>8 DEF PlaceOK, h
  <2>4. /\ ListsOK(F, heap) /\ Moves(sb, heap, F, heap, s) /\ ~Listed(F, heap, s)
        /\ Typed(F, heap)
    BY <1>1, <1>3, <1>4, <2>2, SetUnlisted DEF Typed
  <2>5. Fits(F[s], h, b, get_eidx(r))
    BY <1>1, <1>4, <2>3 DEF Fits
  <2>6. upd = push_into_bin(F, heap[h].size_bins[b], get_eidx(r), s)
        /\ hp = SetBin(heap, h, b, upd.bm)
    BY <1>4, <1>8 DEF AllocUpdate, AllocStep, h
  <2>7. Pushes(F, heap, h, b, get_eidx(r), s, upd, hp)
    BY <1>1, <1>6, <2>4, <2>5, <2>6 DEF Pushes
  <2>8. /\ PushDefined(F, bm, get_eidx(r))
        /\ ListsOK(upd.sb, hp) /\ Moves(F, heap, upd.sb, hp, s)
        /\ s \in InBin(upd.sb, hp, h, b, get_eidx(r))
        /\ SameButLinks(F, upd.sb) /\ ManagerIn(Superblocks, upd.bm)
    BY <2>7, PushLists DEF bm
  <2>9. Moves(sb, heap, upd.sb, hp, s)
    BY <2>4, <2>8, MovesTwice
  <2>10. hp \in [Heaps -> HeapRecord] /\ \A g \in Heaps : hp[g].alloced = heap[g].alloced
    <3>1. heap \in [Heaps -> HeapRecord] /\ h \in Heaps /\ b \in Bins
      BY <1>1, TypedNow
    <3>2. ManagerIn(Superblocks, upd.bm)
      BY <2>8
    <3>3. hp = SetBin(heap, h, b, upd.bm)
      BY <2>6
    <3> QED BY <3>1, <3>2, <3>3, WriteBin
  <2> QED BY <1>5, <1>6, <1>8, <2>1, <2>2, <2>3, <2>8, <2>9, <2>10 DEF h
<1> QED BY <1>7, <1>8

LEMMA SuperblockAllocLists ==
    ASSUME IInv, BlocksInv, ListInv, AllocatesFromItsBin, NEW t \in Threads,
           At(t, "sb_alloc")
    PROVE  AllocDefined(t) /\ (SuperblockAlloc(t) => ListInv')
<1> DEFINE h   == th[t].heap
           s   == th[t].s_ptr
           b   == size2idx(th[t].size)
           r   == superblock_alloc(sb[s])
           F   == [sb EXCEPT ![s] = r]
           upd == AllocUpdate(t, s, b, F)
           hp  == SetBin(heap, h, b, upd.bm)
           y   == inc_usage(hp[h], idx2class(b))
<1>1. /\ th[t].heap \in Heaps /\ b \in Bins /\ s \in Mapped /\ s \in Superblocks
      /\ r \in SuperblockHeader(Heaps) /\ r.owner = sb[s].owner
      /\ get_eidx(r) \in EmptinessClasses /\ CutOK(r)
  BY AllocFacts
<1>2. /\ AllocDefined(t)
      /\ ListsOK(upd.sb, hp) /\ Moves(sb, heap, upd.sb, hp, s)
      /\ s \in InBin(upd.sb, hp, h, b, get_eidx(r))
      /\ SameButLinks(F, upd.sb) /\ sb[s].owner = h
      /\ hp \in [Heaps -> HeapRecord] /\ SetsBin(heap, hp, h, b, upd.bm)
      /\ \A g \in Heaps : hp[g].alloced = heap[g].alloced
      /\ NobodyElse(t, s) /\ InHand(th[t]) \subseteq {s}
  <2>1. AllocStep(t, s, r, b, F, upd, hp)
    BY DEF AllocStep
  <2>2. h = th[t].heap
    OBVIOUS
  <2> HIDE DEF upd, hp, F, r, s, b, h
  <2> QED BY <2>1, <2>2, AllocPuts
<1> SUFFICES ASSUME SuperblockAlloc(t) PROVE ListInv'
  BY <1>2
<1>3. /\ sb' = upd.sb /\ th' = [th EXCEPT ![t] = IdleThread] /\ th[t].pc = "sb_alloc"
      /\ crashed' = crashed
  BY DEF SuperblockAlloc, Return, AllocUpdate, At
<1>4. heap' = [hp EXCEPT ![h] = y]
  <2>1. heap' = [heap EXCEPT ![h] = inc_usage([heap[h] EXCEPT !.size_bins[b] = upd.bm],
                                              idx2class(b))]
    BY DEF SuperblockAlloc, AllocUpdate
  <2> HIDE DEF upd, b, h
  <2>2. hp[h] = [heap[h] EXCEPT !.size_bins[b] = upd.bm]
    BY <1>1, TypedNow DEF SetBin, h
  <2> QED BY <1>1, <2>1, <2>2 DEF SetBin
<1>5. /\ F[s] = r /\ \A q \in Superblocks \ {s} : F[q] = sb[q]
  BY <1>1, TypedNow
<1> HIDE DEF upd, hp, F, r
<1>6. hp[h] \in HeapRecord /\ idx2class(b) \in Nat
  BY <1>1, <1>2, SizeTableAssumption DEF idx2class
<1>7. /\ y.size_bins = hp[h].size_bins /\ y.recycled_superblock = hp[h].recycled_superblock
      /\ y.alloced = hp[h].alloced
  BY <1>6, StatisticsLists
<1> HIDE DEF y, s, b
<1>8. /\ \A g \in Heaps : SameLists(hp, heap', g)
      /\ heap'[h] = y /\ \A g \in Heaps \ {h} : heap'[g] = hp[g]
  <2>1. hp \in [Heaps -> HeapRecord] /\ h \in Heaps
    BY <1>1, <1>2
  <2> QED BY <2>1, <1>4, <1>7, WriteHeap
<1>9. /\ ListsOK(sb', heap') /\ Moves(sb, heap, sb', heap', s)
      /\ s \in InBin(sb', heap', h, b, get_eidx(r))
  <2>1. ListsOK(upd.sb, heap') /\ Moves(upd.sb, hp, upd.sb, heap', s)
        /\ s \in InBin(upd.sb, heap', h, b, get_eidx(r))
    <3>1. h \in Heaps /\ ListsOK(upd.sb, hp) /\ s \in InBin(upd.sb, hp, h, b, get_eidx(r))
      BY <1>1, <1>2
    <3>2. /\ ListsOK(upd.sb, hp) => ListsOK(upd.sb, heap')
          /\ Moves(upd.sb, hp, upd.sb, heap', s)
          /\ \A g \in Heaps : \A c, e : InBin(upd.sb, heap', g, c, e) = InBin(upd.sb, hp, g, c, e)
      BY <1>8, SameHeads
    <3> QED BY <3>1, <3>2
  <2>2. Moves(sb, heap, upd.sb, heap', s)
    <3>1. Moves(sb, heap, upd.sb, hp, s)
      BY <1>2
    <3> QED BY <2>1, <3>1, MovesTwice
  <2> QED BY <1>3, <2>1, <2>2
<1>10. /\ sb'[s].owner = h /\ SameBlocks(r, sb'[s]) /\ Headers(s)
       /\ \A q \in Superblocks : sb'[q].owner = sb[q].owner
  BY <1>1, <1>2, <1>3, <1>5 DEF SameButLinks, Headers
<1>11. CutOK(sb'[s])
  BY <1>1, <1>10 DEF CutOK, SameBlocks
<1>12. OnItsList(sb', heap', s)
  <2>1. get_eidx(sb'[s]) = get_eidx(r)
    BY <1>10 DEF SameBlocks, get_eidx
  <2> QED BY <1>1, <1>9, <1>10, <2>1 DEF OnItsList
<1>13. PlaceOK(sb', heap', IdleThread) /\ InHand(IdleThread) = {}
  BY IdleElsewhere, ElsewhereOK
<1>14. AllocedOK'
  <2>1. \A g \in ThreadHeaps : heap'[g].alloced = heap[g].alloced
    BY <1>1, <1>2, <1>7, <1>8 DEF Heaps
  <2> QED BY <1>10, <2>1, AllocedSame
<1>15. \A u \in Threads : th'[u] = IF u = t THEN IdleThread ELSE th[u]
  BY <1>3, OthersStay
<1>16. lock[h] = t
  BY <1>1, <1>3, HoldsLock DEF LocksOf
<1>17. \A g \in Heaps : SameLists(heap, heap', g) \/ lock[g] = t
  BY <1>2, <1>8, <1>16 DEF SetsBin, SameLists
<1>18. ListStep(t, IdleThread, s)
  BY <1>2, <1>3, <1>9, <1>10, <1>11, <1>12, <1>13, <1>14, <1>15, <1>17
     DEF ListStep, ListInv
<1> QED BY <1>18, ListStepKeeps

-----------------------------------------------------------------------------
(* bin_free                                                                *)

FreeStep(t, s, r, b, F) ==
    /\ At(t, "bin_free") /\ s = th[t].s_ptr /\ b = size2idx(th[t].size)
    /\ r = superblock_free(sb[s], th[t].off) /\ F = [sb EXCEPT ![s] = r]

LEMMA FreeFacts ==
    ASSUME IInv, BlocksInv, ListInv, DeletedFromItsList, NEW t \in Threads,
           NEW s, NEW r, NEW b, NEW F, FreeStep(t, s, r, b, F)
    PROVE  /\ th[t].heap \in Heaps /\ b \in Bins /\ s \in Mapped /\ s \in Superblocks
           /\ Changes(sb, heap, th[t].heap, b, get_eidx(sb[s]), s, r, F)
           /\ F[s] = r /\ \A q \in Superblocks \ {s} : F[q] = sb[q]
           /\ r.owner = th[t].heap /\ sb[s].owner = th[t].heap
           /\ get_eidx(r) \in EmptinessClasses /\ get_eidx(r) > 0 /\ CutOK(r)
           /\ lock[th[t].heap] = t /\ NobodyElse(t, s) /\ InHand(th[t]) = {}
<1> DEFINE h   == th[t].heap
           old == get_eidx(sb[s])
<1>1. th[t].pc = "bin_free" /\ s = th[t].s_ptr /\ b = size2idx(th[t].size)
  BY DEF FreeStep, At
<1>2. /\ h \in Heaps /\ b \in Bins /\ s \in Mapped /\ s \in Superblocks
      /\ sb[s] \in SuperblockHeader(Heaps) /\ th[t].off \in Nat
  BY <1>1, Facts, ThreadBin DEF PlaceIn, Thread, FreePlaces
<1>3. old \in EmptinessClasses
  BY <1>2, MappedClass DEF ListInv
<1>4. s \in InBin(sb, heap, h, b, old)
  <2>1. s \in ListOf(h, b, old)
    BY <1>1 DEF DeletedFromItsList, FreeStep
  <2> QED BY <2>1, ListIsReach DEF InBin
<1>5. /\ r \in SuperblockHeader(Heaps)
      /\ r.owner = sb[s].owner /\ r.block_size = sb[s].block_size
      /\ r.prev = sb[s].prev /\ r.next = sb[s].next
  BY <1>2, FreeTyped DEF FreeStep
<1>6. F = [sb EXCEPT ![s] = r] /\ r = superblock_free(sb[s], th[t].off)
  BY DEF FreeStep
<1>7. Typed(sb, heap) /\ ListsOK(sb, heap)
  BY TypedNow DEF ListInv
<1> HIDE DEF old
<1>8. Changes(sb, heap, h, b, old, s, r, F)
  BY <1>2, <1>3, <1>4, <1>5, <1>6, <1>7 DEF Changes
<1>9. F[s] = r /\ \A q \in Superblocks \ {s} : F[q] = sb[q]
  BY <1>2, <1>6, TypedNow
<1>10. sb[s].owner = h /\ Listed(sb, heap, s)
  BY <1>2, <1>3, <1>4, <1>7 DEF ListsOK, BinOK, Fits, Listed
<1>11. lock[h] = t
  BY <1>1, <1>2, HoldsLock DEF LocksOf
<1>12. NobodyElse(t, s) /\ InHand(th[t]) = {}
  BY <1>1, <1>2, <1>10, <1>11, NobodyElseLocks DEF InHand
<1>13. BlocksOK(sb[s], HeldIn(s), BeingFreed(s), th) /\ CutOK(sb[s]) /\ t \in BeingFreed(s)
  BY <1>1, <1>2 DEF BlocksInv, ListInv, AllCut, BeingFreed
<1>14. BlocksOK(r, HeldIn(s), BeingFreed(s) \ {t}, th)
  BY <1>2, <1>6, <1>13, BlocksReturn
<1>15. /\ r.total_blocks = sb[s].total_blocks
       /\ FreeBlocks(r) = FreeBlocks(sb[s]) \cup {th[t].off}
  <2>1. th[t].off \in Slots(sb[s]) /\ th[t].off \notin FreeBlocks(sb[s]) /\ HeaderOK(sb[s])
    BY <1>13 DEF BlocksOK
  <2> QED BY <1>2, <1>6, <2>1, FreeBlocksGrow
<1>16. CutOK(r)
  BY <1>5, <1>13, <1>15 DEF CutOK
<1>17. r.num_free_blocks > 0
  <2>1. r.num_free_blocks = Cardinality(FreeBlocks(r)) /\ IsFiniteSet(FreeBlocks(r))
    BY <1>14 DEF BlocksOK
  <2>2. FreeBlocks(r) # {}
    BY <1>15
  <2>3. Cardinality(FreeBlocks(r)) # 0 /\ Cardinality(FreeBlocks(r)) \in Nat
    BY <2>1, <2>2, FS_EmptySet, FS_CardinalityType
  <2> QED BY <2>1, <2>3
<1>18. get_eidx(r) \in EmptinessClasses /\ get_eidx(r) > 0
  BY <1>5, <1>14, <1>16, <1>17, ClassIn DEF CutOK
<1> QED BY <1>2, <1>5, <1>8, <1>9, <1>10, <1>11, <1>12, <1>16, <1>18 DEF old

(* A superblock with a block in use moves to the list of its class,        *)
Updates(h, b, s, r, F, upd, hp) ==
    /\ Changes(sb, heap, h, b, get_eidx(sb[s]), s, r, F)
    /\ get_eidx(r) \in EmptinessClasses /\ get_eidx(r) > 0 /\ ~is_superblock_empty(r)
    /\ upd = update_emptiness_class(F, heap[h].size_bins[b], get_eidx(sb[s]), s)
    /\ hp = SetBin(heap, h, b, upd.bm)

LEMMA FreeUpdates ==
    ASSUME IInv, NEW h, NEW b, NEW s, NEW r, NEW F, NEW upd, NEW hp,
           Updates(h, b, s, r, F, upd, hp)
    PROVE  /\ UpdateDefined(F, heap[h].size_bins[b], get_eidx(sb[s]), s)
           /\ ListsOK(upd.sb, hp) /\ Moves(sb, heap, upd.sb, hp, s)
           /\ s \in InBin(upd.sb, hp, h, b, get_eidx(r))
           /\ SameButLinks(F, upd.sb) /\ CanGive(hp[h])
           /\ \A g \in Heaps : hp[g].alloced = heap[g].alloced
           /\ \A g \in Heaps \ {h} : SameLists(heap, hp, g)
<1> DEFINE old == get_eidx(sb[s])
<1>1. Changes(sb, heap, h, b, old, s, r, F) /\ h \in Heaps /\ b \in Bins
      /\ upd = update_emptiness_class(F, heap[h].size_bins[b], old, s)
      /\ hp = SetBin(heap, h, b, upd.bm)
      /\ get_eidx(r) \in EmptinessClasses /\ get_eidx(r) > 0 /\ ~is_superblock_empty(r)
  BY DEF Changes, Updates
<1> HIDE DEF old
<1>2. /\ UpdateDefined(F, heap[h].size_bins[b], old, s)
      /\ ListsOK(upd.sb, hp) /\ Moves(sb, heap, upd.sb, hp, s)
      /\ s \in InBin(upd.sb, hp, h, b, get_eidx(r)) /\ SameButLinks(F, upd.sb)
      /\ SetsBin(heap, hp, h, b, upd.bm) /\ ManagerIn(Superblocks, upd.bm)
  BY <1>1, UpdateLists
<1>3. \A g \in Heaps : hp[g].alloced = heap[g].alloced
  <2>1. heap \in [Heaps -> HeapRecord] /\ ManagerIn(Superblocks, upd.bm)
    BY <1>2, TypedNow
  <2> QED BY <1>1, <2>1, WriteBin
<1>4. CanGive(hp[h])
  <2> DEFINE e == get_eidx(r)
  <2>1. hp[h].size_bins[b].emptiness_bins[e] # NULL
    BY <1>2 DEF InBin, Reach
  <2> HIDE DEF e
  <2>2. << b, e >> \in Bins \X NonfullClasses
    BY <1>1, NonfullIsNotFull DEF e
  <2>3. << b, e >> \in Candidates(hp[h])
    BY <2>1, <2>2 DEF Candidates
  <2> QED BY <2>3 DEF CanGive
<1> QED BY <1>2, <1>3, <1>4 DEF SetsBin, old

(* an empty one to the recycling bin.                                      *)
Empties(h, b, s, r, F, del, g, hp) ==
    /\ Changes(sb, heap, h, b, get_eidx(sb[s]), s, r, F)
    /\ r.owner = h /\ is_superblock_empty(r)
    /\ del = delete_from_bin(F, heap[h].size_bins[b], get_eidx(sb[s]), s)
    /\ g = [del.sb EXCEPT ![s].next = heap[h].recycled_superblock]
    /\ hp = SetRecycling(SetBin(heap, h, b, del.bm), h, s)

LEMMA FreeEmpties ==
    ASSUME IInv, NEW h, NEW b, NEW s, NEW r, NEW F, NEW del, NEW g, NEW hp,
           Empties(h, b, s, r, F, del, g, hp)
    PROVE  /\ DeleteDefined(F, get_eidx(sb[s]), s)
           /\ ListsOK(g, hp) /\ Moves(sb, heap, g, hp, s)
           /\ SameButLinks(F, g) /\ is_superblock_empty(g[s]) /\ CanGive(hp[h])
           /\ \A k \in Heaps : hp[k].alloced = heap[k].alloced
           /\ \A k \in Heaps \ {h} : SameLists(heap, hp, k)
<1> DEFINE old == get_eidx(sb[s])
           mid == SetBin(heap, h, b, del.bm)
           v   == heap[h].recycled_superblock
<1>1. Changes(sb, heap, h, b, old, s, r, F) /\ h \in Heaps /\ b \in Bins /\ s \in Superblocks
      /\ del = delete_from_bin(F, heap[h].size_bins[b], old, s)
      /\ mid = SetBin(heap, h, b, del.bm) /\ hp = SetRecycling(mid, h, s)
      /\ g = [del.sb EXCEPT ![s].next = v]
      /\ r.owner = h /\ is_superblock_empty(r)
  BY ReachIn DEF Changes, InBin, Empties
<1> HIDE DEF old, mid, v
<1>2. /\ DeleteDefined(F, old, s)
      /\ ListsOK(del.sb, mid) /\ Moves(sb, heap, del.sb, mid, s)
      /\ ~Listed(del.sb, mid, s) /\ Typed(del.sb, mid)
      /\ SameButLinks(F, del.sb) /\ del.sb[s] = r
      /\ SetsBin(heap, mid, h, b, del.bm) /\ ManagerIn(Superblocks, del.bm)
  <2>1. /\ Changes(sb, heap, h, b, old, s, r, F)
        /\ del = delete_from_bin(F, heap[h].size_bins[b], old, s)
        /\ mid = SetBin(heap, h, b, del.bm)
    BY <1>1
  <2> QED BY <2>1, DeleteChanged
<1>3. mid \in [Heaps -> HeapRecord] /\ \A k \in Heaps : mid[k].alloced = heap[k].alloced
  <2>1. heap \in [Heaps -> HeapRecord] /\ ManagerIn(Superblocks, del.bm)
    BY <1>2, TypedNow
  <2>2. h \in Heaps /\ b \in Bins /\ mid = SetBin(heap, h, b, del.bm)
    BY <1>1
  <2> QED BY <2>1, <2>2, WriteBin
<1>4. SetsRecycled(mid, hp, h, s) /\ \A k \in Heaps : hp[k].alloced = mid[k].alloced
  <2>1. /\ mid \in [Heaps -> HeapRecord] /\ h \in Heaps /\ s \in Superblocks \cup {NULL}
        /\ hp = SetRecycling(mid, h, s)
    BY <1>1, <1>3
  <2> QED BY <2>1, WriteRecycled
<1>5. v \in Superblocks \cup {NULL} /\ mid[h].recycled_superblock = v
  BY <1>1, <1>2, TypedNow, TypedFacts DEF SetsBin, v
<1>6. /\ g[s].next = v /\ \A q \in Superblocks \ {s} : g[q] = del.sb[q]
      /\ g[s].owner = r.owner /\ SameBlocks(r, g[s])
  <2>1. del.sb \in [Superblocks -> SuperblockHeader(Heaps)] /\ r \in SuperblockHeader(Heaps)
    BY <1>1, <1>2 DEF Typed, Changes
  <2>2. g[s] = [r EXCEPT !.next = v] /\ \A q \in Superblocks \ {s} : g[q] = del.sb[q]
    BY <1>1, <1>2, <2>1
  <2> DEFINE y == [r EXCEPT !.next = v]
  <2>3. y.next = v /\ y.owner = r.owner /\ SameBlocks(r, y)
    BY <2>1 DEF SuperblockHeader, SameBlocks
  <2>4. g[s] = y
    BY <2>2
  <2> HIDE DEF y
  <2> QED BY <2>2, <2>3, <2>4
<1>7. is_superblock_empty(g[s])
  BY <1>1, <1>6 DEF SameBlocks, is_superblock_empty
<1>8. ListsOK(g, hp) /\ Moves(del.sb, mid, g, hp, s)
  <2> DEFINE f1 == del.sb
  <2>1. /\ Typed(f1, mid) /\ ListsOK(f1, mid) /\ ~Listed(f1, mid, s)
        /\ \A q \in Superblocks \ {s} : g[q] = f1[q]
        /\ g[s].next = mid[h].recycled_superblock /\ g[s].owner = h
    BY <1>1, <1>2, <1>5, <1>6
  <2> SUFFICES ListsOK(g, hp) /\ Moves(f1, mid, g, hp, s)
    OBVIOUS
  <2> HIDE DEF f1
  <2>2. h \in Heaps /\ s \in Superblocks
    BY <1>1
  <2> QED BY <1>4, <1>7, <2>1, <2>2, RecyclingGrows
<1>9. Moves(sb, heap, g, hp, s)
  BY <1>2, <1>8, MovesTwice
<1>10. SameButLinks(F, g)
  <2> SUFFICES ASSUME NEW q \in Superblocks
               PROVE  g[q].owner = F[q].owner /\ SameBlocks(F[q], g[q])
    BY DEF SameButLinks
  <2>1. del.sb[q].owner = F[q].owner /\ SameBlocks(F[q], del.sb[q])
    BY <1>2 DEF SameButLinks
  <2>2. CASE q = s
    BY <1>2, <1>6, <2>1, <2>2 DEF SameBlocks
  <2>3. CASE q # s
    BY <1>6, <2>1, <2>3
  <2> QED BY <2>2, <2>3
<1>11. CanGive(hp[h])
  BY <1>1, <1>4, NullAssumption DEF SetsRecycled, CanGive
<1>12. \A k \in Heaps \ {h} : SameLists(heap, hp, k)
  <2> SUFFICES ASSUME NEW k \in Heaps \ {h} PROVE SameLists(heap, hp, k)
    OBVIOUS
  <2>1. SameLists(heap, mid, k)
    BY <1>2 DEF SetsBin
  <2>2. SameLists(mid, hp, k)
    BY <1>4 DEF SetsRecycled
  <2> QED BY <2>1, <2>2 DEF SameLists
<1> QED BY <1>2, <1>3, <1>4, <1>7, <1>8, <1>9, <1>10, <1>11, <1>12 DEF old

LEMMA BinFreeLists ==
    ASSUME IInv, BlocksInv, ListInv, DeletedFromItsList, NEW t \in Threads, At(t, "bin_free")
    PROVE  BinFreeDefined(t) /\ (BinFree(t) => ListInv')
<1> DEFINE h   == th[t].heap
           s   == th[t].s_ptr
           b   == size2idx(th[t].size)
           r   == superblock_free(sb[s], th[t].off)
           F   == [sb EXCEPT ![s] = r]
           old == get_eidx(sb[s])
           bm  == heap[h].size_bins[b]
           upd == update_emptiness_class(F, bm, old, s)
           del == delete_from_bin(F, bm, old, s)
           x   == [th[t] EXCEPT !.pc = "account"]
<1>1. /\ h \in Heaps /\ b \in Bins /\ s \in Mapped /\ s \in Superblocks
      /\ Changes(sb, heap, h, b, old, s, r, F)
      /\ F[s] = r /\ \A q \in Superblocks \ {s} : F[q] = sb[q]
      /\ r.owner = h /\ sb[s].owner = h
      /\ get_eidx(r) \in EmptinessClasses /\ get_eidx(r) > 0 /\ CutOK(r)
      /\ lock[h] = t /\ NobodyElse(t, s) /\ InHand(th[t]) = {}
  <2>1. FreeStep(t, s, r, b, F) /\ h = th[t].heap
    BY DEF FreeStep
  <2> HIDE DEF s, r, b, F, h
  <2> QED BY <2>1, FreeFacts DEF old
<1>2. BinFreeDefined(t) <=> IF is_superblock_empty(r) THEN DeleteDefined(F, old, s)
                                                     ELSE UpdateDefined(F, bm, old, s)
  BY <1>1 DEF BinFreeDefined
<1>3. BinFree(t) =>
        /\ th[t].pc = "bin_free" /\ th' = [th EXCEPT ![t] = x] /\ crashed' = crashed
        /\ IF is_superblock_empty(r)
             THEN /\ sb' = [del.sb EXCEPT ![s].next = heap[h].recycled_superblock]
                  /\ heap' = SetRecycling(SetBin(heap, h, b, del.bm), h, s)
             ELSE sb' = upd.sb /\ heap' = SetBin(heap, h, b, upd.bm)
  <2> SUFFICES ASSUME BinFree(t)
               PROVE  /\ th[t].pc = "bin_free" /\ th' = [th EXCEPT ![t] = x]
                      /\ crashed' = crashed
                      /\ IF is_superblock_empty(r)
                           THEN /\ sb' = [del.sb EXCEPT ![s].next = heap[h].recycled_superblock]
                                /\ heap' = SetRecycling(SetBin(heap, h, b, del.bm), h, s)
                           ELSE sb' = upd.sb /\ heap' = SetBin(heap, h, b, upd.bm)
    OBVIOUS
  <2>1. th[t].pc = "bin_free" /\ th' = [th EXCEPT ![t] = x] /\ crashed' = crashed
    BY DEF BinFree, At, Goto
  <2>2. IF is_superblock_empty(F[s])
          THEN /\ sb' = [del.sb EXCEPT ![s].next = heap[h].recycled_superblock]
               /\ heap' = [heap EXCEPT ![h].size_bins[b]      = del.bm,
                                       ![h].recycled_superblock = s]
          ELSE sb' = upd.sb /\ heap' = [heap EXCEPT ![h].size_bins[b] = upd.bm]
    BY DEF BinFree
  <2> HIDE DEF del, upd, F, s, b, h
  <2>3. F[s] = r
    BY <1>1
  <2> HIDE DEF r
  <2> QED BY <2>1, <2>2, <2>3 DEF SetRecycling, SetBin
<1>4. x.pc = "account" /\ x.heap = h /\ x.in_bin = th[t].in_bin /\ x.eidx = th[t].eidx
  BY Facts DEF Thread
<1> DEFINE g  == IF is_superblock_empty(r)
                   THEN [del.sb EXCEPT ![s].next = heap[h].recycled_superblock] ELSE upd.sb
           hp == IF is_superblock_empty(r)
                   THEN SetRecycling(SetBin(heap, h, b, del.bm), h, s)
                   ELSE SetBin(heap, h, b, upd.bm)
<1>5. /\ BinFreeDefined(t)
      /\ ListsOK(g, hp) /\ Moves(sb, heap, g, hp, s) /\ SameButLinks(F, g)
      /\ is_superblock_empty(g[s]) \/ s \in InBin(g, hp, h, b, get_eidx(r))
      /\ CanGive(hp[h]) /\ \A k \in Heaps : hp[k].alloced = heap[k].alloced
      /\ \A k \in Heaps \ {h} : SameLists(heap, hp, k)
  <2>1. CASE is_superblock_empty(r)
    <3> DEFINE g1  == [del.sb EXCEPT ![s].next = heap[h].recycled_superblock]
               hp1 == SetRecycling(SetBin(heap, h, b, del.bm), h, s)
    <3>1. Empties(h, b, s, r, F, del, g1, hp1)
      <4>1. /\ del = delete_from_bin(F, heap[h].size_bins[b], get_eidx(sb[s]), s)
            /\ g1 = [del.sb EXCEPT ![s].next = heap[h].recycled_superblock]
            /\ hp1 = SetRecycling(SetBin(heap, h, b, del.bm), h, s)
            /\ Changes(sb, heap, h, b, get_eidx(sb[s]), s, r, F)
        BY <1>1
      <4> HIDE DEF g, hp, g1, hp1, del, upd, F, r, s, b, h
      <4> QED BY <1>1, <2>1, <4>1 DEF Empties
    <3>2. g = g1 /\ hp = hp1
      BY <2>1
    <3> HIDE DEF g, hp, g1, hp1, del, upd, F, r, s, b, h
    <3>3. /\ DeleteDefined(F, get_eidx(sb[s]), s)
          /\ ListsOK(g1, hp1) /\ Moves(sb, heap, g1, hp1, s)
          /\ SameButLinks(F, g1) /\ is_superblock_empty(g1[s]) /\ CanGive(hp1[h])
          /\ \A k \in Heaps : hp1[k].alloced = heap[k].alloced
          /\ \A k \in Heaps \ {h} : SameLists(heap, hp1, k)
      BY <3>1, FreeEmpties
    <3> QED BY <1>2, <2>1, <3>2, <3>3
  <2>2. CASE ~is_superblock_empty(r)
    <3> DEFINE hp1 == SetBin(heap, h, b, upd.bm)
    <3>1. Updates(h, b, s, r, F, upd, hp1)
      <4>1. /\ upd = update_emptiness_class(F, heap[h].size_bins[b], get_eidx(sb[s]), s)
            /\ hp1 = SetBin(heap, h, b, upd.bm)
            /\ Changes(sb, heap, h, b, get_eidx(sb[s]), s, r, F)
        BY <1>1
      <4> HIDE DEF g, hp, hp1, del, upd, F, r, s, b, h
      <4> QED BY <1>1, <2>2, <4>1 DEF Updates
    <3>2. g = upd.sb /\ hp = hp1
      BY <2>2
    <3> HIDE DEF g, hp, hp1, del, upd, F, r, s, b, h
    <3>3. /\ UpdateDefined(F, heap[h].size_bins[b], get_eidx(sb[s]), s)
          /\ ListsOK(upd.sb, hp1) /\ Moves(sb, heap, upd.sb, hp1, s)
          /\ s \in InBin(upd.sb, hp1, h, b, get_eidx(r))
          /\ SameButLinks(F, upd.sb) /\ CanGive(hp1[h])
          /\ \A k \in Heaps : hp1[k].alloced = heap[k].alloced
          /\ \A k \in Heaps \ {h} : SameLists(heap, hp1, k)
      BY <3>1, FreeUpdates
    <3> QED BY <1>2, <2>2, <3>2, <3>3
  <2> QED BY <2>1, <2>2
<1> SUFFICES ASSUME BinFree(t) PROVE ListInv'
  BY <1>5
<1>6. /\ th[t].pc = "bin_free" /\ th' = [th EXCEPT ![t] = x] /\ crashed' = crashed
      /\ sb' = g /\ heap' = hp
  BY <1>3
<1> HIDE DEF g, hp, x, del, upd, F, r, s, b, h, old, bm
<1>7. /\ sb'[s].owner = h /\ SameBlocks(r, sb'[s]) /\ Headers(s)
      /\ \A q \in Superblocks : sb'[q].owner = sb[q].owner
  BY <1>1, <1>5, <1>6 DEF SameButLinks, Headers
<1>8. CutOK(sb'[s])
  BY <1>1, <1>7 DEF CutOK, SameBlocks
<1>9. is_superblock_empty(sb'[s]) \/ OnItsList(sb', heap', s)
  <2>1. get_eidx(sb'[s]) = get_eidx(r)
    BY <1>7 DEF SameBlocks, get_eidx
  <2> QED BY <1>1, <1>5, <1>6, <1>7, <2>1 DEF OnItsList
<1>10. InHand(x) = {}
  BY <1>4 DEF InHand
<1>11. PlaceOK(sb', heap', x)
  BY <1>4, <1>5, <1>6, <1>10, FromElsewhere DEF PlaceOK
<1>12. AllocedOK'
  <2>1. \A k \in ThreadHeaps : heap'[k].alloced = heap[k].alloced
    BY <1>5, <1>6 DEF Heaps
  <2> QED BY <1>7, <2>1, AllocedSame
<1>13. \A u \in Threads : th'[u] = IF u = t THEN x ELSE th[u]
  BY <1>6, OthersStay
<1>14. \A k \in Heaps : SameLists(heap, heap', k) \/ lock[k] = t
  BY <1>1, <1>5, <1>6
<1>15. ListStep(t, x, s)
  BY <1>1, <1>5, <1>6, <1>7, <1>8, <1>9, <1>10, <1>11, <1>12, <1>13, <1>14
     DEF ListStep, ListInv
<1> QED BY <1>15, ListStepKeeps

-----------------------------------------------------------------------------
(* No step is undefined                                                    *)

(* A superblock on a list can be deleted, or have one pushed before it.    *)
LEMMA LinksDefined ==
    ASSUME IInv, ListInv, NEW h \in Heaps, NEW b \in Bins, NEW e \in EmptinessClasses,
           NEW s, s = heap[h].size_bins[b].emptiness_bins[e], s # NULL
    PROVE  DeleteDefined(sb, e, s) /\ sb[s].prev # NULL
<1> DEFINE L == InBin(sb, heap, h, b, e)
<1>1. s \in L
  BY HeadListed
<1>2. Ring(sb, L) /\ L \subseteq Superblocks
  BY ReachIn DEF ListInv, ListsOK, BinOK, InBin
<1> HIDE DEF L
<1>3. sb[s].prev \in Superblocks /\ sb[s].next \in Superblocks
  BY <1>1, <1>2 DEF Ring
<1> QED BY <1>3, NullAssumption DEF DeleteDefined

(* num_nonfull_superblocks is not 0 for nothing.                           *)
LEMMA TakeIsDefined ==
    ASSUME IInv, ListInv, NEW t \in Threads, At(t, "get_sb_from_global")
    PROVE  TakeDefined(t)
<1> DEFINE b  == size2idx(th[t].size)
           bm == heap[GlobalHeap].size_bins[b]
           e  == FullestNonfull(bm)
<1>1. b \in Bins /\ GlobalHeap \in Heaps /\ NonfullClasses \subseteq EmptinessClasses
  BY ThreadBin, TypedNow, NonfullClass
<1> SUFFICES ASSUME bm.num_nonfull_superblocks > 0
             PROVE  HasNonfull(bm) /\ DeleteDefined(sb, e, bm.emptiness_bins[e])
  BY DEF TakeDefined, GlobalBin
<1> HIDE DEF b
<1>2. HasNonfull(bm)
  <2>1. bm.num_nonfull_superblocks = Cardinality(Nonfull(sb, heap, GlobalHeap, b))
    BY <1>1 DEF ListInv, ListsOK, CountOK
  <2>2. Nonfull(sb, heap, GlobalHeap, b) # {}
    <3> HIDE DEF bm
    <3> SUFFICES ASSUME Nonfull(sb, heap, GlobalHeap, b) = {}
                 PROVE  Cardinality(Nonfull(sb, heap, GlobalHeap, b)) = 0
      BY <2>1
    <3> QED BY FS_EmptySet
  <2>3. PICK d \in NonfullClasses : InBin(sb, heap, GlobalHeap, b, d) # {}
    BY <2>2 DEF Nonfull
  <2>4. bm.emptiness_bins[d] # NULL
    BY <2>3 DEF InBin, Reach
  <2> HIDE DEF bm
  <2> QED BY <2>4 DEF HasNonfull
<1>3. e \in NonfullClasses /\ bm.emptiness_bins[e] # NULL
  <2> HIDE DEF bm
  <2> QED BY <1>2, FullestFound
<1> HIDE DEF e
<1>4. DeleteDefined(sb, e, bm.emptiness_bins[e])
  BY <1>1, <1>3, LinksDefined
<1> QED BY <1>2, <1>4

(* A heap that is found empty enough has something to give.                *)
LEMMA GiveIsDefined ==
    ASSUME IInv, ListInv, NEW t \in Threads, At(t, "account"),
           heap[th[t].heap].recycled_superblock = NULL
    PROVE  GiveDefined(t)
<1> DEFINE h == th[t].heap
           c == find_emptiest_sb(heap[h])
<1>1. th[t].pc = "account" /\ PlaceOK(sb, heap, th[t])
  BY DEF At, ListInv, PlacesOK
<1>2. h \in Heaps
  BY <1>1, Facts DEF PlaceIn, FreePlaces
<1>3. Candidates(heap[h]) # {}
  BY <1>1 DEF PlaceOK, CanGive
<1>4. c \in Candidates(heap[h])
  BY <1>3, EmptiestFound
<1> HIDE DEF h, c
<1>5. /\ c[1] \in Bins /\ c[2] \in NonfullClasses
      /\ heap[h].size_bins[c[1]].emptiness_bins[c[2]] # NULL
  BY <1>4 DEF Candidates
<1>6. c[2] \in EmptinessClasses
  BY <1>5, NonfullClass
<1>7. DeleteDefined(sb, c[2], heap[h].size_bins[c[1]].emptiness_bins[c[2]])
  BY <1>2, <1>5, <1>6, LinksDefined
<1> QED BY <1>3, <1>7 DEF GiveDefined, h, c

LEMMA InsertIsDefined ==
    ASSUME IInv, ListInv, NEW t \in Threads
    PROVE  InsertDefined(t)
<1> DEFINE b    == th[t].bin_idx
           e    == th[t].eidx
           head == heap[GlobalHeap].size_bins[b].emptiness_bins[e]
<1> SUFFICES ASSUME e # -1
             PROVE  PushDefined(sb, heap[GlobalHeap].size_bins[b], e)
  BY DEF InsertDefined
<1>1. /\ b \in Bins /\ GlobalHeap \in Heaps /\ e \in NonfullClasses
  BY Facts, TypedNow DEF PlaceIn, Thread
<1>2. e \in EmptinessClasses
  BY <1>1, NonfullClass
<1>3. head # NULL => sb[head].prev # NULL
  <2> HIDE DEF b, e
  <2> QED BY <1>1, <1>2, LinksDefined
<1> QED BY <1>2, <1>3 DEF PushDefined

LEMMA NothingFaults ==
    ASSUME IInv, BlocksInv, ListInv, DeletedFromItsList, AllocatesFromItsBin,
           NEW t \in Threads
    PROVE  ~Faults(t)
<1>1. At(t, "get_sb_from_global") => TakeDefined(t)
  BY TakeIsDefined
<1>2. At(t, "sb_alloc") => AllocDefined(t)
  BY SuperblockAllocLists
<1>3. At(t, "bin_free") => BinFreeDefined(t)
  BY BinFreeLists
<1>4. At(t, "account") /\ heap[th[t].heap].recycled_superblock = NULL => GiveDefined(t)
  BY GiveIsDefined
<1> QED BY <1>1, <1>2, <1>3, <1>4, InsertIsDefined DEF Faults

-----------------------------------------------------------------------------
(* Every state *)

LEMMA ListInitially == Init => ListInv
<1> SUFFICES ASSUME Init PROVE ListInv
  OBVIOUS
<1>1. /\ \A s \in Superblocks : sb[s].owner = NULL
      /\ \A t \in Threads : th[t] = IdleThread
      /\ \A h \in Heaps : heap[h] = EmptyHeap
      /\ crashed = FALSE
  BY DEF Init, Unmapped
<1>2. /\ \A h \in Heaps, b \in Bins, e \in EmptinessClasses : InBin(sb, heap, h, b, e) = {}
      /\ \A h \in Heaps : InRecycling(sb, heap, h) = {}
  BY <1>1 DEF EmptyHeap, EmptyBinManager, InBin, InRecycling, Reach
<1>3. ListsOK(sb, heap)
  <2>1. \A h \in Heaps, b \in Bins, e \in EmptinessClasses : BinOK(sb, heap, h, b, e)
    BY <1>2 DEF BinOK, Ring
  <2>2. \A h \in Heaps : RecyclingOK(sb, heap, h)
    BY <1>2 DEF RecyclingOK, Stack
  <2>3. ASSUME NEW h \in Heaps, NEW b \in Bins PROVE CountOK(sb, heap, h, b)
    <3>1. heap[h].size_bins[b].num_nonfull_superblocks = 0
      BY <1>1 DEF EmptyHeap, EmptyBinManager
    <3>2. NonfullClasses \subseteq EmptinessClasses
      BY NonfullClass
    <3>3. Nonfull(sb, heap, h, b) = {}
      BY <1>2, <3>2 DEF Nonfull
    <3>4. Cardinality(Nonfull(sb, heap, h, b)) = 0
      BY <3>3, FS_EmptySet
    <3> QED BY <3>1, <3>4 DEF CountOK
  <2> QED BY <2>1, <2>2, <2>3 DEF ListsOK
<1>4. PlacesOK /\ HandsApart
  BY <1>1, IdleElsewhere, ElsewhereOK DEF PlacesOK, HandsApart
<1>5. Mapped = {}
  BY <1>1 DEF Mapped
<1>6. AllocedOK
  <2> SUFFICES ASSUME NEW h \in ThreadHeaps
               PROVE  heap[h].alloced = SUPERBLOCK_SIZE * Cardinality(Owned(h))
    BY DEF AllocedOK
  <2>1. heap[h].alloced = 0
    BY <1>1 DEF EmptyHeap, Heaps
  <2>2. Owned(h) = {}
    BY <1>1, HeapAssumption DEF Owned, Heaps
  <2>3. Cardinality(Owned(h)) = 0
    BY <2>2, FS_EmptySet
  <2> QED BY <2>1, <2>3, SizesAssumption
<1> QED BY <1>1, <1>3, <1>4, <1>5, <1>6 DEF ListInv, AllCut, Placed

LEMMA StoppedLists ==
    ASSUME ListInv, UNCHANGED vars
    PROVE  ListInv'
  BY DEF vars, ListInv, PlacesOK, HandsApart, AllCut, Placed, AllocedOK, Mapped, Owned

LEMMA ListInductive ==
    IInv /\ BlocksInv /\ ListInv /\ DeletedFromItsList /\ AllocatesFromItsBin /\ [Next]_vars
    => ListInv'
<1> SUFFICES ASSUME IInv, BlocksInv, ListInv, DeletedFromItsList, AllocatesFromItsBin,
                    [Next]_vars
             PROVE  ListInv'
  OBVIOUS
<1>1. ASSUME NEW t \in Threads, Call(t) PROVE ListInv'
  BY <1>1, CallLists
<1>2. ASSUME NEW t \in Threads, Continue(t) PROVE ListInv'
  <2>1. CASE LockHeap(t) \/ AskGlobal(t) \/ LockGlobal(t) \/ TakeNothing(t) \/ LockOwner(t)
    BY <2>1, WaitingLists
  <2>2. CASE ChooseInBin(t)
    BY <2>2, ChooseInBinLists
  <2>3. CASE Recycle(t)
    BY <2>3, RecycleLists
  <2>4. CASE TakeNonfull(t)
    BY <2>4, TakeNonfullLists
  <2>5. CASE TakeRecycled(t)
    BY <2>5, TakeRecycledLists
  <2>6. CASE Adopt(t)
    BY <2>6, AdoptLists
  <2>7. CASE \E s \in Superblocks : MapSuperblock(t, s)
    BY <2>7, MapSuperblockLists
  <2>8. CASE MmapFails(t)
    BY <2>8, MmapFailsLists
  <2>9. CASE SuperblockAlloc(t)
    BY <2>9, SuperblockAllocLists DEF SuperblockAlloc
  <2>10. CASE LockSuperblock(t)
    BY <2>10, LockSuperblockLists
  <2>11. CASE BinFree(t)
    BY <2>11, BinFreeLists DEF BinFree
  <2>12. CASE FreeFromGlobal(t)
    BY <2>12, FreeFromGlobalLists
  <2>13. CASE FreeAndKeep(t)
    BY <2>13, FreeAndKeepLists
  <2>14. CASE GiveRecycled(t)
    BY <2>14, GiveRecycledLists
  <2>15. CASE GiveEmptiest(t)
    BY <2>15, GiveEmptiestLists
  <2>16. CASE LockGlobalForTransfer(t)
    BY <2>16, LockGlobalForTransferLists
  <2>17. CASE InsertRecycled(t)
    BY <2>17, InsertRecycledLists
  <2>18. CASE InsertIntoBin(t)
    BY <2>18, InsertIntoBinLists
  <2>19. CASE Crash(t)
    BY <2>19, NothingFaults DEF Crash
  <2> QED BY <1>2, <2>1, <2>2, <2>3, <2>4, <2>5, <2>6, <2>7, <2>8, <2>9, <2>10, <2>11,
              <2>12, <2>13, <2>14, <2>15, <2>16, <2>17, <2>18, <2>19 DEF Continue
<1>3. CASE UNCHANGED vars
  BY <1>3, StoppedLists
<1> QED BY <1>1, <1>2, <1>3 DEF Next, Stopped

-----------------------------------------------------------------------------
(* What the invariant says of the lists                                    *)

LEMMA ListInvSound == IInv /\ ListInv => BinsSound
<1> SUFFICES ASSUME IInv, ListInv, NEW h \in Heaps, NEW b \in Bins
             PROVE  /\ \A e \in EmptinessClasses : \A s \in ListOf(h, b, e) :
                         /\ sb[s].owner = h
                         /\ sb[s].block_size = SizeTable[b]
                         /\ get_eidx(sb[s]) = e
                         /\ sb[s].next # NULL /\ sb[sb[s].next].prev = s
                         /\ sb[s].prev # NULL /\ sb[sb[s].prev].next = s
                    /\ heap[h].size_bins[b].num_nonfull_superblocks =
                         Cardinality(UNION { ListOf(h, b, e) : e \in NonfullClasses })
  BY DEF BinsSound
<1>1. \A e : ListOf(h, b, e) = InBin(sb, heap, h, b, e) /\ ListOf(h, b, e) \subseteq Superblocks
  BY ListIsReach, ReachIn DEF InBin
<1>2. ASSUME NEW e \in EmptinessClasses, NEW s \in ListOf(h, b, e)
      PROVE  /\ sb[s].owner = h
             /\ sb[s].block_size = SizeTable[b]
             /\ get_eidx(sb[s]) = e
             /\ sb[s].next # NULL /\ sb[sb[s].next].prev = s
             /\ sb[s].prev # NULL /\ sb[sb[s].prev].next = s
  <2>1. Ring(sb, InBin(sb, heap, h, b, e)) /\ Fits(sb[s], h, b, e)
    BY <1>1, <1>2 DEF ListInv, ListsOK, BinOK
  <2> QED BY <1>1, <1>2, <2>1, NullAssumption DEF Ring, Fits
<1>3. UNION { ListOf(h, b, e) : e \in NonfullClasses } = Nonfull(sb, heap, h, b)
  BY <1>1 DEF Nonfull
<1>4. heap[h].size_bins[b].num_nonfull_superblocks = Cardinality(Nonfull(sb, heap, h, b))
  BY DEF ListInv, ListsOK, CountOK
<1> QED BY <1>2, <1>3, <1>4

LEMMA ListInvApart == ListInv => OnOneListOnly
<1> SUFFICES ASSUME ListInv PROVE OnOneListOnly
  OBVIOUS
<1> DEFINE Lists == { l \in Heaps \X Bins \X EmptinessClasses :
                        heap[l[1]].size_bins[l[2]].emptiness_bins[l[3]] # NULL }
           Members(l) == ListOf(l[1], l[2], l[3])
<1>1. /\ \A l \in Lists : /\ l[1] \in Heaps /\ l[2] \in Bins /\ l[3] \in EmptinessClasses
                          /\ Members(l) = InBin(sb, heap, l[1], l[2], l[3])
      /\ \A h : RecycledBy(h) = InRecycling(sb, heap, h)
  BY ListIsReach DEF InBin, InRecycling
<1>2. ASSUME NEW k \in Lists, NEW l \in Lists, NEW s \in Members(k) \cap Members(l)
      PROVE  k = l
  <2>1. k[1] = l[1] /\ k[2] = l[2] /\ k[3] = l[3]
    <3>1. /\ k[1] \in Heaps /\ k[2] \in Bins /\ k[3] \in EmptinessClasses
          /\ l[1] \in Heaps /\ l[2] \in Bins /\ l[3] \in EmptinessClasses
          /\ s \in InBin(sb, heap, k[1], k[2], k[3]) /\ s \in InBin(sb, heap, l[1], l[2], l[3])
      BY <1>1, <1>2
    <3>2. ListsOK(sb, heap)
      BY DEF ListInv
    <3> HIDE DEF Lists, Members
    <3> QED BY <3>1, <3>2, ListsApart
  <2>2. k \in Heaps \X Bins \X EmptinessClasses /\ l \in Heaps \X Bins \X EmptinessClasses
    BY DEF Lists
  <2> HIDE DEF Lists
  <2>3. k = << k[1], k[2], k[3] >> /\ l = << l[1], l[2], l[3] >>
    BY <2>2
  <2> QED BY <2>1, <2>3
<1>3. ASSUME NEW h \in Heaps, NEW g \in Heaps, NEW s \in RecycledBy(h) \cap RecycledBy(g)
      PROVE  h = g
  <2>1. s \in InRecycling(sb, heap, h) /\ s \in InRecycling(sb, heap, g) /\ ListsOK(sb, heap)
    BY <1>1, <1>3 DEF ListInv
  <2> QED BY <2>1, ListsApart
<1>4. ASSUME NEW h \in Heaps, NEW l \in Lists, NEW s \in RecycledBy(h) \cap Members(l)
      PROVE  FALSE
  <2>1. /\ l[1] \in Heaps /\ l[2] \in Bins /\ l[3] \in EmptinessClasses
        /\ s \in InBin(sb, heap, l[1], l[2], l[3]) /\ s \in InRecycling(sb, heap, h)
    BY <1>1, <1>4
  <2>2. ListsOK(sb, heap)
    BY DEF ListInv
  <2> HIDE DEF Lists, Members
  <2> QED BY <2>1, <2>2, ListsApart
<1> HIDE DEF Lists, Members
<1>5. /\ \A k, l \in Lists : k # l => Members(k) \cap Members(l) = {}
      /\ \A h, g \in Heaps : h # g => RecycledBy(h) \cap RecycledBy(g) = {}
      /\ \A h \in Heaps, l \in Lists : RecycledBy(h) \cap Members(l) = {}
  BY <1>2, <1>3, <1>4
<1> QED BY <1>5 DEF OnOneListOnly, Lists, Members

LEMMA ListInvHands == ListInv => HandedOver
<1>1. \A t \in Threads : InHandOf(t) = InHand(th[t])
  BY DEF InHandOf, InHand
<1>2. ASSUME ListInv, NEW t \in Threads, NEW s \in InHand(th[t])
      PROVE  /\ ~Listed(sb, heap, s)
             /\ \A u \in Threads \ {t} : s \notin InHand(th[u])
  BY <1>2 DEF ListInv, PlacesOK, PlaceOK, HandsApart
<1>3. /\ \A h, b, e : ListOf(h, b, e) = InBin(sb, heap, h, b, e)
      /\ \A h : RecycledBy(h) = InRecycling(sb, heap, h)
  BY ListIsReach DEF InBin, InRecycling
<1> QED BY <1>1, <1>2, <1>3 DEF HandedOver, Listed

LEMMA ListInvEmpty == IInv /\ BlocksInv /\ ListInv => RecycledEmpty
<1> SUFFICES ASSUME IInv, BlocksInv, ListInv, NEW h \in Heaps, NEW s \in RecycledBy(h)
             PROVE  is_superblock_empty(sb[s]) /\ HeldIn(s) = {} /\ BeingFreed(s) = {}
  BY DEF RecycledEmpty
<1>1. s \in InRecycling(sb, heap, h) /\ s \in Superblocks
  BY ListIsReach, ReachIn DEF InRecycling
<1>2. sb[s].owner = h /\ is_superblock_empty(sb[s])
  BY <1>1 DEF ListInv, ListsOK, RecyclingOK
<1>3. s \in Mapped
  BY <1>1, <1>2, HeapAssumption DEF Mapped
<1>4. BlocksOK(sb[s], HeldIn(s), BeingFreed(s), th) /\ sb[s] \in SuperblockHeader(Heaps)
  BY <1>1, <1>3, TypedNow DEF BlocksInv
<1>5. /\ IsFiniteSet(HeldIn(s)) /\ IsFiniteSet(BeingFreed(s))
      /\ sb[s].total_blocks - sb[s].num_free_blocks
           = Cardinality(HeldIn(s)) + Cardinality(BeingFreed(s))
  BY <1>4 DEF BlocksOK
<1>6. sb[s].total_blocks - sb[s].num_free_blocks = 0
  BY <1>2, <1>4, HeaderTypes DEF is_superblock_empty
<1>7. Cardinality(HeldIn(s)) = 0 /\ Cardinality(BeingFreed(s)) = 0
  <2>1. Cardinality(HeldIn(s)) \in Nat /\ Cardinality(BeingFreed(s)) \in Nat
    BY <1>5, FS_CardinalityType
  <2> QED BY <1>5, <1>6, <2>1
<1> QED BY <1>2, <1>5, <1>7, FS_EmptySet

LEMMA ListInvExact == ListInv => AllocedExact /\ NoCrash
  BY DEF ListInv, AllocedOK, AllocedExact, NoCrash

LEMMA ListInvHolds ==
    Spec /\ []DeletedFromItsList /\ []AllocatesFromItsBin => [](IInv /\ BlocksInv /\ ListInv)
<1>1. Init => IInv /\ BlocksInv /\ ListInv
  BY Initially, BlocksInitially, ListInitially
<1>2. /\ IInv /\ BlocksInv /\ ListInv
      /\ DeletedFromItsList /\ AllocatesFromItsBin /\ [Next]_vars
      => (IInv /\ BlocksInv /\ ListInv)'
  <2>1. IInv /\ BlocksInv /\ ListInv => RecycledEmpty
    BY ListInvEmpty
  <2> QED BY <2>1, Inductive, BlocksInductive, ListInductive
<1> QED BY <1>1, <1>2, PTL DEF Spec

-----------------------------------------------------------------------------
(* The theorems.  Each holds of every behaviour in which delete_from_bin   *)
(* is called for superblocks that are in the list, as its comment assumes, *)
(* and blocks come from superblocks cut for them.                          *)

(* The lists of a heap stay circular, doubly linked and sorted by owner,   *)
(* block size and fullness, and num_nonfull_superblocks is exact, whatever *)
(* the order in which threads push, delete, transfer and adopt.            *)
THEOREM ListsSound ==
    Spec /\ []DeletedFromItsList /\ []AllocatesFromItsBin => []BinsSound
<1>1. IInv /\ BlocksInv /\ ListInv => BinsSound
  BY ListInvSound
<1> QED BY <1>1, ListInvHolds, PTL

(* No superblock is on two lists: one that leaves a bin, a recycling bin   *)
(* or a heap has left it before it is put anywhere else.                   *)
THEOREM OneListEach ==
    Spec /\ []DeletedFromItsList /\ []AllocatesFromItsBin => []OnOneListOnly
<1>1. IInv /\ BlocksInv /\ ListInv => OnOneListOnly
  BY ListInvApart
<1> QED BY <1>1, ListInvHolds, PTL

(* A superblock between two lists is in one thread's hands and on no list, *)
(* also where its owner is out of date and no mutex guards it.             *)
THEOREM HandsAreApart ==
    Spec /\ []DeletedFromItsList /\ []AllocatesFromItsBin => []HandedOver
<1>1. IInv /\ BlocksInv /\ ListInv => HandedOver
  BY ListInvHands
<1> QED BY <1>1, ListInvHolds, PTL

(* What reset_superblock cuts anew is empty: no block of it is with the    *)
(* program or in a call of free.                                           *)
THEOREM RecyclingIsSafe ==
    Spec /\ []DeletedFromItsList /\ []AllocatesFromItsBin => []RecycledEmpty
<1>1. IInv /\ BlocksInv /\ ListInv => RecycledEmpty
  BY ListInvEmpty
<1> QED BY <1>1, ListInvHolds, PTL

(* `alloced' is the memory of the superblocks a heap owns: map, adopt and  *)
(* transfer account for each superblock exactly once.                      *)
THEOREM AllocedIsExact ==
    Spec /\ []DeletedFromItsList /\ []AllocatesFromItsBin => []AllocedExact
<1>1. IInv /\ BlocksInv /\ ListInv => AllocedExact
  BY ListInvExact
<1> QED BY <1>1, ListInvHolds, PTL

(* heap_alloc and heap_free dereference no null pointer and index no array *)
(* out of bounds: the count and the links always lead to the superblock    *)
(* the code goes on to use.                                                *)
THEOREM NothingCrashes ==
    Spec /\ []DeletedFromItsList /\ []AllocatesFromItsBin => []NoCrash
<1>1. IInv /\ BlocksInv /\ ListInv => NoCrash
  BY ListInvExact
<1> QED BY <1>1, ListInvHolds, PTL

(* Under these hypotheses, too, no two blocks overlap and none is lost.    *)
THEOREM BlocksInOrder ==
    Spec /\ []DeletedFromItsList /\ []AllocatesFromItsBin
    => [](BlocksDisjoint /\ EveryBlockAccounted)
<1>1. IInv /\ BlocksInv /\ ListInv => BlocksDisjoint /\ EveryBlockAccounted
  BY BlocksInvImplies
<1> QED BY <1>1, ListInvHolds, PTL

=============================================================================
