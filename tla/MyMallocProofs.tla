--------------------------- MODULE MyMallocProofs ---------------------------
(***************************************************************************)
(* What holds of the malloc interface for any number of threads, blocks    *)
(* and sizes.                                                              *)
(*                                                                         *)
(* The first sections follow who holds which block (UseInv), the last what *)
(* is in memory (MemInv): a block is large enough, keeps what the program  *)
(* wrote, and is told apart from the blocks of the other kind by its tag,  *)
(* wherever the code allows it.                                            *)
(***************************************************************************)
EXTENDS MyMallocProperties, TableInitProofs

-----------------------------------------------------------------------------
(* The interface uses the size table as TableInit says.                    *)

LEMMA CallsUseTable ==
    ASSUME NEW t \in Threads, Call(t)
    PROVE  [TableNext]_tableVars
<1>1. ASSUME NEW size, CallMalloc(t, size)  PROVE TableNext
  BY <1>1 DEF CallMalloc, Enter, TableNext
<1>2. ASSUME NEW n, NEW size, CallCalloc(t, n, size)  PROVE TableNext
  BY <1>2 DEF CallCalloc, Enter, TableNext
<1>3. ASSUME NEW b, NEW size, CallRealloc(t, b, size)  PROVE TableNext
  BY <1>3 DEF CallRealloc, Enter, TableNext
<1>4. ASSUME NEW b, NEW size, CallReallocLarge(t, b, size)  PROVE UNCHANGED tableVars
  BY <1>4 DEF CallReallocLarge
<1>5. ASSUME NEW b, CallFree(t, b)  PROVE UNCHANGED tableVars
  BY <1>5 DEF CallFree
<1>6. ASSUME NEW b, NEW w, Write(t, b, w)  PROVE UNCHANGED tableVars
  BY <1>6 DEF Write
<1>. QED  BY <1>1, <1>2, <1>3, <1>4, <1>5, <1>6 DEF Call

LEMMA StepsUseTable ==
    ASSUME [Next]_vars
    PROVE  [TableNext]_tableVars
<1>1. ASSUME NEW t \in Threads, InitSizeTable(t)  PROVE TableNext
  BY <1>1 DEF TableNext
<1>2. ASSUME NEW t \in Threads, NEW p, HeapAlloc(t, p)  PROVE TableNext
  BY <1>2 DEF HeapAlloc, TableNext
<1>3. ASSUME NEW t \in Threads, NEW r, large_alloc(t, r)  PROVE TableNext
  BY <1>3 DEF large_alloc, TableNext
<1>4. ASSUME NEW t \in Threads, NEW r, LargeMap(t, r)  PROVE UNCHANGED tableVars
  BY <1>4 DEF LargeMap
<1>5. ASSUME NEW t \in Threads, MallocFails(t)  PROVE TableNext
  BY <1>5 DEF MallocFails, TableNext
<1>6. ASSUME NEW t \in Threads, Zero(t) \/ Copy(t) \/ HeapFree(t) \/ large_free(t)
      PROVE  UNCHANGED tableVars
  BY <1>6 DEF Zero, Copy, HeapFree, large_free
<1>7. ASSUME NEW t \in Threads, LargeMapFails(t) \/ LargeCopy(t) \/ Crash(t)
      PROVE  UNCHANGED tableVars
  BY <1>7 DEF LargeMapFails, LargeCopy, Crash
<1>8. Stopped \/ UNCHANGED vars => UNCHANGED tableVars
  BY DEF Stopped, vars
<1>. QED  BY <1>1, <1>2, <1>3, <1>4, <1>5, <1>6, <1>7, <1>8, CallsUseTable
          DEF Next, Continue

(* Every execution of malloc, calloc, realloc and free is one of the size  *)
(* table's, whose theorems so carry over.                                  *)
THEOREM InterfaceUsesTable == Spec => TableSpec
<1>1. Init => TableInit
  BY DEF Init
<1>2. [Next]_vars => [TableNext]_tableVars
  BY StepsUseTable
<1>. QED  BY <1>1, <1>2, PTL DEF Spec, TableSpec

(* No call, of however many threads, goes on with a size table that is not *)
(* complete.                                                               *)
THEOREM CallsFindTable == Spec => []TableReady
  BY InterfaceUsesTable, TableIsReady, PTL

(* Nor does the table change under any call.                               *)
THEOREM CallsFindSameTable == Spec => TableStable
  BY InterfaceUsesTable, TableIsStable, PTL

-----------------------------------------------------------------------------
(* Nothing leaks.  The argument counts places: those of the blocks that    *)
(* the program or a call has a pointer to are those in use, and a step of  *)
(* one thread changes both sides alike.                                    *)

Place(b) == [base |-> b.base, at |-> b.at]
LargePlace(r) == [base |-> r, at |-> SizeOfMmapHeader]

InUse == small \cup { LargePlace(r) : r \in { s \in Mappings : mapped[s] # 0 } }

Reach(t) == held \cup Owned(t)
ReachPlaces(t) == { Place(b) : b \in Reach(t) }
Places == { Place(b) : b \in Blocks }

RealBlock == [ base : Chunks \cup Mappings, at : Cells, size : Nat,
               word : Words \cup {0}, filled : Nat ]

CallType == [ pc : { "idle", "malloc", "zero", "copy", "free", "large_map", "large_copy" },
           op : { "none", "malloc", "calloc", "realloc", "free" },
           size : 0 .. SIZE_MOD - 1, want : Nat, old : RealBlock \cup {NoBlock},
           old_large : BOOLEAN, new : RealBlock \cup {NoBlock} ]

UseTypes ==
    /\ small \subseteq SmallBlocks
    /\ mapped \in [Mappings -> Nat]
    /\ held \subseteq RealBlock
    /\ th \in [Threads -> CallType]

(* Which blocks a call holds follows from where it is.                     *)
Shape(c) ==
    /\ c.pc = "idle" => c.old = NoBlock /\ c.new = NoBlock
    /\ c.pc = "malloc" => /\ c.op \in { "malloc", "calloc", "realloc" }
                          /\ c.op = "realloc" <=> c.old # NoBlock
                          /\ c.new = NoBlock
    /\ c.pc = "zero" => c.old = NoBlock /\ c.new # NoBlock
    /\ c.pc \in { "copy", "large_copy" } => c.old # NoBlock /\ c.new # NoBlock
    /\ c.pc = "large_map" => c.old # NoBlock /\ c.new = NoBlock
    /\ c.pc = "free" => c.old # NoBlock

(* OneOwner, for what one thread reaches.                                  *)
ReachApart(t) ==
    /\ \A b, c \in held : Is(b, c) => b = c
    /\ \A b \in held : Apart(b, th[t].old) /\ Apart(b, th[t].new)
    /\ Apart(th[t].old, th[t].new)

UseInv ==
    /\ UseTypes
    /\ \A t \in Threads : Shape(th[t])
    /\ OneOwner
    /\ Places = InUse

-----------------------------------------------------------------------------
LEMMA SamePlace ==
    ASSUME NEW b, NEW c
    PROVE  Is(b, c) <=> Place(b) = Place(c)
  BY DEF Is, Place

(* The other threads' blocks.                                              *)
Others(t) == UNION { Owned(u) : u \in Threads \ {t} }
OtherPlaces(t) == { Place(b) : b \in Others(t) }

LEMMA PlacesSplit ==
    ASSUME NEW t \in Threads
    PROVE  /\ Places = ReachPlaces(t) \cup OtherPlaces(t)
           /\ Places' = ReachPlaces(t)' \cup OtherPlaces(t)'
<1>1. Blocks = Reach(t) \cup Others(t)
  BY Zenon DEF Blocks, Reach, Others
<1>2. Blocks' = Reach(t)' \cup Others(t)'
  BY Zenon DEF Blocks, Reach, Others
<1>. QED  BY <1>1, <1>2 DEF Places, ReachPlaces, OtherPlaces

LEMMA OthersApart ==
    ASSUME NEW t \in Threads, OneOwner, NoBlock \notin held
    PROVE  ReachPlaces(t) \cap OtherPlaces(t) = {}
<1>. SUFFICES ASSUME NEW b \in Reach(t), NEW c \in Others(t)
              PROVE  Place(b) # Place(c)
  BY DEF ReachPlaces, OtherPlaces
<1>1. PICK u \in Threads \ {t} : c \in Owned(u)
  BY DEF Others
<1>2. c # NoBlock /\ (c = th[u].old \/ c = th[u].new)
  BY <1>1 DEF Owned
<1>3. ~Is(b, c)
  <2>1. CASE b \in held
    <3>1. b # NoBlock
      BY <2>1
    <3>. QED  BY <1>1, <1>2, <2>1, <3>1 DEF OneOwner, Apart
  <2>2. CASE b \in Owned(t)
    <3>1. b # NoBlock /\ (b = th[t].old \/ b = th[t].new)
      BY <2>2 DEF Owned
    <3>. QED  BY <1>1, <1>2, <3>1 DEF OneOwner, Apart, Is
  <2>. QED  BY <2>1, <2>2 DEF Reach
<1>. QED  BY <1>3, SamePlace

-----------------------------------------------------------------------------
(* Blocks and their places *)

PlacesOf(b) == IF b = NoBlock THEN {} ELSE { Place(b) }
HeldPlaces == { Place(b) : b \in held }

LEMMA ReachPlacesAre ==
    ASSUME NEW t \in Threads
    PROVE  /\ ReachPlaces(t) = HeldPlaces \cup PlacesOf(th[t].old) \cup PlacesOf(th[t].new)
           /\ ReachPlaces(t)' = HeldPlaces' \cup PlacesOf(th'[t].old) \cup PlacesOf(th'[t].new)
  BY DEF ReachPlaces, Reach, Owned, HeldPlaces, PlacesOf

LEMMA ReachInUse ==
    ASSUME NEW t \in Threads, UseInv
    PROVE  ReachPlaces(t) \subseteq InUse
  BY PlacesSplit DEF UseInv

LEMMA BlockFacts ==
    /\ NoBlock = [base |-> NULL, at |-> 0, size |-> 0, word |-> 0, filled |-> 0]
    /\ NoBlock \notin RealBlock
    /\ Idle \in CallType /\ Idle.old = NoBlock /\ Idle.new = NoBlock /\ Idle.pc = "idle"
    /\ NULL \notin Chunks /\ NULL \notin Mappings
    /\ SmallBlocks \subseteq [ base : Chunks, at : Cells ]
    /\ SizeOfMmapHeader \in Cells
<1>1. MaxCells \in Nat /\ MaxCells > 2 /\ SIZE_MOD \in Nat /\ SIZE_MOD > MaxCells
  BY InterfaceAssumption DEF SizeOfMmapHeader
<1>2. NoBlock = [base |-> NULL, at |-> 0, size |-> 0, word |-> 0, filled |-> 0]
  BY DEF NoBlock, BlockAt
<1>3. 0 \in Cells /\ SizeOfMmapHeader \in Cells
  BY <1>1 DEF Cells, SizeOfMmapHeader
<1>4. NULL \notin Chunks /\ NULL \notin Mappings /\ NoBlock \notin RealBlock
  BY <1>2, InterfaceAssumption DEF RealBlock
<1>5. 0 \in 0 .. SIZE_MOD - 1
  BY <1>1
<1>6. Idle = [pc |-> "idle", op |-> "none", size |-> 0, want |-> 0,
              old |-> NoBlock, old_large |-> FALSE, new |-> NoBlock]
  BY DEF Idle, Calling
<1>7. Idle \in CallType
  BY <1>5, <1>6 DEF CallType
<1>8. ASSUME NEW b \in SmallBlocks  PROVE b \in [ base : Chunks, at : Cells ]
  <2>1. b \in [ base : Chunks, at : Nat ] /\ b.at + Table[ChunkBin[b.base]] <= MaxCells
    BY InterfaceAssumption
  <2>2. Table[ChunkBin[b.base]] \in Nat /\ Table[ChunkBin[b.base]] > 0
    <3>1. ChunkBin[b.base] \in TableBins
      BY <2>1, InterfaceAssumption
    <3>2. Table[0] > 0
      BY TableFacts, TableAssumption DEF RightTable
    <3>. QED  BY <3>1, <3>2, SizesServeBins, TableFacts DEF TableBins
  <2>. QED  BY <1>1, <2>1, <2>2 DEF Cells
<1>. QED  BY <1>2, <1>3, <1>4, <1>6, <1>7, <1>8

LEMMA NewBlockType ==
    ASSUME NEW p, p.base \in Chunks \cup Mappings, p.at \in Cells, NEW size \in Nat
    PROVE  /\ BlockAt(p, size) \in RealBlock
           /\ Place(BlockAt(p, size)) = [base |-> p.base, at |-> p.at]
  BY DEF BlockAt, RealBlock, Place

LEMMA SameBlock ==
    ASSUME NEW b \in RealBlock, NEW word \in Words \cup {0}, NEW n \in Nat
    PROVE  /\ Holding(b, word, n) \in RealBlock
           /\ Place(Holding(b, word, n)) = Place(b)
  BY DEF Holding, RealBlock, Place

-----------------------------------------------------------------------------
(* Steps *)

(* A step of thread t is sound if it leaves t's blocks apart and changes   *)
(* the places in use as those it reaches, taking only free ones.           *)
LEMMA ReachStep ==
    ASSUME NEW t \in Threads, UseInv, UseTypes',
           th' = [th EXCEPT ![t] = th'[t]], Shape(th[t])', ReachApart(t)',
           InUse' = (InUse \ ReachPlaces(t)) \cup ReachPlaces(t)',
           ReachPlaces(t)' \cap (InUse \ ReachPlaces(t)) = {}
    PROVE  UseInv'
<1>. USE DEF UseInv
<1>1. \A u \in Threads \ {t} : th'[u] = th[u]
  BY DEF UseTypes
<1>2. \A u \in Threads \ {t} : Owned(u)' = Owned(u)
  BY <1>1 DEF Owned
<1>3. Others(t)' = Others(t)
  BY <1>2 DEF Others
<1>4. OtherPlaces(t)' = OtherPlaces(t)
  BY <1>3 DEF OtherPlaces
<1>5. InUse = ReachPlaces(t) \cup OtherPlaces(t)
        /\ ReachPlaces(t) \cap OtherPlaces(t) = {}
  BY PlacesSplit, OthersApart, BlockFacts DEF UseTypes
<1>6. Places' = ReachPlaces(t)' \cup OtherPlaces(t)
  BY <1>4, PlacesSplit
<1>7. Places' = InUse'
  BY <1>5, <1>6
<1>8. ReachPlaces(t)' \cap OtherPlaces(t) = {}
  BY <1>5
<1>9. ASSUME NEW b \in Reach(t)', NEW u \in Threads \ {t}, NEW c \in Owned(u)
      PROVE  ~Is(b, c)
  <2>1. Place(b) \in ReachPlaces(t)'
    BY DEF ReachPlaces
  <2>2. Place(c) \in OtherPlaces(t)
    BY DEF OtherPlaces, Others
  <2>. QED  BY <1>8, <2>1, <2>2, SamePlace
<1>10. ASSUME NEW u \in Threads \ {t}, NEW b
       PROVE  /\ b \in held' => Apart(b, th'[u].old) /\ Apart(b, th'[u].new)
              /\ b \in { th'[t].old, th'[t].new } =>
                   Apart(b, th'[u].old) /\ Apart(b, th'[u].new)
  BY <1>1, <1>9 DEF Apart, Reach, Owned
<1>11. \A b, c : Apart(b, c) <=> Apart(c, b)
  BY DEF Apart, Is
<1>12. OneOwner'
  <2>1. \A b, c \in held' : Is(b, c) => b = c
    BY DEF ReachApart
  <2>2. \A b \in held', u \in Threads : Apart(b, th'[u].old) /\ Apart(b, th'[u].new)
    BY <1>10 DEF ReachApart
  <2>3. ASSUME NEW u \in Threads, NEW v \in Threads
        PROVE  /\ Apart(th'[u].old, th'[v].new)
               /\ u # v => Apart(th'[u].old, th'[v].old) /\ Apart(th'[u].new, th'[v].new)
    <3>1. CASE u = t /\ v = t
      BY <3>1 DEF ReachApart
    <3>2. CASE u = t /\ v # t
      BY <1>10, <3>2
    <3>3. CASE u # t /\ v = t
      BY <1>10, <1>11, <3>3
    <3>4. CASE u # t /\ v # t
      BY <1>1, <3>4 DEF OneOwner
    <3>. QED  BY <3>1, <3>2, <3>3, <3>4
  <2>. QED  BY <2>1, <2>2, <2>3 DEF OneOwner
<1>13. \A u \in Threads : Shape(th[u])'
  BY <1>1
<1>. QED  BY <1>7, <1>12, <1>13

(* The same, in terms of the call that follows.                            *)
Before(t) == HeldPlaces \cup PlacesOf(th[t].old) \cup PlacesOf(th[t].new)

LEMMA CallStep ==
    ASSUME NEW t \in Threads, UseInv,
           NEW c \in CallType, th' = [th EXCEPT ![t] = c], Shape(c),
           held' \subseteq RealBlock, small' \subseteq SmallBlocks,
           mapped' \in [Mappings -> Nat],
           \A b, d \in held' : Is(b, d) => b = d,
           \A b \in held' : Apart(b, c.old) /\ Apart(b, c.new),
           Apart(c.old, c.new),
           NEW after, after = HeldPlaces' \cup PlacesOf(c.old) \cup PlacesOf(c.new),
           InUse' = (InUse \ Before(t)) \cup after,
           after \cap (InUse \ Before(t)) = {}
    PROVE  UseInv'
<1>1. th'[t] = c /\ th' = [th EXCEPT ![t] = th'[t]]
  BY DEF UseInv, UseTypes
<1>2. UseTypes'
  BY DEF UseInv, UseTypes
<1>3. Shape(th[t])' /\ ReachApart(t)'
  BY <1>1 DEF ReachApart
<1>4. ReachPlaces(t) = Before(t) /\ ReachPlaces(t)' = after
  BY <1>1, ReachPlacesAre DEF Before
<1>. QED  BY <1>1, <1>2, <1>3, <1>4, ReachStep

LEMMA BeforeInUse ==
    ASSUME NEW t \in Threads, UseInv
    PROVE  Before(t) \subseteq InUse
  BY ReachPlacesAre, ReachInUse DEF Before

(* Only the place of t's call changes, or not even that.                   *)
LEMMA KeepStep ==
    ASSUME NEW t \in Threads, UseInv,
           NEW c \in CallType, th' = [th EXCEPT ![t] = c], Shape(c),
           PlacesOf(c.old) = PlacesOf(th[t].old), PlacesOf(c.new) = PlacesOf(th[t].new),
           UNCHANGED << held, small, mapped >>
    PROVE  UseInv'
<1>1. \A b, d : Apart(b, d) <=> PlacesOf(b) \cap PlacesOf(d) = {}
  BY SamePlace DEF Apart, PlacesOf
<1>2. /\ \A b, d \in held' : Is(b, d) => b = d
      /\ \A b \in held' : Apart(b, c.old) /\ Apart(b, c.new)
      /\ Apart(c.old, c.new)
  BY <1>1 DEF UseInv, OneOwner
<1>3. HeldPlaces' = HeldPlaces /\ InUse' = InUse
  BY DEF HeldPlaces, InUse
<1>4. HeldPlaces' \cup PlacesOf(c.old) \cup PlacesOf(c.new) = Before(t)
  BY <1>3 DEF Before
<1>5. /\ held' \subseteq RealBlock /\ small' \subseteq SmallBlocks
      /\ mapped' \in [Mappings -> Nat]
  BY DEF UseInv, UseTypes
<1>. QED  BY <1>2, <1>3, <1>4, <1>5, BeforeInUse, CallStep

(* A call takes a block from the program.                                  *)
LEMMA TakeStep ==
    ASSUME NEW t \in Threads, UseInv, th[t].pc = "idle", NEW b \in held,
           NEW c \in CallType, th' = [th EXCEPT ![t] = c], Shape(c),
           c.old = b, c.new = NoBlock,
           held' = held \ {b}, UNCHANGED << small, mapped >>
    PROVE  UseInv'
<1>1. th[t].old = NoBlock /\ th[t].new = NoBlock
  BY DEF UseInv, Shape
<1>2. b \in RealBlock /\ b # NoBlock
  BY BlockFacts DEF UseInv, UseTypes
<1>3. /\ \A d, e \in held' : Is(d, e) => d = e
      /\ \A d \in held' : Apart(d, c.old) /\ Apart(d, c.new)
      /\ Apart(c.old, c.new)
  BY DEF UseInv, OneOwner, Apart
<1>4. InUse' = InUse
  BY DEF InUse
<1>5. HeldPlaces' \cup PlacesOf(c.old) \cup PlacesOf(c.new) = Before(t)
  BY <1>1, <1>2 DEF Before, HeldPlaces, PlacesOf
<1>6. /\ held' \subseteq RealBlock /\ small' \subseteq SmallBlocks
      /\ mapped' \in [Mappings -> Nat]
  BY DEF UseInv, UseTypes
<1>. QED  BY <1>3, <1>4, <1>5, <1>6, BeforeInUse, CallStep

(* A call ends and gives the program a block.                              *)
LEMMA HandStep ==
    ASSUME NEW t \in Threads, UseInv, NEW b \in RealBlock,
           Hand(t, b), small' \subseteq SmallBlocks, mapped' \in [Mappings -> Nat],
           Place(b) \notin HeldPlaces, Place(b) \notin InUse \ Before(t),
           InUse' = (InUse \ Before(t)) \cup HeldPlaces \cup {Place(b)}
    PROVE  UseInv'
<1>1. /\ held' = held \cup {b} /\ th' = [th EXCEPT ![t] = Idle]
      /\ Idle \in CallType /\ Shape(Idle) /\ Idle.old = NoBlock /\ Idle.new = NoBlock
  BY BlockFacts DEF Hand, Return, Shape
<1>2. \A d \in held : ~Is(d, b) /\ ~Is(b, d)
  BY SamePlace DEF HeldPlaces
<1>3. /\ \A d, e \in held' : Is(d, e) => d = e
      /\ \A d \in held' : Apart(d, Idle.old) /\ Apart(d, Idle.new)
      /\ Apart(Idle.old, Idle.new)
  BY <1>1, <1>2 DEF UseInv, OneOwner, Apart
<1>4. HeldPlaces' \cup PlacesOf(Idle.old) \cup PlacesOf(Idle.new) = HeldPlaces \cup {Place(b)}
  BY <1>1 DEF HeldPlaces, PlacesOf
<1>5. held' \subseteq RealBlock
  BY <1>1 DEF UseInv, UseTypes
<1>6. (HeldPlaces \cup {Place(b)}) \cap (InUse \ Before(t)) = {}
  BY DEF Before
<1>. QED  BY <1>1, <1>3, <1>4, <1>5, <1>6, CallStep

(* A call ends and gives nothing.                                          *)
LEMMA ReturnStep ==
    ASSUME NEW t \in Threads, UseInv,
           Return(t), held' = held, small' \subseteq SmallBlocks, mapped' \in [Mappings -> Nat],
           InUse' = (InUse \ Before(t)) \cup HeldPlaces
    PROVE  UseInv'
<1>1. /\ th' = [th EXCEPT ![t] = Idle]
      /\ Idle \in CallType /\ Shape(Idle) /\ Idle.old = NoBlock /\ Idle.new = NoBlock
  BY BlockFacts DEF Return, Shape
<1>2. /\ \A d, e \in held' : Is(d, e) => d = e
      /\ \A d \in held' : Apart(d, Idle.old) /\ Apart(d, Idle.new)
      /\ Apart(Idle.old, Idle.new)
  BY <1>1 DEF UseInv, OneOwner, Apart
<1>3. HeldPlaces' \cup PlacesOf(Idle.old) \cup PlacesOf(Idle.new) = HeldPlaces
  BY <1>1 DEF HeldPlaces, PlacesOf
<1>4. held' \subseteq RealBlock
  BY DEF UseInv, UseTypes
<1>5. HeldPlaces \cap (InUse \ Before(t)) = {}
  BY DEF Before
<1>. QED  BY <1>1, <1>2, <1>3, <1>4, <1>5, CallStep

(* A call gets a block.                                                    *)
LEMMA NewStep ==
    ASSUME NEW t \in Threads, UseInv, th[t].new = NoBlock, NEW b \in RealBlock,
           NEW c \in CallType, th' = [th EXCEPT ![t] = c], Shape(c),
           c.old = th[t].old, c.new = b, held' = held,
           small' \subseteq SmallBlocks, mapped' \in [Mappings -> Nat],
           Place(b) \notin InUse, InUse' = InUse \cup {Place(b)}
    PROVE  UseInv'
<1>1. Before(t) = HeldPlaces \cup PlacesOf(th[t].old) /\ Before(t) \subseteq InUse
  BY BeforeInUse DEF Before, PlacesOf
<1>2. b # NoBlock
  BY BlockFacts
<1>3. \A d : d # NoBlock /\ PlacesOf(d) \subseteq InUse => ~Is(d, b)
  BY SamePlace DEF PlacesOf
<1>4. /\ \A d, e \in held' : Is(d, e) => d = e
      /\ \A d \in held' : Apart(d, c.old) /\ Apart(d, c.new)
      /\ Apart(c.old, c.new)
  <2>1. \A d \in held : PlacesOf(d) \subseteq InUse
    BY <1>1 DEF HeldPlaces, PlacesOf
  <2>2. PlacesOf(th[t].old) \subseteq InUse
    BY <1>1
  <2>. QED  BY <1>3, <2>1, <2>2 DEF UseInv, OneOwner, Apart
<1>5. HeldPlaces' = HeldPlaces
  BY DEF HeldPlaces
<1>6. HeldPlaces' \cup PlacesOf(c.old) \cup PlacesOf(c.new) = Before(t) \cup {Place(b)}
  BY <1>1, <1>2, <1>5 DEF PlacesOf
<1>7. held' \subseteq RealBlock
  BY DEF UseInv, UseTypes
<1>8. /\ InUse' = (InUse \ Before(t)) \cup (Before(t) \cup {Place(b)})
      /\ (Before(t) \cup {Place(b)}) \cap (InUse \ Before(t)) = {}
  BY <1>1
<1>. QED  BY <1>4, <1>6, <1>7, <1>8, CallStep

-----------------------------------------------------------------------------
(* How the places in use change *)

LEMMA SmallNotLarge ==
    ASSUME NEW p \in SmallBlocks, NEW r \in Mappings
    PROVE  p # LargePlace(r)
<1>1. p.base \in Chunks /\ r \notin Chunks
  BY InterfaceAssumption
<1>. QED  BY <1>1 DEF LargePlace

LEMMA SmallTaken ==
    ASSUME UseInv, NEW p \in SmallBlocks, p \notin small,
           small' = small \cup {p}, mapped' = mapped
    PROVE  /\ p \notin InUse /\ InUse' = InUse \cup {p} /\ Place(p) = p
           /\ small' \subseteq SmallBlocks
<1>1. p \in [ base : Chunks, at : Cells ]
  BY BlockFacts
<1>. QED  BY <1>1, SmallNotLarge DEF InUse, Place, UseInv, UseTypes

LEMMA SmallFreed ==
    ASSUME UseInv, NEW p \in small, small' = small \ {p}, mapped' = mapped
    PROVE  InUse' = InUse \ {p} /\ small' \subseteq SmallBlocks
  BY SmallNotLarge DEF InUse, UseInv, UseTypes

LEMMA LargeTaken ==
    ASSUME UseInv, NEW r \in Mappings, mapped[r] = 0, NEW n \in Nat, n # 0,
           small' = small, mapped' = [mapped EXCEPT ![r] = n]
    PROVE  /\ LargePlace(r) \notin InUse /\ InUse' = InUse \cup {LargePlace(r)}
           /\ mapped' \in [Mappings -> Nat]
<1>1. \A q, s \in Mappings : LargePlace(q) = LargePlace(s) => q = s
  BY DEF LargePlace
<1>2. { s \in Mappings : mapped'[s] # 0 } = { s \in Mappings : mapped[s] # 0 } \cup {r}
  BY DEF UseInv, UseTypes
<1>. QED  BY <1>1, <1>2, SmallNotLarge DEF InUse, UseInv, UseTypes

(* What a header says is what the mapping has.  It follows from what is in *)
(* memory (MemInv), further down.                                          *)
LengthsRight ==
    \A t \in Threads :
        th[t].pc \in { "free", "large_copy" } /\ th[t].old.base \in Mappings =>
          mapped[th[t].old.base] = InPages(FreedLength(t))

LEMMA LargeFreed ==
    ASSUME UseInv, NEW r \in Mappings, small' = small,
           NEW length, Unmap(r, length), mapped[r] = InPages(length)
    PROVE  /\ InUse' = InUse \ {LargePlace(r)}
           /\ mapped' \in [Mappings -> Nat]
<1>1. \A q, s \in Mappings : LargePlace(q) = LargePlace(s) => q = s
  BY DEF LargePlace
<1>2. mapped' = [mapped EXCEPT ![r] = 0]
  <2>1. mapped[r] - InPages(length) = 0
    BY DEF UseInv, UseTypes
  <2>. QED  BY <2>1 DEF Unmap
<1>3. { s \in Mappings : mapped'[s] # 0 } = { s \in Mappings : mapped[s] # 0 } \ {r}
  BY <1>2 DEF UseInv, UseTypes
<1>. QED  BY <1>1, <1>2, <1>3, SmallNotLarge DEF InUse, UseInv, UseTypes

(* Where the block of a call is.                                           *)
LEMMA OldPlace ==
    ASSUME NEW t \in Threads, UseInv, NEW b \in RealBlock,
           b = th[t].old \/ b = th[t].new
    PROVE  /\ Place(b) \in InUse
           /\ b.base \in Chunks => Place(b) \in small
           /\ b.base \in Mappings => Place(b) = LargePlace(b.base)
<1>1. Place(b) \in InUse
  BY BeforeInUse, BlockFacts DEF Before, PlacesOf
<1>2. Place(b) = [base |-> b.base, at |-> b.at]
  BY DEF Place
<1>3. Place(b).base = b.base
  BY <1>2
<1>4. \A r : LargePlace(r).base = r
  BY DEF LargePlace
<1>5. \A p \in small : p.base \in Chunks
  BY BlockFacts DEF UseInv, UseTypes
<1>. QED  BY <1>1, <1>3, <1>4, <1>5, InterfaceAssumption DEF InUse

(* What is left when a call has freed its old block.                       *)
LEMMA OldFreed ==
    ASSUME NEW t \in Threads, UseInv, th[t].old # NoBlock,
           InUse' = InUse \ {Place(th[t].old)}
    PROVE  InUse' = (InUse \ Before(t)) \cup HeldPlaces \cup PlacesOf(th[t].new)
<1>1. Place(th[t].old) \notin HeldPlaces
  <2>1. \A b \in held : b # NoBlock /\ Apart(b, th[t].old)
    BY BlockFacts DEF UseInv, UseTypes, OneOwner
  <2>. QED  BY <2>1, SamePlace DEF HeldPlaces, Apart
<1>2. Place(th[t].old) \notin PlacesOf(th[t].new)
  <2>1. Apart(th[t].old, th[t].new)
    BY DEF UseInv, OneOwner
  <2>. QED  BY <2>1, SamePlace DEF PlacesOf, Apart
<1>. QED  BY <1>1, <1>2, BeforeInUse DEF Before, PlacesOf

-----------------------------------------------------------------------------
(* Calls *)

(* A call that goes on keeps all but its place in the code and its new     *)
(* block.                                                                  *)
LEMMA GoesOn ==
    ASSUME UseTypes, NEW t \in Threads,
           NEW pc \in { "idle", "malloc", "zero", "copy", "free", "large_map", "large_copy" },
           NEW new \in RealBlock \cup {NoBlock}, GoOn(t, pc, new)
    PROVE  \E c \in CallType :
             /\ th' = [th EXCEPT ![t] = c]
             /\ c.pc = pc /\ c.new = new
             /\ c.op = th[t].op /\ c.old = th[t].old /\ c.old_large = th[t].old_large
             /\ c.size = th[t].size /\ c.want = th[t].want
<1>1. PICK d \in CallType : d = th[t]
  BY DEF UseTypes
<1>2. PICK c : c = [d EXCEPT !.pc = pc, !.new = new]
  OBVIOUS
<1>3. /\ c \in CallType /\ c.pc = pc /\ c.new = new /\ c.op = d.op /\ c.old = d.old
      /\ c.old_large = d.old_large /\ c.size = d.size /\ c.want = d.want
  BY <1>2 DEF CallType
<1>4. th' = [th EXCEPT ![t] = c]
  BY <1>1, <1>2 DEF GoOn
<1>. QED  BY <1>1, <1>3, <1>4

(* What a request asks for fits a call's fields.                           *)
LEMMA RequestFacts ==
    /\ SIZE_MOD \in Nat /\ SIZE_MOD > 2
    /\ \A size \in MallocRequests \cup ReallocRequests : size \in 0 .. SIZE_MOD - 1
    /\ \A r \in CallocRequests :
         r[1] \in 0 .. SIZE_MOD - 1 /\ r[2] \in 0 .. SIZE_MOD - 1
<1>1. SIZE_MOD \in Nat /\ SIZE_MOD > 2
  BY InterfaceAssumption DEF SizeOfMmapHeader
<1>2. \A size \in MallocRequests \cup ReallocRequests : size \in 0 .. SIZE_MOD - 1
  BY <1>1, InterfaceAssumption
<1>. QED  BY <1>1, <1>2, InterfaceAssumption

LEMMA CallingType ==
    ASSUME NEW pc \in { "malloc", "free", "large_map" },
           NEW op \in { "malloc", "calloc", "realloc", "free" },
           NEW size \in 0 .. SIZE_MOD - 1, NEW want \in Nat,
           NEW old \in RealBlock \cup {NoBlock}, NEW old_large \in BOOLEAN
    PROVE  \E c \in CallType :
             /\ c = Calling(pc, op, size, want, old, old_large)
             /\ c.pc = pc /\ c.op = op /\ c.old = old /\ c.new = NoBlock
<1>1. PICK c : c = Calling(pc, op, size, want, old, old_large)
  OBVIOUS
<1>2. c = [pc |-> pc, op |-> op, size |-> size, want |-> want,
           old |-> old, old_large |-> old_large, new |-> NoBlock]
  BY <1>1 DEF Calling
<1>3. c \in CallType
  BY <1>2 DEF CallType
<1>4. c.pc = pc /\ c.op = op /\ c.old = old /\ c.new = NoBlock
  BY <1>2
<1>. QED  BY <1>1, <1>3, <1>4

(* malloc and calloc enter with no block.                                  *)
LEMMA CallMallocUse ==
    ASSUME NEW t \in Threads, UseInv, NEW op \in { "malloc", "calloc" },
           NEW size \in 0 .. SIZE_MOD - 1, NEW want \in Nat,
           Enter(t, Calling("malloc", op, size, want, NoBlock, FALSE)), UNCHANGED held
    PROVE  UseInv'
<1>1. PICK c \in CallType :
        /\ c = Calling("malloc", op, size, want, NoBlock, FALSE)
        /\ c.pc = "malloc" /\ c.op = op /\ c.old = NoBlock /\ c.new = NoBlock
  <2>1. PICK none \in BOOLEAN : none = FALSE
    OBVIOUS
  <2>2. \E c \in CallType :
          /\ c = Calling("malloc", op, size, want, NoBlock, none)
          /\ c.pc = "malloc" /\ c.op = op /\ c.old = NoBlock /\ c.new = NoBlock
    BY CallingType
  <2>. QED  BY <2>1, <2>2
<1>2. th' = [th EXCEPT ![t] = c] /\ UNCHANGED << held, small, mapped >>
  BY <1>1 DEF Enter, memVars
<1>3. Shape(c)
  BY <1>1 DEF Shape
<1>4. th[t].old = NoBlock /\ th[t].new = NoBlock
  BY DEF UseInv, Shape, Enter, At
<1>. QED  BY <1>1, <1>2, <1>3, <1>4, KeepStep

(* realloc and free take the block they are given.                         *)
LEMMA CallWithBlockUse ==
    ASSUME NEW t \in Threads, UseInv, NEW b \in held, At(t, "idle"),
           NEW pc \in { "malloc", "free", "large_map" },
           NEW op \in { "realloc", "free" }, pc = "malloc" => op = "realloc",
           NEW size \in 0 .. SIZE_MOD - 1, NEW old_large \in BOOLEAN,
           th' = [th EXCEPT ![t] = Calling(pc, op, size, size, b, old_large)],
           held' = held \ {b}, UNCHANGED << small, mapped >>
    PROVE  UseInv'
<1>1. b \in RealBlock /\ b # NoBlock
  BY BlockFacts DEF UseInv, UseTypes
<1>2. size \in Nat
  BY RequestFacts
<1>3. PICK c \in CallType :
        /\ c = Calling(pc, op, size, size, b, old_large)
        /\ c.pc = pc /\ c.op = op /\ c.old = b /\ c.new = NoBlock
  BY <1>1, <1>2, CallingType
<1>4. Shape(c)
  BY <1>1, <1>3 DEF Shape
<1>5. th' = [th EXCEPT ![t] = c] /\ th[t].pc = "idle"
  BY <1>3 DEF At
<1>. QED  BY <1>3, <1>4, <1>5, TakeStep

(* A block written to is the same block.                                   *)
LEMMA WriteUse ==
    ASSUME NEW t \in Threads, UseInv, NEW b \in held, NEW w \in Words, Write(t, b, w)
    PROVE  UseInv'
<1>1. b \in RealBlock /\ b.size \in Nat /\ th[t] \in CallType
  BY DEF UseInv, UseTypes, RealBlock
<1>2. PICK d \in RealBlock : d = Holding(b, w, b.size) /\ Place(d) = Place(b)
  BY <1>1, SameBlock
<1>3. held' = (held \ {b}) \cup {d} /\ UNCHANGED << small, mapped, th >>
  BY <1>2 DEF Write
<1>4. \A c : (Is(c, d) <=> Is(c, b)) /\ (Is(d, c) <=> Is(b, c))
  BY <1>2, SamePlace
<1>5. b # NoBlock /\ d # NoBlock
  BY <1>1, BlockFacts
<1>6. /\ \A c, e \in held' : Is(c, e) => c = e
      /\ \A c \in held' : Apart(c, th[t].old) /\ Apart(c, th[t].new)
      /\ Apart(th[t].old, th[t].new)
  BY <1>3, <1>4, <1>5 DEF UseInv, OneOwner, Apart
<1>7. HeldPlaces' = HeldPlaces
  BY <1>2, <1>3 DEF HeldPlaces
<1>8. InUse' = InUse /\ th' = [th EXCEPT ![t] = th[t]]
  BY <1>3 DEF InUse, UseInv, UseTypes
<1>9. held' \subseteq RealBlock
  BY <1>3 DEF UseInv, UseTypes
<1>10. /\ small' \subseteq SmallBlocks /\ mapped' \in [Mappings -> Nat] /\ Shape(th[t])
  BY <1>3 DEF UseInv, UseTypes
<1>11. HeldPlaces' \cup PlacesOf(th[t].old) \cup PlacesOf(th[t].new) = Before(t)
  BY <1>7 DEF Before
<1>12. InUse' = (InUse \ Before(t)) \cup Before(t)
  BY <1>8, BeforeInUse
<1>13. PICK c \in CallType : c = th[t]
  BY <1>1
<1>14. Before(t) = HeldPlaces' \cup PlacesOf(c.old) \cup PlacesOf(c.new)
  BY <1>11, <1>13
<1>15. Before(t) \cap (InUse \ Before(t)) = {}
  OBVIOUS
<1>. QED  BY <1>6, <1>8, <1>9, <1>10, <1>12, <1>13, <1>14, <1>15, CallStep

LEMMA CallUse ==
    ASSUME UseInv, NEW t \in Threads, Call(t)
    PROVE  UseInv'
<1>1. ASSUME NEW size \in MallocRequests, CallMalloc(t, size)  PROVE UseInv'
  <2>1. size \in 0 .. SIZE_MOD - 1 /\ size \in Nat
    BY RequestFacts
  <2>. QED  BY <1>1, <2>1, CallMallocUse DEF CallMalloc
<1>2. ASSUME NEW r \in CallocRequests, CallCalloc(t, r[1], r[2])  PROVE UseInv'
  <2>. DEFINE product == r[1] * r[2]
  <2>1. product \in Nat
    BY RequestFacts
  <2>2. product % SIZE_MOD \in 0 .. SIZE_MOD - 1
    <3>. HIDE DEF product
    <3>. QED  BY <2>1, RequestFacts
  <2>. QED  BY <1>2, <2>1, <2>2, CallMallocUse DEF CallCalloc
<1>3. ASSUME NEW b \in held, NEW size \in ReallocRequests, CallRealloc(t, b, size)
      PROVE  UseInv'
  <2>1. size \in 0 .. SIZE_MOD - 1 /\ is_large_alloc(mem, b) \in BOOLEAN
    BY RequestFacts DEF is_large_alloc
  <2>. QED  BY <1>3, <2>1, CallWithBlockUse DEF CallRealloc, Enter, memVars
<1>4. ASSUME NEW b \in held, NEW size \in ReallocRequests, CallReallocLarge(t, b, size)
      PROVE  UseInv'
  <2>1. size \in 0 .. SIZE_MOD - 1
    BY RequestFacts
  <2>. QED  BY <1>4, <2>1, CallWithBlockUse DEF CallReallocLarge, memVars
<1>5. ASSUME NEW b \in held, CallFree(t, b)  PROVE UseInv'
  <2>1. 0 \in 0 .. SIZE_MOD - 1
    BY RequestFacts
  <2>. QED  BY <1>5, <2>1, CallWithBlockUse DEF CallFree, memVars
<1>. QED  BY <1>1, <1>2, <1>3, <1>4, <1>5, WriteUse DEF Call

-----------------------------------------------------------------------------
(* Calls in progress *)

(* The block malloc has found goes to the caller.                          *)
LEMMA DeliverUse ==
    ASSUME NEW t \in Threads, UseInv, AtMalloc(t),
           NEW p, p.base \in Chunks \cup Mappings, p.at \in Cells, Deliver(t, p),
           NEW place, place = [base |-> p.base, at |-> p.at], place \notin InUse,
           InUse' = InUse \cup {place},
           small' \subseteq SmallBlocks, mapped' \in [Mappings -> Nat]
    PROVE  UseInv'
<1>1. PICK b \in RealBlock : b = BlockAt(p, th[t].want) /\ Place(b) = place
  <2>1. th[t].want \in Nat
    BY DEF UseInv, UseTypes, CallType
  <2>. QED  BY <2>1, NewBlockType
<1>2. /\ th[t].op \in { "malloc", "calloc", "realloc" } /\ th[t].new = NoBlock
      /\ th[t].op = "realloc" <=> th[t].old # NoBlock
  BY DEF AtMalloc, At, UseInv, Shape
<1>3. CASE th[t].op = "malloc"
  <2>1. Hand(t, b)
    BY <1>1, <1>3 DEF Deliver
  <2>2. Before(t) = HeldPlaces
    BY <1>2, <1>3 DEF Before, PlacesOf
  <2>3. HeldPlaces \subseteq InUse
    BY <2>2, BeforeInUse
  <2>. QED  BY <1>1, <2>1, <2>2, <2>3, HandStep
<1>4. ASSUME NEW pc \in { "zero", "copy" }, GoOn(t, pc, b), UNCHANGED held,
             pc = "zero" <=> th[t].op = "calloc", pc = "copy" <=> th[t].op = "realloc"
      PROVE  UseInv'
  <2>1. PICK c \in CallType :
          /\ th' = [th EXCEPT ![t] = c]
          /\ c.pc = pc /\ c.new = b /\ c.op = th[t].op /\ c.old = th[t].old
    BY <1>4, GoesOn DEF UseInv
  <2>2. Shape(c)
    BY <1>2, <1>4, <2>1, BlockFacts DEF Shape
  <2>. QED  BY <1>1, <1>2, <1>4, <2>1, <2>2, NewStep
<1>5. CASE th[t].op = "calloc"
  <2>1. GoOn(t, "zero", b) /\ UNCHANGED held
    BY <1>1, <1>5 DEF Deliver
  <2>. QED  BY <1>4, <1>5, <2>1
<1>6. CASE th[t].op = "realloc"
  <2>1. GoOn(t, "copy", b) /\ UNCHANGED held
    BY <1>1, <1>6 DEF Deliver
  <2>. QED  BY <1>4, <1>6, <2>1
<1>. QED  BY <1>2, <1>3, <1>5, <1>6

LEMMA HeapAllocUse ==
    ASSUME NEW t \in Threads, UseInv, NEW p \in SmallBlocks, HeapAlloc(t, p)
    PROVE  UseInv'
<1>1. p \in [ base : Chunks, at : Cells ] /\ p = [base |-> p.base, at |-> p.at]
  BY BlockFacts
<1>2. /\ p \notin InUse /\ InUse' = InUse \cup {p} /\ small' \subseteq SmallBlocks
      /\ mapped' \in [Mappings -> Nat]
  BY SmallTaken DEF HeapAlloc, UseInv, UseTypes
<1>. QED  BY <1>1, <1>2, DeliverUse DEF HeapAlloc

(* A mapping is not empty.                                                 *)
LEMMA MapFacts ==
    ASSUME UseInv, NEW r \in Mappings, NEW size \in 0 .. SIZE_MOD - 1, Map(r, size),
           small' = small
    PROVE  /\ LargePlace(r) \notin InUse /\ InUse' = InUse \cup {LargePlace(r)}
           /\ mapped' \in [Mappings -> Nat]
<1>1. PICK length : length = alloced_size(size)
  OBVIOUS
<1>2. length \in Nat /\ length # 0
  <2>1. size + SizeOfMmapHeader \in Nat
    BY RequestFacts DEF SizeOfMmapHeader
  <2>2. length \in Nat
    BY <1>1, <2>1, RequestFacts DEF alloced_size
  <2>. QED  BY <1>1, <2>2 DEF Map
<1>3. PAGE \in Nat \ {0}
  BY InterfaceAssumption DEF SizeOfMmapHeader
<1>4. PICK pages : pages = (length + PAGE - 1) \div PAGE
  OBVIOUS
<1>5. pages \in Nat /\ pages # 0
  BY <1>2, <1>3, <1>4
<1>6. PICK n : n = InPages(length)
  OBVIOUS
<1>7. n = pages * PAGE
  BY <1>4, <1>6 DEF InPages
<1>8. n \in Nat /\ n # 0
  BY <1>3, <1>5, <1>7
<1>9. mapped[r] = 0 /\ mapped' = [mapped EXCEPT ![r] = n]
  BY <1>1, <1>6 DEF Map
<1>. QED  BY <1>8, <1>9, LargeTaken

LEMMA large_allocUse ==
    ASSUME NEW t \in Threads, UseInv, NEW r \in Mappings, large_alloc(t, r)
    PROVE  UseInv'
<1>1. th[t].size \in 0 .. SIZE_MOD - 1
  BY DEF UseInv, UseTypes, CallType
<1>2. /\ LargePlace(r) \notin InUse /\ InUse' = InUse \cup {LargePlace(r)}
      /\ mapped' \in [Mappings -> Nat] /\ small' \subseteq SmallBlocks
  BY <1>1, MapFacts DEF large_alloc, UseInv, UseTypes
<1>3. LargePlace(r).base = r /\ LargePlace(r).at = SizeOfMmapHeader
  BY DEF LargePlace
<1>4. AtMalloc(t) /\ Deliver(t, LargePlace(r))
  BY DEF large_alloc, LargePlace
<1>. QED  BY <1>2, <1>3, <1>4, BlockFacts, DeliverUse DEF LargePlace

LEMMA MallocFailsUse ==
    ASSUME NEW t \in Threads, UseInv, MallocFails(t)
    PROVE  UseInv'
<1>1. /\ th[t].pc = "malloc" /\ th[t].new = NoBlock
      /\ th[t].op = "realloc" <=> th[t].old # NoBlock
      /\ UNCHANGED << held, small, mapped >>
  BY DEF MallocFails, AtMalloc, At, UseInv, Shape, memVars
<1>2. CASE th[t].op = "realloc"
  <2>1. GoOn(t, "free", NoBlock)
    BY <1>2 DEF MallocFails
  <2>2. PICK c \in CallType :
          /\ th' = [th EXCEPT ![t] = c]
          /\ c.pc = "free" /\ c.new = NoBlock /\ c.op = th[t].op /\ c.old = th[t].old
    BY <2>1, GoesOn DEF UseInv
  <2>3. Shape(c)
    BY <1>1, <1>2, <2>2 DEF Shape
  <2>. QED  BY <1>1, <2>2, <2>3, KeepStep
<1>3. CASE th[t].op # "realloc"
  <2>1. Return(t)
    BY <1>3 DEF MallocFails
  <2>2. Before(t) = HeldPlaces
    BY <1>1, <1>3 DEF Before, PlacesOf
  <2>3. InUse' = InUse
    BY <1>1 DEF InUse
  <2>4. InUse' = (InUse \ Before(t)) \cup HeldPlaces
    BY <2>2, <2>3, BeforeInUse
  <2>5. small' \subseteq SmallBlocks /\ mapped' \in [Mappings -> Nat]
    BY <1>1 DEF UseInv, UseTypes
  <2>. QED  BY <1>1, <2>1, <2>4, <2>5, ReturnStep
<1>. QED  BY <1>2, <1>3

(* The end of a call that gives the program its new block.                 *)
LEMMA NewHanded ==
    ASSUME NEW t \in Threads, UseInv, th[t].new # NoBlock,
           NEW b \in RealBlock, Place(b) = Place(th[t].new), Hand(t, b),
           small' \subseteq SmallBlocks, mapped' \in [Mappings -> Nat],
           InUse' = (InUse \ Before(t)) \cup HeldPlaces \cup PlacesOf(th[t].new)
    PROVE  UseInv'
<1>1. PlacesOf(th[t].new) = {Place(b)}
  BY DEF PlacesOf
<1>2. Place(b) \notin HeldPlaces
  <2>1. \A d \in held : d # NoBlock /\ Apart(d, th[t].new)
    BY BlockFacts DEF UseInv, UseTypes, OneOwner
  <2>. QED  BY <2>1, SamePlace DEF HeldPlaces, Apart
<1>3. Place(b) \notin InUse \ Before(t)
  BY <1>1 DEF Before
<1>. QED  BY <1>1, <1>2, <1>3, HandStep

LEMMA ZeroUse ==
    ASSUME NEW t \in Threads, UseInv, Zero(t)
    PROVE  UseInv'
<1>1. th[t].old = NoBlock /\ th[t].new # NoBlock
  BY DEF Zero, At, UseInv, Shape
<1>2. th[t].new \in RealBlock /\ th[t].want \in Nat
  BY <1>1 DEF UseInv, UseTypes, CallType
<1>3. PICK b \in RealBlock :
        b = Holding(th[t].new, 0, th[t].want) /\ Place(b) = Place(th[t].new)
  BY <1>2, SameBlock
<1>4. Hand(t, b) /\ UNCHANGED << small, mapped >>
  BY <1>3 DEF Zero
<1>5. Before(t) = HeldPlaces \cup PlacesOf(th[t].new) /\ InUse' = InUse
  BY <1>1, <1>4 DEF Before, PlacesOf, InUse
<1>6. InUse' = (InUse \ Before(t)) \cup HeldPlaces \cup PlacesOf(th[t].new)
  BY <1>5, BeforeInUse
<1>7. small' \subseteq SmallBlocks /\ mapped' \in [Mappings -> Nat]
  BY <1>4 DEF UseInv, UseTypes
<1>. QED  BY <1>1, <1>3, <1>4, <1>6, <1>7, NewHanded

(* realloc's old contents, in a new block of the same place.               *)
LEMMA StillFilledType ==
    ASSUME NEW b \in RealBlock, NEW size \in Nat
    PROVE  StillFilled(b, size) \in Nat
  BY DEF StillFilled, Lesser, RealBlock

LEMMA CopiedBlock ==
    ASSUME NEW t \in Threads, UseInv, th[t].pc \in { "copy", "large_copy" }
    PROVE  /\ th[t].old \in RealBlock /\ th[t].old # NoBlock
           /\ th[t].new \in RealBlock /\ th[t].new # NoBlock
           /\ \E b \in RealBlock :
                /\ b = Holding(th[t].new, th[t].old.word, StillFilled(th[t].old, th[t].size))
                /\ Place(b) = Place(th[t].new)
<1>1. th[t].old # NoBlock /\ th[t].new # NoBlock
  BY DEF UseInv, Shape
<1>2. th[t].old \in RealBlock /\ th[t].new \in RealBlock /\ th[t].size \in Nat
  BY <1>1, RequestFacts DEF UseInv, UseTypes, CallType
<1>3. th[t].old.word \in Words \cup {0} /\ StillFilled(th[t].old, th[t].size) \in Nat
  BY <1>2, StillFilledType DEF RealBlock
<1>. QED  BY <1>1, <1>2, <1>3, SameBlock

LEMMA CopyUse ==
    ASSUME NEW t \in Threads, UseInv, Copy(t)
    PROVE  UseInv'
<1>1. /\ th[t].old # NoBlock /\ th[t].new # NoBlock
      /\ \E b \in RealBlock :
           /\ b = Holding(th[t].new, th[t].old.word, StillFilled(th[t].old, th[t].size))
           /\ Place(b) = Place(th[t].new)
  BY CopiedBlock DEF Copy, At
<1>2. PICK b \in RealBlock : GoOn(t, "free", b) /\ Place(b) = Place(th[t].new)
  BY <1>1 DEF Copy
<1>3. PICK c \in CallType :
        /\ th' = [th EXCEPT ![t] = c]
        /\ c.pc = "free" /\ c.new = b /\ c.op = th[t].op /\ c.old = th[t].old
  BY <1>2, GoesOn DEF UseInv
<1>4. Shape(c) /\ PlacesOf(c.new) = PlacesOf(th[t].new)
  BY <1>1, <1>2, <1>3, BlockFacts DEF Shape, PlacesOf
<1>5. UNCHANGED << held, small, mapped >>
  BY DEF Copy
<1>. QED  BY <1>3, <1>4, <1>5, KeepStep

(* The end of free, and of realloc, once the old block is freed.           *)
LEMMA HandNewUse ==
    ASSUME NEW t \in Threads, UseInv, th[t].old # NoBlock, HandNew(t),
           InUse' = InUse \ {Place(th[t].old)},
           small' \subseteq SmallBlocks, mapped' \in [Mappings -> Nat]
    PROVE  UseInv'
<1>1. InUse' = (InUse \ Before(t)) \cup HeldPlaces \cup PlacesOf(th[t].new)
  BY OldFreed
<1>2. CASE th[t].new = NoBlock
  <2>1. Return(t) /\ held' = held
    BY <1>2 DEF HandNew, Return_NULL
  <2>2. InUse' = (InUse \ Before(t)) \cup HeldPlaces
    BY <1>1, <1>2 DEF PlacesOf
  <2>. QED  BY <2>1, <2>2, ReturnStep
<1>3. CASE th[t].new # NoBlock
  <2>1. th[t].new \in RealBlock
    BY <1>3 DEF UseInv, UseTypes, CallType
  <2>2. Hand(t, th[t].new)
    BY <1>3 DEF HandNew
  <2>. QED  BY <1>1, <1>3, <2>1, <2>2, NewHanded
<1>. QED  BY <1>2, <1>3

LEMMA HeapFreeUse ==
    ASSUME NEW t \in Threads, UseInv, HeapFree(t)
    PROVE  UseInv'
<1>1. th[t].old # NoBlock /\ th[t].old \in RealBlock
  BY DEF HeapFree, At, UseInv, UseTypes, CallType, Shape
<1>. DEFINE p == Place(th[t].old)
<1>2. p.base = th[t].old.base
  BY DEF Place
<1>3. /\ p.base \in Chunks /\ small' = small \ {p} /\ HandNew(t) /\ mapped' = mapped
  BY <1>2 DEF HeapFree, Place
<1>4. p \in small
  BY <1>1, <1>2, <1>3, OldPlace
<1>5. InUse' = InUse \ {p} /\ small' \subseteq SmallBlocks
  BY <1>3, <1>4, SmallFreed
<1>6. mapped' \in [Mappings -> Nat]
  BY <1>3 DEF UseInv, UseTypes
<1>. QED  BY <1>1, <1>2, <1>3, <1>5, <1>6, HandNewUse

LEMMA large_freeUse ==
    ASSUME NEW t \in Threads, UseInv, LengthsRight, large_free(t)
    PROVE  UseInv'
<1>1. th[t].old # NoBlock /\ th[t].old \in RealBlock
  BY DEF large_free, At, UseInv, UseTypes, CallType, Shape
<1>2. PICK r \in Mappings : r = th[t].old.base
  BY DEF large_free
<1>3. /\ Unmap(r, FreedLength(t)) /\ HandNew(t) /\ small' = small
      /\ mapped[r] = InPages(FreedLength(t))
  BY <1>2 DEF large_free, At, LengthsRight
<1>4. Place(th[t].old) = LargePlace(r)
  BY <1>1, <1>2, OldPlace
<1>5. InUse' = InUse \ {Place(th[t].old)} /\ mapped' \in [Mappings -> Nat]
  BY <1>3, <1>4, LargeFreed
<1>6. small' \subseteq SmallBlocks
  BY <1>3 DEF UseInv, UseTypes
<1>. QED  BY <1>1, <1>3, <1>5, <1>6, HandNewUse

LEMMA LargeMapUse ==
    ASSUME NEW t \in Threads, UseInv, NEW r \in Mappings, LargeMap(t, r)
    PROVE  UseInv'
<1>1. /\ th[t].pc = "large_map" /\ th[t].old # NoBlock /\ th[t].new = NoBlock
      /\ UNCHANGED << held, small >>
  BY DEF LargeMap, At, UseInv, Shape
<1>2. th[t].size \in 0 .. SIZE_MOD - 1 /\ th[t].size \in Nat
  BY RequestFacts DEF UseInv, UseTypes, CallType
<1>3. /\ LargePlace(r) \notin InUse /\ InUse' = InUse \cup {LargePlace(r)}
      /\ mapped' \in [Mappings -> Nat]
  BY <1>1, <1>2, MapFacts DEF LargeMap
<1>4. LargePlace(r).base = r /\ LargePlace(r).at = SizeOfMmapHeader
  BY DEF LargePlace
<1>5. PICK b \in RealBlock :
        b = BlockAt(LargePlace(r), th[t].size) /\ Place(b) = LargePlace(r)
  BY <1>2, <1>4, BlockFacts, NewBlockType DEF LargePlace
<1>6. GoOn(t, "large_copy", b)
  BY <1>5 DEF LargeMap, LargePlace
<1>7. PICK c \in CallType :
        /\ th' = [th EXCEPT ![t] = c]
        /\ c.pc = "large_copy" /\ c.new = b /\ c.op = th[t].op /\ c.old = th[t].old
  BY <1>6, GoesOn DEF UseInv
<1>8. Shape(c)
  BY <1>1, <1>7, BlockFacts DEF Shape
<1>9. small' \subseteq SmallBlocks
  BY <1>1 DEF UseInv, UseTypes
<1>. QED  BY <1>1, <1>3, <1>5, <1>7, <1>8, <1>9, NewStep

LEMMA LargeMapFailsUse ==
    ASSUME NEW t \in Threads, UseInv, LargeMapFails(t)
    PROVE  UseInv'
<1>1. /\ th[t].old # NoBlock /\ th[t].new = NoBlock
      /\ Hand(t, th[t].old) /\ UNCHANGED << small, mapped >>
  BY DEF LargeMapFails, At, UseInv, Shape, memVars
<1>2. th[t].old \in RealBlock
  BY <1>1 DEF UseInv, UseTypes, CallType
<1>3. Before(t) = HeldPlaces \cup {Place(th[t].old)} /\ InUse' = InUse
  BY <1>1 DEF Before, PlacesOf, InUse
<1>4. Place(th[t].old) \notin HeldPlaces
  <2>1. \A d \in held : d # NoBlock /\ Apart(d, th[t].old)
    BY BlockFacts DEF UseInv, UseTypes, OneOwner
  <2>. QED  BY <1>1, <2>1, SamePlace DEF HeldPlaces, Apart
<1>5. /\ InUse' = (InUse \ Before(t)) \cup HeldPlaces \cup {Place(th[t].old)}
      /\ Place(th[t].old) \notin InUse \ Before(t)
  BY <1>3, BeforeInUse
<1>6. small' \subseteq SmallBlocks /\ mapped' \in [Mappings -> Nat]
  BY <1>1 DEF UseInv, UseTypes
<1>. QED  BY <1>1, <1>2, <1>4, <1>5, <1>6, HandStep

LEMMA LargeCopyUse ==
    ASSUME NEW t \in Threads, UseInv, LengthsRight, LargeCopy(t)
    PROVE  UseInv'
<1>1. /\ th[t].old \in RealBlock /\ th[t].old # NoBlock /\ th[t].new # NoBlock
      /\ \E b \in RealBlock :
           /\ b = Holding(th[t].new, th[t].old.word, StillFilled(th[t].old, th[t].size))
           /\ Place(b) = Place(th[t].new)
  BY CopiedBlock DEF LargeCopy, At
<1>2. PICK b \in RealBlock : Hand(t, b) /\ Place(b) = Place(th[t].new)
  BY <1>1 DEF LargeCopy
<1>3. PICK r \in Mappings : r = th[t].old.base
  BY DEF LargeCopy, LargeCopyFits
<1>4. /\ Unmap(r, OldAlloced(t)) /\ small' = small
      /\ mapped[r] = InPages(OldAlloced(t))
  BY <1>3 DEF LargeCopy, At, LengthsRight, FreedLength, OldAlloced
<1>5. Place(th[t].old) = LargePlace(r)
  BY <1>1, <1>3, OldPlace
<1>6. InUse' = InUse \ {Place(th[t].old)} /\ mapped' \in [Mappings -> Nat]
  BY <1>4, <1>5, LargeFreed
<1>7. small' \subseteq SmallBlocks
  BY <1>4 DEF UseInv, UseTypes
<1>8. InUse' = (InUse \ Before(t)) \cup HeldPlaces \cup PlacesOf(th[t].new)
  BY <1>1, <1>6, OldFreed
<1>. QED  BY <1>1, <1>2, <1>6, <1>7, <1>8, NewHanded

-----------------------------------------------------------------------------
(* The invariant *)

LEMMA UseInit == Init => UseInv
<1>. SUFFICES ASSUME Init PROVE UseInv
  OBVIOUS
<1>1. UseTypes
  BY BlockFacts DEF Init, UseTypes
<1>2. \A t \in Threads : th[t] = Idle /\ th[t].old = NoBlock /\ th[t].new = NoBlock
  BY BlockFacts DEF Init
<1>3. \A t \in Threads : Shape(th[t])
  BY <1>2, BlockFacts DEF Shape
<1>4. OneOwner
  BY <1>2 DEF Init, OneOwner, Apart
<1>5. Places = {} /\ InUse = {}
  <2>1. \A t \in Threads : Owned(t) = {}
    BY <1>2 DEF Owned
  <2>2. Blocks = {}
    BY <2>1, Zenon DEF Blocks, Init
  <2>3. { s \in Mappings : mapped[s] # 0 } = {}
    BY DEF Init
  <2>. QED  BY <2>2, <2>3 DEF Places, InUse, Init
<1>. QED  BY <1>1, <1>3, <1>4, <1>5 DEF UseInv

LEMMA UseUnchanged ==
    ASSUME UseInv, UNCHANGED << held, small, mapped, th >>
    PROVE  UseInv'
<1>1. UseTypes' /\ (\A t \in Threads : Shape(th[t])') /\ OneOwner'
  BY DEF UseInv, UseTypes, OneOwner
<1>2. \A t \in Threads : Owned(t)' = Owned(t)
  BY DEF Owned
<1>3. Blocks' = Blocks
  BY <1>2, Zenon DEF Blocks
<1>4. Places' = InUse'
  BY <1>3 DEF UseInv, Places, InUse
<1>. QED  BY <1>1, <1>4 DEF UseInv

LEMMA UseNext ==
    ASSUME UseInv, LengthsRight, [Next]_vars
    PROVE  UseInv'
<1>1. ASSUME NEW t \in Threads, Continue(t)  PROVE UseInv'
  <2>1. CASE InitSizeTable(t) /\ UNCHANGED << memVars, held, th, crashed >>
    BY <2>1, UseUnchanged DEF memVars
  <2>. QED  BY <1>1, <2>1, HeapAllocUse, large_allocUse, LargeMapUse, MallocFailsUse,
            ZeroUse, CopyUse, HeapFreeUse, large_freeUse, LargeMapFailsUse,
            LargeCopyUse DEF Continue
<1>2. ASSUME NEW t \in Threads, Crash(t)  PROVE UseInv'
  BY <1>2, UseUnchanged DEF Crash, memVars
<1>3. CASE Stopped \/ UNCHANGED vars
  BY <1>3, UseUnchanged DEF Stopped, vars, memVars
<1>. QED  BY <1>1, <1>2, <1>3, CallUse DEF Next

(* The blocks in use are those the program and its calls have.             *)
LEMMA UseCounts ==
    ASSUME UseInv
    PROVE  NothingLeaked
<1>1. \A b \in Blocks : b.base \in Chunks \cup Mappings /\ Place(b) \in InUse
                          /\ (b.base \in Chunks => Place(b) \in small)
                          /\ (b.base \in Mappings => mapped[b.base] # 0)
  <2>. SUFFICES ASSUME NEW b \in Blocks
                PROVE  /\ b.base \in Chunks \cup Mappings /\ Place(b) \in InUse
                       /\ (b.base \in Chunks => Place(b) \in small)
                       /\ (b.base \in Mappings => mapped[b.base] # 0)
    OBVIOUS
  <2>1. b \in RealBlock
    <3>1. CASE b \in held
      BY <3>1 DEF UseInv, UseTypes
    <3>2. ASSUME NEW t \in Threads, b \in Owned(t)  PROVE b \in RealBlock
      BY <3>2 DEF Owned, UseInv, UseTypes, CallType
    <3>. QED  BY <3>1, <3>2, Zenon DEF Blocks
  <2>2. Place(b) \in InUse
    BY DEF UseInv, Places
  <2>3. Place(b).base = b.base
    BY DEF Place
  <2>4. \A r : LargePlace(r).base = r
    BY DEF LargePlace
  <2>5. \A p \in small : p.base \in Chunks
    BY BlockFacts DEF UseInv, UseTypes
  <2>. QED  BY <2>1, <2>2, <2>3, <2>4, <2>5, InterfaceAssumption DEF InUse, RealBlock
<1>2. small = { p \in SmallBlocks : \E b \in Blocks : Is(b, p) }
  <2>1. ASSUME NEW p \in SmallBlocks
        PROVE  p \in [ base : Chunks, at : Cells ] /\ Place(p) = p
    <3>1. p \in [ base : Chunks, at : Cells ]
      BY BlockFacts
    <3>2. p = [base |-> p.base, at |-> p.at]
      BY <3>1
    <3>. QED  BY <3>1, <3>2 DEF Place
  <2>2. \A p \in small : \E b \in Blocks : Is(b, p)
    BY <2>1, SamePlace DEF UseInv, UseTypes, Places, InUse
  <2>3. ASSUME NEW p \in SmallBlocks, NEW b \in Blocks, Is(b, p)  PROVE p \in small
    BY <1>1, <2>1, <2>3, SamePlace DEF Is
  <2>. QED  BY <2>2, <2>3 DEF UseInv, UseTypes
<1>3. \A r \in Mappings : mapped[r] # 0 <=> \E b \in Blocks : b.base = r
  <2>1. ASSUME NEW r \in Mappings, mapped[r] # 0  PROVE \E b \in Blocks : b.base = r
    <3>1. PICK b \in Blocks : Place(b) = LargePlace(r)
      BY <2>1 DEF UseInv, Places, InUse
    <3>2. Place(b).base = b.base /\ LargePlace(r).base = r
      BY DEF Place, LargePlace
    <3>. QED  BY <3>1, <3>2
  <2>. QED  BY <1>1, <2>1
<1>. QED  BY <1>2, <1>3 DEF NothingLeaked, UseInv

-----------------------------------------------------------------------------
(* size2idx, called by any thread for any size up to the largest, gives    *)
(* the first bin whose blocks are large enough.                            *)

LEMMA LookupRight ==
    ASSUME UseTypes, IInv
    PROVE  LookupFindsFirst
<1>. SUFFICES ASSUME NEW t \in Threads, AtMalloc(t), th[t].size <= max_block_size
              PROVE  /\ size2idx(th[t].size) \in TableBins
                     /\ th[t].size <= Table[size2idx(th[t].size)]
                     /\ \A j \in TableBins :
                          j < size2idx(th[t].size) => Table[j] < th[t].size
  BY DEF LookupFindsFirst
<1>1. Types /\ TableComplete
  BY DEF IInv, AtMalloc, Progress
<1>2. PICK size \in Nat : size = th[t].size
  BY RequestFacts DEF UseTypes, CallType
<1>. QED  BY <1>1, <1>2, LookupOnTable

-----------------------------------------------------------------------------
(* The invariant *)

Largest == Table[NumBins - 1]

Contents == Words \cup {MAGIC, LINK} \cup 0 .. SIZE_MOD - 1

MemTypes ==
    /\ mem \in [Chunks \cup Mappings -> [Cells -> Contents]]
    /\ \A r \in Mappings : mapped[r] <= MaxCells /\ mapped[r] % PAGE = 0
    /\ crashed \in BOOLEAN

(* A block has the room it was asked for, and in it what the program       *)
(* expects; a block whose size wraps around holds nothing.                 *)
Sound(b) ==
    /\ b.filled <= b.size /\ b.filled <= Room(b) /\ b.size < SIZE_MOD
    /\ Wraps(b.size) => b.filled = 0
    /\ \A i \in 0 .. b.filled - 1 : mem[b.base][b.at + i] = b.word
    /\ b.base \in Chunks => b.size <= Room(b)
    /\ b.base \in Mappings => /\ b.size > Largest
                              /\ mapped[b.base] = InPages(alloced_size(b.size))

(* The header of a large block.                                            *)
Tagged(b) == b.base \in Mappings => mem[b.base][0] = MAGIC /\ mem[b.base][1] = b.size

(* Where realloc stands.                                                   *)
CallOK(c) ==
    /\ c.pc \in { "malloc", "zero", "copy", "large_map", "large_copy" } => c.want = c.size
    /\ c.new # NoBlock /\ c.pc # "free" => c.new.size = c.size
    /\ c.pc \in { "malloc", "copy" } /\ c.old # NoBlock =>
         (c.old.base \in Mappings => c.old_large /\ c.size <= Largest)
    /\ c.pc \in { "large_map", "large_copy" } => c.old_large /\ c.size > Largest
    /\ c.pc = "large_copy" => c.new.base \in Mappings
    /\ c.pc # "free" /\ c.old # NoBlock /\ c.old_large =>
         (c.old.base \in Chunks => BehindNeighbour(c.old))

(* large_realloc writes the header of the new block last.                  *)
CallTagged(c) ==
    /\ c.old # NoBlock => Tagged(c.old)
    /\ c.new # NoBlock /\ c.pc # "large_copy" => Tagged(c.new)

(* Nobody writes into the cells of a superblock that are in no block.      *)
RoomOf(p) == p.at .. p.at + Table[ChunkBin[p.base]] - 1
Outside ==
    \A c \in Chunks : \A i \in Cells :
       (\A p \in SmallBlocks : p.base = c => i \notin RoomOf(p)) => mem[c][i] = 0

(* The largest size is known before there is a block.                      *)
LargestKnown ==
    /\ max_block_size \in { 0, Largest }
    /\ Blocks # {} => max_block_size = Largest

MemInv ==
    /\ MemTypes
    /\ \A b \in Blocks : Sound(b)
    /\ \A b \in held : Tagged(b)
    /\ \A t \in Threads : CallTagged(th[t]) /\ CallOK(th[t])
    /\ Outside
    /\ LargestKnown

AllInv == UseInv /\ IInv /\ MemInv

-----------------------------------------------------------------------------
(* Where blocks are *)

LEMMA Numbers ==
    /\ MaxCells \in Nat /\ MaxCells > 2 /\ SizeOfMmapHeader = 2
    /\ SIZE_MOD \in Nat /\ SIZE_MOD > MaxCells
    /\ PAGE \in Nat \ {0}
    /\ Cells = 0 .. MaxCells - 1
    /\ Chunks \cap Mappings = {}
    /\ Largest \in Nat
    /\ \A i \in TableBins : Table[i] \in Nat /\ Table[i] > 0 /\ Table[i] <= Largest
    /\ \A c \in Chunks : ChunkBin[c] \in TableBins
<1>1. /\ MaxCells \in Nat /\ MaxCells > 2 /\ SizeOfMmapHeader = 2
      /\ SIZE_MOD \in Nat /\ SIZE_MOD > MaxCells /\ PAGE \in Nat \ {0}
      /\ Chunks \cap Mappings = {}
  BY InterfaceAssumption DEF SizeOfMmapHeader
<1>2. Largest \in Nat /\ \A i \in TableBins : Table[i] \in Nat
  BY TableFacts DEF Largest
<1>3. ASSUME NEW i \in TableBins  PROVE Table[i] > 0 /\ Table[i] <= Largest
  <2>1. Table[0] > 0
    BY TableFacts, TableAssumption DEF RightTable
  <2>2. \A k, l \in TableBins : k < l => Table[k] < Table[l]
    BY SizesServeBins
  <2>3. PICK n \in Nat : /\ TableBins = 0 .. n - 1 /\ Largest = Table[n - 1]
    BY TableFacts DEF TableBins, Largest
  <2>4. 0 \in TableBins /\ n - 1 \in TableBins /\ i \in Nat /\ i <= n - 1
    BY <2>3
  <2>5. i = 0 \/ 0 < i
    BY <2>4
  <2>6. i = n - 1 \/ i < n - 1
    BY <2>3, <2>4
  <2>. QED  BY <1>2, <2>1, <2>2, <2>3, <2>4, <2>5, <2>6
<1>. QED  BY <1>1, <1>2, <1>3, InterfaceAssumption DEF Cells

LEMMA RealBlocks ==
    ASSUME UseInv
    PROVE  /\ \A b \in Blocks : b \in RealBlock /\ b # NoBlock /\ Place(b) \in InUse
           /\ held \subseteq Blocks
           /\ \A t \in Threads : Owned(t) \subseteq Blocks
<1>1. held \subseteq Blocks
  BY DEF Blocks
<1>2. \A t \in Threads : Owned(t) \subseteq Blocks
  BY Zenon DEF Blocks
<1>3. ASSUME NEW b \in Blocks  PROVE b \in RealBlock /\ b # NoBlock /\ Place(b) \in InUse
  <2>1. b \in RealBlock
    <3>1. CASE b \in held
      BY <3>1 DEF UseInv, UseTypes
    <3>2. ASSUME NEW t \in Threads, b \in Owned(t)  PROVE b \in RealBlock
      BY <3>2 DEF Owned, UseInv, UseTypes, CallType
    <3>. QED  BY <3>1, <3>2, Zenon DEF Blocks
  <2>2. Place(b) \in InUse
    BY DEF UseInv, Places
  <2>. QED  BY <2>1, <2>2, BlockFacts
<1>. QED  BY <1>1, <1>2, <1>3

(* A block is where the heaps cut one, or after the header of a mapping.   *)
AtPlace(b) == Place(b) \in SmallBlocks \/ (b.base \in Mappings /\ b.at = SizeOfMmapHeader)

LEMMA PlaceFacts ==
    ASSUME NEW b, AtPlace(b)
    PROVE  /\ b.base \in Chunks \cup Mappings /\ b.at \in Cells /\ b.at >= 2
           /\ b.base \in Chunks =>
                /\ Place(b) \in SmallBlocks
                /\ Room(b) = Table[ChunkBin[b.base]] /\ Room(b) \in Nat /\ Room(b) > 0
                /\ b.at + Room(b) <= MaxCells
           /\ b.base \in Mappings => b.at = 2 /\ Room(b) = mapped[b.base] - 2
<1>1. Place(b).base = b.base /\ Place(b).at = b.at
  BY DEF Place
<1>2. CASE Place(b) \in SmallBlocks
  <2>1. /\ b.base \in Chunks /\ b.at \in Cells /\ b.at >= 2
        /\ b.at + Table[ChunkBin[b.base]] <= MaxCells
    BY <1>1, <1>2, BlockFacts, InterfaceAssumption, Numbers
  <2>2. b.base \notin Mappings /\ Room(b) = Table[ChunkBin[b.base]]
    BY <2>1, Numbers DEF Room
  <2>. QED  BY <1>2, <2>1, <2>2, Numbers
<1>3. CASE b.base \in Mappings /\ b.at = SizeOfMmapHeader
  <2>1. b.base \notin Chunks /\ b.at = 2 /\ b.at \in Cells
    BY <1>3, Numbers
  <2>. QED  BY <1>3, <2>1 DEF Room
<1>. QED  BY <1>2, <1>3 DEF AtPlace

LEMMA BlocksAtPlaces ==
    ASSUME UseInv, NEW b, Place(b) \in InUse
    PROVE  AtPlace(b)
<1>1. CASE Place(b) \in small
  BY <1>1 DEF UseInv, UseTypes, AtPlace
<1>2. ASSUME NEW r \in Mappings, Place(b) = LargePlace(r)  PROVE AtPlace(b)
  BY <1>2 DEF Place, LargePlace, AtPlace
<1>. QED  BY <1>1, <1>2 DEF InUse

(* Two blocks have no cell in common.                                      *)
LEMMA RoomsApart ==
    ASSUME NEW b, NEW d, AtPlace(b), AtPlace(d), ~Is(b, d), b.base = d.base
    PROVE  /\ b.base \in Chunks
           /\ b.at + Room(b) <= d.at \/ d.at + Room(d) <= b.at
<1>1. b.at # d.at
  BY DEF Is
<1>2. b.base \in Chunks /\ d.base \in Chunks
  BY <1>1, PlaceFacts, Numbers
<1>3. /\ Place(b) \in SmallBlocks /\ Place(d) \in SmallBlocks /\ b.at \in Nat /\ d.at \in Nat
      /\ Room(b) = Table[ChunkBin[b.base]] /\ Room(d) = Table[ChunkBin[d.base]]
  BY <1>2, PlaceFacts, Numbers
<1>4. /\ Place(b).base = b.base /\ Place(b).at = b.at
      /\ Place(d).base = d.base /\ Place(d).at = d.at
  BY DEF Place
<1>5. b.at < d.at \/ d.at < b.at
  BY <1>1, <1>3
<1>. QED  BY <1>2, <1>3, <1>4, <1>5, InterfaceAssumption

-----------------------------------------------------------------------------
(* What a step leaves alone *)

(* Memory and the mapping of a block.                                      *)
Untouched(b) ==
    /\ b.base \in Mappings => /\ mapped'[b.base] = mapped[b.base]
                              /\ mem'[b.base][0] = mem[b.base][0]
                              /\ mem'[b.base][1] = mem[b.base][1]
    /\ \A i \in b.at .. b.at + Room(b) - 1 : mem'[b.base][i] = mem[b.base][i]

LEMMA RoomType ==
    ASSUME UseTypes, NEW b \in RealBlock
    PROVE  Room(b) \in Int
<1>1. CASE b.base \in Chunks
  BY <1>1, Numbers DEF Room
<1>2. CASE b.base \notin Chunks
  BY <1>2, Numbers DEF Room, RealBlock, UseTypes
<1>. QED  BY <1>1, <1>2

LEMMA SoundStays ==
    ASSUME UseTypes, NEW b \in RealBlock, Sound(b), Untouched(b)
    PROVE  Sound(b)'
<1>1. Room(b)' = Room(b)
  BY InterfaceAssumption DEF Room, Untouched, RealBlock
<1>2. ASSUME NEW i \in 0 .. b.filled - 1  PROVE mem'[b.base][b.at + i] = b.word
  <2>1. b.at \in Nat /\ b.filled \in Nat /\ b.filled <= Room(b)
    BY Numbers DEF RealBlock, Sound
  <2>2. b.at + i \in b.at .. b.at + Room(b) - 1
    BY <2>1, RoomType
  <2>. QED  BY <2>2 DEF Sound, Untouched
<1>. QED  BY <1>1, <1>2 DEF Sound, Untouched

LEMMA TagStays ==
    ASSUME NEW b, Tagged(b), Untouched(b)
    PROVE  Tagged(b)'
  BY DEF Tagged, Untouched

(* A step that writes into one block only.                                 *)
OnlyIn(d) ==
    /\ mapped' = mapped
    /\ \A x \in Chunks \cup Mappings : x # d.base => mem'[x] = mem[x]
    /\ \A i \in Cells : i < d.at \/ i >= d.at + Room(d) => mem'[d.base][i] = mem[d.base][i]

LEMMA WritesInBlock ==
    ASSUME UseInv, MemTypes, NEW d \in RealBlock, AtPlace(d), OnlyIn(d)
    PROVE  /\ \A b \in Blocks : ~Is(b, d) => Untouched(b)
           /\ Tagged(d) => Tagged(d)'
           /\ Outside => Outside'
<1>1. ASSUME NEW b \in Blocks, ~Is(b, d)  PROVE Untouched(b)
  <2>1. b \in RealBlock /\ AtPlace(b) /\ b.base \in Chunks \cup Mappings /\ b.at \in Nat
    BY RealBlocks, BlocksAtPlaces, PlaceFacts, Numbers
  <2>2. CASE b.base # d.base
    BY <2>1, <2>2 DEF OnlyIn, Untouched
  <2>3. CASE b.base = d.base
    <3>1. /\ b.base \in Chunks /\ b.base \notin Mappings
          /\ b.at + Room(b) <= d.at \/ d.at + Room(d) <= b.at
      BY <1>1, <2>1, <2>3, RoomsApart, Numbers
    <3>2. /\ Room(b) \in Nat /\ b.at + Room(b) <= MaxCells
          /\ Room(d) \in Nat /\ d.at \in Nat
      BY <2>1, <2>3, <3>1, PlaceFacts, Numbers
    <3>3. \A i \in b.at .. b.at + Room(b) - 1 :
             i \in Cells /\ (i < d.at \/ i >= d.at + Room(d))
      BY <2>1, <3>1, <3>2, Numbers
    <3>. QED  BY <2>3, <3>1, <3>3 DEF OnlyIn, Untouched
  <2>. QED  BY <2>2, <2>3
<1>2. Tagged(d) => Tagged(d)'
  <2>1. d.base \in Mappings => d.at = 2 /\ 0 \in Cells /\ 1 \in Cells
    BY PlaceFacts, Numbers
  <2>. QED  BY <2>1 DEF Tagged, OnlyIn
<1>3. ASSUME Outside, NEW c \in Chunks, NEW i \in Cells,
             \A p \in SmallBlocks : p.base = c => i \notin RoomOf(p)
      PROVE  mem'[c][i] = 0
  <2>1. mem[c][i] = 0
    BY <1>3 DEF Outside
  <2>2. CASE c # d.base
    BY <2>1, <2>2 DEF OnlyIn
  <2>3. CASE c = d.base
    <3>1. /\ Place(d) \in SmallBlocks /\ Room(d) = Table[ChunkBin[c]]
          /\ d.at \in Nat /\ Room(d) \in Nat
      BY <2>3, PlaceFacts, Numbers
    <3>2. Place(d).base = c /\ Place(d).at = d.at
      BY <2>3 DEF Place
    <3>3. i \notin d.at .. d.at + Room(d) - 1
      BY <1>3, <3>1, <3>2 DEF RoomOf
    <3>4. i < d.at \/ i >= d.at + Room(d)
      BY <3>1, <3>3, Numbers
    <3>. QED  BY <2>1, <2>3, <3>4 DEF OnlyIn
  <2>. QED  BY <2>2, <2>3
<1>4. Outside => Outside'
  BY <1>3 DEF Outside
<1>. QED  BY <1>1, <1>2, <1>4

(* A step that leaves all superblocks alone, and all mappings but some.    *)
LEMMA WritesInMappings ==
    ASSUME NEW T \in SUBSET Mappings,
           \A x \in (Chunks \cup Mappings) \ T : mem'[x] = mem[x],
           \A r \in Mappings \ T : mapped'[r] = mapped[r]
    PROVE  /\ \A b \in RealBlock : b.base \notin T => Untouched(b)
           /\ Outside => Outside'
<1>1. ASSUME NEW b \in RealBlock, b.base \notin T  PROVE Untouched(b)
  BY <1>1 DEF Untouched, RealBlock
<1>2. Outside => Outside'
  BY Numbers DEF Outside
<1>. QED  BY <1>1, <1>2

-----------------------------------------------------------------------------
(* Steps *)

LEMMA DistinctBlocks ==
    ASSUME UseInv, NEW t \in Threads
    PROVE  /\ \A b \in Others(t), d \in Reach(t) : ~Is(b, d)
           /\ \A b \in held, d \in Owned(t) : ~Is(b, d)
           /\ \A b, d \in held : Is(b, d) => b = d
           /\ th[t].old # NoBlock /\ th[t].new # NoBlock => ~Is(th[t].old, th[t].new)
<1>1. NoBlock \notin held
  BY BlockFacts DEF UseInv, UseTypes
<1>2. ASSUME NEW b \in Others(t), NEW d \in Reach(t)  PROVE ~Is(b, d)
  <2>1. Place(b) \in OtherPlaces(t) /\ Place(d) \in ReachPlaces(t)
    BY DEF OtherPlaces, ReachPlaces
  <2>. QED  BY <1>1, <2>1, OthersApart, SamePlace DEF UseInv
<1>3. \A b \in held, d \in Owned(t) : ~Is(b, d)
  BY <1>1 DEF UseInv, OneOwner, Apart, Owned
<1>4. th[t].old # NoBlock /\ th[t].new # NoBlock => ~Is(th[t].old, th[t].new)
  BY DEF UseInv, OneOwner, Apart
<1>. QED  BY <1>2, <1>3, <1>4 DEF UseInv, OneOwner

LEMMA BlocksSplit ==
    ASSUME NEW t \in Threads
    PROVE  Blocks = Reach(t) \cup Others(t) /\ Blocks' = Reach(t)' \cup Others(t)'
  BY Zenon DEF Blocks, Reach, Others

(* A step of thread t is sound if it leaves the blocks of other threads    *)
(* alone and what it reaches is sound.                                     *)
LEMMA MemStep ==
    ASSUME NEW t \in Threads, AllInv, MemTypes', NEW c, th' = [th EXCEPT ![t] = c],
           \A b \in Others(t) : Untouched(b),
           \A b \in held' : Sound(b)' /\ Tagged(b)',
           \A b \in { c.old, c.new } \ {NoBlock} : Sound(b)',
           CallTagged(c)', CallOK(c), Outside', max_block_size' = max_block_size,
           max_block_size = Largest \/ (Reach(t) = {} => Reach(t)' = {})
    PROVE  MemInv'
<1>1. UseInv /\ MemInv /\ UseTypes
  BY DEF AllInv, UseInv
<1>2. th'[t] = c /\ \A u \in Threads \ {t} : th'[u] = th[u]
  BY <1>1 DEF UseTypes
<1>3. \A u \in Threads \ {t} : Owned(u)' = Owned(u)
  BY <1>2 DEF Owned
<1>4. Others(t)' = Others(t)
  BY <1>3 DEF Others
<1>5. Others(t) \subseteq Blocks
  BY BlocksSplit
<1>6. ASSUME NEW b \in Others(t)  PROVE Sound(b)'
  BY <1>1, <1>5, RealBlocks, SoundStays DEF MemInv
<1>7. Reach(t)' = held' \cup ({ c.old, c.new } \ {NoBlock})
  BY <1>2 DEF Reach, Owned
<1>8. \A b \in Blocks' : Sound(b)'
  BY <1>4, <1>6, <1>7, BlocksSplit
<1>9. ASSUME NEW u \in Threads  PROVE CallTagged(th[u])' /\ CallOK(th[u])'
  <2>1. CASE u = t
    BY <1>2, <2>1 DEF CallOK, CallTagged
  <2>2. CASE u # t
    <3>1. th'[u] = th[u] /\ CallOK(th[u]) /\ CallTagged(th[u])
      BY <1>1, <1>2, <2>2 DEF MemInv
    <3>2. ASSUME NEW b \in Owned(u), Tagged(b)  PROVE Tagged(b)'
      <4>1. b \in Others(t)
        BY <2>2 DEF Others
      <4>. QED  BY <3>2, <4>1, TagStays
    <3>3. PICK old, new : old = th[u].old /\ new = th[u].new
      OBVIOUS
    <3>4. /\ old # NoBlock => old \in Owned(u) /\ Tagged(old)
          /\ new # NoBlock /\ th[u].pc # "large_copy" => new \in Owned(u) /\ Tagged(new)
      BY <3>1, <3>3 DEF CallTagged, Owned
    <3>5. /\ old # NoBlock => Tagged(old)'
          /\ new # NoBlock /\ th[u].pc # "large_copy" => Tagged(new)'
      BY <3>2, <3>4
    <3>6. CallTagged(th[u])'
      BY <3>1, <3>3, <3>5 DEF CallTagged
    <3>. QED  BY <3>1, <3>6 DEF CallOK
  <2>. QED  BY <2>1, <2>2
<1>10. LargestKnown'
  <2>1. Blocks' = {} \/ Blocks # {} \/ max_block_size = Largest
    BY <1>4, BlocksSplit
  <2>. QED  BY <1>1, <2>1 DEF MemInv, LargestKnown
<1>. QED  BY <1>8, <1>9, <1>10 DEF MemInv

(* A step that only moves blocks between the program and a call.           *)
LEMMA QuietStep ==
    ASSUME NEW t \in Threads, AllInv, MemTypes', NEW c, th' = [th EXCEPT ![t] = c],
           UNCHANGED << mem, mapped >>, th[t].pc # "large_copy",
           held' \subseteq Reach(t), { c.old, c.new } \subseteq Reach(t) \cup {NoBlock},
           CallOK(c), max_block_size' = max_block_size
    PROVE  MemInv'
<1>1. UseInv /\ MemInv /\ UseTypes
  BY DEF AllInv, UseInv
<1>2. \A b \in Blocks : Untouched(b) /\ Sound(b) /\ Sound(b)'
  <2>1. \A b : Untouched(b)
    BY DEF Untouched
  <2>. QED  BY <1>1, <2>1, RealBlocks, SoundStays DEF MemInv
<1>3. Reach(t) \subseteq Blocks /\ Others(t) \subseteq Blocks
  BY BlocksSplit
<1>4. \A b \in Reach(t) : Tagged(b)
  BY <1>1 DEF Reach, Owned, MemInv, CallTagged
<1>5. \A b \in Reach(t) : Tagged(b)' /\ Sound(b)'
  BY <1>2, <1>3, <1>4, TagStays
<1>6. CallTagged(c)'
  <2>1. PICK old, new : old = c.old /\ new = c.new
    OBVIOUS
  <2>2. (old # NoBlock => Tagged(old)') /\ (new # NoBlock => Tagged(new)')
    BY <1>5, <2>1
  <2>. QED  BY <2>1, <2>2 DEF CallTagged
<1>7. Outside'
  BY <1>1 DEF MemInv, Outside
<1>8. th'[t] = c
  BY <1>1 DEF UseTypes
<1>9. Reach(t) = {} => Reach(t)' = {}
  BY <1>8 DEF Reach, Owned
<1>. QED  BY <1>2, <1>3, <1>5, <1>6, <1>7, <1>9, MemStep

LEMMA SameTypes ==
    ASSUME MemTypes, UNCHANGED << mem, mapped, crashed >>
    PROVE  MemTypes'
  BY DEF MemTypes

(* is_large_alloc is right about large blocks.                             *)
LEMMA LargeIsTagged ==
    ASSUME NEW b, AtPlace(b), Tagged(b), b.base \in Mappings
    PROVE  is_large_alloc(mem, b) = TRUE
<1>1. b.at = 2 /\ SizeOfMmapHeader = 2
  BY PlaceFacts, Numbers
<1>2. b.at - SizeOfMmapHeader = 0
  BY <1>1
<1>. QED  BY <1>2 DEF is_large_alloc, Tagged

(* And wrong about a small one only behind a neighbour, as the cells that  *)
(* are in no block hold zero.                                              *)
LEMMA OnlyBehindNeighbour ==
    ASSUME AllInv, NEW b, AtPlace(b), b.base \in Chunks, is_large_alloc(mem, b)
    PROVE  BehindNeighbour(b)
<1>1. b.base \notin Mappings /\ b.at \in Cells /\ b.at >= 2
  BY PlaceFacts, Numbers
<1>2. PICK i \in Cells : i = b.at - 2
  BY <1>1, Numbers
<1>3. mem[b.base][i] = MAGIC
  <2>1. b.at - SizeOfMmapHeader = i
    BY <1>2, Numbers
  <2>. QED  BY <2>1 DEF is_large_alloc
<1>4. PICK p \in SmallBlocks : p.base = b.base /\ i \in RoomOf(p)
  BY <1>3, InterfaceAssumption DEF AllInv, MemInv, Outside
<1>5. get_block_size(p) = Table[ChunkBin[p.base]] /\ get_block_size(p) \in Nat /\ p.at \in Nat
  BY <1>4, Numbers, InterfaceAssumption DEF get_block_size
<1>6. p.at < b.at /\ b.at - 2 < p.at + get_block_size(p)
  <2>1. i \in p.at .. p.at + get_block_size(p) - 1
    BY <1>4, <1>5 DEF RoomOf
  <2>2. b.at \in Nat
    BY <1>1, Numbers
  <2>. QED  BY <1>2, <1>5, <2>1, <2>2
<1>. QED  BY <1>4, <1>6, Numbers DEF BehindNeighbour

LEMMA LargestSeen ==
    ASSUME AllInv, Blocks # {}
    PROVE  max_block_size = Largest
  BY DEF AllInv, MemInv, LargestKnown

-----------------------------------------------------------------------------
(* Calls *)

LEMMA CallingFields ==
    ASSUME NEW pc, NEW op, NEW size, NEW want, NEW old, NEW old_large
    PROVE  \E c : /\ c = Calling(pc, op, size, want, old, old_large)
                  /\ c.pc = pc /\ c.op = op /\ c.size = size /\ c.want = want
                  /\ c.old = old /\ c.old_large = old_large /\ c.new = NoBlock
<1>1. PICK c : c = [pc |-> pc, op |-> op, size |-> size, want |-> want,
                    old |-> old, old_large |-> old_large, new |-> NoBlock]
  OBVIOUS
<1>2. c = Calling(pc, op, size, want, old, old_large)
  BY <1>1 DEF Calling
<1>. QED  BY <1>1, <1>2

LEMMA CallMallocMem ==
    ASSUME NEW t \in Threads, AllInv, NEW op, NEW size, NEW want, want = size,
           Enter(t, Calling("malloc", op, size, want, NoBlock, FALSE)), UNCHANGED held
    PROVE  MemInv'
<1>1. PICK c : /\ c = Calling("malloc", op, size, want, NoBlock, FALSE)
               /\ c.pc = "malloc" /\ c.size = size /\ c.want = want
               /\ c.old = NoBlock /\ c.new = NoBlock
  <2>1. PICK no \in BOOLEAN : no = FALSE
    OBVIOUS
  <2>2. \E c : /\ c = Calling("malloc", op, size, want, NoBlock, no)
                 /\ c.pc = "malloc" /\ c.size = size /\ c.want = want
                 /\ c.old = NoBlock /\ c.new = NoBlock
    BY CallingFields
  <2>. QED  BY <2>1, <2>2
<1>2. /\ th' = [th EXCEPT ![t] = c] /\ th[t].pc = "idle"
      /\ UNCHANGED << mem, mapped, crashed, max_block_size >>
  BY <1>1 DEF Enter, memVars, At, EnterMalloc, table
<1>3. MemTypes'
  BY <1>2, SameTypes DEF AllInv, MemInv
<1>4. CallOK(c)
  BY <1>1 DEF CallOK
<1>. QED  BY <1>1, <1>2, <1>3, <1>4, QuietStep DEF Reach

LEMMA CallWithBlockMem ==
    ASSUME NEW t \in Threads, AllInv, NEW b \in held, At(t, "idle"),
           NEW c, th' = [th EXCEPT ![t] = c], c.old = b, c.new = NoBlock, CallOK(c),
           held' = held \ {b}, UNCHANGED << mem, mapped, crashed, max_block_size >>
    PROVE  MemInv'
<1>1. MemTypes'
  BY SameTypes DEF AllInv, MemInv
<1>2. th[t].pc # "large_copy"
  BY DEF At
<1>. QED  BY <1>1, <1>2, QuietStep DEF Reach

LEMMA HeldBlock ==
    ASSUME AllInv, NEW b \in held
    PROVE  /\ b \in RealBlock /\ AtPlace(b) /\ Sound(b) /\ Tagged(b)
           /\ max_block_size = Largest
<1>1. UseInv /\ MemInv /\ b \in Blocks
  BY RealBlocks DEF AllInv
<1>. QED  BY <1>1, RealBlocks, BlocksAtPlaces, LargestSeen DEF MemInv

LEMMA CallReallocMem ==
    ASSUME NEW t \in Threads, AllInv, NEW b \in held, NEW size \in ReallocRequests,
           CallRealloc(t, b, size)
    PROVE  MemInv'
<1>1. PICK large : large = is_large_alloc(mem, b)
  OBVIOUS
<1>2. PICK c : /\ c = Calling("malloc", "realloc", size, size, b, large)
               /\ c.pc = "malloc" /\ c.size = size /\ c.want = size
               /\ c.old = b /\ c.old_large = large /\ c.new = NoBlock
  BY CallingFields
<1>3. /\ At(t, "idle") /\ th' = [th EXCEPT ![t] = c] /\ held' = held \ {b}
      /\ UNCHANGED << mem, mapped, crashed, max_block_size >>
      /\ ~(size > max_block_size /\ large)
  BY <1>1, <1>2 DEF CallRealloc, Enter, memVars, EnterMalloc, table
<1>4. b.base \in Mappings => large = TRUE
  BY <1>1, HeldBlock, LargeIsTagged
<1>5. b.base \in Mappings => size <= Largest
  BY <1>3, <1>4, HeldBlock, RequestFacts, Numbers
<1>6. large /\ b.base \in Chunks => BehindNeighbour(b)
  BY <1>1, HeldBlock, OnlyBehindNeighbour
<1>7. CallOK(c)
  BY <1>2, <1>4, <1>5, <1>6 DEF CallOK
<1>. QED  BY <1>2, <1>3, <1>7, CallWithBlockMem

LEMMA CallReallocLargeMem ==
    ASSUME NEW t \in Threads, AllInv, NEW b \in held, NEW size \in ReallocRequests,
           CallReallocLarge(t, b, size)
    PROVE  MemInv'
<1>1. PICK c : /\ c = Calling("large_map", "realloc", size, size, b, TRUE)
               /\ c.pc = "large_map" /\ c.size = size /\ c.want = size
               /\ c.old = b /\ c.old_large = TRUE /\ c.new = NoBlock
  <2>1. PICK yes \in BOOLEAN : yes = TRUE
    OBVIOUS
  <2>2. \E c : /\ c = Calling("large_map", "realloc", size, size, b, yes)
                 /\ c.pc = "large_map" /\ c.size = size /\ c.want = size
                 /\ c.old = b /\ c.old_large = yes /\ c.new = NoBlock
    BY CallingFields
  <2>. QED  BY <2>1, <2>2
<1>2. /\ At(t, "idle") /\ th' = [th EXCEPT ![t] = c] /\ held' = held \ {b}
      /\ UNCHANGED << mem, mapped, crashed, max_block_size >>
      /\ size > max_block_size
  BY <1>1 DEF CallReallocLarge, memVars, tableVars, table
<1>3. size > Largest
  BY <1>2, HeldBlock
<1>4. CallOK(c)
  <2>1. b.base \in Chunks => BehindNeighbour(b)
    BY HeldBlock, OnlyBehindNeighbour DEF CallReallocLarge
  <2>. QED  BY <1>1, <1>3, <2>1 DEF CallOK
<1>. QED  BY <1>1, <1>2, <1>4, CallWithBlockMem

LEMMA CallFreeMem ==
    ASSUME NEW t \in Threads, AllInv, NEW b \in held, CallFree(t, b)
    PROVE  MemInv'
<1>1. PICK c : /\ c = Calling("free", "free", 0, 0, b, FALSE)
               /\ c.pc = "free" /\ c.old = b /\ c.new = NoBlock
  <2>1. PICK no \in BOOLEAN : no = FALSE
    OBVIOUS
  <2>2. \E c : /\ c = Calling("free", "free", 0, 0, b, no)
                 /\ c.pc = "free" /\ c.old = b /\ c.new = NoBlock
    BY CallingFields
  <2>. QED  BY <2>1, <2>2
<1>2. /\ At(t, "idle") /\ th' = [th EXCEPT ![t] = c] /\ held' = held \ {b}
      /\ UNCHANGED << mem, mapped, crashed, max_block_size >>
  BY <1>1 DEF CallFree, memVars, tableVars, table
<1>3. CallOK(c)
  BY <1>1 DEF CallOK
<1>. QED  BY <1>1, <1>2, <1>3, CallWithBlockMem

(* calloc checks its product.                                              *)
LEMMA ProductFits ==
    ASSUME NEW n \in Nat, n # 0, NEW size \in Nat, size <= (SIZE_MOD - 1) \div n
    PROVE  (n * size) % SIZE_MOD = n * size
<1>1. SIZE_MOD - 1 \in Nat /\ SIZE_MOD \in Nat
  BY Numbers
<1>2. \A a \in Nat : n * (a \div n) <= a /\ a \div n \in Nat
  BY SMT
<1>3. PICK q \in Nat : q = (SIZE_MOD - 1) \div n /\ n * q <= SIZE_MOD - 1
  BY <1>1, <1>2
<1>4. n * size <= n * q
  BY <1>3, SMT
<1>5. n * size \in Nat /\ n * q \in Nat
  BY <1>3, SMT
<1>6. n * size < SIZE_MOD
  <2> DEFINE a == n * size  b == n * q
  <2>1. a \in Nat /\ b \in Nat /\ a <= b /\ b <= SIZE_MOD - 1
    BY <1>3, <1>4, <1>5
  <2> HIDE DEF a, b
  <2>2. a < SIZE_MOD
    BY <1>1, <2>1
  <2>. QED  BY <2>2 DEF a
<1>7. \A a \in Nat : a < SIZE_MOD => a % SIZE_MOD = a
  BY <1>1, SMT
<1>. QED  BY <1>5, <1>6, <1>7

(* Room is bounded by what a mapping can have.                             *)
LEMMA RoomBounded ==
    ASSUME UseTypes, MemTypes, NEW b \in RealBlock, AtPlace(b)
    PROVE  /\ Room(b) \in Int /\ b.at \in Nat /\ b.at >= 2 /\ b.at + Room(b) <= MaxCells
           /\ \A n \in Nat : n <= Room(b) => ~Wraps(n)
<1>1. Room(b) \in Int /\ b.at \in Nat /\ b.at >= 2
  BY RoomType, PlaceFacts, Numbers
<1>2. b.at + Room(b) <= MaxCells
  <2>1. CASE b.base \in Chunks
    BY <2>1, PlaceFacts
  <2>2. CASE b.base \in Mappings
    <3>1. b.at = 2 /\ Room(b) = mapped[b.base] - 2 /\ mapped[b.base] \in Nat
            /\ mapped[b.base] <= MaxCells
      BY <2>2, PlaceFacts DEF UseTypes, MemTypes
    <3>. QED  BY <3>1, Numbers
  <2>. QED  BY <2>1, <2>2 DEF RealBlock
<1>3. ASSUME NEW n \in Nat, n <= Room(b)  PROVE ~Wraps(n)
  BY <1>1, <1>2, <1>3, Numbers DEF Wraps
<1>. QED  BY <1>1, <1>2, <1>3

(* Filling a block with a word, whole.                                     *)
Filled(b, w, n) ==
    mem' = [mem EXCEPT ![b.base] =
              [i \in Cells |-> IF i \in b.at .. b.at + n - 1 THEN w ELSE @[i]]]

LEMMA FillBlock ==
    ASSUME UseInv, MemTypes, NEW b \in RealBlock, AtPlace(b), Sound(b),
           NEW w \in Words \cup {0}, NEW n \in Nat, n = b.size, n <= Room(b),
           Filled(b, w, n), UNCHANGED << mapped, crashed >>
    PROVE  /\ OnlyIn(b) /\ MemTypes'
           /\ Sound(Holding(b, w, n))'
           /\ Tagged(b) => Tagged(Holding(b, w, n))'
<1>1. /\ Room(b) \in Int /\ b.at \in Nat /\ b.at + Room(b) <= MaxCells /\ ~Wraps(n)
      /\ b.base \in Chunks \cup Mappings /\ UseTypes
  BY RoomBounded DEF RealBlock, UseInv
<1>2. /\ \A i \in b.at .. b.at + n - 1 : mem'[b.base][i] = w
      /\ \A i \in Cells : i \notin b.at .. b.at + n - 1 => mem'[b.base][i] = mem[b.base][i]
      /\ \A x \in Chunks \cup Mappings : x # b.base => mem'[x] = mem[x]
  <2>1. \A i \in b.at .. b.at + n - 1 : i \in Cells
    BY <1>1, Numbers
  <2>. QED  BY <1>1, <2>1 DEF Filled, MemTypes
<1>3. OnlyIn(b)
  BY <1>1, <1>2, Numbers DEF OnlyIn
<1>4. MemTypes'
  <2>1. w \in Contents
    BY Numbers DEF Contents
  <2>2. mem' \in [Chunks \cup Mappings -> [Cells -> Contents]]
    BY <1>1, <2>1 DEF Filled, MemTypes
  <2>. QED  BY <2>2 DEF MemTypes
<1>5. PICK d : d = Holding(b, w, n)
  OBVIOUS
<1>6. d.base = b.base /\ d.at = b.at /\ d.size = n /\ d.word = w /\ d.filled = n
  BY <1>5 DEF Holding
<1>7. Room(d)' = Room(b)
  BY <1>6 DEF Room
<1>8. \A i \in 0 .. n - 1 : mem'[b.base][b.at + i] = w
  BY <1>1, <1>2
<1>9. Sound(d)'
  BY <1>1, <1>6, <1>7, <1>8 DEF Sound
<1>10. Tagged(b) => Tagged(d)'
  <2>1. Tagged(b) => Tagged(b)'
    BY <1>3, WritesInBlock
  <2>. QED  BY <1>6, <2>1 DEF Tagged
<1>. QED  BY <1>3, <1>4, <1>5, <1>9, <1>10

LEMMA WriteMem ==
    ASSUME NEW t \in Threads, AllInv, NEW b \in held, NEW w \in Words, Write(t, b, w)
    PROVE  MemInv'
<1>1. /\ UseInv /\ MemInv /\ UseTypes /\ MemTypes /\ Outside
      /\ b \in RealBlock /\ AtPlace(b) /\ Sound(b) /\ Tagged(b)
  BY HeldBlock DEF AllInv, MemInv, UseInv
<1>2. PICK n \in Nat : n = b.size
  BY <1>1 DEF RealBlock
<1>3. /\ Filled(b, w, n) /\ n <= Room(b) /\ th[t].pc = "idle"
      /\ UNCHANGED << mapped, crashed, th, max_block_size >>
  BY <1>2 DEF Write, Filled, tableVars, table, At
<1>4. PICK d : d = Holding(b, w, n) /\ held' = (held \ {b}) \cup {d}
  BY <1>2 DEF Write
<1>5. /\ OnlyIn(b) /\ MemTypes' /\ Sound(d)' /\ Tagged(d)'
  BY <1>1, <1>2, <1>3, <1>4, FillBlock
<1>6. /\ \A e \in Blocks : ~Is(e, b) => Untouched(e)
      /\ Outside'
  BY <1>1, <1>5, WritesInBlock
<1>7. b \in Reach(t) /\ Others(t) \subseteq Blocks
  BY BlocksSplit DEF Reach
<1>8. \A e \in Others(t) : Untouched(e)
  BY <1>1, <1>6, <1>7, DistinctBlocks
<1>9. ASSUME NEW e \in held'  PROVE Sound(e)' /\ Tagged(e)'
  <2>1. CASE e = d
    BY <1>5, <2>1
  <2>2. CASE e \in held /\ e # b
    <3>1. ~Is(e, b) /\ e \in Blocks /\ e \in RealBlock /\ Sound(e) /\ Tagged(e)
      BY <1>1, <2>2, DistinctBlocks, RealBlocks, HeldBlock
    <3>. QED  BY <1>1, <1>6, <3>1, SoundStays, TagStays
  <2>. QED  BY <1>4, <2>1, <2>2
<1>10. PICK c : c = th[t]
  OBVIOUS
<1>11. /\ c.old = NoBlock /\ c.new = NoBlock /\ th' = [th EXCEPT ![t] = c] /\ CallOK(c)
  BY <1>1, <1>3, <1>10 DEF UseInv, UseTypes, Shape, MemInv
<1>12. CallTagged(c)'
  BY <1>11 DEF CallTagged
<1>. QED  BY <1>3, <1>5, <1>6, <1>8, <1>9, <1>11, <1>12, HeldBlock, MemStep

LEMMA CallMem ==
    ASSUME AllInv, NEW t \in Threads, Call(t)
    PROVE  MemInv'
<1>1. ASSUME NEW size \in MallocRequests, CallMalloc(t, size)  PROVE MemInv'
  BY <1>1, CallMallocMem DEF CallMalloc
<1>2. ASSUME NEW r \in CallocRequests, CallCalloc(t, r[1], r[2])  PROVE MemInv'
  <2>1. r[1] \in Nat /\ r[2] \in Nat
    BY RequestFacts
  <2>2. (r[1] * r[2]) % SIZE_MOD = r[1] * r[2]
    BY <1>2, <2>1, ProductFits DEF CallCalloc
  <2> DEFINE product == r[1] * r[2]
  <2>3. /\ Enter(t, Calling("malloc", "calloc", product % SIZE_MOD, product, NoBlock, FALSE))
        /\ UNCHANGED held /\ product = product % SIZE_MOD
    BY <1>2, <2>2 DEF CallCalloc
  <2> HIDE DEF product
  <2>. QED  BY <2>3, CallMallocMem
<1>. QED  BY <1>1, <1>2, CallReallocMem, CallReallocLargeMem, CallFreeMem, WriteMem DEF Call

-----------------------------------------------------------------------------
(* malloc *)

(* Whole pages.                                                            *)
LEMMA PagesFacts ==
    ASSUME NEW length \in Nat, length # 0
    PROVE  /\ InPages(length) \in Nat /\ InPages(length) >= length
           /\ InPages(length) >= 2 /\ InPages(length) % PAGE = 0
<1>1. PAGE \in Nat /\ PAGE >= 2
  BY InterfaceAssumption DEF SizeOfMmapHeader
<1>2. PICK q : q = (length + PAGE - 1) \div PAGE
  OBVIOUS
<1>3. q \in Nat /\ q * PAGE >= length /\ q > 0
  <2>1. \A a \in Nat, b \in Nat \ {0} : a \div b \in Nat /\ (a \div b + 1) * b > a
    BY Multiple
  <2>2. length + PAGE - 1 \in Nat /\ PAGE \in Nat \ {0}
    BY <1>1
  <2>3. q \in Nat /\ (q + 1) * PAGE > length + PAGE - 1
    BY <1>2, <2>1, <2>2
  <2>4. (q + 1) * PAGE = q * PAGE + PAGE /\ q * PAGE \in Nat
    BY <1>1, <2>3, SMT
  <2> DEFINE whole == q * PAGE
  <2>5. whole + PAGE > length + PAGE - 1 /\ whole \in Nat
    BY <2>3, <2>4
  <2>6. q = 0 => whole = 0
    BY <1>1
  <2> HIDE DEF whole
  <2>7. whole >= length /\ q # 0
    BY <1>1, <2>5, <2>6
  <2>. QED  BY <2>3, <2>7 DEF whole
<1>4. InPages(length) = q * PAGE
  BY <1>2 DEF InPages
<1>5. q * PAGE \in Nat /\ q * PAGE >= PAGE /\ (q * PAGE) % PAGE = 0
  BY <1>1, <1>3, SMT
<1> DEFINE whole == q * PAGE
<1>6. whole \in Nat /\ whole >= length /\ whole >= PAGE /\ whole % PAGE = 0
        /\ InPages(length) = whole
  BY <1>3, <1>4, <1>5
<1> HIDE DEF whole
<1>. QED  BY <1>1, <1>6

LEMMA AllocedFacts ==
    ASSUME NEW size \in 0 .. SIZE_MOD - 1
    PROVE  /\ alloced_size(size) \in Nat
           /\ ~Wraps(size) => alloced_size(size) = size + 2
<1>1. SIZE_MOD \in Nat \ {0} /\ SizeOfMmapHeader = 2
  BY Numbers
<1>2. \A a \in Nat : a % SIZE_MOD \in Nat /\ (a < SIZE_MOD => a % SIZE_MOD = a)
  BY <1>1, SMT
<1>3. ~Wraps(size) => size + 2 < SIZE_MOD
  BY <1>1 DEF Wraps
<1>. QED  BY <1>1, <1>2, <1>3 DEF alloced_size

(* mmap puts the new block where no block is.                              *)
LEMMA MapMem ==
    ASSUME AllInv, NEW r \in Mappings, NEW size \in 0 .. SIZE_MOD - 1, Map(r, size),
           size > Largest, NEW b, b = BlockAt(LargePlace(r), size),
           \A x \in (Chunks \cup Mappings) \ {r} : mem'[x] = mem[x]
    PROVE  /\ \A d \in Blocks : Untouched(d)
           /\ Outside' /\ Sound(b)'
           /\ \A s \in Mappings : mapped'[s] <= MaxCells /\ mapped'[s] % PAGE = 0
<1>1. /\ UseInv /\ UseTypes /\ NothingLeaked /\ MemTypes /\ Outside
  BY UseCounts DEF AllInv, UseInv, MemInv
<1>2. PICK n : n = InPages(alloced_size(size))
  OBVIOUS
<1>3. /\ mapped[r] = 0 /\ n <= MaxCells /\ mapped' = [mapped EXCEPT ![r] = n]
      /\ alloced_size(size) \in Nat /\ alloced_size(size) # 0
  BY <1>2, AllocedFacts DEF Map
<1>4. n \in Nat /\ n >= 2 /\ n % PAGE = 0
  BY <1>2, <1>3, PagesFacts
<1>5. \A s \in Mappings : s # r => mapped'[s] = mapped[s]
  BY <1>1, <1>3 DEF UseTypes
<1>6. mapped'[r] = n
  BY <1>1, <1>3 DEF UseTypes
<1>7. \A d \in Blocks : d \in RealBlock /\ d.base # r
  BY <1>1, <1>3, RealBlocks DEF NothingLeaked
<1>8. (\A d \in Blocks : Untouched(d)) /\ Outside'
  <2>1. PICK T \in SUBSET Mappings : T = {r}
    OBVIOUS
  <2>2. \A s \in Mappings \ T : mapped'[s] = mapped[s]
    BY <1>5, <2>1
  <2>3. \A x \in (Chunks \cup Mappings) \ T : mem'[x] = mem[x]
    BY <2>1
  <2>4. /\ \A d \in RealBlock : d.base \notin T => Untouched(d)
        /\ Outside => Outside'
    BY <2>2, <2>3, WritesInMappings
  <2>. QED  BY <1>1, <1>7, <2>1, <2>4
<1>9. b.base = r /\ b.at = 2 /\ b.size = size /\ b.filled = 0
  BY Numbers DEF BlockAt, LargePlace
<1>10. Sound(b)'
  <2>1. r \notin Chunks
    BY Numbers
  <2>2. Room(b)' = n - 2
    BY <1>6, <1>9, <2>1 DEF Room
  <2>3. size < SIZE_MOD /\ size \in Nat
    BY Numbers
  <2>. QED  BY <1>2, <1>4, <1>6, <1>9, <2>1, <2>2, <2>3 DEF Sound
<1>11. \A s \in Mappings : mapped'[s] <= MaxCells /\ mapped'[s] % PAGE = 0
  BY <1>1, <1>3, <1>4, <1>5, <1>6 DEF MemTypes
<1>. QED  BY <1>8, <1>10, <1>11

(* What all steps of malloc know.                                          *)
LEMMA AtMallocFacts ==
    ASSUME AllInv, NEW t \in Threads, AtMalloc(t)
    PROVE  /\ max_block_size = Largest
           /\ th[t].size \in 0 .. SIZE_MOD - 1 /\ th[t].size \in Nat
           /\ th[t].want = th[t].size /\ th[t].new = NoBlock /\ th[t].pc = "malloc"
<1>1. th[t].pc = "malloc" /\ tl[t].at = "in"
  BY DEF AtMalloc, At
<1>2. TableComplete
  BY <1>1 DEF AllInv, IInv, Progress
<1>3. th[t].size \in 0 .. SIZE_MOD - 1
  BY DEF AllInv, UseInv, UseTypes, CallType
<1>. QED  BY <1>1, <1>2, <1>3, RequestFacts
          DEF TableComplete, Largest, AllInv, MemInv, CallOK, UseInv, Shape

(* The new block goes to the caller.                                       *)
LEMMA DeliverMem ==
    ASSUME NEW t \in Threads, AllInv, AtMalloc(t), NEW p, Deliver(t, p), MemTypes', Outside',
           \A e \in Blocks : Untouched(e), max_block_size' = max_block_size,
           NEW b, b = BlockAt(p, th[t].want), b # NoBlock, b \in RealBlock,
           Sound(b)', Tagged(b)'
    PROVE  MemInv'
<1>1. /\ UseInv /\ UseTypes /\ MemInv /\ max_block_size = Largest
      /\ th[t].pc = "malloc" /\ th[t].want = th[t].size /\ th[t].new = NoBlock
      /\ th[t].op \in { "malloc", "calloc", "realloc" }
      /\ th[t].op = "realloc" <=> th[t].old # NoBlock
      /\ CallOK(th[t]) /\ CallTagged(th[t])
  BY AtMallocFacts DEF AllInv, UseInv, Shape, MemInv
<1>2. \A e \in Blocks : Sound(e)'
  BY <1>1, RealBlocks, SoundStays DEF MemInv
<1>3. \A e \in held : Sound(e)' /\ Tagged(e)'
  BY <1>1, <1>2, RealBlocks, TagStays DEF MemInv
<1>4. Others(t) \subseteq Blocks /\ Owned(t) \subseteq Blocks
  BY <1>1, BlocksSplit, RealBlocks
<1>5. b.size = th[t].size
  BY <1>1 DEF BlockAt
<1>6. CASE th[t].op = "malloc"
  <2>1. held' = held \cup {b} /\ th' = [th EXCEPT ![t] = Idle]
    BY <1>6 DEF Deliver, Hand, Return
  <2>2. Idle.old = NoBlock /\ Idle.new = NoBlock /\ Idle.pc = "idle"
    BY BlockFacts
  <2>3. CallOK(Idle) /\ CallTagged(Idle)'
    BY <2>2 DEF CallOK, CallTagged
  <2>. QED  BY <1>1, <1>3, <1>4, <2>1, <2>2, <2>3, MemStep
<1>7. ASSUME NEW pc \in { "zero", "copy" }, GoOn(t, pc, b), UNCHANGED held,
             pc = "zero" => th[t].op = "calloc"
      PROVE  MemInv'
  <2>1. PICK c : /\ th' = [th EXCEPT ![t] = c]
                 /\ c.pc = pc /\ c.new = b /\ c.old = th[t].old
                 /\ c.old_large = th[t].old_large
                 /\ c.size = th[t].size /\ c.want = th[t].want
    BY <1>1, <1>7, GoesOn
  <2>2. CallOK(c)
    BY <1>1, <1>5, <1>7, <2>1 DEF CallOK
  <2>3. PICK old : old = th[t].old
    OBVIOUS
  <2>4. old # NoBlock => Sound(old)' /\ Tagged(old)'
    <3>1. old # NoBlock => old \in Owned(t) /\ Tagged(old)
      BY <1>1, <2>3 DEF CallTagged, Owned
    <3>. QED  BY <1>2, <1>4, <3>1, TagStays
  <2>5. CallTagged(c)'
    BY <2>1, <2>3, <2>4 DEF CallTagged
  <2>6. \A e \in { c.old, c.new } \ {NoBlock} : Sound(e)'
    BY <2>1, <2>3, <2>4
  <2>. QED  BY <1>1, <1>3, <1>4, <1>7, <2>1, <2>2, <2>5, <2>6, MemStep
<1>8. CASE th[t].op = "calloc"
  <2>1. GoOn(t, "zero", b) /\ UNCHANGED held
    BY <1>8 DEF Deliver
  <2>. QED  BY <1>7, <1>8, <2>1
<1>9. CASE th[t].op = "realloc"
  <2>1. GoOn(t, "copy", b) /\ UNCHANGED held
    BY <1>9 DEF Deliver
  <2>. QED  BY <1>7, <1>9, <2>1
<1>. QED  BY <1>1, <1>6, <1>8, <1>9

LEMMA HeapAllocMem ==
    ASSUME NEW t \in Threads, AllInv, NEW p \in SmallBlocks, HeapAlloc(t, p)
    PROVE  MemInv'
<1>1. /\ AtMalloc(t) /\ Deliver(t, p) /\ UNCHANGED << mem, mapped, crashed, max_block_size >>
      /\ ChunkBin[p.base] = size2idx(th[t].size) /\ th[t].size <= max_block_size
  BY DEF HeapAlloc, LeaveMalloc, table
<1>2. /\ UseTypes /\ MemTypes /\ Outside /\ LookupFindsFirst
  BY LookupRight DEF AllInv, UseInv, MemInv
<1>3. p \in [ base : Chunks, at : Cells ] /\ p = [base |-> p.base, at |-> p.at]
  BY BlockFacts
<1>4. th[t].want = th[t].size /\ th[t].size \in Nat /\ th[t].size < SIZE_MOD
  BY <1>1, AtMallocFacts, Numbers
<1>5. PICK b \in RealBlock : b = BlockAt(p, th[t].want) /\ Place(b) = p
  BY <1>3, <1>4, NewBlockType
<1>6. b.base = p.base /\ b.size = th[t].size /\ b.filled = 0 /\ b # NoBlock /\ AtPlace(b)
  BY <1>4, <1>5, BlockFacts DEF BlockAt, AtPlace
<1>7. b.base \in Chunks /\ b.base \notin Mappings
  BY <1>3, <1>6, Numbers
<1>8. Room(b)' = Table[ChunkBin[p.base]] /\ Room(b)' \in Nat
  BY <1>6, <1>7, Numbers DEF Room
<1>9. th[t].size <= Table[ChunkBin[p.base]]
  BY <1>1, <1>2 DEF LookupFindsFirst
<1>10. Sound(b)' /\ Tagged(b)'
  BY <1>4, <1>6, <1>7, <1>8, <1>9 DEF Sound, Tagged
<1>11. MemTypes' /\ Outside' /\ \A e \in Blocks : Untouched(e)
  BY <1>1, <1>2, SameTypes DEF Outside, Untouched
<1>. QED  BY <1>1, <1>5, <1>6, <1>10, <1>11, DeliverMem

LEMMA large_allocMem ==
    ASSUME NEW t \in Threads, AllInv, NEW r \in Mappings, large_alloc(t, r)
    PROVE  MemInv'
<1>1. PICK size \in 0 .. SIZE_MOD - 1 : size = th[t].size /\ size \in Nat
  BY AtMallocFacts DEF large_alloc
<1>2. /\ AtMalloc(t) /\ Deliver(t, LargePlace(r)) /\ UNCHANGED << crashed, max_block_size >>
      /\ Map(r, size) /\ mem' = [mem EXCEPT ![r] = WithMmapHeader(@, size)]
      /\ size > max_block_size
  BY <1>1 DEF large_alloc, LeaveMalloc, table, LargePlace
<1>3. /\ UseTypes /\ MemTypes /\ max_block_size = Largest /\ th[t].want = size
  BY <1>1, <1>2, AtMallocFacts DEF AllInv, UseInv, MemInv
<1>4. LargePlace(r).base = r /\ LargePlace(r).at = SizeOfMmapHeader
  BY DEF LargePlace
<1>5. PICK b \in RealBlock : b = BlockAt(LargePlace(r), size) /\ Place(b) = LargePlace(r)
  BY <1>1, <1>4, BlockFacts, NewBlockType DEF LargePlace
<1>6. b # NoBlock /\ b.base = r /\ b.size = size
  BY <1>4, <1>5, BlockFacts DEF BlockAt
<1>7. /\ \A x \in (Chunks \cup Mappings) \ {r} : mem'[x] = mem[x]
      /\ mem'[r] = [mem[r] EXCEPT ![0] = MAGIC, ![1] = size]
  BY <1>2, <1>3 DEF MemTypes, WithMmapHeader
<1>8. /\ \A e \in Blocks : Untouched(e)
      /\ Outside' /\ Sound(b)'
      /\ \A s \in Mappings : mapped'[s] <= MaxCells /\ mapped'[s] % PAGE = 0
  BY <1>2, <1>3, <1>5, <1>7, MapMem
<1>9. mem'[r] \in [Cells -> Contents] /\ mem'[r][0] = MAGIC /\ mem'[r][1] = size
  <2>1. mem[r] \in [Cells -> Contents] /\ 0 \in Cells /\ 1 \in Cells
    BY <1>3, Numbers DEF MemTypes
  <2>2. MAGIC \in Contents /\ size \in Contents
    BY DEF Contents
  <2>. QED  BY <1>7, <2>1, <2>2
<1>10. MemTypes'
  BY <1>2, <1>3, <1>8, <1>9 DEF MemTypes
<1>11. Tagged(b)'
  BY <1>6, <1>9 DEF Tagged
<1>. QED  BY <1>2, <1>3, <1>5, <1>6, <1>8, <1>10, <1>11, DeliverMem

LEMMA MallocFailsMem ==
    ASSUME NEW t \in Threads, AllInv, MallocFails(t)
    PROVE  MemInv'
<1>1. /\ UNCHANGED << mem, mapped, crashed, max_block_size, held >>
      /\ th[t].pc = "malloc" /\ UseTypes
  BY DEF MallocFails, memVars, LeaveMalloc, table, AtMalloc, At, AllInv, UseInv
<1>2. MemTypes'
  BY <1>1, SameTypes DEF AllInv, MemInv
<1>3. CASE th[t].op = "realloc"
  <2>1. GoOn(t, "free", NoBlock)
    BY <1>3 DEF MallocFails
  <2>2. PICK c : /\ th' = [th EXCEPT ![t] = c]
                 /\ c.pc = "free" /\ c.new = NoBlock /\ c.old = th[t].old
    BY <1>1, <2>1, GoesOn
  <2>3. CallOK(c)
    BY <2>2 DEF CallOK
  <2>. QED  BY <1>1, <1>2, <2>2, <2>3, QuietStep DEF Reach, Owned
<1>4. CASE th[t].op # "realloc"
  <2>1. th' = [th EXCEPT ![t] = Idle] /\ Idle.old = NoBlock /\ Idle.new = NoBlock
          /\ Idle.pc = "idle"
    BY <1>4, BlockFacts DEF MallocFails, Return
  <2>2. CallOK(Idle)
    BY <2>1 DEF CallOK
  <2>. QED  BY <1>1, <1>2, <2>1, <2>2, QuietStep DEF Reach, Owned
<1>. QED  BY <1>3, <1>4

LEMMA LargeMapFailsMem ==
    ASSUME NEW t \in Threads, AllInv, LargeMapFails(t)
    PROVE  MemInv'
<1>1. /\ UNCHANGED << mem, mapped, crashed, max_block_size >>
      /\ held' = held \cup {th[t].old} /\ th' = [th EXCEPT ![t] = Idle]
      /\ th[t].pc = "large_map" /\ th[t].old # NoBlock
  BY DEF LargeMapFails, memVars, tableVars, table, At, AllInv, UseInv, Shape, Hand, Return
<1>2. MemTypes'
  BY <1>1, SameTypes DEF AllInv, MemInv
<1>3. Idle.old = NoBlock /\ Idle.new = NoBlock /\ Idle.pc = "idle"
  BY BlockFacts
<1>4. CallOK(Idle)
  BY <1>3 DEF CallOK
<1>. QED  BY <1>1, <1>2, <1>3, <1>4, QuietStep DEF Reach, Owned

-----------------------------------------------------------------------------
(* A call that has a block *)

LEMMA OwnedBlock ==
    ASSUME AllInv, NEW t \in Threads, NEW b, b # NoBlock, b = th[t].old \/ b = th[t].new
    PROVE  /\ b \in RealBlock /\ b \in Blocks /\ b \in Owned(t) /\ b \in Reach(t)
           /\ AtPlace(b) /\ Sound(b)
           /\ max_block_size = Largest
           /\ b = th[t].old \/ th[t].pc # "large_copy" => Tagged(b)
<1>1. UseInv /\ MemInv /\ b \in Owned(t)
  BY DEF AllInv, Owned
<1>2. b \in Blocks /\ b \in Reach(t)
  BY <1>1, RealBlocks DEF Reach
<1>3. b = th[t].old \/ th[t].pc # "large_copy" => Tagged(b)
  BY <1>1 DEF MemInv, CallTagged
<1>. QED  BY <1>1, <1>2, <1>3, RealBlocks, BlocksAtPlaces, LargestSeen DEF MemInv

(* Header, size and mapping of a block that is about to be unmapped.       *)
LEMMA HeaderRight ==
    ASSUME AllInv, NEW t \in Threads, th[t].old # NoBlock, th[t].old.base \in Mappings
    PROVE  mapped[th[t].old.base] = InPages(FreedLength(t))
<1>1. AtPlace(th[t].old) /\ Sound(th[t].old) /\ Tagged(th[t].old)
  BY OwnedBlock
<1>2. th[t].old.at - 1 = 1
  BY <1>1, PlaceFacts
<1>. QED  BY <1>1, <1>2 DEF FreedLength, header_size, Tagged, Sound

(* Unmapping changes cells to zero or not at all.                          *)
LEMMA WithoutPagesType ==
    ASSUME NEW cells \in [Cells -> Contents], NEW length
    PROVE  WithoutPages(cells, length) \in [Cells -> Contents]
<1>1. 0 \in Contents
  BY Numbers DEF Contents
<1>. QED  BY <1>1 DEF WithoutPages

(* A call that writes into its block leaves the others alone.              *)
LEMMA OwnWrite ==
    ASSUME NEW t \in Threads, AllInv, NEW b, b # NoBlock, b = th[t].old \/ b = th[t].new,
           OnlyIn(b)
    PROVE  /\ \A e \in Others(t) : Untouched(e)
           /\ \A e \in held : Sound(e)' /\ Tagged(e)'
           /\ \A e \in Owned(t) : e # b => Untouched(e) /\ Sound(e)'
           /\ Outside'
<1>1. /\ UseInv /\ UseTypes /\ MemInv /\ MemTypes /\ Outside
      /\ b \in RealBlock /\ b \in Reach(t) /\ b \in Owned(t) /\ AtPlace(b)
      /\ Reach(t) \subseteq Blocks /\ Others(t) \subseteq Blocks /\ held \subseteq Reach(t)
      /\ Owned(t) \subseteq Reach(t)
  BY OwnedBlock, BlocksSplit DEF AllInv, UseInv, MemInv, Reach
<1>2. /\ \A e \in Blocks : ~Is(e, b) => Untouched(e)
      /\ Outside'
  BY <1>1, WritesInBlock
<1>3. \A e \in Others(t) \cup held : ~Is(e, b)
  BY <1>1, DistinctBlocks
<1>4. \A e \in Owned(t) : e # b => ~Is(e, b)
  BY <1>1, DistinctBlocks DEF Owned, Is
<1>5. \A e \in Blocks : ~Is(e, b) => Sound(e)'
  BY <1>1, <1>2, RealBlocks, SoundStays DEF MemInv
<1>6. \A e \in held : Tagged(e)'
  BY <1>1, <1>2, <1>3, TagStays DEF MemInv
<1>. QED  BY <1>1, <1>2, <1>3, <1>4, <1>5, <1>6

LEMMA ZeroMem ==
    ASSUME NEW t \in Threads, AllInv, Zero(t)
    PROVE  MemInv'
<1>1. PICK b : b = th[t].new
  OBVIOUS
<1>2. /\ th[t].pc = "zero" /\ b # NoBlock /\ UseInv /\ MemTypes
  BY <1>1 DEF Zero, At, AllInv, UseInv, Shape, MemInv
<1>3. b \in RealBlock /\ AtPlace(b) /\ Sound(b) /\ Tagged(b) /\ max_block_size = Largest
  BY <1>1, <1>2, OwnedBlock
<1>4. PICK n \in Nat : n = th[t].want /\ n = b.size
  <2>1. CallOK(th[t]) /\ b.size \in Nat
    BY <1>3 DEF AllInv, MemInv, RealBlock
  <2>. QED  BY <1>1, <1>2, <2>1 DEF CallOK
<1>5. /\ n <= Room(b) /\ Filled(b, 0, n)
      /\ UNCHANGED << mapped, crashed, max_block_size >>
  BY <1>1, <1>4 DEF Zero, ZeroFits, Filled, tableVars, table
<1>6. PICK d : d = Holding(b, 0, n)
  OBVIOUS
<1>7. held' = held \cup {d} /\ th' = [th EXCEPT ![t] = Idle]
  BY <1>1, <1>4, <1>6 DEF Zero, Hand, Return
<1>8. OnlyIn(b) /\ MemTypes' /\ Sound(d)' /\ Tagged(d)'
  BY <1>2, <1>3, <1>4, <1>5, <1>6, FillBlock
<1>9. /\ \A e \in Others(t) : Untouched(e)
      /\ \A e \in held : Sound(e)' /\ Tagged(e)'
      /\ Outside'
  BY <1>1, <1>2, <1>8, OwnWrite
<1>10. Idle.old = NoBlock /\ Idle.new = NoBlock /\ Idle.pc = "idle"
  BY BlockFacts
<1>11. CallOK(Idle) /\ CallTagged(Idle)'
  BY <1>10 DEF CallOK, CallTagged
<1>. QED  BY <1>3, <1>5, <1>7, <1>8, <1>9, <1>10, <1>11, MemStep

(* A block of a size that does not wrap around has the room.               *)
LEMMA SizeFits ==
    ASSUME UseTypes, NEW b \in RealBlock, AtPlace(b), Sound(b), ~Wraps(b.size)
    PROVE  b.size <= Room(b)
<1>1. CASE b.base \in Chunks
  BY <1>1 DEF Sound
<1>2. CASE b.base \in Mappings
  <2>1. b.size \in 0 .. SIZE_MOD - 1
    BY Numbers DEF RealBlock, Sound
  <2>2. alloced_size(b.size) = b.size + 2 /\ alloced_size(b.size) \in Nat
    BY <2>1, AllocedFacts
  <2>3. mapped[b.base] >= b.size + 2
    BY <1>2, <2>1, <2>2, PagesFacts DEF Sound
  <2>4. Room(b) = mapped[b.base] - 2 /\ mapped[b.base] \in Nat
    BY <1>2, PlaceFacts DEF UseTypes
  <2>. QED  BY <2>1, <2>3, <2>4
<1>. QED  BY <1>1, <1>2 DEF RealBlock

(* How much of the old block the new one still has.                        *)
LEMMA StillFilledFacts ==
    ASSUME UseTypes, MemTypes, NEW old \in RealBlock, Sound(old),
           NEW new \in RealBlock, AtPlace(new), Sound(new), new.size \in 0 .. SIZE_MOD - 1,
           NEW f, f = StillFilled(old, new.size)
    PROVE  /\ f \in Nat /\ f <= new.size /\ f <= Room(new) /\ f <= old.filled
           /\ Wraps(new.size) => f = 0
<1>1. /\ old.filled \in Nat /\ new.size \in Nat /\ new.filled \in Nat
      /\ new.filled <= Room(new) /\ Room(new) \in Int /\ new.size < SIZE_MOD
  BY RoomType, Numbers DEF RealBlock, Sound
<1>2. CASE Wraps(new.size)
  BY <1>1, <1>2 DEF StillFilled
<1>3. CASE ~Wraps(new.size)
  <2>1. new.size <= Room(new)
    BY <1>1, <1>3, SizeFits
  <2>. QED  BY <1>1, <1>3, <2>1 DEF StillFilled, Lesser
<1>. QED  BY <1>2, <1>3

(* memcpy into a block, from another one.                                  *)
LEMMA CopyBlock ==
    ASSUME UseInv, MemTypes, NEW new \in RealBlock, AtPlace(new),
           NEW old \in RealBlock, AtPlace(old), NEW n \in Nat,
           n <= Room(new), n <= Room(old),
           mem' = memcpy(mem, new, old, n), UNCHANGED << mapped, crashed >>
    PROVE  /\ OnlyIn(new) /\ MemTypes'
           /\ \A i \in 0 .. n - 1 : mem'[new.base][new.at + i] = mem[old.base][old.at + i]
<1>1. /\ new.base \in Chunks \cup Mappings /\ old.base \in Chunks \cup Mappings
      /\ new.at \in Nat /\ Room(new) \in Int /\ new.at + Room(new) <= MaxCells
      /\ old.at \in Nat /\ Room(old) \in Int /\ old.at + Room(old) <= MaxCells
      /\ mem \in [Chunks \cup Mappings -> [Cells -> Contents]]
  BY RoomBounded DEF RealBlock, UseInv, MemTypes
<1>2. mem' = [mem EXCEPT ![new.base] =
                [i \in Cells |-> IF i \in new.at .. new.at + n - 1
                                   THEN mem[old.base][old.at + (i - new.at)] ELSE @[i]]]
  <2>1. DOMAIN mem[new.base] = Cells
    BY <1>1
  <2>. QED  BY <2>1 DEF memcpy
<1>3. ASSUME NEW i \in new.at .. new.at + n - 1
      PROVE  i \in Cells /\ old.at + (i - new.at) \in Cells
  <2>1. i \in Nat /\ i - new.at \in Nat /\ i - new.at < n
    BY <1>1
  <2>2. PICK k \in Nat : k = i - new.at /\ k < n /\ i = new.at + k
    BY <1>1, <2>1
  <2>3. k < Room(new) /\ k < Room(old)
    BY <1>1, <2>2
  <2>4. \A at \in Nat, room \in Int : at + room <= MaxCells /\ k < room => at + k \in Cells
    BY Numbers
  <2>5. new.at + k \in Cells /\ old.at + k \in Cells
    BY <1>1, <2>3, <2>4
  <2>. QED  BY <2>2, <2>5
<1>4. /\ \A i \in Cells : i \notin new.at .. new.at + n - 1 =>
            mem'[new.base][i] = mem[new.base][i]
      /\ \A i \in new.at .. new.at + n - 1 :
            mem'[new.base][i] = mem[old.base][old.at + (i - new.at)]
      /\ \A x \in Chunks \cup Mappings : x # new.base => mem'[x] = mem[x]
  BY <1>1, <1>2, <1>3
<1>5. OnlyIn(new)
  <2>1. ASSUME NEW i \in Cells, i < new.at \/ i >= new.at + Room(new)
        PROVE  i \notin new.at .. new.at + n - 1
    <3>1. i \in Nat
      BY Numbers
    <3>. QED  BY <1>1, <2>1, <3>1
  <2>. QED  BY <1>1, <1>4, <2>1 DEF OnlyIn
<1>6. MemTypes'
  <2>1. mem' \in [Chunks \cup Mappings -> [Cells -> Contents]]
    BY <1>1, <1>2, <1>3
  <2>. QED  BY <2>1 DEF MemTypes
<1>7. ASSUME NEW i \in 0 .. n - 1
      PROVE  mem'[new.base][new.at + i] = mem[old.base][old.at + i]
  <2>1. new.at + i \in new.at .. new.at + n - 1 /\ (new.at + i) - new.at = i
    BY <1>1
  <2>. QED  BY <1>4, <2>1
<1>. QED  BY <1>5, <1>6, <1>7

(* What realloc copies holds all that the new block is to keep.            *)
LEMMA CopiedEnough ==
    ASSUME NEW t \in Threads, AllInv, th[t].pc = "copy",
           NEW old, old = th[t].old, NEW size, size = th[t].size,
           NEW n, n = NumToCopy(t)
    PROVE  n \in Nat /\ (~Wraps(size) => Lesser(old.filled, size) <= n)
<1>1. /\ size \in Nat /\ old # NoBlock /\ UseInv
  BY RequestFacts DEF AllInv, UseInv, UseTypes, CallType, Shape
<1>2. old \in RealBlock /\ AtPlace(old) /\ Sound(old) /\ old.filled \in Nat
  BY <1>1, OwnedBlock DEF RealBlock
<1>3. CASE th[t].old_large
  <2>1. n = size
    BY <1>3 DEF NumToCopy
  <2>. QED  BY <1>1, <1>2, <2>1 DEF Lesser
<1>4. CASE ~th[t].old_large
  <2>1. old.base \in Chunks
    <3>1. CallOK(th[t])
      BY DEF AllInv, MemInv
    <3>. QED  BY <1>1, <1>2, <1>4, <3>1 DEF CallOK, RealBlock
  <2>2. Room(old) = Table[ChunkBin[old.base]] /\ Room(old) \in Nat
    BY <1>2, <2>1, PlaceFacts
  <2>3. n = Lesser(Room(old), size)
    BY <1>4, <2>2 DEF NumToCopy, get_block_size
  <2>4. old.filled <= Room(old)
    BY <1>2 DEF Sound
  <2>. QED  BY <1>1, <1>2, <2>2, <2>3, <2>4 DEF Lesser
<1>. QED  BY <1>3, <1>4

LEMMA CopyMem ==
    ASSUME NEW t \in Threads, AllInv, Copy(t)
    PROVE  MemInv'
<1>1. PICK old, new, size, n :
        old = th[t].old /\ new = th[t].new /\ size = th[t].size /\ n = NumToCopy(t)
  OBVIOUS
<1>2. /\ th[t].pc = "copy" /\ old # NoBlock /\ new # NoBlock
      /\ UseInv /\ UseTypes /\ MemTypes /\ MemInv
      /\ size \in 0 .. SIZE_MOD - 1 /\ CallOK(th[t])
  BY <1>1 DEF Copy, At, AllInv, UseInv, Shape, MemInv, UseTypes, CallType
<1>3. /\ old \in RealBlock /\ AtPlace(old) /\ Sound(old) /\ Tagged(old)
      /\ new \in RealBlock /\ AtPlace(new) /\ Sound(new) /\ Tagged(new)
      /\ old \in Owned(t) /\ max_block_size = Largest
  BY <1>1, <1>2, OwnedBlock
<1>4. new.size = size /\ ~Is(old, new) /\ old # new
  BY <1>1, <1>2, DistinctBlocks DEF CallOK, Is
<1>5. n \in Nat /\ (~Wraps(size) => Lesser(old.filled, size) <= n)
  BY <1>1, <1>2, CopiedEnough
<1>6. /\ n <= Room(old) /\ n <= Room(new) /\ mem' = memcpy(mem, new, old, n)
      /\ UNCHANGED << mapped, crashed, max_block_size, held >>
  BY <1>1, <1>3, <1>5, RoomType, <1>2 DEF Copy, CopyFits, Lesser, tableVars, table
<1>7. /\ OnlyIn(new) /\ MemTypes'
      /\ \A i \in 0 .. n - 1 : mem'[new.base][new.at + i] = mem[old.base][old.at + i]
  BY <1>2, <1>3, <1>5, <1>6, CopyBlock
<1>8. /\ \A e \in Others(t) : Untouched(e)
      /\ \A e \in held : Sound(e)' /\ Tagged(e)'
      /\ Outside' /\ Sound(old)' /\ Tagged(old)' /\ Tagged(new)'
  <2>1. /\ \A e \in Others(t) : Untouched(e)
        /\ \A e \in held : Sound(e)' /\ Tagged(e)'
        /\ \A e \in Owned(t) : e # new => Untouched(e) /\ Sound(e)'
        /\ Outside'
    BY <1>1, <1>2, <1>7, OwnWrite
  <2>2. Tagged(new)'
    BY <1>2, <1>3, <1>7, WritesInBlock
  <2>. QED  BY <1>3, <1>4, <2>1, <2>2, TagStays
<1>9. PICK f : f = StillFilled(old, size)
  OBVIOUS
<1>10. /\ f \in Nat /\ f <= size /\ f <= Room(new) /\ f <= old.filled
       /\ Wraps(size) => f = 0
  BY <1>2, <1>3, <1>4, <1>9, StillFilledFacts
<1>11. f <= n
  BY <1>5, <1>9, <1>10 DEF StillFilled
<1>12. PICK d : d = Holding(new, old.word, f)
  OBVIOUS
<1>13. /\ d.base = new.base /\ d.at = new.at /\ d.size = size /\ d.word = old.word
       /\ d.filled = f /\ d \in RealBlock
  BY <1>3, <1>4, <1>10, <1>12, SameBlock DEF Holding, RealBlock
<1>14. \A i \in 0 .. f - 1 : mem'[d.base][d.at + i] = d.word
  <2>1. ASSUME NEW i \in 0 .. f - 1  PROVE mem'[d.base][d.at + i] = d.word
    <3>1. i \in 0 .. n - 1 /\ i \in 0 .. old.filled - 1
      BY <1>3, <1>5, <1>10, <1>11 DEF RealBlock
    <3>. QED  BY <1>3, <1>7, <1>13, <3>1 DEF Sound
  <2>. QED  BY <2>1
<1>15. Room(d)' = Room(new)
  BY <1>6, <1>13 DEF Room
<1>16. Sound(d)' /\ Tagged(d)'
  BY <1>3, <1>4, <1>6, <1>8, <1>10, <1>13, <1>14, <1>15 DEF Sound, Tagged
<1>17. PICK c : /\ th' = [th EXCEPT ![t] = c]
                /\ c.pc = "free" /\ c.new = d /\ c.old = old
  <2>1. GoOn(t, "free", d)
    BY <1>1, <1>9, <1>12 DEF Copy
  <2>. QED  BY <1>1, <1>2, <1>13, <2>1, GoesOn
<1>18. CallOK(c) /\ CallTagged(c)'
  BY <1>8, <1>16, <1>17 DEF CallOK, CallTagged
<1>. QED  BY <1>3, <1>6, <1>7, <1>8, <1>16, <1>17, <1>18, MemStep

(* The end of free, and of realloc, once the old block is freed.           *)
LEMMA HandNewMem ==
    ASSUME NEW t \in Threads, AllInv, th[t].pc = "free", HandNew(t), MemTypes', Outside',
           max_block_size' = max_block_size,
           \A e \in Others(t) : Untouched(e),
           \A e \in held : Sound(e)' /\ Tagged(e)',
           \A e \in Owned(t) : e # th[t].old => Untouched(e)
    PROVE  MemInv'
<1>1. PICK old, new : old = th[t].old /\ new = th[t].new
  OBVIOUS
<1>2. old # NoBlock /\ UseInv /\ UseTypes /\ max_block_size = Largest
  BY <1>1, OwnedBlock DEF AllInv, UseInv, Shape
<1>3. /\ th' = [th EXCEPT ![t] = Idle]
      /\ Idle.old = NoBlock /\ Idle.new = NoBlock /\ Idle.pc = "idle"
  BY BlockFacts DEF HandNew, Return_NULL, Hand, Return
<1>4. CallOK(Idle) /\ CallTagged(Idle)'
  BY <1>3 DEF CallOK, CallTagged
<1>5. CASE new = NoBlock
  <2>1. held' = held
    BY <1>1, <1>5 DEF HandNew, Return_NULL
  <2>. QED  BY <1>2, <1>3, <1>4, <2>1, MemStep
<1>6. CASE new # NoBlock
  <2>1. held' = held \cup {new}
    BY <1>1, <1>6 DEF HandNew, Hand
  <2>2. new \in RealBlock /\ new \in Owned(t) /\ Sound(new) /\ Tagged(new) /\ new # old
    BY <1>1, <1>2, <1>6, OwnedBlock, DistinctBlocks DEF Is
  <2>3. Sound(new)' /\ Tagged(new)'
    BY <1>1, <1>2, <2>2, SoundStays, TagStays
  <2>. QED  BY <1>2, <1>3, <1>4, <2>1, <2>3, MemStep
<1>. QED  BY <1>5, <1>6

LEMMA HeapFreeMem ==
    ASSUME NEW t \in Threads, AllInv, HeapFree(t)
    PROVE  MemInv'
<1>1. PICK old : old = th[t].old
  OBVIOUS
<1>2. th[t].pc = "free" /\ old # NoBlock /\ UseInv /\ MemTypes
  BY <1>1 DEF HeapFree, At, AllInv, UseInv, Shape, MemInv
<1>3. old \in RealBlock /\ AtPlace(old)
  BY <1>1, <1>2, OwnedBlock
<1>4. /\ mem' = [mem EXCEPT ![old.base][old.at] = LINK]
      /\ old.base \in Chunks /\ HandNew(t)
      /\ UNCHANGED << mapped, crashed, max_block_size >>
  BY <1>1 DEF HeapFree, tableVars, table
<1>5. old.at \in Cells /\ Room(old) \in Nat /\ Room(old) > 0
  BY <1>3, <1>4, PlaceFacts
<1>6. /\ \A x \in Chunks \cup Mappings : x # old.base => mem'[x] = mem[x]
      /\ mem'[old.base] = [mem[old.base] EXCEPT ![old.at] = LINK]
      /\ mem[old.base] \in [Cells -> Contents]
  BY <1>2, <1>4 DEF MemTypes
<1>7. OnlyIn(old)
  BY <1>4, <1>5, <1>6, Numbers DEF OnlyIn
<1>8. MemTypes'
  <2>1. mem'[old.base] \in [Cells -> Contents]
    BY <1>6 DEF Contents
  <2>2. mem' \in [Chunks \cup Mappings -> [Cells -> Contents]]
    BY <1>2, <1>4, <1>6, <2>1 DEF MemTypes
  <2>. QED  BY <1>2, <1>4, <2>2 DEF MemTypes
<1>9. /\ \A e \in Others(t) : Untouched(e)
      /\ \A e \in held : Sound(e)' /\ Tagged(e)'
      /\ \A e \in Owned(t) : e # old => Untouched(e)
      /\ Outside'
  BY <1>1, <1>2, <1>7, OwnWrite
<1>. QED  BY <1>1, <1>2, <1>4, <1>8, <1>9, HandNewMem

(* Two blocks in mappings have two mappings.                               *)
LEMMA MappingsApart ==
    ASSUME UseInv, NEW b, AtPlace(b), NEW d, AtPlace(d), d.base \in Mappings, ~Is(b, d)
    PROVE  b.base # d.base
  BY RoomsApart, Numbers

(* A call that changes mappings of its own only.                           *)
LEMMA OwnMappings ==
    ASSUME NEW t \in Threads, AllInv, NEW T \in SUBSET Mappings,
           \A x \in (Chunks \cup Mappings) \ T : mem'[x] = mem[x],
           \A r \in Mappings \ T : mapped'[r] = mapped[r],
           \A r \in T : \E d \in Owned(t) : d.base = r
    PROVE  /\ \A e \in Others(t) : Untouched(e)
           /\ \A e \in held : Sound(e)' /\ Tagged(e)'
           /\ \A e \in Owned(t) : e.base \notin T => Untouched(e)
           /\ Outside'
<1>1. /\ UseInv /\ UseTypes /\ MemInv /\ Outside
      /\ Reach(t) \subseteq Blocks /\ Others(t) \subseteq Blocks /\ held \subseteq Reach(t)
      /\ Owned(t) \subseteq Reach(t)
  BY BlocksSplit DEF AllInv, UseInv, MemInv, Reach
<1>2. /\ \A b \in RealBlock : b.base \notin T => Untouched(b)
      /\ Outside'
  BY <1>1, WritesInMappings
<1>3. ASSUME NEW e \in Others(t) \cup held  PROVE e.base \notin T
  <2>. SUFFICES ASSUME e.base \in T PROVE FALSE
    OBVIOUS
  <2>1. PICK d \in Owned(t) : d.base = e.base
    OBVIOUS
  <2>2. ~Is(e, d) /\ AtPlace(e) /\ AtPlace(d) /\ d.base \in Mappings
    BY <1>1, <2>1, DistinctBlocks, RealBlocks, BlocksAtPlaces
  <2>. QED  BY <1>1, <2>1, <2>2, MappingsApart
<1>4. ASSUME NEW e \in Blocks, e.base \notin T  PROVE Untouched(e) /\ Sound(e)'
  BY <1>1, <1>2, <1>4, RealBlocks, SoundStays DEF MemInv
<1>5. \A e \in held : Tagged(e)'
  BY <1>1, <1>3, <1>4, TagStays DEF MemInv
<1>. QED  BY <1>1, <1>2, <1>3, <1>4, <1>5

LEMMA large_freeMem ==
    ASSUME NEW t \in Threads, AllInv, large_free(t)
    PROVE  MemInv'
<1>1. PICK old, r : old = th[t].old /\ r = old.base
  OBVIOUS
<1>2. /\ th[t].pc = "free" /\ old # NoBlock /\ UseInv /\ UseTypes /\ MemTypes
      /\ r \in Mappings /\ HandNew(t) /\ UNCHANGED << crashed, max_block_size >>
      /\ mapped' = [mapped EXCEPT ![r] = 0]
      /\ mem' = [mem EXCEPT ![r] = WithoutPages(@, FreedLength(t))]
  <2>1. /\ th[t].pc = "free" /\ old # NoBlock /\ UseInv /\ UseTypes /\ MemTypes
        /\ r \in Mappings /\ HandNew(t) /\ UNCHANGED << crashed, max_block_size >>
        /\ Unmap(r, FreedLength(t))
        /\ mem' = [mem EXCEPT ![r] = WithoutPages(@, FreedLength(t))]
    BY <1>1 DEF large_free, At, AllInv, UseInv, Shape, MemInv, tableVars, table
  <2>2. mapped[r] = InPages(FreedLength(t)) /\ mapped[r] \in Nat
    BY <1>1, <2>1, HeaderRight DEF UseTypes
  <2>3. mapped[r] - InPages(FreedLength(t)) = 0
    BY <2>2
  <2>. QED  BY <2>1, <2>3 DEF Unmap
<1>3. old \in RealBlock /\ AtPlace(old) /\ old \in Owned(t)
  BY <1>1, <1>2, OwnedBlock
<1>4. /\ \A x \in Chunks \cup Mappings : x # r => mem'[x] = mem[x]
      /\ \A s \in Mappings : s # r => mapped'[s] = mapped[s]
      /\ mapped'[r] = 0
  BY <1>2 DEF MemTypes, UseTypes
<1>5. MemTypes'
  <2>1. WithoutPages(mem[r], FreedLength(t)) \in [Cells -> Contents]
    BY <1>2, WithoutPagesType DEF MemTypes
  <2>2. mem' \in [Chunks \cup Mappings -> [Cells -> Contents]]
    BY <1>2, <2>1 DEF MemTypes
  <2>3. 0 <= MaxCells /\ 0 % PAGE = 0
    BY Numbers
  <2>. QED  BY <1>2, <1>4, <2>2, <2>3 DEF MemTypes
<1>6. PICK T \in SUBSET Mappings : T = {r}
  BY <1>2
<1>7. /\ \A e \in Others(t) : Untouched(e)
      /\ \A e \in held : Sound(e)' /\ Tagged(e)'
      /\ \A e \in Owned(t) : e.base \notin T => Untouched(e)
      /\ Outside'
  BY <1>1, <1>3, <1>4, <1>6, OwnMappings
<1>8. ASSUME NEW e \in Owned(t), e # old  PROVE Untouched(e)
  <2>1. e = th[t].new /\ e # NoBlock
    BY <1>1, <1>8 DEF Owned
  <2>2. AtPlace(e) /\ ~Is(e, old)
    BY <1>1, <1>2, <2>1, OwnedBlock, DistinctBlocks DEF Is
  <2>. QED  BY <1>1, <1>2, <1>3, <1>6, <1>7, <2>2, MappingsApart
<1>. QED  BY <1>1, <1>2, <1>5, <1>7, <1>8, HandNewMem

LEMMA LargeMapMem ==
    ASSUME NEW t \in Threads, AllInv, NEW r \in Mappings, LargeMap(t, r)
    PROVE  MemInv'
<1>1. PICK old, size : old = th[t].old /\ size = th[t].size
  OBVIOUS
<1>2. /\ th[t].pc = "large_map" /\ old # NoBlock /\ UseInv /\ UseTypes /\ MemTypes /\ MemInv
      /\ size \in 0 .. SIZE_MOD - 1 /\ size \in Nat /\ CallOK(th[t])
      /\ Map(r, size) /\ UNCHANGED << mem, held, crashed, max_block_size >>
  BY <1>1, RequestFacts DEF LargeMap, At, AllInv, UseInv, Shape, MemInv, UseTypes, CallType,
     tableVars, table
<1>3. th[t].want = size /\ th[t].old_large /\ size > Largest
  BY <1>1, <1>2 DEF CallOK
<1>4. LargePlace(r).base = r /\ LargePlace(r).at = SizeOfMmapHeader
  BY DEF LargePlace
<1>5. PICK b \in RealBlock : b = BlockAt(LargePlace(r), size) /\ Place(b) = LargePlace(r)
  BY <1>2, <1>4, BlockFacts, NewBlockType DEF LargePlace
<1>6. b.base = r /\ b.size = size
  BY <1>4, <1>5 DEF BlockAt
<1>7. /\ \A e \in Blocks : Untouched(e)
      /\ Outside' /\ Sound(b)'
      /\ \A s \in Mappings : mapped'[s] <= MaxCells /\ mapped'[s] % PAGE = 0
  BY <1>2, <1>3, <1>5, MapMem
<1>8. MemTypes'
  BY <1>2, <1>7 DEF MemTypes
<1>9. PICK c : /\ th' = [th EXCEPT ![t] = c]
               /\ c.pc = "large_copy" /\ c.new = b /\ c.old = old
               /\ c.old_large = th[t].old_large /\ c.size = size /\ c.want = size
  <2>1. GoOn(t, "large_copy", b)
    BY <1>1, <1>5 DEF LargeMap, LargePlace
  <2>2. b \in RealBlock \cup {NoBlock}
    BY <1>5
  <2>3. \E c \in CallType :
             /\ th' = [th EXCEPT ![t] = c]
             /\ c.pc = "large_copy" /\ c.new = b
             /\ c.op = th[t].op /\ c.old = th[t].old /\ c.old_large = th[t].old_large
             /\ c.size = th[t].size /\ c.want = th[t].want
    BY <1>2, <2>1, <2>2, GoesOn
  <2>. QED  BY <1>1, <1>3, <2>3
<1>10. CallOK(c)
  BY <1>1, <1>2, <1>3, <1>6, <1>9 DEF CallOK
<1>11. old \in Blocks /\ old \in RealBlock /\ Sound(old) /\ Tagged(old) /\ max_block_size = Largest
  BY <1>1, <1>2, OwnedBlock
<1>12. Sound(old)' /\ Tagged(old)'
  BY <1>2, <1>7, <1>11, SoundStays, TagStays
<1>13. CallTagged(c)'
  BY <1>9, <1>12 DEF CallTagged
<1>14. \A e \in held : Sound(e)' /\ Tagged(e)'
  BY <1>2, <1>7, RealBlocks, SoundStays, TagStays DEF MemInv
<1>15. Others(t) \subseteq Blocks
  BY BlocksSplit
<1>. QED  BY <1>2, <1>7, <1>8, <1>9, <1>10, <1>11, <1>12, <1>13, <1>14, <1>15, MemStep

LEMMA LargeCopyMem ==
    ASSUME NEW t \in Threads, AllInv, LargeCopy(t)
    PROVE  MemInv'
<1>1. PICK old, new, size, r, s, n :
        /\ old = th[t].old /\ new = th[t].new /\ size = th[t].size
        /\ r = old.base /\ s = new.base /\ n = OldAlloced(t)
  OBVIOUS
<1>2. /\ th[t].pc = "large_copy" /\ old # NoBlock /\ new # NoBlock
      /\ UseInv /\ UseTypes /\ MemTypes /\ MemInv
      /\ size \in 0 .. SIZE_MOD - 1 /\ size \in Nat /\ CallOK(th[t])
  <2>1. UseInv /\ UseTypes /\ MemTypes /\ MemInv /\ CallOK(th[t]) /\ Shape(th[t])
    <3>1. UseInv /\ MemInv
      BY DEF AllInv
    <3>. QED  BY <3>1 DEF UseInv, MemInv
  <2>2. th[t].pc = "large_copy" /\ old # NoBlock /\ new # NoBlock
    BY <1>1, <2>1 DEF LargeCopy, At, Shape
  <2>3. size \in 0 .. SIZE_MOD - 1
    <3>1. th[t] \in CallType /\ size = th[t].size
      BY <1>1, <2>1 DEF UseTypes
    <3>. QED  BY <3>1 DEF CallType
  <2>4. size \in Nat
    BY <2>3, RequestFacts
  <2>. QED  BY <2>1, <2>2, <2>3, <2>4
<1>3. /\ old \in RealBlock /\ AtPlace(old) /\ Sound(old) /\ Tagged(old)
      /\ new \in RealBlock /\ AtPlace(new) /\ Sound(new)
      /\ old \in Owned(t) /\ new \in Owned(t) /\ max_block_size = Largest
  BY <1>1, <1>2, OwnedBlock
<1>4. /\ r \in Mappings /\ s \in Mappings /\ r # s /\ new.size = size
      /\ size > Largest /\ old.at = 2 /\ new.at = 2
  <2>1. r \in Mappings /\ s \in Mappings /\ new.size = size /\ size > Largest
    BY <1>1, <1>2 DEF LargeCopy, LargeCopyFits, CallOK
  <2>2. ~Is(new, old)
    BY <1>1, <1>2, DistinctBlocks DEF Is
  <2>3. r # s
    BY <1>1, <1>2, <1>3, <2>1, <2>2, MappingsApart
  <2>. QED  BY <1>1, <1>3, <2>1, <2>3, PlaceFacts
<1>5. n = alloced_size(old.size) /\ old.size \in 0 .. SIZE_MOD - 1 /\ n \in Nat
  <2>1. header_size(mem, old) = old.size
    <3>1. old.at - 1 = 1
      BY <1>4
    <3>. QED  BY <1>1, <1>3, <1>4, <3>1 DEF header_size, Tagged
  <2>2. old.size \in 0 .. SIZE_MOD - 1
    BY <1>3, Numbers DEF RealBlock, Sound
  <2>. QED  BY <1>1, <2>1, <2>2, AllocedFacts DEF OldAlloced
<1>6. n <= mapped[r] /\ n <= mapped[s] /\ mapped[r] \in Nat /\ mapped[s] \in Nat
        /\ mapped[s] <= MaxCells
  <2>1. mapped[r] \in Nat /\ mapped[s] \in Nat /\ mapped[s] <= MaxCells
    BY <1>2, <1>4 DEF UseTypes, MemTypes
  <2>2. n <= Lesser(mapped[r], mapped[s])
    BY <1>1 DEF LargeCopy, LargeCopyFits
  <2>. QED  BY <1>5, <2>1, <2>2 DEF Lesser
<1>7. PICK copied, headed, zeros :
        /\ copied = memcpy(mem, [base |-> s, at |-> 0], [base |-> r, at |-> 0], n)
        /\ headed = WithMmapHeader(copied[s], size)
        /\ zeros = WithoutPages(mem[r], n)
        /\ mem' = [copied EXCEPT ![s] = headed, ![r] = zeros]
        /\ mapped' = [mapped EXCEPT ![r] = 0]
        /\ UNCHANGED << crashed, max_block_size >>
  <2>1. PICK copied, headed, zeros :
          /\ copied = memcpy(mem, [base |-> s, at |-> 0], [base |-> r, at |-> 0], n)
          /\ headed = WithMmapHeader(copied[s], size)
          /\ zeros = WithoutPages(mem[r], n)
    OBVIOUS
  <2>2. s \in DOMAIN copied /\ r \in DOMAIN copied /\ copied[r] = mem[r]
    BY <1>2, <1>4, <2>1 DEF memcpy, MemTypes
  <2>3. mem' = [copied EXCEPT ![s] = headed, ![r] = zeros]
    <3>1. mem' = [copied EXCEPT ![s] = WithMmapHeader(@, size), ![r] = WithoutPages(@, n)]
      BY <1>1, <2>1 DEF LargeCopy
    <3>2. DOMAIN copied = Chunks \cup Mappings
      BY <1>2, <2>1 DEF memcpy, MemTypes
    <3>3. mem'[s] = headed /\ mem'[r] = zeros
      BY <1>4, <2>1, <2>2, <3>1, <3>2
    <3>4. \A x \in (Chunks \cup Mappings) \ {r, s} : mem'[x] = copied[x]
      BY <1>4, <3>1, <3>2
    <3>5. mem' = [x \in Chunks \cup Mappings |-> mem'[x]]
      BY <3>1, <3>2
    <3>. QED  BY <1>4, <3>2, <3>3, <3>4, <3>5
  <2>4. mapped' = [mapped EXCEPT ![r] = 0]
    <3>1. mapped[r] = InPages(n)
      BY <1>1, <1>2, <1>4, HeaderRight DEF FreedLength, OldAlloced
    <3>2. mapped[r] - InPages(n) = 0
      BY <1>6, <3>1
    <3>. QED  BY <1>1, <3>2 DEF LargeCopy, Unmap
  <2>5. UNCHANGED << crashed, max_block_size >>
    BY DEF LargeCopy, tableVars, table
  <2>. QED  BY <2>1, <2>3, <2>4, <2>5
<1>8. /\ mem' \in [Chunks \cup Mappings -> [Cells -> Contents]]
      /\ \A x \in (Chunks \cup Mappings) \ {r, s} : mem'[x] = mem[x]
      /\ mem'[s][0] = MAGIC /\ mem'[s][1] = size
      /\ \A i \in Cells : 1 < i /\ i < n => mem'[s][i] = mem[r][i]
  <2>1. /\ mem \in [Chunks \cup Mappings -> [Cells -> Contents]]
        /\ 0 \in Cells /\ 1 \in Cells /\ MAGIC \in Contents /\ size \in Contents
        /\ 0 \in Contents /\ n <= MaxCells
    BY <1>2, <1>5, <1>6, Numbers DEF MemTypes, Contents
  <2>2. PICK cells :
          cells = [i \in Cells |-> IF i \in 0 .. 0 + n - 1
                                   THEN mem[r][0 + (i - 0)] ELSE mem[s][i]]
    OBVIOUS
  <2>3. /\ cells \in [Cells -> Contents] /\ zeros \in [Cells -> Contents]
        /\ \A i \in Cells : i < n => cells[i] = mem[r][i]
    <3>1. \A i \in Cells : 0 + (i - 0) = i /\ (i \in 0 .. 0 + n - 1 <=> i < n)
      BY <1>5, Numbers
    <3>2. zeros \in [Cells -> Contents]
      BY <1>4, <1>7, <2>1, WithoutPagesType
    <3>. QED  BY <1>4, <2>1, <2>2, <3>1, <3>2
  <2>4. copied = [mem EXCEPT ![s] = cells]
    <3>1. DOMAIN mem[s] = Cells
      BY <1>4, <2>1
    <3>. QED  BY <1>7, <2>2, <3>1 DEF memcpy
  <2>5. copied[s] = cells
    BY <1>4, <2>1, <2>4
  <2>6. headed = [cells EXCEPT ![0] = MAGIC, ![1] = size]
    BY <1>7, <2>5 DEF WithMmapHeader
  <2>7. /\ headed \in [Cells -> Contents] /\ headed[0] = MAGIC /\ headed[1] = size
        /\ \A i \in Cells : 1 < i => headed[i] = cells[i]
    <3>1. 0 # 1 /\ \A i \in Cells : 1 < i => i # 0 /\ i # 1
      BY Numbers
    <3>. QED  BY <2>1, <2>3, <2>6, <3>1
  <2>8. mem' = [[mem EXCEPT ![s] = headed] EXCEPT ![r] = zeros]
    BY <1>4, <1>7, <2>1, <2>2, <2>4
  <2>9. mem' \in [Chunks \cup Mappings -> [Cells -> Contents]]
    BY <2>1, <2>3, <2>7, <2>8
  <2>10. /\ \A x \in (Chunks \cup Mappings) \ {r, s} : mem'[x] = mem[x]
         /\ mem'[s] = headed
    BY <1>4, <2>1, <2>8
  <2>11. \A i \in Cells : 1 < i /\ i < n => mem'[s][i] = mem[r][i]
    BY <2>3, <2>7, <2>10
  <2>. QED  BY <2>7, <2>9, <2>10, <2>11
<1>9. /\ \A q \in Mappings : q # r => mapped'[q] = mapped[q]
      /\ mapped'[r] = 0
  BY <1>2, <1>4, <1>7 DEF UseTypes
<1>10. MemTypes'
  <2>1. 0 <= MaxCells /\ 0 % PAGE = 0
    BY Numbers
  <2>. QED  BY <1>2, <1>7, <1>8, <1>9, <2>1 DEF MemTypes
<1>11. /\ \A e \in Others(t) : Untouched(e)
       /\ \A e \in held : Sound(e)' /\ Tagged(e)'
       /\ Outside'
  <2>1. PICK T \in SUBSET Mappings : T = {r, s}
    BY <1>4
  <2>2. /\ \A x \in (Chunks \cup Mappings) \ T : mem'[x] = mem[x]
        /\ \A q \in Mappings \ T : mapped'[q] = mapped[q]
        /\ \A q \in T : \E d \in Owned(t) : d.base = q
    BY <1>1, <1>3, <1>8, <1>9, <2>1
  <2>. QED  BY <2>2, OwnMappings
<1>12. PICK f : f = StillFilled(old, size)
  OBVIOUS
<1>13. /\ f \in Nat /\ f <= size /\ f <= Room(new) /\ f <= old.filled
       /\ Wraps(size) => f = 0
  BY <1>2, <1>3, <1>4, <1>12, StillFilledFacts
<1>14. PICK d : d = Holding(new, old.word, f) /\ held' = held \cup {d}
                  /\ th' = [th EXCEPT ![t] = Idle]
  BY <1>1, <1>12 DEF LargeCopy, Hand, Return
<1>15. /\ d.base = s /\ d.at = 2 /\ d.size = size /\ d.word = old.word /\ d.filled = f
  BY <1>1, <1>4, <1>14 DEF Holding
<1>16. \A i \in 0 .. f - 1 : mem'[d.base][d.at + i] = d.word
  <2>1. ASSUME NEW i \in 0 .. f - 1  PROVE mem'[d.base][d.at + i] = d.word
    <3>1. i \in 0 .. old.filled - 1 /\ old.filled # 0 /\ old.filled <= old.size
      BY <1>3, <1>13 DEF RealBlock, Sound
    <3>2. ~Wraps(old.size)
      BY <1>3, <3>1 DEF Sound
    <3>3. n = old.size + 2
      BY <1>5, <3>2, AllocedFacts
    <3>4. 2 + i < n /\ 1 < 2 + i /\ 2 + i \in Nat /\ 2 + i < MaxCells
      <4>1. old.filled \in Nat /\ old.size \in Nat /\ n <= MaxCells /\ MaxCells \in Nat
        BY <1>3, <1>5, <1>6, Numbers DEF RealBlock
      <4>2. i \in Nat /\ i < old.filled
        BY <3>1, <4>1
      <4>. QED  BY <3>1, <3>3, <4>1, <4>2
    <3>5. 2 + i \in Cells
      BY <3>4, Numbers
    <3>6. mem[r][2 + i] = old.word
      BY <1>1, <1>3, <1>4, <3>1 DEF Sound
    <3>. QED  BY <1>8, <1>15, <3>4, <3>5, <3>6
  <2>. QED  BY <2>1
<1>17. Room(d)' = Room(new) /\ s \notin Chunks
  BY <1>1, <1>4, <1>9, <1>15, Numbers DEF Room
<1>18. Sound(d)'
  <2>1. mapped'[s] = InPages(alloced_size(size))
    BY <1>1, <1>3, <1>4, <1>9 DEF Sound
  <2>2. size < SIZE_MOD
    BY <1>2, Numbers
  <2>. QED  BY <1>4, <1>13, <1>15, <1>16, <1>17, <2>1, <2>2 DEF Sound
<1>19. Tagged(d)'
  BY <1>8, <1>15 DEF Tagged
<1>20. Idle.old = NoBlock /\ Idle.new = NoBlock /\ Idle.pc = "idle"
  BY BlockFacts
<1>21. CallOK(Idle) /\ CallTagged(Idle)'
  BY <1>20 DEF CallOK, CallTagged
<1>. QED  BY <1>3, <1>7, <1>10, <1>11, <1>14, <1>18, <1>19, <1>20, <1>21, MemStep

-----------------------------------------------------------------------------
(* The invariant holds *)

LEMMA MemInit ==
    ASSUME Init
    PROVE  MemInv
<1>1. UseInv
  BY UseInit
<1>2. \A t \in Threads : th[t] = Idle /\ th[t].old = NoBlock /\ th[t].new = NoBlock
                           /\ th[t].pc = "idle"
  BY BlockFacts DEF Init
<1>3. Blocks = {}
  <2>1. \A t \in Threads : Owned(t) = {}
    BY <1>2 DEF Owned
  <2>. QED  BY <2>1, Zenon DEF Blocks, Init
<1>4. MemTypes
  <2>1. 0 \in Contents /\ 0 <= MaxCells /\ 0 % PAGE = 0
    BY Numbers DEF Contents
  <2>. QED  BY <2>1 DEF Init, MemTypes
<1>5. \A t \in Threads : CallTagged(th[t]) /\ CallOK(th[t])
  BY <1>2 DEF CallTagged, CallOK
<1>6. Outside
  BY DEF Init, Outside
<1>7. LargestKnown
  BY <1>3 DEF Init, TableInit, LargestKnown
<1>. QED  BY <1>3, <1>4, <1>5, <1>6, <1>7 DEF MemInv, Init

LEMMA MemUnchanged ==
    ASSUME AllInv, UNCHANGED << mem, mapped, held, th >>, crashed' \in BOOLEAN,
           max_block_size' \in { max_block_size, Largest }
    PROVE  MemInv'
<1>1. UseInv /\ MemInv /\ UseTypes
  BY DEF AllInv, UseInv
<1>2. \A b : Untouched(b)
  BY DEF Untouched
<1>3. \A t \in Threads : Owned(t)' = Owned(t)
  BY DEF Owned
<1>4. Blocks' = Blocks
  BY <1>3, Zenon DEF Blocks
<1>5. \A b \in Blocks' : Sound(b)'
  BY <1>1, <1>2, <1>4, RealBlocks, SoundStays DEF MemInv
<1>6. \A b \in held' : Tagged(b)'
  BY <1>1, <1>2, TagStays DEF MemInv
<1>7. ASSUME NEW t \in Threads  PROVE CallTagged(th[t])' /\ CallOK(th[t])'
  BY <1>1 DEF MemInv, CallTagged, Tagged, CallOK
<1>8. MemTypes' /\ Outside'
  BY <1>1 DEF MemInv, MemTypes, Outside
<1>9. LargestKnown'
  BY <1>1, <1>4 DEF MemInv, LargestKnown
<1>. QED  BY <1>5, <1>6, <1>7, <1>8, <1>9 DEF MemInv

LEMMA MemNext ==
    ASSUME AllInv, [Next]_vars
    PROVE  MemInv'
<1>1. max_block_size' \in { max_block_size, Largest }
  BY StepsUseTable, OnlyFinalStored DEF AllInv, Largest
<1>2. crashed \in BOOLEAN
  BY DEF AllInv, MemInv, MemTypes
<1>3. ASSUME NEW t \in Threads, Continue(t)  PROVE MemInv'
  <2>1. CASE InitSizeTable(t) /\ UNCHANGED << memVars, held, th, crashed >>
    BY <1>1, <1>2, <2>1, MemUnchanged DEF memVars
  <2>. QED  BY <1>3, <2>1, HeapAllocMem, large_allocMem, LargeMapMem, MallocFailsMem,
            ZeroMem, CopyMem, HeapFreeMem, large_freeMem, LargeMapFailsMem,
            LargeCopyMem DEF Continue
<1>4. ASSUME NEW t \in Threads, Crash(t)  PROVE MemInv'
  BY <1>1, <1>4, MemUnchanged DEF Crash, memVars
<1>5. CASE Stopped \/ UNCHANGED vars
  BY <1>1, <1>2, <1>5, MemUnchanged DEF Stopped, vars, memVars
<1>. QED  BY <1>3, <1>4, <1>5, CallMem DEF Next

LEMMA AllInit == Init => AllInv
  BY UseInit, InitHolds, MemInit DEF Init, AllInv

LEMMA LengthsAreRight ==
    ASSUME AllInv
    PROVE  LengthsRight
<1>. SUFFICES ASSUME NEW t \in Threads, th[t].pc \in { "free", "large_copy" },
                     th[t].old.base \in Mappings
              PROVE  mapped[th[t].old.base] = InPages(FreedLength(t))
  BY DEF LengthsRight
<1>1. th[t].old # NoBlock
  BY DEF AllInv, UseInv, Shape
<1>. QED  BY <1>1, HeaderRight

LEMMA AllNext == AllInv /\ [Next]_vars => AllInv'
  BY UseNext, LengthsAreRight, StepsUseTable, StepHolds, MemNext DEF AllInv

LEMMA AllHolds == Spec => []AllInv
  BY AllInit, AllNext, PTL DEF Spec

-----------------------------------------------------------------------------
(* What a program may rely on *)

(* Every variable has its type, and the pages of a mapping are whole.      *)
THEOREM TypesHold == Spec => []TypeOK
<1>1. AllInv /\ TableTypeOK => TypeOK
  <2>. SUFFICES ASSUME AllInv, TableTypeOK PROVE TypeOK
    OBVIOUS
  <2>1. UseInv /\ UseTypes /\ MemTypes
    BY DEF AllInv, UseInv, MemInv
  <2>2. RealBlock \cup {NoBlock} \subseteq BlockType
    <3>1. 0 \in Cells
      BY Numbers
    <3>2. NoBlock = [base |-> NULL, at |-> 0, size |-> 0, word |-> 0, filled |-> 0]
      BY DEF NoBlock, BlockAt
    <3>. QED  BY <3>1, <3>2 DEF RealBlock, BlockType
  <2>3. held \subseteq BlockType
    BY <2>1, <2>2 DEF UseTypes
  <2>4. \A r \in Mappings : mapped[r] \in Cells \cup {MaxCells} /\ mapped[r] % PAGE = 0
    BY <2>1, Numbers DEF UseTypes, MemTypes
  <2>5. th \in [Threads -> [ pc : { "idle", "malloc", "zero", "copy", "free",
                                    "large_map", "large_copy" },
                             op : { "none", "malloc", "calloc", "realloc", "free" },
                             size : 0 .. SIZE_MOD - 1, want : Nat,
                             old : BlockType, old_large : BOOLEAN,
                             new : BlockType ]]
    BY <2>1, <2>2 DEF UseTypes, CallType
  <2>. QED  BY <2>1, <2>3, <2>4, <2>5 DEF TypeOK, UseTypes, MemTypes, Contents
<1>. QED  BY <1>1, AllHolds, InterfaceUsesTable, SizeTableTyped, PTL

(* No block and no mapping is lost or freed twice in any execution, with   *)
(* however many threads, whatever they ask for and whatever fails.         *)
THEOREM NoLeaks == Spec => []NothingLeaked
<1>1. AllInv => NothingLeaked
  BY UseCounts DEF AllInv
<1>. QED  BY <1>1, AllHolds, PTL

(* Every lookup of a call of malloc finds the first bin that fits.         *)
THEOREM LookupIsRight == Spec => []LookupFindsFirst
<1>1. AllInv => LookupFindsFirst
  BY LookupRight DEF AllInv, UseInv
<1>. QED  BY <1>1, AllHolds, PTL

(* What the program wrote into a block stays there, through realloc and    *)
(* whatever other threads do with their own blocks.                        *)
THEOREM WordsStay == Spec => []ContentsKept
<1>1. AllInv => ContentsKept
  BY DEF AllInv, MemInv, Sound, ContentsKept
<1>. QED  BY <1>1, AllHolds, PTL

(* Every block has the room that was asked for, except where the size and  *)
(* that of the header wrap around.                                         *)
THEOREM SizesHold == Spec => []LargeEnough
<1>1. AllInv => LargeEnough
  <2>. SUFFICES ASSUME AllInv, NEW b \in Blocks, ~Wraps(b.size)  PROVE b.size <= Room(b)
    BY DEF LargeEnough
  <2>1. UseInv /\ UseTypes /\ Sound(b) /\ b \in RealBlock /\ AtPlace(b)
    BY RealBlocks, BlocksAtPlaces DEF AllInv, UseInv, MemInv
  <2>. QED  BY <2>1, SizeFits
<1>. QED  BY <1>1, AllHolds, PTL

(* The header of a large block is right wherever free or realloc read it.  *)
THEOREM TagsHold == Spec => []HeadersKept
<1>1. ASSUME AllInv, NEW b \in held \cup UNION { Finished(t) : t \in Threads },
             b.base \in Mappings
      PROVE  is_large_alloc(mem, b) /\ header_size(mem, b) = b.size
  <2>1. AtPlace(b) /\ Tagged(b)
    <3>1. CASE b \in held
      BY <1>1, <3>1, HeldBlock
    <3>2. ASSUME NEW t \in Threads, b \in Finished(t)  PROVE AtPlace(b) /\ Tagged(b)
      <4>1. Shape(th[t])
        BY <1>1 DEF AllInv, UseInv
      <4>2. /\ b # NoBlock /\ (b = th[t].old \/ b = th[t].new)
            /\ b = th[t].old \/ th[t].pc # "large_copy"
        BY <3>2, <4>1 DEF Finished, Owned, Shape
      <4>. QED  BY <1>1, <4>2, OwnedBlock
    <3>. QED  BY <3>1, <3>2
  <2>2. b.at - 1 = 1
    BY <1>1, <2>1, PlaceFacts
  <2>. QED  BY <1>1, <2>1, <2>2, LargeIsTagged DEF header_size, Tagged
<1>2. AllInv => HeadersKept
  BY <1>1 DEF HeadersKept
<1>. QED  BY <1>2, AllHolds, PTL

(* A step that faults without a cause from before the step is a realloc of *)
(* a large block to a smaller large size.                                  *)
LEMMA KnownFaults ==
    ASSUME AllInv, NEW t \in Threads, Faults(t),
           ~TakenForLarge(t), ~Wraps(th[t].want), ~Wraps(th[t].old.size)
    PROVE  At(t, "large_copy") /\ th[t].size < th[t].old.size
<1>1. PICK old, new, size : old = th[t].old /\ new = th[t].new /\ size = th[t].size
  OBVIOUS
<1>2. /\ UseInv /\ UseTypes /\ Shape(th[t]) /\ CallOK(th[t])
      /\ size \in Nat /\ th[t].want \in Nat
  BY <1>1, RequestFacts DEF AllInv, UseInv, UseTypes, CallType, MemInv
<1>3. ASSUME old # NoBlock
      PROVE  /\ old \in RealBlock /\ AtPlace(old) /\ Sound(old) /\ Tagged(old)
             /\ old.size \in Nat /\ Room(old) \in Int /\ old.size <= Room(old)
  BY <1>1, <1>2, <1>3, OwnedBlock, SizeFits, RoomType DEF RealBlock
<1>4. ASSUME new # NoBlock, th[t].pc \in { "zero", "copy", "large_copy" }
      PROVE  /\ new \in RealBlock /\ AtPlace(new) /\ Sound(new)
             /\ th[t].want = size /\ new.size = size
             /\ Room(new) \in Int /\ size <= Room(new)
  <2>1. new \in RealBlock /\ AtPlace(new) /\ Sound(new)
    BY <1>1, <1>4, OwnedBlock
  <2>2. th[t].want = size /\ new.size = size
    BY <1>1, <1>2, <1>4 DEF CallOK
  <2>. QED  BY <1>2, <2>1, <2>2, SizeFits, RoomType
<1>5. ASSUME old # NoBlock
      PROVE  /\ old.base \in Chunks => ~is_large_alloc(mem, old)
             /\ old.base \in Chunks /\ th[t].pc # "free" => ~th[t].old_large
             /\ old.base \in Mappings => is_large_alloc(mem, old)
             /\ old.base \in Mappings => mapped[old.base] = InPages(FreedLength(t))
             /\ old.base \in Chunks <=> old.base \notin Mappings
  <2>1. old.base \in Chunks /\ is_large_alloc(mem, old) => FALSE
    BY <1>1, <1>3, <1>5, OnlyBehindNeighbour DEF TakenForLarge
  <2>2. old.base \in Chunks /\ th[t].pc # "free" /\ th[t].old_large => FALSE
    BY <1>1, <1>2, <1>5 DEF CallOK, TakenForLarge
  <2>3. old.base \in Mappings => /\ is_large_alloc(mem, old)
                                 /\ mapped[old.base] = InPages(FreedLength(t))
    BY <1>1, <1>3, <1>5, LargeIsTagged, HeaderRight
  <2>4. old.base \in Chunks <=> old.base \notin Mappings
    BY <1>3, <1>5, Numbers DEF RealBlock
  <2>. QED  BY <2>1, <2>2, <2>3, <2>4
<1>6. ASSUME At(t, "zero"), ~ZeroFits(t)  PROVE FALSE
  BY <1>1, <1>2, <1>4, <1>6 DEF Shape, At, ZeroFits
<1>7. ASSUME At(t, "copy"), ~CopyFits(t)  PROVE FALSE
  <2>1. old # NoBlock /\ new # NoBlock /\ th[t].pc = "copy"
    BY <1>1, <1>2, <1>7 DEF Shape, At
  <2>2. th[t].old_large => old.base \in Mappings
    <3>1. th[t].pc # "free"
      BY <2>1
    <3>. QED  BY <1>5, <2>1, <3>1, Zenon
  <2>3. PICK n : n = NumToCopy(t)
    OBVIOUS
  <2>4. n <= size /\ n <= Room(old) /\ n \in Nat
    <3>1. CASE th[t].old_large
      <4>1. n = size
        BY <1>1, <2>3, <3>1 DEF NumToCopy
      <4>2. old.base \in Mappings /\ size <= Largest /\ Largest < old.size /\ Largest \in Nat
        BY <1>1, <1>2, <1>3, <2>2, <2>1, <3>1, Numbers DEF CallOK, Sound
      <4>. QED  BY <1>2, <1>3, <2>1, <4>1, <4>2
    <3>2. CASE ~th[t].old_large
      <4>1. old.base \in Chunks
        BY <1>1, <1>2, <1>3, <2>1, <3>2 DEF CallOK, RealBlock
      <4>2. Room(old) = get_block_size(old) /\ Room(old) \in Nat
        BY <1>3, <2>1, <4>1, PlaceFacts DEF get_block_size
      <4>3. n = Lesser(Room(old), size)
        BY <1>1, <2>3, <3>2, <4>2 DEF NumToCopy
      <4>. QED  BY <1>2, <4>2, <4>3 DEF Lesser
    <3>. QED  BY <3>1, <3>2
  <2>5. n <= Lesser(Room(old), Room(new))
    BY <1>2, <1>3, <1>4, <2>1, <2>4 DEF Lesser
  <2>. QED  BY <1>1, <1>7, <2>3, <2>5 DEF CopyFits
<1>8. ASSUME At(t, "free"),
             \/ is_large_alloc(mem, old) # (old.base \in Mappings)
             \/ old.base \in Mappings /\ ~UnmapFits(old.base, FreedLength(t))
      PROVE  FALSE
  <2>1. old # NoBlock
    BY <1>1, <1>2, <1>8 DEF Shape, At
  <2>2. is_large_alloc(mem, old) \in BOOLEAN
    BY DEF is_large_alloc
  <2>3. is_large_alloc(mem, old) = (old.base \in Mappings)
    <3>1. CASE old.base \in Mappings
      BY <1>5, <2>1, <2>2, <3>1, Zenon
    <3>2. CASE old.base \notin Mappings
      <4>1. ~is_large_alloc(mem, old)
        BY <1>5, <2>1, <3>2, Zenon
      <4>2. is_large_alloc(mem, old) = FALSE /\ (old.base \in Mappings) = FALSE
        BY <2>2, <3>2, <4>1
      <4>. QED  BY <4>2
    <3>. QED  BY <3>1, <3>2
  <2>4. old.base \in Mappings => UnmapFits(old.base, FreedLength(t))
    <3>1. old.base \in Mappings => mapped[old.base] \in Nat
      BY <1>2 DEF UseTypes
    <3>. QED  BY <1>5, <2>1, <3>1 DEF UnmapFits
  <2>. QED  BY <1>8, <2>3, <2>4
<1>9. ASSUME At(t, "large_copy"), ~LargeCopyFits(t)  PROVE size < old.size
  <2>1. old # NoBlock /\ new # NoBlock /\ th[t].pc = "large_copy"
    BY <1>1, <1>2, <1>9 DEF Shape, At
  <2>2. old.base \in Mappings /\ new.base \in Mappings
    <3>1. th[t].old_large /\ new.base \in Mappings /\ th[t].pc # "free"
      BY <1>1, <1>2, <2>1 DEF CallOK
    <3>. QED  BY <1>5, <2>1, <3>1, Zenon
  <2>3. /\ old.at = 2 /\ Room(old) = mapped[old.base] - 2
        /\ new.at = 2 /\ Room(new) = mapped[new.base] - 2
        /\ mapped[old.base] \in Nat /\ mapped[new.base] \in Nat
    BY <1>2, <1>3, <1>4, <2>1, <2>2, PlaceFacts DEF UseTypes
  <2>4. header_size(mem, old) = old.size
    <3>1. old.at - 1 = 1
      BY <2>3
    <3>. QED  BY <1>3, <2>1, <2>2, <3>1 DEF header_size, Tagged
  <2>5. OldAlloced(t) = old.size + 2
    <3>1. old.size \in 0 .. SIZE_MOD - 1
      BY <1>3, <2>1, Numbers DEF Sound
    <3>. QED  BY <1>1, <2>4, <3>1, AllocedFacts DEF OldAlloced
  <2>6. old.size + 2 <= mapped[old.base]
    BY <1>3, <2>1, <2>3
  <2>7. ~(old.size + 2 <= Lesser(mapped[old.base], mapped[new.base]))
    BY <1>1, <1>9, <2>2, <2>5 DEF LargeCopyFits
  <2>8. old.size + 2 > mapped[new.base]
    BY <1>3, <2>1, <2>3, <2>6, <2>7 DEF Lesser
  <2>. QED  BY <1>2, <1>3, <1>4, <2>1, <2>3, <2>8
<1>. QED  BY <1>1, <1>6, <1>7, <1>8, <1>9 DEF Faults

(* The code runs into undefined behaviour in the known cases only.         *)
THEOREM FaultsKnown == Spec => []OnlyKnownFaults
<1>1. AllInv => OnlyKnownFaults
  BY KnownFaults DEF OnlyKnownFaults
<1>. QED  BY <1>1, AllHolds, PTL

=============================================================================
