----------------------------- MODULE BinManager -----------------------------
(***************************************************************************)
(* The bins of src/src/binmanager.c: for one block size, the superblocks   *)
(* of a heap kept in NUM_EMPTINESS_CLASSES circular doubly linked lists,   *)
(* from class 0 (full) to the last class (empty), and a count of those     *)
(* that are not full.                                                      *)
(*                                                                         *)
(* The links are the prev and next fields of the superblocks' headers, so  *)
(* the list operations map a pair of the headers `sb' and one manager `bm' *)
(* to such a pair.  The table of block sizes is a constant: init_size_table*)
(* always computes the same one, before the first block is handed out.     *)
(***************************************************************************)
EXTENDS Superblock, FiniteSets

CONSTANTS
    num_size_bins,
    SizeTable,               \* size_table: block size of each bin
    NUM_EMPTINESS_CLASSES

Bins == 0 .. num_size_bins - 1
EmptinessClasses == 0 .. NUM_EMPTINESS_CLASSES - 1
NonfullClasses   == 1 .. NUM_EMPTINESS_CLASSES - 1

max_block_size == SizeTable[num_size_bins - 1]

(* What the assertions at the end of init_size_table promise of the table. *)
ASSUME SizeTableAssumption ==
    /\ NUM_EMPTINESS_CLASSES \in Nat /\ NUM_EMPTINESS_CLASSES >= 2
    /\ num_size_bins \in Nat \ {0}
    /\ SizeTable \in [Bins -> Nat \ {0}]
    /\ \A i, j \in Bins : i < j => SizeTable[i] < SizeTable[j]
    /\ \A i \in Bins : /\ SizeTable[i] % MIN_BLOCK_SIZE = 0
                       /\ 2 * SizeTable[i] + HEADER_SIZE <= SUPERBLOCK_SIZE

idx2class(idx) == SizeTable[idx]

(* The binary search returns the first bin whose blocks are large enough.  *)
size2idx(size) ==
    CHOOSE i \in Bins : /\ size <= SizeTable[i]
                        /\ \A j \in Bins : size <= SizeTable[j] => i <= j

BinManagerRecord ==
    [ emptiness_bins          : [EmptinessClasses -> Superblocks \cup {NULL}],
      num_nonfull_superblocks : 0 .. UINT_MOD - 1 ]

EmptyBinManager ==
    [ emptiness_bins          |-> [e \in EmptinessClasses |-> NULL],
      num_nonfull_superblocks |-> 0 ]

(* All arithmetic is on unsigned ints.  The result indexes emptiness_bins, *)
(* so a result outside EmptinessClasses is an access out of bounds.        *)
get_eidx(header) ==
    LET full     == (header.total_blocks - header.num_free_blocks) % UINT_MOD
        fullness == ((full * (NUM_EMPTINESS_CLASSES - 1)) % UINT_MOD)
                       \div header.total_blocks
    IN  (NUM_EMPTINESS_CLASSES - 1 - fullness) % UINT_MOD

(* Mutant: the old head is not linked back to the new one.                 *)
push_into_bin_OneWay(sb, bm, eidx, s) ==
    LET head == bm.emptiness_bins[eidx]
        tail == sb[head].prev
    IN  [ sb |-> IF head = NULL
                   THEN [sb EXCEPT ![s].prev = s, ![s].next = s]
                   ELSE [sb EXCEPT ![tail].next = s,
                                   ![s].prev = tail, ![s].next = head],
          bm |-> [bm EXCEPT
                    !.emptiness_bins[eidx]    = s,
                    !.num_nonfull_superblocks =
                       IF eidx > 0 THEN (@ + 1) % UINT_MOD ELSE @] ]

push_into_bin(sb, bm, eidx, s) ==
    LET head == bm.emptiness_bins[eidx]
        tail == sb[head].prev
    IN  [ sb |-> IF head = NULL
                   THEN [sb EXCEPT ![s].prev = s, ![s].next = s]
                   ELSE [sb EXCEPT ![tail].next = s,
                                   ![s].prev    = tail,
                                   ![s].next    = head,
                                   ![head].prev = s],
          bm |-> [bm EXCEPT
                    !.emptiness_bins[eidx]    = s,
                    !.num_nonfull_superblocks =
                       IF eidx > 0 THEN (@ + 1) % UINT_MOD ELSE @] ]

(* Mutants: a deleted head stays the head; the count is not decremented.   *)
delete_from_bin_HeadStays(sb, bm, eidx, s) ==
    LET prev_sb == sb[s].prev
        next_sb == sb[s].next
    IN  [ sb |-> IF prev_sb = s
                   THEN sb
                   ELSE [sb EXCEPT ![prev_sb].next = next_sb,
                                   ![next_sb].prev = prev_sb],
          bm |-> [bm EXCEPT !.num_nonfull_superblocks =
                       IF eidx > 0 THEN (@ - 1) % UINT_MOD ELSE @] ]

delete_from_bin_Uncounted(sb, bm, eidx, s) ==
    LET prev_sb == sb[s].prev
        next_sb == sb[s].next
    IN  [ sb |-> IF prev_sb = s
                   THEN sb
                   ELSE [sb EXCEPT ![prev_sb].next = next_sb,
                                   ![next_sb].prev = prev_sb],
          bm |-> [bm EXCEPT !.emptiness_bins[eidx] =
                       IF prev_sb = s THEN NULL ELSE IF @ = s THEN next_sb ELSE @] ]

(* The links of s itself are left as they were.                            *)
delete_from_bin(sb, bm, eidx, s) ==
    LET prev_sb == sb[s].prev
        next_sb == sb[s].next
    IN  [ sb |-> IF prev_sb = s
                   THEN sb
                   ELSE [sb EXCEPT ![prev_sb].next = next_sb,
                                   ![next_sb].prev = prev_sb],
          bm |-> [bm EXCEPT
                    !.emptiness_bins[eidx] = IF prev_sb = s THEN NULL
                                             ELSE IF @ = s  THEN next_sb
                                             ELSE @,
                    !.num_nonfull_superblocks =
                       IF eidx > 0 THEN (@ - 1) % UINT_MOD ELSE @] ]

(* Mutant: the superblock goes back to the list it came from.              *)
update_emptiness_class_SameClass(sb, bm, old_eidx, s) ==
    LET deleted == delete_from_bin(sb, bm, old_eidx, s)
    IN  push_into_bin(deleted.sb, deleted.bm, old_eidx, s)

update_emptiness_class(sb, bm, old_eidx, s) ==
    LET deleted == delete_from_bin(sb, bm, old_eidx, s)
    IN  push_into_bin(deleted.sb, deleted.bm, get_eidx(sb[s]), s)

(* When the list operations dereference no null pointer and index within   *)
(* emptiness_bins.  Outside these conditions the program's behaviour is    *)
(* undefined.                                                              *)
PushDefined(sb, bm, eidx) ==
    /\ eidx \in EmptinessClasses
    /\ bm.emptiness_bins[eidx] # NULL => sb[bm.emptiness_bins[eidx]].prev # NULL

DeleteDefined(sb, eidx, s) ==
    /\ eidx \in EmptinessClasses
    /\ sb[s].prev # s => sb[s].prev # NULL /\ sb[s].next # NULL

UpdateDefined(sb, bm, old_eidx, s) ==
    /\ DeleteDefined(sb, old_eidx, s)
    /\ LET deleted == delete_from_bin(sb, bm, old_eidx, s)
       IN  PushDefined(deleted.sb, deleted.bm, get_eidx(sb[s]))

=============================================================================
