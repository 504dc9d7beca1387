--------------------------- MODULE IdSequenceOrder ---------------------------
(***************************************************************************)
(* IdSequence driven the way the manager thread drives it: every id handed *)
(* out from FirstId on is noted exactly once, in any order.  The reference *)
(* is the plain set of the ids noted so far.                               *)
(***************************************************************************)
EXTENDS IdSequence, FiniteSets

CONSTANTS
  FirstId,  \* next_transaction_id() when the manager thread starts
  LastId    \* bound: the largest id handed out

ASSUME RangeAssumption == FirstId \in Nat /\ LastId \in Nat

VARIABLES
  seq,    \* pending_transaction_ids
  noted   \* the set of ids noted so far

vars == <<seq, noted>>

Ids == FirstId .. LastId

Init == seq = NewSequence(FirstId) /\ noted = {}

NoteId(id) ==
  /\ id \notin noted
  /\ seq' = Note(seq, id)
  /\ noted' = noted \cup {id}

Next == \E id \in Ids : NoteId(id)

Spec == Init /\ [][Next]_vars

TypeOK ==
  /\ seq \in [start : Nat, length : Nat, words : Nat, bits : SUBSET (0 .. LastId)]
  /\ noted \subseteq Ids

(***************************************************************************)
(* complete() answers exactly the question the manager asks of it: the ids *)
(* noted so far have no gap, so nothing smaller is still to come.          *)
(***************************************************************************)
CompleteMeansNoGap ==
  Complete(seq) <=> \A id \in noted : \A smaller \in FirstId .. id : smaller \in noted

(***************************************************************************)
(* Dropping full words loses no id and invents none, across the partial    *)
(* last word too, and an id not yet noted is never below `start`, where    *)
(* checked_sub(start).unwrap() would panic.                                *)
(***************************************************************************)
WindowIsExact ==
  /\ \A id \in Ids : id \in noted <=> IsNoted(seq, id)
  /\ \A id \in Ids \ noted : id >= seq.start

(***************************************************************************)
(* statuses has just the words the window needs: statuses[0] of truncate() *)
(* is in bounds whenever length > 0, and no word of a finished window is   *)
(* left behind to be mistaken for ids of the next one.                     *)
(***************************************************************************)
WordsCoverWindow ==
  seq.words = (seq.length + WordBits - 1) \div WordBits
=============================================================================
