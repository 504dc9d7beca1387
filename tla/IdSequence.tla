----------------------------- MODULE IdSequence -----------------------------
(***************************************************************************)
(* The window of transaction ids that the manager thread has been told     *)
(* about, struct IdSequence of transaction/manager.rs.                     *)
(*                                                                         *)
(* The bitmap `statuses: Vec<usize>` is a number of words and the set of   *)
(* the offsets (from `start`) whose bit is set.  The width of a word,      *)
(* usize::BITS, is the constant WordBits, so that small models cross word  *)
(* boundaries as the code does every 64 transactions.                      *)
(***************************************************************************)
EXTENDS Integers

CONSTANT WordBits   \* usize::BITS

ASSUME WordBitsAssumption == WordBits \in Nat \ {0}

\* IdSequence::new: nothing noted, the first id expected is `start`.
NewSequence(start) == [start |-> start, length |-> 0, words |-> 0, bits |-> {}]

\* IdSequence::complete: no id at or above `start` has been noted.
Complete(seq) == seq.length = 0

Larger(m, n) == IF m > n THEN m ELSE n

Smaller(m, n) == IF m < n THEN m ELSE n

\* Mutant: a word counts as full only when all its bits are set.
WholeWordIsFull(seq, k) ==
  /\ k * WordBits < seq.length
  /\ \A bit \in (k * WordBits) .. (k * WordBits + WordBits - 1) : bit \in seq.bits

(***************************************************************************)
(* The loop of truncate() removes the first word while all the bits under  *)
(* the mask are set.  After k rounds the first word holds the offsets from *)
(* k * WordBits on; the mask has as many bits as the window still has,     *)
(* WordBits at most.                                                       *)
(***************************************************************************)
FirstWordIsFull(seq, k) ==
  /\ k * WordBits < seq.length
  /\ \A bit \in (k * WordBits) .. (Smaller(k * WordBits + WordBits, seq.length) - 1) :
        bit \in seq.bits

\* The number of rounds the loop of truncate() makes.
FullWords(seq) ==
  CHOOSE k \in 0 .. seq.length :
    /\ ~ FirstWordIsFull(seq, k)
    /\ \A j \in 0 .. (k - 1) : FirstWordIsFull(seq, j)

\* Mutants of truncate(): the window is shortened by whole words, it is moved
\* by whole words, or the words stay in `statuses`.
TruncateLengthByWords(seq) ==
  LET k == FullWords(seq)
  IN  [start  |-> seq.start + Smaller(k * WordBits, seq.length),
       length |-> seq.length - k * WordBits,
       words  |-> seq.words - k,
       bits   |-> {bit - k * WordBits : bit \in {b \in seq.bits : b >= k * WordBits}}]

TruncateStartByWords(seq) ==
  LET k == FullWords(seq)
  IN  [start  |-> seq.start + k * WordBits,
       length |-> seq.length - Smaller(k * WordBits, seq.length),
       words  |-> seq.words - k,
       bits   |-> {bit - k * WordBits : bit \in {b \in seq.bits : b >= k * WordBits}}]

TruncateKeepingWords(seq) ==
  LET k       == FullWords(seq)
      removed == Smaller(k * WordBits, seq.length)
  IN  [start  |-> seq.start + removed,
       length |-> seq.length - removed,
       words  |-> seq.words,
       bits   |-> {bit - k * WordBits : bit \in {b \in seq.bits : b >= k * WordBits}}]

\* IdSequence::truncate
Truncate(seq) ==
  LET k       == FullWords(seq)
      removed == Smaller(k * WordBits, seq.length)
  IN  [start  |-> seq.start + removed,
       length |-> seq.length - removed,
       words  |-> seq.words - k,
       bits   |-> {bit - k * WordBits : bit \in {b \in seq.bits : b >= k * WordBits}}]

\* IdSequence::note, for an id that is not below `start` (checked_sub panics).
Note(seq, id) ==
  LET offset == id - seq.start
  IN  Truncate([start  |-> seq.start,
                length |-> Larger(offset + 1, seq.length),
                words  |-> Larger(seq.words, offset \div WordBits + 1),
                bits   |-> seq.bits \cup {offset}])

\* The ids the sequence has been told about, read off its representation.
IsNoted(seq, id) == id < seq.start \/ (id - seq.start) \in seq.bits
=============================================================================
