--------------------------- MODULE IdSequenceProofs ---------------------------
(***************************************************************************)
(* What Note does to the window of ids, for every word width.              *)
(***************************************************************************)
EXTENDS IdSequence, WellFoundedInduction, TLAPS

\* What new() and note() keep true of the representation.
WellFormed(seq) ==
  /\ seq \in [start : Nat, length : Nat, words : Int, bits : SUBSET Nat]
  /\ \A bit \in seq.bits : bit < seq.length

(***************************************************************************)
(* The library states the least-number principle with a predicate as a     *)
(* parameter; this is the same fact about a set.                           *)
(***************************************************************************)
LEMMA LeastNatural ==
  ASSUME NEW S, S \subseteq Nat, S # {}
  PROVE  \E n \in S : \A m \in S : n <= m
<1> DEFINE Less == OpToRel(<, Nat)
<1>1. IsWellFoundedOn(Less, Nat)
  BY NatLessThanWellFounded
<1> HIDE DEF Less
<1>2. PICK n \in S : \A m \in S : ~ (<<m, n>> \in Less)
  BY <1>1, WFMin
<1>3. \A m \in S : ~ (m < n)
  BY <1>2 DEF Less, OpToRel
<1> QED
  BY <1>3

(***************************************************************************)
(* The loop of truncate() ends: FullWords is the number of its rounds.     *)
(***************************************************************************)
LEMMA FullWordsFact ==
  ASSUME NEW seq, WellFormed(seq)
  PROVE  /\ FullWords(seq) \in Nat
         /\ ~ FirstWordIsFull(seq, FullWords(seq))
         /\ \A j \in 0 .. (FullWords(seq) - 1) : FirstWordIsFull(seq, j)
<1> DEFINE S == {k \in 0 .. seq.length : ~ FirstWordIsFull(seq, k)}
<1>1. seq.length \in Nat
  BY DEF WellFormed
<1>2. seq.length * WordBits >= seq.length
  BY <1>1, WordBitsAssumption
<1>3. seq.length \in S
  <2>1. seq.length * WordBits \in Nat
    BY <1>1, WordBitsAssumption
  <2> QED
    BY <1>1, <1>2, <2>1 DEF FirstWordIsFull
<1>4. PICK n \in S : \A m \in S : n <= m
  <2>1. S \subseteq Nat /\ S # {}
    BY <1>1, <1>3
  <2> HIDE DEF S
  <2> QED
    BY <2>1, LeastNatural
<1>5. \A j \in 0 .. (n - 1) : FirstWordIsFull(seq, j)
  BY <1>1, <1>4
<1>6. \E k \in 0 .. seq.length :
        /\ ~ FirstWordIsFull(seq, k)
        /\ \A j \in 0 .. (k - 1) : FirstWordIsFull(seq, j)
  BY <1>4, <1>5
<1> QED
  BY <1>1, <1>6 DEF FullWords

\* Every offset lies in a word.
LEMMA WordOf ==
  ASSUME NEW bit \in Nat
  PROVE  \E j \in Nat : j * WordBits <= bit /\ bit < j * WordBits + WordBits
<1> DEFINE j == bit \div WordBits
<1>1. j \in Nat /\ bit = j * WordBits + (bit % WordBits) /\ bit % WordBits \in 0 .. (WordBits - 1)
  BY WordBitsAssumption, Z3
<1>2. j * WordBits \in Nat
  BY <1>1, WordBitsAssumption
<1> QED
  BY <1>1, <1>2, WordBitsAssumption

\* A smaller word number is a smaller offset.
LEMMA WordsAscend ==
  ASSUME NEW j \in Nat, NEW k \in Nat, j * WordBits < k * WordBits
  PROVE  j < k
<1> SUFFICES ASSUME j >= k PROVE j * WordBits >= k * WordBits
  BY WordBitsAssumption
<1>1. PICK d \in Nat : j = k + d
  BY Z3
<1>2. j * WordBits = k * WordBits + d * WordBits
  BY <1>1, WordBitsAssumption
<1> QED
  BY <1>2, WordBitsAssumption

\* All the bits of the words that truncate() removes are set.
LEMMA RemovedBitsAreSet ==
  ASSUME NEW seq, WellFormed(seq),
         NEW bit \in Nat, bit < FullWords(seq) * WordBits, bit < seq.length
  PROVE  bit \in seq.bits
<1> DEFINE k == FullWords(seq)
<1>1. k \in Nat /\ \A j \in 0 .. (k - 1) : FirstWordIsFull(seq, j)
  BY FullWordsFact
<1>2. PICK j \in Nat : j * WordBits <= bit /\ bit < j * WordBits + WordBits
  BY WordOf
<1>3. j * WordBits \in Nat /\ k * WordBits \in Nat /\ seq.length \in Nat
  BY <1>1, WordBitsAssumption DEF WellFormed
<1>4. j < k
  BY <1>1, <1>2, <1>3, WordsAscend
<1>5. FirstWordIsFull(seq, j)
  BY <1>1, <1>4
<1> QED
  BY <1>2, <1>3, <1>5, WordBitsAssumption DEF FirstWordIsFull, Smaller

(***************************************************************************)
(* truncate() moves the window and keeps what it says: the same ids are    *)
(* noted, the window ends where it did, and if it is not empty there is an *)
(* id in it that has not been noted.                                       *)
(***************************************************************************)
LEMMA TruncateFact ==
  ASSUME NEW seq, WellFormed(seq)
  PROVE  LET after == Truncate(seq)
         IN  /\ WellFormed(after)
             /\ after.start >= seq.start
             /\ after.start + after.length = seq.start + seq.length
             /\ \A id \in Nat : IsNoted(after, id) <=> IsNoted(seq, id)
             /\ ~ Complete(after) =>
                  \E id \in Nat : ~ IsNoted(after, id) /\ id < after.start + after.length
<1> DEFINE k       == FullWords(seq)
           R       == k * WordBits
           removed == Smaller(R, seq.length)
           after   == Truncate(seq)
<1>1. /\ seq.start \in Nat /\ seq.length \in Nat /\ seq.words \in Int /\ seq.bits \subseteq Nat
      /\ \A bit \in seq.bits : bit < seq.length
  BY DEF WellFormed
<1>2. k \in Nat /\ ~ FirstWordIsFull(seq, k)
  BY FullWordsFact
<1>3. R \in Nat
  BY <1>2, WordBitsAssumption
<1>4. \A bit \in Nat : bit < R /\ bit < seq.length => bit \in seq.bits
  BY RemovedBitsAreSet
<1>5. removed \in Nat /\ removed <= R /\ removed <= seq.length
  BY <1>1, <1>3 DEF Smaller
<1>6. /\ after.start = seq.start + removed
      /\ after.length = seq.length - removed
      /\ after.words = seq.words - k
      /\ after.bits = {bit - R : bit \in {b \in seq.bits : b >= R}}
      /\ after = [start |-> after.start, length |-> after.length,
                  words |-> after.words, bits |-> after.bits]
  BY DEF Truncate
<1>7. ~ (R < seq.length) \/ \E bit \in R .. (Smaller(R + WordBits, seq.length) - 1) : bit \notin seq.bits
  BY <1>2 DEF FirstWordIsFull
<1> HIDE DEF k, R, removed, after
<1>8. WellFormed(after)
  <2>1. after.bits \in SUBSET Nat /\ \A bit \in after.bits : bit < after.length
    BY <1>1, <1>3, <1>5, <1>6
  <2> QED
    BY <1>1, <1>2, <1>5, <1>6, <2>1 DEF WellFormed
<1>9. ASSUME NEW id \in Nat
      PROVE  IsNoted(after, id) <=> IsNoted(seq, id)
  <2>1. (id - after.start) \in after.bits => IsNoted(seq, id)
    BY <1>1, <1>3, <1>5, <1>6 DEF IsNoted, removed, Smaller
  <2>2. id < after.start => IsNoted(seq, id)
    BY <1>1, <1>3, <1>4, <1>5, <1>6 DEF IsNoted
  <2>3. IsNoted(seq, id) => IsNoted(after, id)
    BY <1>1, <1>3, <1>5, <1>6 DEF IsNoted, removed, Smaller
  <2> QED
    BY <2>1, <2>2, <2>3 DEF IsNoted
<1>10. ASSUME ~ Complete(after)
       PROVE  \E id \in Nat : ~ IsNoted(after, id) /\ id < after.start + after.length
  <2>1. R < seq.length
    BY <1>1, <1>3, <1>6, <1>10 DEF Complete, removed, Smaller
  <2>2. PICK bit \in R .. (Smaller(R + WordBits, seq.length) - 1) : bit \notin seq.bits
    BY <1>7, <2>1
  <2>3. bit \in Nat /\ bit < seq.length
    BY <1>1, <1>3, <2>2, WordBitsAssumption DEF Smaller
  <2>4. ~ IsNoted(seq, seq.start + bit)
    BY <1>1, <2>2, <2>3 DEF IsNoted
  <2>5. ~ IsNoted(after, seq.start + bit)
    BY <1>1, <1>9, <2>3, <2>4
  <2> QED
    BY <1>1, <1>5, <1>6, <2>3, <2>5
<1> QED
  BY <1>1, <1>5, <1>6, <1>8, <1>9, <1>10 DEF after

(***************************************************************************)
(* What note() does for an id that is not below the window: exactly that   *)
(* id becomes noted, the window never moves back, it ends after the        *)
(* largest id noted, and if it is not empty there is a gap in it.          *)
(***************************************************************************)
LEMMA NoteFact ==
  ASSUME NEW seq, WellFormed(seq),
         NEW id \in Nat, id >= seq.start
  PROVE  LET after == Note(seq, id)
         IN  /\ WellFormed(after)
             /\ after.start >= seq.start
             /\ after.start + after.length = Larger(seq.start + seq.length, id + 1)
             /\ \A x \in Nat : IsNoted(after, x) <=> IsNoted(seq, x) \/ x = id
             /\ ~ Complete(after) =>
                  \E x \in Nat : ~ IsNoted(after, x) /\ x < after.start + after.length
<1> DEFINE offset == id - seq.start
           noted  == [start  |-> seq.start,
                      length |-> Larger(offset + 1, seq.length),
                      words  |-> Larger(seq.words, offset \div WordBits + 1),
                      bits   |-> seq.bits \cup {offset}]
<1>1. /\ seq.start \in Nat /\ seq.length \in Nat /\ seq.words \in Int /\ seq.bits \subseteq Nat
      /\ \A bit \in seq.bits : bit < seq.length
  BY DEF WellFormed
<1>2. offset \in Nat
  BY <1>1
<1>3. offset \div WordBits \in Int
  BY <1>2, WordBitsAssumption
<1>4. Note(seq, id) = Truncate(noted)
  BY DEF Note
<1>5. WellFormed(noted)
  BY <1>1, <1>2, <1>3 DEF WellFormed, Larger
<1>6. noted.start = seq.start /\ noted.start + noted.length = Larger(seq.start + seq.length, id + 1)
  BY <1>1, <1>2 DEF Larger
<1>7. \A x \in Nat : IsNoted(noted, x) <=> IsNoted(seq, x) \/ x = id
  BY <1>1, <1>2 DEF IsNoted
<1> HIDE DEF offset, noted
<1> QED
  BY <1>4, <1>5, <1>6, <1>7, TruncateFact
=============================================================================
