------------------------- MODULE IdSequenceOrderProofs -------------------------
(***************************************************************************)
(* The window answers exactly, for every width of a word, every first id   *)
(* and every order in which the ids are noted.                             *)
(***************************************************************************)
EXTENDS IdSequenceOrder, IdSequenceProofs

\* The last id of a window that is not empty is one that was noted, and there
\* is a gap before it.
WindowInv ==
  /\ WellFormed(seq)
  /\ noted \subseteq Ids
  /\ \A x \in Nat : IsNoted(seq, x) <=> (x < FirstId \/ x \in noted)
  /\ ~ Complete(seq) =>
       /\ IsNoted(seq, seq.start + seq.length - 1)
       /\ \E x \in Nat : ~ IsNoted(seq, x) /\ x < seq.start + seq.length

LEMMA WindowStep ==
  ASSUME WindowInv, NEW id \in Ids, NoteId(id)
  PROVE  WindowInv'
<1>1. FirstId \in Nat /\ id \in Nat /\ id >= FirstId
  BY RangeAssumption DEF Ids
<1>2. ~ IsNoted(seq, id)
  BY <1>1 DEF NoteId, WindowInv
<1>3. seq.start \in Nat /\ seq.length \in Nat /\ id >= seq.start
  BY <1>1, <1>2 DEF IsNoted, WindowInv, WellFormed
<1>4. /\ WellFormed(seq')
      /\ seq'.start + seq'.length = Larger(seq.start + seq.length, id + 1)
      /\ \A x \in Nat : IsNoted(seq', x) <=> (IsNoted(seq, x) \/ x = id)
      /\ ~ Complete(seq') => \E x \in Nat : ~ IsNoted(seq', x) /\ x < seq'.start + seq'.length
  BY <1>1, <1>3, NoteFact DEF NoteId, WindowInv
<1>5. ASSUME ~ Complete(seq') PROVE IsNoted(seq', seq'.start + seq'.length - 1)
  <2>0. seq'.start \in Nat /\ seq'.length \in Nat
    BY <1>4 DEF WellFormed
  <2>1. CASE id + 1 >= seq.start + seq.length
    <3>1. seq'.start + seq'.length = id + 1
      BY <1>1, <1>3, <1>4, <2>1 DEF Larger
    <3>2. seq'.start + seq'.length - 1 = id
      BY <1>1, <2>0, <3>1
    <3> QED
      BY <1>1, <1>4, <3>2
  <2>2. CASE id + 1 < seq.start + seq.length
    <3>1. ~ Complete(seq) /\ seq.start + seq.length - 1 \in Nat
      BY <1>1, <1>3, <2>2 DEF Complete
    <3>2. seq'.start + seq'.length = seq.start + seq.length
      BY <1>1, <1>3, <1>4, <2>2 DEF Larger
    <3>3. IsNoted(seq', seq.start + seq.length - 1)
      BY <1>4, <3>1 DEF WindowInv
    <3>4. seq'.start + seq'.length - 1 = seq.start + seq.length - 1
      BY <1>3, <2>0, <3>2
    <3> QED
      BY <3>3, <3>4
  <2> QED
    BY <1>1, <1>3, <2>1, <2>2
<1>6. noted' \subseteq Ids /\ \A x \in Nat : IsNoted(seq', x) <=> (x < FirstId \/ x \in noted')
  BY <1>4 DEF NoteId, WindowInv
<1> QED
  BY <1>4, <1>5, <1>6 DEF WindowInv

\* WindowInv is inductive.
THEOREM Window == Spec => []WindowInv
<1>1. Init => WindowInv
  BY RangeAssumption DEF Init, WindowInv, WellFormed, NewSequence, IsNoted, Complete
<1>2. WindowInv /\ [Next]_vars => WindowInv'
  <2>1. WindowInv /\ Next => WindowInv'
    BY WindowStep DEF Next
  <2>2. WindowInv /\ UNCHANGED vars => WindowInv'
    BY DEF vars, WindowInv
  <2> QED
    BY <2>1, <2>2
<1> QED
  BY <1>1, <1>2, PTL DEF Spec

\* note() and truncate() lose no id and invent none, and an id that is still
\* to come is never below `start`.
THEOREM Exact == Spec => []WindowIsExact
<1>1. WindowInv => WindowIsExact
  <2> SUFFICES ASSUME WindowInv PROVE WindowIsExact
    OBVIOUS
  <2>1. \A id \in Ids : id \in Nat /\ ~ (id < FirstId)
    BY RangeAssumption DEF Ids
  <2>2. \A id \in Ids : id \in noted <=> IsNoted(seq, id)
    BY <2>1 DEF WindowInv
  <2>3. \A id \in Ids \ noted : id >= seq.start
    BY <2>1, <2>2 DEF WindowInv, WellFormed, IsNoted
  <2> QED
    BY <2>2, <2>3 DEF WindowIsExact
<1> QED
  BY <1>1, Window, PTL

\* complete() holds exactly when no id below one already noted is missing.
THEOREM CompleteIsExact == Spec => []CompleteMeansNoGap
<1>1. WindowInv => CompleteMeansNoGap
  <2> SUFFICES ASSUME WindowInv PROVE CompleteMeansNoGap
    OBVIOUS
  <2>1. /\ seq.start \in Nat /\ seq.length \in Nat /\ FirstId \in Nat
        /\ \A id \in noted : id \in Nat /\ id >= FirstId
    BY RangeAssumption DEF WindowInv, WellFormed, Ids
  <2>2. ASSUME Complete(seq), NEW id \in noted, NEW smaller \in FirstId .. id
        PROVE  smaller \in noted
    <3>1. IsNoted(seq, id) /\ id \in Nat /\ smaller \in Nat /\ ~ (smaller < FirstId) /\ smaller <= id
      BY <2>1, <2>2 DEF WindowInv
    <3>2. seq.bits = {}
      BY <2>2 DEF WindowInv, WellFormed, Complete
    <3>3. IsNoted(seq, smaller)
      BY <2>1, <3>1, <3>2 DEF IsNoted
    <3> QED
      BY <3>1, <3>3 DEF WindowInv
  <2>3. ASSUME ~ Complete(seq)
        PROVE  \E id \in noted : \E smaller \in FirstId .. id : smaller \notin noted
    <3> DEFINE last == seq.start + seq.length - 1
    <3>1. PICK x \in Nat : ~ IsNoted(seq, x) /\ x < seq.start + seq.length
      BY <2>3 DEF WindowInv
    <3>2. last \in Nat /\ IsNoted(seq, last)
      BY <2>1, <2>3 DEF WindowInv, Complete
    <3>3. x >= FirstId /\ x \notin noted /\ x <= last
      BY <2>1, <3>1 DEF WindowInv
    <3>4. last \in noted
      BY <2>1, <3>2, <3>3 DEF WindowInv
    <3> QED
      BY <2>1, <3>2, <3>3, <3>4
  <2> QED
    BY <2>2, <2>3 DEF CompleteMeansNoGap
<1> QED
  BY <1>1, Window, PTL
=============================================================================
