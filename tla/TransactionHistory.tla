-------------------------- MODULE TransactionHistory --------------------------
(***************************************************************************)
(* What the transaction manager promises, without threads, channel, batch  *)
(* or window: transactions get increasing ids, and are recorded in the log *)
(* one by one, always the oldest transaction that is neither recorded nor  *)
(* given up.  A commit is acknowledged once its entry is durable.          *)
(***************************************************************************)
EXTENDS Integers, Sequences

VARIABLES
  next,     \* the next id to be given out
  active,   \* the ids given out and neither recorded nor given up
  log,      \* the ids recorded, oldest first
  durable,  \* how many entries of the log survive a crash
  acked     \* the ids whose commit was acknowledged

histVars == <<next, active, log, durable, acked>>

HistInit ==
  /\ next = 1
  /\ active = {}
  /\ log = <<>>
  /\ durable = 0
  /\ acked = {}

Begin ==
  /\ next' = next + 1
  /\ active' = active \cup {next}
  /\ UNCHANGED <<log, durable, acked>>

\* Transactions are rolled back, or their commit fails.
GiveUp(ids) ==
  /\ ids \subseteq active
  /\ active' = active \ ids
  /\ UNCHANGED <<next, log, durable, acked>>

Record(id) ==
  /\ id \in active
  /\ \A other \in active : id <= other
  /\ active' = active \ {id}
  /\ log' = Append(log, id)
  /\ UNCHANGED <<next, durable, acked>>

Harden ==
  /\ durable' = Len(log)
  /\ UNCHANGED <<next, active, log, acked>>

Acknowledge(id) ==
  /\ \E i \in 1 .. durable : log[i] = id
  /\ acked' = acked \cup {id}
  /\ UNCHANGED <<next, active, log, durable>>

\* What was durable is kept, and the ids go on from the last one recorded.
Restart(kept) ==
  /\ log' = SubSeq(log, 1, kept)
  /\ durable' = kept
  /\ next' = IF kept = 0 THEN 1 ELSE log[kept] + 1
  /\ active' = {}
  /\ UNCHANGED acked

HistNext ==
  \/ Begin
  \/ \E ids \in SUBSET active : GiveUp(ids)
  \/ \E id \in active : Record(id)
  \/ Harden
  \/ \E i \in 1 .. durable : Acknowledge(log[i])
  \/ \E kept \in durable .. Len(log) : Restart(kept)

HistSpec == HistInit /\ [][HistNext]_histVars
=============================================================================
