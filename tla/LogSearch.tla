------------------------------- MODULE LogSearch ------------------------------
(***************************************************************************)
(* Looking up a transaction in the log: fetch_entry, guess_page, the       *)
(* backward scan of scan_for_transaction and EntryScanner, all of          *)
(* transaction/log.rs, and transaction_position of transaction/manager.rs, *)
(* which asks the cache of known transactions before, and tells it after.  *)
(*                                                                         *)
(* The log is a sequence of entries with ascending ids, each of one or     *)
(* more pages, of which only the first has the header byte 1.  Positions   *)
(* are counted in pages.  The ids that are not in the log belong to        *)
(* transactions that were rolled back or are still open.  An id may be     *)
(* given out, and an open transaction committed, at any time; the log is   *)
(* ascending (LogAscending of TransactionManager), entries never move.     *)
(*                                                                         *)
(* Of the cache known_completed_transactions only the place of the id that *)
(* is looked for is kept.  Nothing is evicted: the cache holds 1024 ids.   *)
(*                                                                         *)
(* guess_page computes in f64.  For the quotients and products of small    *)
(* numbers that occur within the bounds used here floor and ceil give the  *)
(* same as exact arithmetic.                                               *)
(***************************************************************************)
EXTENDS Integers, Sequences

CONSTANTS
  MaxEntries,  \* bound: entries in the log when the search begins
  MaxPages,    \* bound: pages of one entry
  MaxId,       \* bound: ids given out
  MaxAppends   \* bound: entries appended while it runs

ASSUME BoundsAssumption ==
  MaxEntries \in Nat /\ MaxPages \in Nat \ {0} /\ MaxId \in Nat \ {0} /\ MaxAppends \in Nat

Nothing == [id |-> 0, page |-> 0]   \* None for lower_id and lower_location

VARIABLES
  entries,   \* the log file: [id, pages], oldest first
  nextId,    \* State.current_transaction_id
  appends,   \* how many entries were appended
  noted,     \* how many entries note_transaction_ids_completed was called for
  cached,    \* known_completed_transactions: "unknown", "None" or "Some"
  id,        \* the id that is looked for
  caller,    \* the function that looks for it
  pc,        \* where it is
  first,     \* upper_id and upper_location as they were read from the state
  upper,     \* upper_id, upper_location
  lower,     \* lower_id, lower_location
  answer     \* the ScanResult: [found, page]

vars == <<entries, nextId, appends, noted, cached, id, caller, pc, first, upper, lower, answer>>

\* The page at which the i-th entry of a log begins; of one past the last: its length.
StartsOf(log) ==
  LET start[i \in 1 .. (Len(log) + 1)] ==
        IF i = 1 THEN 0 ELSE start[i - 1] + log[i - 1].pages
  IN  start

LengthOf(log) == StartsOf(log)[Len(log) + 1]

IdsOf(log) == {log[i].id : i \in 1 .. Len(log)}

Ascending(log) == \A i \in 1 .. (Len(log) - 1) : log[i].id < log[i + 1].id

Logs == UNION {[1 .. n -> [id : 1 .. MaxId, pages : 1 .. MaxPages]] : n \in 0 .. MaxEntries}

\* get() and scan() call fetch_entry directly, without the cache.
Callers == {"transaction_position", "get_or_scan"}

Init ==
  /\ entries \in {log \in Logs : Ascending(log)}
  /\ nextId \in {n \in 1 .. (MaxId + 1) : \A known \in IdsOf(entries) : known < n}
  /\ id \in 1 .. (MaxId + 1)
  /\ cached \in {"unknown", IF id \in IdsOf(entries) THEN "Some" ELSE "None"}
  /\ appends = 0
  /\ noted = Len(entries)
  /\ caller \in Callers
  /\ pc = IF caller = "transaction_position" THEN "ask" ELSE "id"
  /\ first = Nothing
  /\ upper = Nothing
  /\ lower = Nothing
  /\ answer = [found |-> FALSE, page |-> 0]

-----------------------------------------------------------------------------
\* Another thread begins a transaction.
NewTransaction ==
  /\ nextId <= MaxId
  /\ nextId' = nextId + 1
  /\ UNCHANGED <<entries, appends, noted, cached, id, caller, pc, first, upper, lower, answer>>

\* LogWriter, of the manager thread, writes the entry of an open transaction ...
AppendEntry(open, pages) ==
  /\ appends < MaxAppends
  /\ open < nextId
  /\ \A known \in IdsOf(entries) : known < open
  /\ entries' = Append(entries, [id |-> open, pages |-> pages])
  /\ appends' = appends + 1
  /\ UNCHANGED <<nextId, noted, cached, id, caller, pc, first, upper, lower, answer>>

Remember(known, status) == cached' = IF known = id THEN status ELSE cached

\* ... and after the file is synchronized puts it into the cache.
NoteCompleted ==
  /\ noted < Len(entries)
  /\ noted' = noted + 1
  /\ Remember(entries[noted + 1].id, "Some")
  /\ UNCHANGED <<entries, nextId, appends, id, caller, pc, first, upper, lower, answer>>

\* transaction_id_position: a hit is the answer, a miss means to search.
AskCache ==
  /\ pc = "ask"
  /\ pc' = IF cached = "unknown" THEN "id" ELSE "hit"
  /\ UNCHANGED <<entries, nextId, appends, noted, cached, id, caller, first, upper, lower, answer>>

\* fetch_entry reads next_transaction_id() ...
ReadNextId ==
  /\ pc = "id"
  /\ first' = [first EXCEPT !.id = nextId]
  /\ pc' = "length"
  /\ UNCHANGED <<entries, nextId, appends, noted, cached, id, caller, upper, lower, answer>>

Finish(found, page) ==
  /\ answer' = [found |-> found, page |-> page]
  /\ pc' = IF caller = "transaction_position" THEN "note" ELSE "done"

\* ... and then, under the lock on the log position, the length of the log.
ReadLength ==
  /\ pc = "length"
  /\ first' = [first EXCEPT !.page = LengthOf(entries)]
  /\ upper' = first'
  /\ \/ first.id <= id /\ Finish(FALSE, first'.page)
     \/ first.id > id /\ pc' = "guess" /\ UNCHANGED answer
  /\ UNCHANGED <<entries, nextId, appends, noted, cached, id, caller, lower>>

-----------------------------------------------------------------------------
Larger(m, n) == IF m > n THEN m ELSE n

CeilDiv(m, n) == (m + n - 1) \div n

NoGuess == -1

\* Mutant: a guess past the upper entry ends the search.
GuessBetweenUncapped ==
  LET perPage == upper.id - lower.id
      steps   == ((id - lower.id) * perPage) \div (upper.page - lower.page)
      guess   == lower.page + Larger(steps, 1)
  IN  IF guess < upper.page THEN guess ELSE NoGuess

\* guess_page, between a lower and the upper entry.
GuessBetween ==
  LET perPage == upper.id - lower.id
      steps   == ((id - lower.id) * perPage) \div (upper.page - lower.page)
      guess   == lower.page + Larger(steps, 1)
  IN  IF guess < upper.page THEN guess
      ELSE IF upper.page - 1 > lower.page THEN upper.page - 1
      ELSE NoGuess

\* guess_page, backwards from the upper entry.  For an empty log the average
\* is infinite, and the guess saturates at the first page.
GuessBackwards ==
  IF upper.page = 0 THEN 0
  ELSE Larger(0, upper.page - CeilDiv((upper.id - id) * upper.id, upper.page))

GuessPage == IF lower = Nothing THEN GuessBackwards ELSE GuessBetween

\* scan_for_transaction backwards: the entry that has the page.
EntryAt(page) ==
  LET starts == StartsOf(entries)
      i      == CHOOSE k \in 1 .. Len(entries) : starts[k] <= page /\ page < starts[k + 1]
  IN  [id |-> entries[i].id, page |-> starts[i]]

\* Mutant: the nearest position is after the upper entry.
GiveUpPastEnd ==
  /\ pc = "guess"
  /\ GuessPage \in {NoGuess, upper.page}
  /\ Finish(FALSE, upper.page + 1)
  /\ UNCHANGED <<entries, nextId, appends, noted, cached, id, caller, first, upper, lower>>

\* Mutant: the nearest position is the end of the log.
GiveUpAtEnd ==
  /\ pc = "guess"
  /\ GuessPage \in {NoGuess, upper.page}
  /\ Finish(FALSE, first.page)
  /\ UNCHANGED <<entries, nextId, appends, noted, cached, id, caller, first, upper, lower>>

\* guess_page gives up, or guesses the upper location.
GiveUp ==
  /\ pc = "guess"
  /\ GuessPage \in {NoGuess, upper.page}
  /\ Finish(FALSE, upper.page)
  /\ UNCHANGED <<entries, nextId, appends, noted, cached, id, caller, first, upper, lower>>

Probed == EntryAt(GuessPage)

\* scan_for_transaction finds the entry at the guessed page, which is noted.
Probe ==
  /\ pc = "guess"
  /\ GuessPage \notin {NoGuess, upper.page}
  /\ Remember(Probed.id, "Some")
  /\ UNCHANGED <<entries, nextId, appends, noted, id, caller, first>>

\* Mutant: the search goes on from an entry it has been at.
ProbeLessAgain ==
  /\ Probe
  /\ Probed.id < id
  /\ lower' = Probed
  /\ UNCHANGED <<pc, answer, upper>>

\* The three arms of the match on the id of the entry found.
ProbeLess ==
  /\ Probe
  /\ Probed.id < id
  /\ \/ /\ lower = Nothing \/ Probed.id > lower.id
        /\ lower' = Probed
        /\ UNCHANGED <<pc, answer>>
     \/ /\ lower # Nothing /\ Probed.id <= lower.id
        /\ Finish(FALSE, Probed.page)
        /\ UNCHANGED lower
  /\ UNCHANGED upper

ProbeEqual ==
  /\ Probe
  /\ Probed.id = id
  /\ Finish(TRUE, Probed.page)
  /\ UNCHANGED <<upper, lower>>

\* Mutant: the later entry becomes the lower bound.
ProbeGreaterAsLower ==
  /\ Probe
  /\ Probed.id > id
  /\ \/ /\ Probed.id < upper.id
        /\ lower' = Probed
        /\ UNCHANGED <<pc, answer>>
     \/ /\ Probed.id >= upper.id
        /\ Finish(FALSE, Probed.page)
        /\ UNCHANGED lower
  /\ UNCHANGED upper

ProbeGreater ==
  /\ Probe
  /\ Probed.id > id
  /\ \/ /\ Probed.id < upper.id
        /\ upper' = Probed
        /\ UNCHANGED <<pc, answer>>
     \/ /\ Probed.id >= upper.id
        /\ Finish(FALSE, Probed.page)
        /\ UNCHANGED upper
  /\ UNCHANGED lower

\* transaction_position: note_transaction_id_status with the answer.
NoteAnswer ==
  /\ pc = "note"
  /\ Remember(id, IF answer.found THEN "Some" ELSE "None")
  /\ pc' = "done"
  /\ UNCHANGED <<entries, nextId, appends, noted, id, caller, first, upper, lower, answer>>

-----------------------------------------------------------------------------
Search ==
  \/ AskCache
  \/ ReadNextId
  \/ ReadLength
  \/ GiveUp
  \/ ProbeLess
  \/ ProbeEqual
  \/ ProbeGreater
  \/ NoteAnswer

Next ==
  \/ Search
  \/ NewTransaction
  \/ \E open \in 1 .. MaxId, pages \in 1 .. MaxPages : AppendEntry(open, pages)
  \/ NoteCompleted

\* The thread that searches is scheduled.
Spec == Init /\ [][Next]_vars /\ WF_vars(Search)

(***************************************************************************)
(* EntryScanner, for a range that begins with `id`: it starts at the first *)
(* page after the entry found, or at the nearest position, and goes        *)
(* forward, from header to header, to the end of the file.                 *)
(***************************************************************************)
Scanned ==
  LET starts == StartsOf(entries)
  IN  {entries[i].id : i \in {k \in 1 .. Len(entries) : starts[k] >= answer.page}}

-----------------------------------------------------------------------------
TypeOK ==
  /\ pc \in {"ask", "hit", "id", "length", "guess", "note", "done"}
  /\ cached \in {"unknown", "None", "Some"}
  /\ noted \in 0 .. Len(entries)
  /\ upper.page \in 0 .. LengthOf(entries)
  /\ lower.page \in 0 .. LengthOf(entries)
  /\ answer.page \in 0 .. LengthOf(entries)

\* The entries that were in the log when the search was called.
Committed == 1 .. (Len(entries) - appends)

\* The entries that were in the log when the search read its length.
Visible ==
  LET starts == StartsOf(entries)
  IN  {i \in 1 .. Len(entries) : starts[i] < first.page}

\* No id was given out and committed between the two reads of the state.
ReadTogether == \A i \in Visible : entries[i].id < first.id

(***************************************************************************)
(* "Returns the executed transaction with the id provided. Returns None if *)
(* not found." (TransactionLog::get): what was in the log when the search  *)
(* was called is found.                                                    *)
(***************************************************************************)
FindsEveryEntry ==
  pc = "done" /\ ~ answer.found => \A i \in Committed : entries[i].id # id

(***************************************************************************)
(* ... which holds for a log whose entries all have one page, with any ids *)
(* missing, if no commit came between the two reads.                       *)
(***************************************************************************)
FindsSinglePageEntries ==
  (\A i \in Visible : entries[i].pages = 1) /\ ReadTogether => FindsEveryEntry

(***************************************************************************)
(* "The scan will always scan forwards starting with the lowest ID         *)
(* matching the range." (TransactionManager::scan): no entry of the range  *)
(* that was in the log is before the position at which the scan starts.    *)
(***************************************************************************)
ScanIsComplete ==
  pc = "done" => \A i \in Committed : entries[i].id >= id => entries[i].id \in Scanned

\* ... which holds, whatever the pages, if no commit came between the reads.
ScanIsCompleteWhenReadTogether == ReadTogether => ScanIsComplete

(***************************************************************************)
(* The bounds close in on the id: a probe that does not end the search     *)
(* leaves less of the log between them, so that the loop ends.             *)
(***************************************************************************)
BoundsCloseIn ==
  [][pc = "guess" /\ pc' = "guess" /\ UNCHANGED <<nextId, appends, noted>> =>
       /\ upper'.page <= upper.page
       /\ lower # Nothing => lower'.page >= lower.page
       /\ <<lower, upper>>' # <<lower, upper>>
       /\ lower'.id < id /\ id < upper'.id]_vars

(***************************************************************************)
(* "Returns true if the transaction id was recorded in the transaction     *)
(* log." (transaction_was_successful): once LogWriter has noted a commit,  *)
(* the cache, which answers from then on, does not deny it.                *)
(***************************************************************************)
CacheDeniesNoCommit ==
  cached = "None" => \A i \in 1 .. noted : entries[i].id # id

\* fetch_entry returns, for every log and every id.
SearchReturns == <>(pc \in {"hit", "done"})
=============================================================================
