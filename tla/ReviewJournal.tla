---------------------------- MODULE ReviewJournal ----------------------------
(***************************************************************************)
(* The gate-0 review journal (gate0/review.py) under the handlers of the   *)
(* review API (gate0/review_service.py).                                   *)
(*                                                                         *)
(* The journal is one text file of JSON lines.  append holds an exclusive  *)
(* flock while it reads the file, verifies the chain, builds the next      *)
(* entry, writes its line, flushes and syncs.  No reader takes the lock.   *)
(* The handlers are synchronous functions, run in worker threads: between  *)
(* any two file accesses another thread may run, the process may die, or a *)
(* write may fail with the line half written.                              *)
(*                                                                         *)
(* The file is a sequence of lines, the last one not ended yet, and a line *)
(* a sequence of pieces: the two halves of an entry's JSON text.           *)
(* json.dumps keeps non-ASCII characters and str.splitlines also breaks    *)
(* lines at U+0085, U+2028 and U+2029, so an entry whose reason_detail     *)
(* holds one has an end of line between its halves.                        *)
(* A hash is the identity of the entry it is computed from.                *)
(***************************************************************************)
EXTENDS Integers, Sequences, FiniteSets, SequencesExt

CONSTANTS
  MaxReviews,      \* model bound: HTTP requests
  MaxReviewers,    \* model bound: worker threads busy at once
  MaxKills,        \* model bound: deaths of the process or the machine
  MaxWriteErrors,  \* model bound: writes that fail, such as ENOSPC
  Separated        \* requests whose reason_detail holds a line separator

ASSUME JournalAssumption ==
  /\ MaxReviews \in Nat /\ MaxReviewers \in Nat
  /\ MaxKills \in Nat /\ MaxWriteErrors \in Nat
  /\ Separated \subseteq 1 .. MaxReviews

VARIABLES
  journal,    \* the file's lines
  durable,    \* up to where the file is known to be on the disk
  holder,     \* the request that holds the flock, or 0
  review,     \* request -> its thread
  kills,      \* deaths so far
  acked,      \* history: entries whose append returned, in that order
  damaged     \* history: a line was torn, a write failed, or a separator used

journalVars == <<journal, durable, holder, review, kills, acked, damaged>>

ReviewId == 1 .. MaxReviews
Handlers == {"action", "status", "view"}

(* An entry: the request that made it, its sequence number and the hash it  *)
(* chains to (0 is GENESIS_HASH).                                           *)
Half(entry, n) == [entry |-> entry, half |-> n]
NoEntry == [by |-> 0, sequence |-> 0, previous |-> 0]
EndOfLine == Half(NoEntry, 0)

JournalLine(entry) ==
  IF entry.by \in Separated
  THEN <<Half(entry, 1), EndOfLine, Half(entry, 2), EndOfLine>>
  ELSE <<Half(entry, 1), Half(entry, 2), EndOfLine>>

----------------------------------------------------------------------------
(* Writing one piece, and the end of the file: its last line and how much   *)
(* of that line there is.                                                   *)
PutPiece(file, piece) ==
  IF piece = EndOfLine THEN Append(file, <<>>)
  ELSE [file EXCEPT ![Len(file)] = Append(@, piece)]

EndOf(file) == <<Len(file), Len(Last(file))>>
CutAt(file, end) ==
  Append(SubSeq(file, 1, end[1] - 1), SubSeq(file[end[1]], 1, end[2]))
CutsAfter(file, end) ==
  {cut \in UNION {{i} \X (0 .. Len(file[i])) : i \in 1 .. Len(file)} :
      cut[1] > end[1] \/ (cut[1] = end[1] /\ cut[2] >= end[2])}

(* Reading: splitlines, blank lines dropped, each other line parsed.        *)
JournalLines(file) ==
  LET lines[n \in 0 .. Len(file)] ==
        IF n = 0 THEN <<>>
        ELSE IF file[n] = <<>> THEN lines[n - 1] ELSE Append(lines[n - 1], file[n])
  IN  lines[Len(file)]

WholeEntry(line) ==
  /\ Len(line) = 2
  /\ line[1].half = 1 /\ line[2].half = 2
  /\ line[1].entry = line[2].entry

JournalEntries(file) ==
  LET lines == JournalLines(file) IN [i \in 1 .. Len(lines) |-> lines[i][1].entry]

(* verify: sequence numbers from 1 and an unbroken hash chain.              *)
Chained(entries) ==
  \A i \in 1 .. Len(entries) :
     /\ entries[i].sequence = i
     /\ entries[i].previous = IF i = 1 THEN 0 ELSE entries[i - 1].by

(* entries() returns; otherwise it raises.                                  *)
JournalVerifies(file) ==
  LET lines == JournalLines(file)
  IN  /\ \A i \in 1 .. Len(lines) : WholeEntry(lines[i])
      /\ Chained([i \in 1 .. Len(lines) |-> lines[i][1].entry])

----------------------------------------------------------------------------
NoThread == [at |-> "idle", handler |-> "view", reads |-> 0, seen |-> <<>>,
             owed |-> {}, pending |-> <<>>, broken |-> FALSE]

JournalInit ==
  /\ journal = <<<<>>>> /\ durable = EndOf(journal) /\ holder = 0
  /\ review = [r \in ReviewId |-> NoThread]
  /\ kills = 0 /\ acked = <<>> /\ damaged = FALSE

Ended(thread, outcome) ==
  [NoThread EXCEPT !.at = outcome, !.broken = thread.broken]

At(r, place) == review[r].at = place
InHandler(r) == review[r].at \notin {"idle", "answered", "failed", "lost"}
Goes(r, place) == review' = [review EXCEPT ![r].at = place]
Finishes(r, outcome) == review' = [review EXCEPT ![r] = Ended(@, outcome)]

(* How many reads of the journal a handler makes: status reads it for the   *)
(* latest entries, for their number and for their hash.                     *)
ReadsOf(handler) == IF handler = "status" THEN 3 ELSE 1

(* A request enters its handler.  An action on a candidate that does not    *)
(* exist is refused before the journal is touched.                          *)
Enter(r) ==
  /\ At(r, "idle") /\ \A q \in 1 .. (r - 1) : ~At(q, "idle")
  /\ Cardinality({q \in ReviewId : InHandler(q)}) < MaxReviewers
  /\ \E handler \in Handlers, known \in BOOLEAN :
        /\ handler # "action" => known
        /\ review' = [review EXCEPT ![r] =
             [NoThread EXCEPT
                !.at = IF ~known THEN "failed"
                       ELSE IF handler = "action" THEN "waiting" ELSE "reading",
                !.handler = handler,
                !.reads = ReadsOf(handler),
                !.owed = ToSet(acked)]]
  /\ UNCHANGED <<journal, durable, holder, kills, acked, damaged>>

(* flock(LOCK_EX) *)
LockUnchecked(r) ==                              \* mutant: no flock
  /\ At(r, "waiting")
  /\ holder' = r /\ Goes(r, "locked")
  /\ UNCHANGED <<journal, durable, kills, acked, damaged>>
Lock(r) ==
  /\ At(r, "waiting") /\ holder = 0
  /\ holder' = r /\ Goes(r, "locked")
  /\ UNCHANGED <<journal, durable, kills, acked, damaged>>

(* Under the lock: read and verify what is there, build the next entry.     *)
Build(r) ==
  /\ At(r, "locked") /\ JournalVerifies(journal)
  /\ LET entries == JournalEntries(journal)
         entry == [by |-> r, sequence |-> Len(entries) + 1,
                   previous |-> IF entries = <<>> THEN 0 ELSE Last(entries).by]
     IN  review' = [review EXCEPT ![r].at = "writing",
                                  ![r].pending = JournalLine(entry)]
  /\ UNCHANGED <<journal, durable, holder, kills, acked, damaged>>

(* An unreadable journal raises; the finally clause releases the lock.      *)
RaiseKeepsLock(r) ==                             \* mutant: no finally
  /\ At(r, "locked") /\ ~JournalVerifies(journal)
  /\ Finishes(r, "failed")
  /\ UNCHANGED <<journal, durable, holder, kills, acked, damaged>>
Raise(r) ==
  /\ At(r, "locked") /\ ~JournalVerifies(journal)
  /\ holder' = 0 /\ Finishes(r, "failed")
  /\ UNCHANGED <<journal, durable, kills, acked, damaged>>

(* write and flush: the line reaches the file piece by piece.               *)
Write(r) ==
  /\ At(r, "writing") /\ review[r].pending # <<>>
  /\ journal' = PutPiece(journal, Head(review[r].pending))
  /\ review' = [review EXCEPT ![r].pending = Tail(@)]
  /\ damaged' = (damaged \/ r \in Separated)
  /\ UNCHANGED <<durable, holder, kills, acked>>

(* fsync, unlock, return the entry to the handler.                          *)
ReturnedBy(r) ==
  /\ acked' = Append(acked, r)
  /\ holder' = 0 /\ Goes(r, "reading")
  /\ UNCHANGED <<journal, kills, damaged>>
SyncSkipped(r) ==                                \* mutant: no fsync
  /\ At(r, "writing") /\ review[r].pending = <<>>
  /\ ReturnedBy(r) /\ UNCHANGED durable
SyncBeforeFlush(r) ==                            \* mutant: no flush
  /\ At(r, "writing")
  /\ durable' = EndOf(journal) /\ ReturnedBy(r)
Sync(r) ==
  /\ At(r, "writing") /\ review[r].pending = <<>>
  /\ durable' = EndOf(journal) /\ ReturnedBy(r)

(* A write or the sync fails.  The finally clause unlocks; what the stream  *)
(* still buffers is written, or given up, when the with statement closes it.*)
WriteFails(r) ==
  /\ At(r, "writing")
  /\ Cardinality({q \in ReviewId : review[q].broken}) < MaxWriteErrors
  /\ review' = [review EXCEPT ![r].at = "closing", ![r].broken = TRUE]
  /\ holder' = 0 /\ damaged' = TRUE
  /\ UNCHANGED <<journal, durable, kills, acked>>

CloseWrites(r) ==
  /\ At(r, "closing") /\ review[r].pending # <<>>
  /\ journal' = PutPiece(journal, Head(review[r].pending))
  /\ review' = [review EXCEPT ![r].pending = Tail(@)]
  /\ UNCHANGED <<durable, holder, kills, acked, damaged>>

CloseEnds(r) ==
  /\ At(r, "closing")
  /\ Finishes(r, "failed")
  /\ UNCHANGED <<journal, durable, holder, kills, acked, damaged>>

(* entries(), without the lock: once for a view, the candidate list, the    *)
(* verification and the answer to an action, three times for the status.    *)
Read(r) ==
  /\ At(r, "reading") /\ JournalVerifies(journal)
  /\ review' = [review EXCEPT
       ![r].seen = Append(@, JournalEntries(journal)),
       ![r].at = IF Len(review[r].seen) + 1 = review[r].reads THEN "answered" ELSE @]
  /\ UNCHANGED <<journal, durable, holder, kills, acked, damaged>>

ReadRaises(r) ==
  /\ At(r, "reading") /\ ~JournalVerifies(journal)
  /\ Finishes(r, "failed")
  /\ UNCHANGED <<journal, durable, holder, kills, acked, damaged>>

(* The machine dies: the threads and the lock are gone, and of what was not *)
(* synced any prefix is on the disk.  A cut inside a line tears it.         *)
Kill ==
  /\ kills < MaxKills /\ kills' = kills + 1
  /\ \E r \in ReviewId : InHandler(r)
  /\ \E cut \in CutsAfter(journal, durable) :
        /\ journal' = CutAt(journal, cut) /\ durable' = cut
        /\ damaged' = (damaged \/ cut[2] > 0)
  /\ holder' = 0
  /\ review' = [r \in ReviewId |->
       IF InHandler(r) THEN Ended(review[r], "lost") ELSE review[r]]
  /\ UNCHANGED acked

ReviewStep(r) ==
  \/ Lock(r) \/ Build(r) \/ Raise(r) \/ Write(r) \/ Sync(r)
  \/ CloseWrites(r) \/ CloseEnds(r) \/ Read(r) \/ ReadRaises(r)

(* All requests were served: the service waits for the next.                *)
AllReviewed ==
  /\ \A r \in ReviewId : ~At(r, "idle") /\ ~InHandler(r)
  /\ UNCHANGED journalVars

JournalNext ==
  \/ \E r \in ReviewId : Enter(r) \/ ReviewStep(r) \/ WriteFails(r)
  \/ Kill
  \/ AllReviewed

(* Worker threads are scheduled and a lock request is served once the lock  *)
(* is free; nothing obliges a client to call, a write to fail or a death.   *)
JournalFairness == \A r \in ReviewId : WF_journalVars(ReviewStep(r))

JournalSpec == JournalInit /\ [][JournalNext]_journalVars /\ JournalFairness

----------------------------------------------------------------------------
(* While no append holds the lock, the journal can be read: without a torn  *)
(* line, a failed write or an entry with a line separator in its text, the  *)
(* readers that take no lock (review.py:42-51) fail only while an append is *)
(* writing, and no two appends build on the same entry.                     *)
JournalReadable == holder = 0 /\ ~damaged => JournalVerifies(journal)

(* Damage is never silent: whatever died, failed or was cut short, a        *)
(* journal that verifies holds every entry whose append returned once, in   *)
(* the order they returned (flush and fsync before the unlock, the chain).  *)
NoSilentLoss ==
  JournalVerifies(journal) =>
     LET found == JournalEntries(journal)
     IN  \E place \in [1 .. Len(acked) -> 1 .. Len(found)] :
           /\ \A j, k \in DOMAIN place : j < k => place[j] < place[k]
           /\ \A k \in DOMAIN place : found[place[k]].by = acked[k]
           /\ \A i \in 1 .. Len(found) :
                found[i].by \in ToSet(acked) => \E k \in DOMAIN place : place[k] = i

(* The reads of one handler, which other appends and reads come between,    *)
(* only ever see the journal grow, and see every entry whose append had     *)
(* returned before the request came; an action's answer sees its own entry. *)
ReadsGrow ==
  \A r \in ReviewId : LET seen == review[r].seen IN
     /\ \A i \in 1 .. Len(seen) :
           review[r].owed \subseteq {seen[i][k].by : k \in 1 .. Len(seen[i])}
     /\ \A i \in 2 .. Len(seen) : IsPrefix(seen[i - 1], seen[i])
     /\ review[r].handler = "action" =>
           \A i \in 1 .. Len(seen) : \E k \in 1 .. Len(seen[i]) : seen[i][k].by = r

(* Every request the service took ends, answered or refused, though appends *)
(* wait for one another's lock and any of them may raise while holding it.  *)
ReviewsDrain == \A r \in ReviewId : InHandler(r) ~> ~InHandler(r)
=============================================================================
