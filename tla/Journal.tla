------------------------------- MODULE Journal -------------------------------
(***************************************************************************)
(* The event journal: the recorder that queues events without ever         *)
(* blocking a turn and writes them in batches, the transcript files the    *)
(* acp_session rows point at, the retention sweep and the prune tool, and  *)
(* the drain at the end of the daemon.                                     *)
(*                                                                         *)
(* The turns, the recorder's writer, the daemon's sweeper and a prune tool *)
(* in another process interleave between any two statements: a process has *)
(* one database connection, which it gives back after every statement.     *)
(***************************************************************************)
EXTENDS Naturals, Sequences, FiniteSets

CONSTANTS
  Turns,       \* the chat turns, each recorded once when it ends
  ConversationOf,  \* ConversationOf[t]: the session of turn t, which names its
                   \*   transcript
  Sweepers,    \* the daemon's sweeper and the prune tool
  BufferSize,  \* capacity of AsyncRecorder.ch
  BatchSize    \* AsyncRecorder.batchSize

Conversations == {ConversationOf[t] : t \in Turns}
NoRef == "no transcript"
ASSUME NoRefAssumption == NoRef \notin Conversations

VARIABLES
  turn,      \* turn[t]: "running", "transcribed", "full" (Record found no
             \*   room), "recorded", or "late": nothing reads its count
  ref,       \* ref[t]: the blob_ref of the event of t
  blobs,     \* blobs[s]: the turns in the transcript of s; a file that does
             \*   not exist holds none
  ch,        \* AsyncRecorder.ch: the turns whose events are buffered
  batch,     \* the batch of the writer goroutine
  dropped,   \* AsyncRecorder.dropped, as the set of the turns it counts
  reported,  \* the turns whose event was lost and whose loss was logged
  rows,      \* the turns with a row in the events table
  expired,   \* the rows older than the retention of their stream
  pruned,    \* history: the turns whose row was pruned
  recorder,  \* "open", "closed" (the channel is) or "done" (the writer is)
  process,   \* "up", "exited" or "panicked"
  sweep,     \* sweep[w]: where a Prune is, its cutoff and its candidates
  faulty     \* history: a sweep was cut short or could not remove a file

journalVars == <<turn, ref, blobs, ch, batch, dropped, reported, rows, expired,
          pruned, recorder, process, sweep, faulty>>

Elems(s) == {s[i] : i \in DOMAIN s}
Running == process = "up"

(* ------------------------------- turns --------------------------------- *)

(* sessionLogger.record: the transcript first, best effort ...             *)
AppendTranscript(t) ==
  /\ Running /\ turn[t] = "running"
  /\ turn' = [turn EXCEPT ![t] = "transcribed"]
  /\ \/ /\ ref' = [ref EXCEPT ![t] = ConversationOf[t]]
        /\ blobs' = [blobs EXCEPT ![ConversationOf[t]] = @ \cup {t}]
     \/ UNCHANGED <<ref, blobs>>
  /\ UNCHANGED <<ch, batch, dropped, reported, rows, expired, pruned, recorder,
                 process, sweep, faulty>>

(* ... then the row, which names it.  Record never blocks; it does not look *)
(* whether the channel was closed.                                          *)
Record(t) ==
  /\ Running /\ turn[t] = "transcribed"
  /\ IF recorder # "open"
     THEN process' = "panicked" /\ UNCHANGED <<ch, turn>>
     ELSE /\ UNCHANGED process
          /\ IF Len(ch) < BufferSize
             THEN ch' = Append(ch, t) /\ turn' = [turn EXCEPT ![t] = "recorded"]
             ELSE turn' = [turn EXCEPT ![t] = "full"] /\ UNCHANGED ch
  /\ UNCHANGED <<ref, blobs, batch, dropped, reported, rows, expired, pruned,
                 recorder, sweep, faulty>>

(* A full buffer drops the event and counts it, in a step of its own.       *)
CountDropped(t) ==
  /\ Running /\ turn[t] = "full"
  /\ dropped' = dropped \cup {t}
  /\ turn' = [turn EXCEPT ![t] = IF recorder = "done" THEN "late" ELSE "recorded"]
  /\ UNCHANGED <<ref, blobs, ch, batch, reported, rows, expired, pruned, recorder,
                 process, sweep, faulty>>

(* ------------------------------ the writer ----------------------------- *)

Take ==
  /\ Running /\ recorder # "done"
  /\ ch # <<>> /\ Len(batch) < BatchSize
  /\ batch' = Append(batch, Head(ch)) /\ ch' = Tail(ch)
  /\ UNCHANGED <<turn, ref, blobs, dropped, reported, rows, expired, pruned,
                 recorder, process, sweep, faulty>>

(* Mutant of AppendBatch: the batch is emptied before it is written.        *)
AppendNothing(lost) == rows' = rows /\ reported' = reported \cup lost

(* appendBatch is one transaction: every event of the batch or none.  One   *)
(* that fails is logged and its events are given up; so is the number of    *)
(* events a full buffer dropped, when reportDropped runs with it.           *)
AppendBatch(lost) ==
  \/ rows' = rows \cup Elems(batch) /\ reported' = reported \cup lost
  \/ rows' = rows /\ reported' = reported \cup lost \cup Elems(batch)

(* The batch is full.                                                       *)
FlushFull ==
  /\ Running /\ recorder # "done" /\ Len(batch) = BatchSize
  /\ AppendBatch({}) /\ batch' = <<>>
  /\ UNCHANGED <<turn, ref, blobs, ch, dropped, expired, pruned, recorder,
                 process, sweep, faulty>>

Tick ==
  /\ Running /\ recorder # "done"
  /\ batch # <<>> \/ dropped # {}
  /\ Len(batch) < BatchSize
  /\ AppendBatch(dropped) /\ batch' = <<>> /\ dropped' = {}
  /\ UNCHANGED <<turn, ref, blobs, ch, expired, pruned, recorder, process,
                 sweep, faulty>>

(* --------------------------- end of the daemon ------------------------- *)

(* closeJournal, deferred by main: turns are not waited for before it.      *)
CloseJournal ==
  /\ process = "up" /\ recorder = "open"
  /\ recorder' = "closed"
  /\ UNCHANGED <<turn, ref, blobs, ch, batch, dropped, reported, rows, expired,
                 pruned, process, sweep, faulty>>

Drained ==
  /\ Running /\ recorder = "closed" /\ ch = <<>> /\ Len(batch) < BatchSize
  /\ AppendBatch(dropped) /\ batch' = <<>> /\ dropped' = {}
  /\ recorder' = "done"
  /\ UNCHANGED <<turn, ref, blobs, ch, expired, pruned, process, sweep, faulty>>

(* The process exits: Recorder.Close has returned, or has given up on the   *)
(* writer after five seconds, which is logged without saying what is lost;  *)
(* or the grace timer of a restart calls os.Exit, with the recorder open or *)
(* in the middle of its drain, which is not logged at all.                  *)
ExitDaemon ==
  /\ process = "up"
  /\ process' = "exited"
  /\ UNCHANGED <<turn, ref, blobs, ch, batch, dropped, reported, rows, expired,
                 pruned, recorder, sweep, faulty>>

(* ------------------------------- pruning ------------------------------- *)

(* The row of t outlives the retention of its stream.                       *)
Expire(t) ==
  /\ t \in rows \ expired
  /\ expired' = expired \cup {t}
  /\ UNCHANGED <<turn, ref, blobs, ch, batch, dropped, reported, rows, pruned,
                 recorder, process, sweep, faulty>>

Refs(ts) == {ref[t] : t \in ts} \ {NoRef}

(* Mutant of ExpiringBlobRefs: the refs are collected after the delete.     *)
RefsOfDeleted(old) == Refs(old \ old)

(* expiringBlobRefs: the files the rows about to be deleted point at.       *)
ExpiringBlobRefs(old) == Refs(old)

SweepRuns(w) == w = "daemon" => Running

Collect(w) ==
  /\ SweepRuns(w) /\ sweep[w].at = "idle" /\ rows \cap expired # {}
  /\ sweep' = [sweep EXCEPT ![w] =
       [at |-> "delete", old |-> expired,
        refs |-> ExpiringBlobRefs(rows \cap expired)]]
  /\ UNCHANGED <<turn, ref, blobs, ch, batch, dropped, reported, rows, expired,
                 pruned, recorder, process, faulty>>

Delete(w) ==
  /\ SweepRuns(w) /\ sweep[w].at = "delete"
  /\ rows' = rows \ sweep[w].old
  /\ pruned' = pruned \cup (rows \cap sweep[w].old)
  /\ sweep' = [sweep EXCEPT ![w].at = "check"]
  /\ UNCHANGED <<turn, ref, blobs, ch, batch, dropped, reported, expired,
                 recorder, process, faulty>>

Referenced(s) == s \in Refs(rows)

(* removeOrphanBlobs asks of each candidate whether a row still names it ... *)
Check(w, s) ==
  /\ SweepRuns(w) /\ sweep[w].at = "check" /\ s \in sweep[w].refs
  /\ sweep' = [sweep EXCEPT ![w] =
       [at   |-> IF Referenced(s) THEN "check" ELSE "remove",
        old  |-> IF Referenced(s) THEN @.old ELSE {s},
        refs |-> @.refs \ {s}]]
  /\ UNCHANGED <<turn, ref, blobs, ch, batch, dropped, reported, rows, expired,
                 pruned, recorder, process, faulty>>

(* ... and removes it in a step of its own, if it can.                      *)
RemoveTranscripts(w) ==
  /\ SweepRuns(w) /\ sweep[w].at = "remove"
  /\ \/ blobs' = [s \in Conversations |-> IF s \in sweep[w].old THEN {} ELSE blobs[s]]
        /\ UNCHANGED faulty
     \/ faulty' = TRUE /\ UNCHANGED blobs
  /\ sweep' = [sweep EXCEPT ![w].at = "check"]
  /\ UNCHANGED <<turn, ref, ch, batch, dropped, reported, rows, expired, pruned,
                 recorder, process>>

Swept == [at |-> "idle", old |-> {}, refs |-> {}]

(* The pass ends, because it is done, its context was cancelled or a        *)
(* statement failed: nothing will look at the candidates that are left.     *)
EndSweep(w) ==
  /\ sweep[w].at # "idle"
  /\ sweep' = [sweep EXCEPT ![w] = Swept]
  /\ faulty' = (faulty \/ sweep[w].at # "check" \/ sweep[w].refs # {})
  /\ UNCHANGED <<turn, ref, blobs, ch, batch, dropped, reported, rows, expired,
                 pruned, recorder, process>>

(* The behaviour has ended.                                                 *)
Ended == ~Running /\ (\A w \in Sweepers : sweep[w].at = "idle") /\ UNCHANGED journalVars

(* ---------------------------- specification ---------------------------- *)

JournalInit ==
  /\ turn = [t \in Turns |-> "running"] /\ ref = [t \in Turns |-> NoRef]
  /\ blobs = [s \in Conversations |-> {}]
  /\ ch = <<>> /\ batch = <<>> /\ dropped = {} /\ reported = {}
  /\ rows = {} /\ expired = {} /\ pruned = {}
  /\ recorder = "open" /\ process = "up"
  /\ sweep = [w \in Sweepers |-> Swept] /\ faulty = FALSE

JournalNext ==
  \/ \E t \in Turns : \/ AppendTranscript(t) \/ Record(t) \/ CountDropped(t)
                      \/ Expire(t)
  \/ Take \/ FlushFull \/ Tick \/ CloseJournal \/ Drained \/ ExitDaemon
  \/ \E w \in Sweepers : \/ Collect(w) \/ Delete(w) \/ RemoveTranscripts(w) \/ EndSweep(w)
                         \/ \E s \in Conversations : Check(w, s)
  \/ Ended

JournalSpec == JournalInit /\ [][JournalNext]_journalVars

(* ------------------------------ properties ----------------------------- *)

(* An event that Record took is stored, was pruned, its loss was logged, or *)
(* it is still in the recorder's hands; and once the writer is done nothing *)
(* is.  So a full buffer or a failed batch loses no event silently, and the *)
(* events that are lost without a word are those in its hands when the      *)
(* process ends before the writer does (recorder.go:32-36, 138-149).        *)
InHand == Elems(ch) \cup Elems(batch) \cup dropped

NothingLostSilently ==
  \A t \in Turns : turn[t] = "recorded" =>
    /\ t \in rows \cup pruned \cup reported \cup InHand
    /\ recorder = "done" => t \notin InHand

(* The transcript of a session whose last row was pruned is removed with it *)
(* (store.go:386-388), as long as no sweep was cut short and no event was   *)
(* lost: whatever the daemon's sweeper and the prune tool do at once.       *)
PrunedTranscriptsRemoved ==
  \A s \in Conversations :
    LET of == {t \in Turns : ConversationOf[t] = s} IN
    /\ ~faulty /\ \A w \in Sweepers : sweep[w].at = "idle"
    /\ \A t \in of : turn[t] = "running" \/ t \in pruned
    => blobs[s] = {}
=============================================================================
