----------------------------- MODULE EventWriter ----------------------------
(***************************************************************************)
(* src/src/db/event_writer.py: the buffer between the hot path and the     *)
(* market_events table.  submit never waits; a flush takes one batch out   *)
(* of the buffer and awaits the database with it, and events keep coming   *)
(* meanwhile.  Events are numbered in the order they are submitted.        *)
(***************************************************************************)
EXTENDS Naturals, Sequences, SequencesExt, FiniteSets, FiniteSetsExt

CONSTANTS
    MaxBuffer,      \* max_buffer
    BatchSize,      \* flush_batch_size
    MaxEvents       \* bound: events submitted

ASSUME WriterAssumption ==
    /\ MaxBuffer \in Nat \ {0}
    /\ BatchSize \in Nat \ {0}
    /\ MaxEvents \in Nat

VARIABLES
    buffer,         \* self._buffer
    batch,          \* the batch a flush is writing
    table,          \* the events in market_events, in the order they were written
    submitted,      \* events submitted so far
    dropped,        \* the events popped by submit; self.events_dropped counts them
    lost,           \* history: the events of failed batches and of a buffer that died
    loop,           \* where the flush task is: "wait", "flush", "ended"
    stopping        \* where stop is: "no", "set", "final", "done"

writerVars == <<buffer, batch, table, submitted, dropped, lost, loop, stopping>>

WriterInit ==
    /\ buffer = <<>> /\ batch = <<>> /\ table = <<>>
    /\ submitted = 0
    /\ dropped = {} /\ lost = {}
    /\ loop = "wait" /\ stopping = "no"

-----------------------------------------------------------------------------
\* Mistakes: nothing bounds the buffer; a drop is not counted.
Submit_Unbounded ==
    /\ stopping = "no" /\ submitted < MaxEvents
    /\ submitted' = submitted + 1
    /\ buffer' = Append(buffer, submitted')
    /\ UNCHANGED <<batch, table, dropped, lost, loop, stopping>>
Submit_Uncounted ==
    /\ stopping = "no" /\ submitted < MaxEvents
    /\ submitted' = submitted + 1
    /\ buffer' = Append(IF Len(buffer) >= MaxBuffer THEN Tail(buffer) ELSE buffer, submitted')
    /\ UNCHANGED <<batch, table, dropped, lost, loop, stopping>>

\* submit; the runner has cancelled its consumers before it stops the writer.
Submit ==
    /\ stopping = "no" /\ submitted < MaxEvents
    /\ submitted' = submitted + 1
    /\ IF Len(buffer) >= MaxBuffer
       THEN /\ buffer' = Append(Tail(buffer), submitted')
            /\ dropped' = dropped \cup {Head(buffer)}
       ELSE /\ buffer' = Append(buffer, submitted')
            /\ UNCHANGED dropped
    /\ UNCHANGED <<batch, table, lost, loop, stopping>>

Smaller(x, y) == IF x <= y THEN x ELSE y

\* Mistake: the batch comes from the wrong end.
TakeBatch_Newest ==
    LET n == Smaller(BatchSize, Len(buffer)) IN
    /\ batch' = SubSeq(buffer, Len(buffer) - n + 1, Len(buffer))
    /\ buffer' = SubSeq(buffer, 1, Len(buffer) - n)

\* _flush_once: up to a batch from the front of the buffer.
TakeBatch ==
    LET n == Smaller(BatchSize, Len(buffer)) IN
    /\ batch' = SubSeq(buffer, 1, n)
    /\ buffer' = SubSeq(buffer, n + 1, Len(buffer))

\* The database answers: the batch is in the table, or it is logged and gone.
EndBatch ==
    /\ \/ table' = table \o batch /\ UNCHANGED lost
       \/ lost' = lost \cup ToSet(batch) /\ UNCHANGED table
    /\ batch' = <<>>

\* _flush_loop: after the interval, or at once when stop is set.  With nothing in
\* the buffer there is nothing to await.
Flush ==
    /\ loop = "wait"
    /\ TakeBatch
    /\ loop' = IF buffer # <<>> THEN "flush" ELSE IF stopping = "no" THEN "wait" ELSE "ended"
    /\ UNCHANGED <<table, submitted, dropped, lost, stopping>>

\* Mistake: a failed batch ends the task.
Flushed_Dies ==
    /\ loop = "flush"
    /\ EndBatch
    /\ loop' = IF stopping = "no" /\ table' # table THEN "wait" ELSE "ended"
    /\ UNCHANGED <<buffer, submitted, dropped, stopping>>

Flushed ==
    /\ loop = "flush"
    /\ EndBatch
    /\ loop' = IF stopping = "no" THEN "wait" ELSE "ended"
    /\ UNCHANGED <<buffer, submitted, dropped, stopping>>

\* stop: set the event, await the task, flush once more.
Stop ==
    /\ stopping = "no"
    /\ stopping' = "set"
    /\ UNCHANGED <<buffer, batch, table, submitted, dropped, lost, loop>>

FinalFlush ==
    /\ stopping = "set" /\ loop = "ended"
    /\ TakeBatch
    /\ stopping' = IF buffer # <<>> THEN "final" ELSE "done"
    /\ UNCHANGED <<table, submitted, dropped, lost, loop>>

Stopped ==
    /\ stopping = "final"
    /\ EndBatch
    /\ stopping' = "done"
    /\ UNCHANGED <<buffer, submitted, dropped, loop>>

\* The worker dies and starts again: what was waiting is lost, and the batch
\* that was being written has been committed or has not.
Die ==
    /\ table' \in {table, table \o batch}
    /\ lost' = lost \cup ToSet(buffer) \cup (ToSet(batch) \ ToSet(table'))
    /\ buffer' = <<>> /\ batch' = <<>>
    /\ loop' = "wait" /\ stopping' = "no"
    /\ UNCHANGED <<submitted, dropped>>

-----------------------------------------------------------------------------
(* Properties *)

Events == 1 .. submitted

\* Type invariant; the buffer and a batch keep to their limits.
WriterTypeOK ==
    /\ submitted \in 0 .. MaxEvents
    /\ buffer \in Seq(Events) /\ batch \in Seq(Events) /\ table \in Seq(Events)
    /\ Len(buffer) <= MaxBuffer /\ Len(batch) <= BatchSize
    /\ dropped \subseteq Events /\ lost \subseteq Events
    /\ loop \in {"wait", "flush", "ended"}
    /\ stopping \in {"no", "set", "final", "done"}

\* What is on its way through the writer, oldest first.
Trail == table \o batch \o buffer

\* The tape keeps its order: whatever is written, being written or waiting is
\* in the order of submission, through drops, failures and shutdown.
TapeInOrder == \A i \in 1 .. Len(Trail) - 1 : Trail[i] < Trail[i + 1]

\* Every event is in exactly one place: on its way, dropped (and counted), or
\* lost with a failed batch or with the process.
NothingUnaccounted ==
    /\ ToSet(Trail) \cup dropped \cup lost = Events
    /\ ToSet(Trail) \cap (dropped \cup lost) = {}
    /\ dropped \cap lost = {}

\* What waits in the buffer is written out, dropped or lost when no more events
\* come: no failing batch and no stop leaves the buffer without its flush task
\* before the writer is done.
BufferDrains == buffer # <<>> ~> buffer = <<>> \/ stopping = "done"
=============================================================================
