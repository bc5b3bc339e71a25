----------------------------- MODULE ReplayQueue ----------------------------
(***************************************************************************)
(* src/src/runner/replay_queue.py: replay jobs, one worker task, and the   *)
(* replay_runs rows that runner/replay_engine.py writes for a job.  The    *)
(* worker is modelled from await to await: what it does between two awaits *)
(* is one action, and the API may submit a job, or the process stop or     *)
(* die, in between.  What a replay computes is left out: it ends, or it    *)
(* raises.                                                                 *)
(***************************************************************************)
EXTENDS Naturals, Sequences, SequencesExt, FiniteSets

CONSTANTS
    Jobs,           \* job ids
    NoJob,          \* what the worker runs when it runs nothing
    MaxBoots        \* bound: starts of the process

ASSUME QueueAssumption == NoJob \notin Jobs /\ MaxBoots \in Nat \ {0}

VARIABLES
    status,         \* status[j] in self._jobs, "unknown" if it is not there
    queue,          \* self._queue
    notify,         \* self._notify
    stop,           \* self._stop
    worker,         \* where the worker task is, "absent" if self._worker is None
    current,        \* the job the worker runs, NoJob if none
    row,            \* row[j]: the status in the replay_runs row of the run of j
    submitted,      \* history: the jobs accepted since boot, in order
    started,        \* history: the jobs popped since boot, in order
    forgotten,      \* history: the jobs that were in memory when the process died
    unsaved,        \* history: the jobs a statement of whose run has failed
    boots           \* starts of the process so far

vars == <<status, queue, notify, stop, worker, current, row, submitted, started,
          forgotten, unsaved, boots>>

Statuses == {"unknown", "queued", "running", "completed", "failed"}
Places == {"absent", "loop", "waiting", "header", "replaying", "closing", "ended"}

\* The places of the worker inside ReplayEngine.run.
Engine == {"header", "replaying", "closing"}

Init ==
    /\ status = [j \in Jobs |-> "unknown"]
    /\ queue = <<>>
    /\ notify = FALSE
    /\ stop = FALSE
    /\ worker = "absent"
    /\ current = NoJob
    /\ row = [j \in Jobs |-> "none"]
    /\ submitted = <<>>
    /\ started = <<>>
    /\ forgotten = {}
    /\ unsaved = {}
    /\ boots = 1

-----------------------------------------------------------------------------
(* The API *)

\* Mistakes: a job jumps the queue; nobody is told of it.
Submit_Front(j) ==
    /\ status[j] = "unknown" /\ j \notin forgotten
    /\ status' = [status EXCEPT ![j] = "queued"]
    /\ queue' = <<j>> \o queue
    /\ submitted' = Append(submitted, j)
    /\ notify' = TRUE
    /\ UNCHANGED <<stop, worker, current, row, started, forgotten, unsaved, boots>>
Submit_Silent(j) ==
    /\ status[j] = "unknown" /\ j \notin forgotten
    /\ status' = [status EXCEPT ![j] = "queued"]
    /\ queue' = Append(queue, j)
    /\ submitted' = Append(submitted, j)
    /\ UNCHANGED <<notify, stop, worker, current, row, started, forgotten, unsaved, boots>>

\* submit: a job id that is known already is only looked up.
Submit(j) ==
    /\ status[j] = "unknown" /\ j \notin forgotten
    /\ status' = [status EXCEPT ![j] = "queued"]
    /\ queue' = Append(queue, j)
    /\ submitted' = Append(submitted, j)
    /\ notify' = TRUE
    /\ UNCHANGED <<stop, worker, current, row, started, forgotten, unsaved, boots>>

Start ==
    /\ worker = "absent"
    /\ stop' = FALSE
    /\ worker' = "loop"
    /\ UNCHANGED <<status, queue, notify, current, row, submitted, started, forgotten, unsaved, boots>>

\* stop, up to where it awaits the worker.
Stop ==
    /\ stop' = TRUE
    /\ notify' = TRUE
    /\ UNCHANGED <<status, queue, worker, current, row, submitted, started, forgotten, unsaved, boots>>

Stopped ==
    /\ worker = "ended"
    /\ worker' = "absent"
    /\ UNCHANGED <<status, queue, notify, stop, current, row, submitted, started, forgotten, unsaved, boots>>

-----------------------------------------------------------------------------
(* _loop *)

\* The top of the loop: end, go to sleep, or pop a job and enter the engine.
Loop ==
    /\ worker = "loop"
    /\ \/ /\ stop
          /\ worker' = "ended"
          /\ UNCHANGED <<status, queue, notify, current, started>>
       \/ /\ ~stop /\ queue = <<>>
          /\ notify' = FALSE
          /\ worker' = "waiting"
          /\ UNCHANGED <<status, queue, current, started>>
       \/ /\ ~stop /\ queue # <<>>
          /\ queue' = Tail(queue)
          /\ current' = Head(queue)
          /\ started' = Append(started, Head(queue))
          /\ status' = [status EXCEPT ![Head(queue)] = "running"]
          /\ worker' = "header"
          /\ UNCHANGED notify
    /\ UNCHANGED <<stop, row, submitted, forgotten, unsaved, boots>>

\* The wait ends because of a notification, or after five seconds.
Woken ==
    /\ worker = "waiting" /\ notify
    /\ worker' = "loop"
    /\ UNCHANGED <<status, queue, notify, stop, current, row, submitted, started, forgotten, unsaved, boots>>

TimedOut ==
    /\ worker = "waiting"
    /\ worker' = "loop"
    /\ UNCHANGED <<status, queue, notify, stop, current, row, submitted, started, forgotten, unsaved, boots>>

\* ReplayEngine.run inserts the header row; if the insert fails it goes on.
Header ==
    /\ worker = "header"
    /\ \/ row' = [row EXCEPT ![current] = "running"] /\ UNCHANGED unsaved
       \/ unsaved' = unsaved \cup {current} /\ UNCHANGED row
    /\ worker' = "replaying"
    /\ UNCHANGED <<status, queue, notify, stop, current, submitted, started, forgotten, boots>>

\* The replay is through: the row is completed, if it is there and the update
\* succeeds, while the job still counts as running.
Close ==
    /\ worker = "replaying"
    /\ \/ /\ row' = [row EXCEPT ![current] = IF @ = "running" THEN "completed" ELSE @]
          /\ UNCHANGED unsaved
       \/ unsaved' = unsaved \cup {current} /\ UNCHANGED row
    /\ worker' = "closing"
    /\ UNCHANGED <<status, queue, notify, stop, current, submitted, started, forgotten, boots>>

\* Mistake: the worker does not leave the engine.
Finished_Stuck(outcome) ==
    /\ status' = [status EXCEPT ![current] = outcome]
    /\ current' = NoJob
    /\ UNCHANGED <<worker, queue, notify, stop, submitted, started, forgotten, unsaved, boots>>

Finished(outcome) ==
    /\ status' = [status EXCEPT ![current] = outcome]
    /\ current' = NoJob
    /\ worker' = "loop"
    /\ UNCHANGED <<queue, notify, stop, submitted, started, forgotten, unsaved, boots>>

\* The engine returns its result.
Complete ==
    /\ worker = "closing"
    /\ UNCHANGED row
    /\ Finished("completed")

\* Mistake: the row is closed however the run ends.
Fail_Closes ==
    /\ worker \in {"header", "replaying"}
    /\ row' = [row EXCEPT ![current] = IF @ = "running" THEN "completed" ELSE @]
    /\ Finished("failed")

\* The engine raises, before it has written a header (an unknown strategy) or
\* after: nobody updates the row.
Fail ==
    /\ worker \in {"header", "replaying"}
    /\ UNCHANGED row
    /\ Finished("failed")

-----------------------------------------------------------------------------
\* The process dies and starts again: memory is empty, the rows stay.
Reboot ==
    /\ boots < MaxBoots
    /\ boots' = boots + 1
    /\ forgotten' = forgotten \cup {j \in Jobs : status[j] # "unknown"}
    /\ status' = [j \in Jobs |-> "unknown"]
    /\ queue' = <<>> /\ submitted' = <<>> /\ started' = <<>>
    /\ notify' = FALSE /\ stop' = FALSE
    /\ worker' = "absent" /\ current' = NoJob
    /\ UNCHANGED <<row, unsaved>>

Worker == Loop \/ Woken \/ Header \/ Close \/ Complete \/ Fail

Next ==
    \/ \E j \in Jobs : Submit(j)
    \/ Start \/ Stop \/ Stopped
    \/ Worker \/ TimedOut
    \/ Reboot

\* The event loop runs the worker whenever it is ready and a replay ends.  The
\* five seconds are not relied on: a notification has to be enough.
Spec == Init /\ [][Next]_vars /\ WF_vars(Worker)

-----------------------------------------------------------------------------
(* Properties *)

\* Type invariant; the worker holds a job exactly while it is in the engine.
TypeOK ==
    /\ status \in [Jobs -> Statuses]
    /\ queue \in Seq(Jobs)
    /\ notify \in BOOLEAN /\ stop \in BOOLEAN
    /\ worker \in Places
    /\ current \in Jobs \cup {NoJob}
    /\ worker \in Engine <=> current # NoJob
    /\ row \in [Jobs -> {"none", "running", "completed"}]
    /\ submitted \in Seq(Jobs) /\ started \in Seq(Jobs)
    /\ forgotten \subseteq Jobs /\ unsaved \subseteq Jobs
    /\ boots \in 1 .. MaxBoots

\* V1 is single-worker: at most one job is running, and it is the one the
\* worker is at, also when the worker is stopped and started again.
OneAtATime ==
    \A j \in Jobs : status[j] = "running" <=>
        worker \in Engine /\ current = j

\* Jobs run in the order they were accepted, each of them once: what was
\* started and what is queued are together what was submitted.
InOrderOnce == started \o queue = submitted /\ IsInjective(submitted)

\* The worker never sleeps through a job: when it waits without a pending
\* notification there is nothing to do.
NoLostWakeup == worker = "waiting" /\ ~notify => queue = <<>> /\ ~stop

\* Every job that is accepted ends, unless the worker is stopped or was never
\* started or the process dies, and without the timeout's help.
JobsEnd ==
    \A j \in Jobs :
        status[j] = "queued" ~>
            status[j] \in {"completed", "failed"} \/ stop \/ worker = "absent" \/ j \in forgotten

\* The worker has the run of j behind it and has not been told yet.
Closing(j) == worker = "closing" /\ current = j

\* Table and queue agree, through failed statements and a process that dies:
\* the row of a run says completed only if its job did, is about to, or has
\* been forgotten; a job is completed without its row only if a statement of
\* its run failed; and a job that has not run has no row.
RowsTellTheTruth ==
    \A j \in Jobs :
        /\ row[j] = "completed" => status[j] = "completed" \/ Closing(j) \/ j \in forgotten
        /\ status[j] = "completed" => row[j] = "completed" \/ j \in unsaved
        /\ status[j] = "queued" => row[j] = "none"

=============================================================================
