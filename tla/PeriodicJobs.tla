----------------------------- MODULE PeriodicJobs ---------------------------
(***************************************************************************)
(* The worker beside its hot path: the writer of the tape, the periodic    *)
(* jobs that read and delete what it has written, each a task of its own,  *)
(* and the rows of a sleeve that outlive the process.  Runner.stop ends the*)
(* jobs before the writer; the process may also die anywhere.              *)
(***************************************************************************)
EXTENDS Aggregator, PromotionGates

CONSTANT Plans      \* bound: the jobs that run beside each other, the events they get, whether
                    \* the worker is stopped, how often it boots again and when the run ends

ASSUME PlansAssumption ==
    Plans \subseteq [jobs : SUBSET {"aggregator", "retention", "fill_validator", "pnl_snapshotter"},
                    events : 0 .. MaxEvents, stops : BOOLEAN, boots : Nat, ends : Times]

\* What is on: _start_periodic_jobs starts one job after the other, and one that
\* fails to start leaves the rest out.
VARIABLE plan

On(job) == job \in plan.jobs

vars == <<writerVars, tapeVars, aggregatorVars, fills, promotionVars, plan>>

Init ==
    /\ WriterInit /\ TapeInit /\ AggregatorInit /\ ValidatorInit /\ PromotionInit
    /\ plan \in Plans
    /\ ~On("pnl_snapshotter") => mode = "live_signal" /\ sleeve # NoSleeve

\* Runner.stop: the jobs end before the writer.  Prices are the validator's
\* business, and one will do without it.
WriterStep ==
    /\ Arrive \/ Write
    /\ submitted' <= plan.events
    /\ ~plan.stops \/ step = "daily" => stopping' = stopping
    /\ ~On("fill_validator") => \A i \in DOMAIN prints' : prints'[i].price = FillPrice
    /\ UNCHANGED <<aggregatorVars, fills, promotionVars, plan>>

AggregatorStep ==
    On("aggregator") /\ Aggregate /\ UNCHANGED <<writerVars, tapeVars, fills, promotionVars, plan>>
RetentionStep ==
    On("retention") /\ (Sweep \/ SweepBars) /\ UNCHANGED <<writerVars, fills, promotionVars, plan>>

\* A fill refers to the row of a sleeve that trades.
ValidatorStep ==
    /\ On("fill_validator") /\ ValidatorNext
    /\ Trades \/ Len(fills') = Len(fills)
    /\ UNCHANGED <<writerVars, tapeVars, aggregatorVars, promotionVars, plan>>

\* Signals come of events.
SleeveStep ==
    /\ On("pnl_snapshotter")
    /\ Moves \/ Snapshot \/ (plan.events > 0 /\ (Emits \/ Replayed))
    /\ UNCHANGED <<writerVars, tapeVars, aggregatorVars, fills, plan>>

\* Time is the jobs' business: it stands still when none is on or all have ended.
TimePasses ==
    /\ plan.jobs # {} /\ stopping = "no" /\ now < plan.ends
    /\ Tick
    /\ UNCHANGED <<aggregatorVars, fills, promotionVars, plan>>

\* The process dies and boots, with its configuration as it was or edited.
Reboot ==
    /\ plan.boots > 0 /\ plan' = [plan EXCEPT !.boots = @ - 1]
    /\ Die /\ Committed
    /\ AggregatorStarts
    /\ \E m \in Modes : (On("pnl_snapshotter") \/ m = mode) /\ Boots(m)
    /\ UNCHANGED fills

Next ==
    WriterStep \/ AggregatorStep \/ RetentionStep \/ ValidatorStep \/ SleeveStep \/ TimePasses \/ Reboot

\* The interval of the flush loop passes, the database answers or fails, and
\* stop is carried through once it is called.
Fairness ==
    /\ WF_vars(Flush /\ WriterStep) /\ WF_vars(Flushed /\ WriterStep)
    /\ WF_vars(FinalFlush /\ WriterStep) /\ WF_vars(Stopped /\ WriterStep)

Spec == Init /\ [][Next]_vars /\ Fairness

\* The writer, the jobs, the sleeve and their rows are well typed.
TypeOK ==
    /\ plan \in [jobs : SUBSET {"aggregator", "retention", "fill_validator", "pnl_snapshotter"},
                events : 0 .. MaxEvents, stops : BOOLEAN, boots : Nat, ends : Times]
    /\ TapeTypeOK /\ AggregatorTypeOK /\ ValidatorTypeOK /\ PromotionTypeOK
=============================================================================
