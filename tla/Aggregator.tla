----------------------------- MODULE Aggregator -----------------------------
(***************************************************************************)
(* src/src/runner/aggregator.py and retention.py: what is kept of the tape *)
(* when the tape is gone.  A bar is the set of the prints it sums up: an   *)
(* upsert replaces the bars of the groups it finds and no others.          *)
(***************************************************************************)
EXTENDS Tape

CONSTANTS
    Minute,         \* ticks in a minute
    Day,            \* minutes in a day
    DailyEvery,     \* runs between daily aggregations: 10
    EventsKeep,     \* events_retention_days
    BarsKeep        \* bars_1m_retention_days

\* A sweep spares what a run still reads: the last minutes of the tape, and the
\* minute bars of today and yesterday.
ASSUME AggregatorAssumption ==
    /\ Minute \in Nat \ {0} /\ Day \in Nat \ {0} /\ DailyEvery \in Nat \ {0}
    /\ EventsKeep \in Nat /\ EventsKeep >= 3 * Minute - 1
    /\ BarsKeep \in Nat /\ BarsKeep >= 2 * Day * Minute

VARIABLES
    bars,           \* market_bars_1m: of a minute, the events of its bar
    days,           \* market_bars_1d: of a day, the events of its bar
    step,           \* where the task is: "wait" or "daily"
    due,            \* when its timer ends
    runsCompleted,  \* runs_completed, modulo DailyEvery
    ranAt,          \* history: when a minute aggregation last succeeded
    gap             \* history: the longest time there was between two of them

aggregatorVars == <<bars, days, step, due, runsCompleted, ranAt, gap>>

MinuteOf(ts) == ts \div Minute
DayOf(m) == m \div Day
EventsOf(m) == {e \in OnTape : MinuteOf(prints[e].ts) = m}
Minutes == 0 .. MinuteOf(MaxTime)
Larger(x, y) == IF x <= y THEN y ELSE x

AggregatorInit ==
    /\ bars = [m \in {} |-> {}] /\ days = [d \in {} |-> {}]
    /\ step = "wait" /\ due = 0 /\ runsCompleted = 0
    /\ ranAt = 0 /\ gap = 0

\* The task starts anew with its process; the rows stay.
AggregatorStarts ==
    /\ step' = "wait" /\ due' = now /\ runsCompleted' = 0
    /\ UNCHANGED <<bars, days, ranAt, gap>>

\* INSERT ... SELECT ... GROUP BY ... ON CONFLICT DO UPDATE
Upsert(rows, new) ==
    [k \in DOMAIN rows \cup {k \in DOMAIN new : new[k] # {}} |->
        IF k \in DOMAIN new /\ new[k] # {} THEN new[k] ELSE rows[k]]

\* Mistakes: the window is a minute; it is not aligned to minutes.
MinuteWindow_One == {e \in OnTape : MinuteOf(prints[e].ts) = MinuteOf(now) - 1}
MinuteWindow_Unaligned == {e \in OnTape : now - 2 * Minute <= prints[e].ts /\ prints[e].ts < now}

\* _AGG_SQL reads the two minutes that closed last.
MinuteWindow == {e \in OnTape : MinuteOf(prints[e].ts) \in {MinuteOf(now) - 2, MinuteOf(now) - 1}}

\* The end of a run, and the timer for the next: only a complete run counts.
Wait(completed) ==
    /\ step' = "wait" /\ due' = now + Minute
    /\ runsCompleted' = IF completed THEN (runsCompleted + 1) % DailyEvery ELSE runsCompleted

RunMinute ==
    /\ stopping = "no" /\ step = "wait" /\ now >= due
    /\ bars' = Upsert(bars, [m \in Minutes |-> EventsOf(m) \cap MinuteWindow])
    /\ ranAt' = now /\ gap' = Larger(gap, now - ranAt)
    /\ IF runsCompleted = 0
       THEN step' = "daily" /\ UNCHANGED <<due, runsCompleted>>
       ELSE Wait(TRUE)
    /\ UNCHANGED days

\* _DAILY_AGG_SQL: yesterday and today, from the minute bars there are.
RunDaily ==
    /\ step = "daily"
    /\ days' = Upsert(days,
           [d \in {DayOf(MinuteOf(now)) - 1, DayOf(MinuteOf(now))} |->
               UNION {bars[m] : m \in {m \in DOMAIN bars : DayOf(m) = d}}])
    /\ Wait(TRUE)
    /\ UNCHANGED <<bars, ranAt, gap>>

\* A statement fails: the run is over.
RunFails ==
    /\ step = "daily" \/ (stopping = "no" /\ now >= due)
    /\ Wait(FALSE)
    /\ UNCHANGED <<bars, days, ranAt, gap>>

Aggregate == RunMinute \/ RunDaily \/ RunFails

\* Retention._sweep: events, then bars, each statement on its own.
Old(e) == prints[e].ts < now - EventsKeep
Outlived(m) == m * Minute < now - BarsKeep

Sweep ==
    /\ stopping = "no"
    /\ \E e \in OnTape : Old(e)
    /\ swept' = swept \cup {e \in OnTape : Old(e)}
    /\ UNCHANGED <<now, prints, writtenAt, aggregatorVars>>

SweepBars ==
    /\ stopping = "no"
    /\ \E m \in DOMAIN bars : Outlived(m)
    /\ bars' = [m \in {m \in DOMAIN bars : ~Outlived(m)} |-> bars[m]]
    /\ UNCHANGED <<tapeVars, days, step, due, runsCompleted, ranAt, gap>>

-----------------------------------------------------------------------------
(* Properties *)

AggregatorTypeOK ==
    /\ DOMAIN bars \subseteq Minutes /\ \A m \in DOMAIN bars : bars[m] \subseteq Written
    /\ \A d \in DOMAIN days : days[d] \subseteq Written
    /\ step \in {"wait", "daily"} /\ due \in Nat /\ runsCompleted \in 0 .. DailyEvery - 1
    /\ ranAt \in 0 .. now /\ gap \in Times

\* Runs never lay two minutes apart, the last of them included.
OnSchedule == Larger(gap, now - ranAt) < 2 * Minute

\* An aggregator that keeps its schedule misses only late prints: one written
\* by the end of its minute is in the bar by the last tick of the next two
\* minutes (aggregator.py:129), though the timer drifts against the minutes and the tape
\* is swept, until the bar itself is deleted.
OnlyLatePrintsAreMissing ==
    \A e \in Written : LET m == MinuteOf(prints[e].ts) IN
        /\ OnSchedule /\ ~Outlived(m)
        /\ writtenAt[e] < (m + 1) * Minute
        /\ now >= (m + 3) * Minute - 1
        => m \in DOMAIN bars /\ e \in bars[m]

\* A bar that is written again never loses a print, by the minute or by the
\* day, though the rows it is built from are deleted in between.
BarsNeverShrink ==
    [][/\ \A m \in DOMAIN bars : m \in DOMAIN bars' => bars[m] \subseteq bars'[m]
       /\ \A d \in DOMAIN days : d \in DOMAIN days' /\ days[d] \subseteq days'[d]]_<<bars, days>>
=============================================================================
