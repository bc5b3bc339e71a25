--------------------------- MODULE PromotionGates ---------------------------
(***************************************************************************)
(* src/src/runner/promotion_gates.py, the evaluator of the ladder a sleeve *)
(* climbs, with the rows it reads: the sleeve's (db/writers.py,            *)
(* upsert_sleeve), its equity curve (execution/pnl_snapshotter.py), its    *)
(* signals and fills, and the replays of its strategy.                     *)
(*                                                                         *)
(* A promotion is an edit of the configuration: the next boot reads it.    *)
(* An evaluation changes nothing: it is what Eligible and KillTriggered    *)
(* say.  The clock counts days here.  Rates are in percent.                *)
(***************************************************************************)
EXTENDS FillValidator

CONSTANTS
    NoSleeve,           \* outside any row
    Capital,            \* starting_capital_usd
    Equities,           \* what the capital may become
    Replays,            \* what a replay may give: [signals, realized, trades], trades a
                        \* sequence of [exit, pnl]
    Month,              \* 30 days
    ReplaySignals, ReplayDrawdown,
    LogDays, LogSignals, RateTolerance,
    SignalDays, MaxImplausible, MinFilled,
    FullDrawdown, FullRemaining,
    MaxSignals,         \* bound: signals
    MaxReplays,         \* bound: replays
    MaxSnapshots        \* bound: snapshots

Modes == {"replay_only", "live_log", "live_signal", "live_full"}

SleeveRow == [mode : Modes, started_at : Nat, last_mode_change_at : Nat]

ASSUME PromotionAssumption ==
    /\ NoSleeve \notin SleeveRow
    /\ Capital \in Nat \ {0} /\ Equities \subseteq Nat
    /\ Replays \subseteq [signals : Nat, realized : Int, trades : Seq([exit : Nat, pnl : Int])]
    /\ \A n \in {Month, ReplaySignals, ReplayDrawdown, LogDays, LogSignals, RateTolerance, SignalDays,
                 MaxImplausible, MinFilled, FullDrawdown, FullRemaining} : n \in Nat
    /\ \A n \in {MaxSignals, MaxReplays, MaxSnapshots} : n \in Nat

VARIABLES
    mode,           \* the mode of the configuration that runs
    sleeve,         \* the row of sleeves: [mode, started_at, last_mode_change_at]
    equity,         \* capital_remaining + unrealized of the tracker
    snapshots,      \* sleeve_pnl_snapshots: the capital of a time
    signals,        \* signals: their times
    replays,        \* the completed rows of replay_runs, in the order they started
    upserts         \* history: [ts, mode] of the upserts of the row

promotionVars == <<mode, sleeve, equity, snapshots, signals, replays, upserts>>

-----------------------------------------------------------------------------
\* Mistake: every boot stamps the row.
UpsertSleeve_Stamps(m) ==
    sleeve' = [mode |-> m, started_at |-> IF sleeve = NoSleeve THEN now ELSE sleeve.started_at,
               last_mode_change_at |-> now]

\* upsert_sleeve
UpsertSleeve(m) ==
    sleeve' = IF sleeve = NoSleeve
              THEN [mode |-> m, started_at |-> now, last_mode_change_at |-> now]
              ELSE [sleeve EXCEPT
                       !.mode = m,
                       !.last_mode_change_at = IF sleeve.mode # m THEN now ELSE @]

\* A boot with the configuration in mode m: the row is written, or that fails
\* and is logged; the tracker starts from the capital.
Boots(m) ==
    /\ mode' = m /\ equity' = Capital
    /\ \/ UpsertSleeve(m) /\ upserts' = Append(upserts, [ts |-> now, mode |-> m])
       \/ UNCHANGED <<sleeve, upserts>>
    /\ UNCHANGED <<snapshots, signals, replays>>

\* The first boot of the sleeve.
PromotionInit ==
    /\ mode \in Modes /\ equity = Capital
    /\ \/ sleeve = NoSleeve /\ upserts = <<>>
       \/ /\ sleeve = [mode |-> mode, started_at |-> now, last_mode_change_at |-> now]
          /\ upserts = <<[ts |-> now, mode |-> mode]>>
    /\ snapshots = [t \in {} |-> 0]
    /\ signals = <<>> /\ replays = <<>>

\* Fills need a sleeve that trades, and its row.
Trades == mode \in {"live_signal", "live_full"} /\ sleeve # NoSleeve

\* The strategy emits a signal, whose row refers to the sleeve's.
Emits ==
    /\ mode # "replay_only" /\ sleeve # NoSleeve /\ Len(signals) < MaxSignals
    /\ signals' = Append(signals, now)
    /\ UNCHANGED <<mode, sleeve, equity, snapshots, replays, upserts>>

\* Fills, redemptions and marks move the capital of a sleeve that trades.
Moves ==
    /\ mode \in {"live_signal", "live_full"}
    /\ equity' \in Equities
    /\ UNCHANGED <<mode, sleeve, snapshots, signals, replays, upserts>>

\* PnLSnapshotter._snapshot_once, a minute after the last; without the row of
\* the sleeve it fails and is logged.
Snapshot ==
    /\ stopping = "no" /\ sleeve # NoSleeve
    /\ now \notin DOMAIN snapshots /\ Cardinality(DOMAIN snapshots) < MaxSnapshots
    /\ snapshots' = [t \in DOMAIN snapshots \cup {now} |-> IF t = now THEN equity ELSE snapshots[t]]
    /\ UNCHANGED <<mode, sleeve, equity, signals, replays, upserts>>

\* A replay of the strategy and its configuration completes.
Replayed ==
    /\ Len(replays) < MaxReplays
    /\ \E r \in Replays : replays' = Append(replays, [ts |-> now] @@ r)
    /\ UNCHANGED <<mode, sleeve, equity, snapshots, signals, upserts>>

-----------------------------------------------------------------------------
Recent(ts) == ts > now - Month
LargestOf(S) == CHOOSE x \in S : \A y \in S : y <= x

\* Mistake: only the last point is held against the peak.
Drawdown_Last(curve) ==
    IF DOMAIN curve = {} THEN 0
    ELSE LargestOf({curve[t] : t \in DOMAIN curve}) - curve[LargestOf(DOMAIN curve)]

\* MAX(peak - value), peak being the running maximum of a curve over time.
Drawdown(curve) ==
    IF DOMAIN curve = {} THEN 0
    ELSE LargestOf({LargestOf({curve[u] : u \in {u \in DOMAIN curve : u <= t}}) - curve[t] : t \in DOMAIN curve})

\* The trades of all replays there ever were, summed up to the time of an exit.
ReplayCurve ==
    LET trades == UNION {{<<i, j>> : j \in DOMAIN replays[i].trades} : i \in DOMAIN replays}
        At(x) == replays[x[1]].trades[x[2]]
    IN  [t \in {At(x).exit : x \in trades} |->
            MapThenSumSet(LAMBDA x : At(x).pnl, {x \in trades : At(x).exit <= t})]

\* _check_replay_to_log; replays count for two months.
ReplayToLog ==
    /\ replays # <<>>
    /\ LET r == replays[Len(replays)] IN
          r.ts > now - 2 * Month /\ r.signals >= ReplaySignals /\ r.realized >= 0
    /\ 100 * Drawdown(ReplayCurve) <= ReplayDrawdown * Capital

\* _days_since_mode_change: nothing writes sleeve_mode_history, so it is the
\* age of the row.
DaysSinceModeChange == now - sleeve.started_at

\* The signals of a month, spread over all the days, are held against those of
\* the last replay, spread over a month.
RateMatches(live) ==
    LET predicted == IF replays = <<>> THEN 0 ELSE replays[Len(replays)].signals
        days == DaysSinceModeChange
        gap == Month * live - predicted * days
    IN  predicted > 0 /\ days > 0 =>
            100 * (IF gap >= 0 THEN gap ELSE -gap) <= RateTolerance * predicted * days

\* _check_log_to_signal
LogToSignal ==
    LET live == Cardinality({i \in DOMAIN signals : Recent(signals[i])}) IN
    DaysSinceModeChange >= LogDays /\ live >= LogSignals /\ RateMatches(live)

\* _check_signal_to_full
SignalToFull ==
    LET Count(P(_)) == Cardinality({i \in DOMAIN fills : Recent(fills[i].ts) /\ P(fills[i])})
        all == Count(LAMBDA f : TRUE)
    IN  /\ DaysSinceModeChange >= SignalDays
        /\ 100 * Count(LAMBDA f : f.flag = "implausible") <= MaxImplausible * all
        /\ all > 0 /\ 100 * Count(LAMBDA f : f.kind # "missed") >= MinFilled * all

\* _check_kill
DrawdownKill ==
    100 * Drawdown([t \in {t \in DOMAIN snapshots : Recent(t)} |-> snapshots[t]]) > FullDrawdown * Capital
RemainingKill ==
    DOMAIN snapshots # {} /\ 100 * snapshots[LargestOf(DOMAIN snapshots)] < FullRemaining * Capital
KillTriggered == DrawdownKill \/ RemainingKill

\* evaluate
Eligible ==
    /\ sleeve # NoSleeve
    /\ CASE sleeve.mode = "replay_only" -> ReplayToLog
         [] sleeve.mode = "live_log" -> LogToSignal
         [] sleeve.mode = "live_signal" -> SignalToFull
         [] sleeve.mode = "live_full" -> ~KillTriggered

-----------------------------------------------------------------------------
(* Properties *)

PromotionTypeOK ==
    /\ mode \in Modes
    /\ sleeve = NoSleeve \/ (sleeve \in SleeveRow /\ sleeve.started_at <= sleeve.last_mode_change_at)
    /\ equity \in Nat
    /\ DOMAIN snapshots \subseteq Times /\ \A t \in DOMAIN snapshots : snapshots[t] \in Nat
    /\ signals \in Seq(Times) /\ Len(replays) <= MaxReplays

\* The time of the last change of mode is that of the first of the boots that
\* have written the present mode, one after the other, however often the worker
\* was restarted and whatever boots failed to write (writers.py:39-43).
ChangeOfModeIsDated ==
    sleeve # NoSleeve =>
        \E i \in DOMAIN upserts :
            /\ upserts[i].ts = sleeve.last_mode_change_at
            /\ \A j \in DOMAIN upserts : j >= i => upserts[j].mode = sleeve.mode
            /\ i > 1 => upserts[i - 1].mode # sleeve.mode

\* A fall from the capital of one snapshot to that of a later one, beyond the limit.
Loss(t, u) == t <= u /\ 100 * (snapshots[t] - snapshots[u]) > FullDrawdown * Capital

\* A sleeve that has fallen too far stays killed until the snapshot it fell from
\* is a month old: no later gain, no later snapshot, no restart, which gives the
\* tracker its capital again, and no less time than that takes the kill back
\* (promotion_gates.py:352-363).  The bottom may be younger then: a window that
\* has moved past the peak sees no loss.
DrawdownKillStays ==
    [][\A t, u \in DOMAIN snapshots : Loss(t, u) /\ Recent(t)' => DrawdownKill']_<<now, snapshots, equity, sleeve>>

\* What _template/README.md:69-70 and writers.py:40-43 say: a sleeve is eligible
\* for the next step only when it has spent the days in its mode.
DaysAreServed ==
    Eligible =>
        /\ sleeve.mode = "live_log" => now - sleeve.last_mode_change_at >= LogDays
        /\ sleeve.mode = "live_signal" => now - sleeve.last_mode_change_at >= SignalDays
=============================================================================
