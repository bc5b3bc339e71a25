------------------------------- MODULE Runner -------------------------------
(***************************************************************************)
(* src/src/runner/main.py: the hot path.  One asyncio task per venue takes *)
(* an event at a time and drives the shared fill simulator, the shared     *)
(* position tracker and the database rows of orders, fills and positions.  *)
(* Tasks run on one thread, so an action is what a task does between two   *)
(* awaits, and any other task may run in between.  A write to the database *)
(* takes effect when the task that awaits it resumes, with the values it   *)
(* had when it was issued.                                                 *)
(*                                                                         *)
(* The book is not modelled here (FillSimulator does): whether an order    *)
(* crosses, how much a taker finds and how long the queue is are chosen    *)
(* freely.  So are the signals: a strategy may emit anything.  Trades,     *)
(* tags and signal rows are written and never read back by this path.      *)
(***************************************************************************)
EXTENDS PositionTracker, Sequences, SequencesExt

CONSTANTS
    Tasks,          \* the consumer tasks, one per enabled venue
    TapeTasks,      \* the tasks whose venue yields trade prints and book events
    MarketTasks,    \* the tasks whose venue yields resolutions
    Runners,        \* self.strategy_runners: the sleeves, in the order of dispatch
    Mode,           \* the mode of a sleeve
    MaxPositions,   \* max_concurrent_positions of every sleeve
    MaxExposure,    \* max_exposure_per_market_usd of every sleeve, 0 for none
    FillGas,        \* the gas of every fill
    PrintSizes,     \* the sizes of trade prints
    Queues,         \* the depths an order can find ahead of it
    NoPrice,        \* the price of a signal without a limit
    DbOutcomes,     \* whether a write succeeds: TRUE, FALSE or either
    MaxSignals,     \* bound: signals the strategies emit
    MaxRestarts     \* bound: crashes of the process

Modes == {"live_log", "live_signal", "live_full"}

ASSUME RunnerAssumption ==
    /\ IsFiniteSet(Tasks) /\ TapeTasks \subseteq Tasks /\ MarketTasks \subseteq Tasks
    /\ Runners \in Seq(Sleeves)
    /\ Mode \in [Sleeves -> Modes]
    /\ MaxPositions \in Nat \ {0} /\ MaxExposure \in Nat
    /\ FillGas \in Gases
    /\ PrintSizes \subseteq Nat /\ Queues \subseteq Nat
    /\ DbOutcomes \subseteq BOOLEAN
    /\ MaxSignals \in Nat /\ MaxRestarts \in Nat

Orders == 1 .. MaxSignals

VARIABLES
    order, resting, q_ahead, filled, missed, queue0, printed,   \* the simulator's makers
    placed,         \* the order of the keys of self._resting
    took,           \* took[o]: what the simulator filled of o as a taker
    sent,           \* sent[o]: the signal behind order o, in the order of emission
    row,            \* the paper_orders row of o and the paper_fills rows summed
    mirror,         \* the size in the paper_positions row of a key, 0 without a row
    settled,        \* history: the net inventory that resolutions have paid out
    forgot,         \* history: what of o was filled when the process last died
    task,           \* where each task is, and its local variables
    restarts,       \* crashes so far
    unwritten,      \* history: the size of o's fills whose row failed or was cut off
    stale,          \* history: the orders whose status failed, and not again since
    cleared         \* history: the orders of s under way when it was last below its cap

simVars == <<order, resting, q_ahead, filled, missed, queue0, printed, placed, took>>
dbVars == <<row, mirror>>
history == <<settled, forgot>>
rowHistory == <<unwritten, stale>>
runnerVars == <<vars, simVars, dbVars, sent, history, task, restarts, rowHistory, cleared>>

Sim == INSTANCE RestingMaker WITH Ticks <- Prices, OrderSizes <- Sizes

-----------------------------------------------------------------------------
(* Signals, fills and tasks *)

Signal == [sleeve : {s \in Sleeves : \E i \in DOMAIN Runners : Runners[i] = s},
           asset : Assets, side : Sides, limit : Prices \cup {NoPrice}, size : Sizes]
NoSignal == [sleeve |-> "none"]
NoRow == [status |-> "none", done |-> 0]

KeyOf(o, side) == <<sent[o].sleeve, sent[o].asset, side>>

Fill(o, size, price, kind) == [order |-> o, size |-> size, price |-> price, kind |-> kind]

\* Where a task awaits: the next event, a strategy, or a write it has issued.
Steps == {"idle", "strategies", "signal row", "order row", "refresh",
          "fill row", "order status", "buy row", "sell row"}

\* turn: the strategy runner being served; cur: the order of its signal;
\* fills: the fills still to handle; direct: whether submit returned them, so
\* that _handle_fill was given the runner; write: the size a position row is
\* about to get; sell: the Position object found for the sell row, or none.
NoObject == [size |-> 0, live |-> FALSE]
Idle == [at |-> "idle", turn |-> 1, cur |-> 0, fills |-> <<>>, direct |-> FALSE,
         write |-> 0, sell |-> NoObject]

Goto(t, new) == task' = [task EXCEPT ![t] = new]
At(t, step) == task[t].at = step

\* Mistake: only the first fill of an event is handled.
NextFill_Only(t) == [task[t] EXCEPT !.fills = <<>>, !.at = "strategies"]
NextFill(t) ==
    LET rest == Tail(task[t].fills) IN
    [task[t] EXCEPT !.fills = rest,
                    !.at = IF rest = <<>> THEN "strategies" ELSE "fill row"]

OpenKeys(s) == {k \in Keys : k[1] = s /\ Open(k)}

\* The fills a task holds that have not reached the tracker.
Untracked(t) ==
    IF At(t, "buy row") \/ At(t, "sell row") THEN Tail(task[t].fills) ELSE task[t].fills
Carries(t, o) == \E i \in DOMAIN Untracked(t) : Untracked(t)[i].order = o

\* The orders of s that have passed the risk caps and may still get a fill.
Outstanding(s) ==
    {o \in Orders :
        /\ sent[o] # NoSignal /\ sent[o].sleeve = s
        /\ \/ o \in resting
           \/ \E t \in Tasks : \/ task[t].at \in {"order row", "refresh"} /\ task[t].cur = o
                              \/ Carries(t, o)}
BelowCap(s) == Cardinality(OpenKeys(s)) < MaxPositions

-----------------------------------------------------------------------------
RunnerInit ==
    /\ Init
    /\ Sim!MakerInit
    /\ placed = <<>>
    /\ took = [o \in Orders |-> 0]
    /\ sent = [o \in Orders |-> NoSignal]
    /\ row = [o \in Orders |-> NoRow]
    /\ mirror = [k \in Keys |-> 0]
    /\ settled = [s \in Sleeves |-> [a \in Assets |-> 0]]
    /\ forgot = [o \in Orders |-> 0]
    /\ task = [t \in Tasks |-> Idle]
    /\ restarts = 0
    /\ unwritten = [o \in Orders |-> 0] /\ stale = {}
    /\ cleared = [s \in Sleeves |-> {}]

-----------------------------------------------------------------------------
(* _on_event: the fill simulator sees the event before the strategies do. *)

\* The simulator's answer is in the order of its dict, the one of placement.
Before(o, p) == \E i, j \in DOMAIN placed : i < j /\ placed[i] = o /\ placed[j] = p
InDictOrder(set) ==
    {h \in [1 .. Cardinality(set) -> set] : \A i, j \in DOMAIN h : i < j => Before(h[i], h[j])}

Ticked(t, fills) ==
    Goto(t, [Idle EXCEPT !.fills = fills,
                         !.at = IF fills = <<>> THEN "strategies" ELSE "fill row"])

TradePrint(t, a, price, size) ==
    /\ t \in TapeTasks /\ At(t, "idle")
    /\ Sim!TradePrint(a, price, size)
    /\ \E hit \in InDictOrder({o \in Range(placed) : filled'[o] > filled[o]}) :
          Ticked(t, [i \in DOMAIN hit |-> Fill(hit[i], filled'[hit[i]] - filled[hit[i]],
                                               order[hit[i]].price, "maker")])
    /\ UNCHANGED <<vars, dbVars, placed, took, sent, history, restarts, rowHistory>>

\* A book event of an asset: some of its orders have been walked away from.
BookMoved(t, a, away) ==
    /\ t \in TapeTasks /\ At(t, "idle")
    /\ \A o \in away : order[o].asset = a
    /\ Sim!BookMoved(away)
    /\ \E gone \in InDictOrder(Range(placed) \cap away) :
          Ticked(t, [i \in DOMAIN gone |-> Fill(gone[i], 0, order[gone[i]].price, "missed")])
    /\ UNCHANGED <<vars, dbVars, placed, took, sent, history, restarts, rowHistory>>

\* Any event the simulator ignores: the strategies are asked at once.
OtherEvent(t) ==
    /\ At(t, "idle")
    /\ Ticked(t, <<>>)
    /\ UNCHANGED <<vars, simVars, dbVars, sent, history, restarts, rowHistory>>

\* _handle_resolution: positions are settled before the first await; the
\* simulator, the orders and the position rows are left as they are.
MarketResolved(t, m, winner) ==
    /\ t \in MarketTasks /\ At(t, "idle")
    /\ winnerOf[m] = NotResolved
    /\ RedeemMarket(m, winner)
    /\ settled' = [s \in Sleeves |-> [a \in Assets |->
                      IF MarketOf[a] = m THEN settled[s][a] + NetOf(s, a)
                                         ELSE settled[s][a]]]
    /\ task' = [u \in Tasks |->
          IF task[u].fills # <<>> /\ MarketOf[sent[Head(task[u].fills).order].asset] = m
          THEN [task[u] EXCEPT !.sell.live = FALSE] ELSE task[u]]
    /\ UNCHANGED <<simVars, dbVars, sent, forgot, restarts, rowHistory>>

-----------------------------------------------------------------------------
(* The strategies and _handle_signal *)

\* runner.on_event returned a signal: its row is being inserted.
Emit(t, o, sig) ==
    /\ At(t, "strategies")
    /\ sent[o] = NoSignal /\ \A p \in 1 .. o - 1 : sent[p] # NoSignal
    /\ \E i \in task[t].turn .. Len(Runners) :
          /\ Runners[i] = sig.sleeve
          /\ Goto(t, [task[t] EXCEPT !.at = "signal row", !.turn = i, !.cur = o])
    /\ sent' = [sent EXCEPT ![o] = sig]
    /\ UNCHANGED <<vars, simVars, dbVars, history, restarts, rowHistory>>

\* No runner has a signal left: the task waits for its next event.
Dispatched(t) ==
    /\ At(t, "strategies")
    /\ Goto(t, Idle)
    /\ UNCHANGED <<vars, simVars, dbVars, sent, history, restarts, rowHistory>>

\* _signal_within_risk_caps; a signal without a limit has no notional.
Exposure(s, m) ==
    SumFunction([k \in {k \in OpenKeys(s) : MarketOf[k[2]] = m} |-> positions[k].cost])
Notional(sig) == IF sig.limit = NoPrice THEN 0 ELSE sig.limit * sig.size

\* Mistake: the cap on concurrent positions is not checked.
WithinRiskCaps_NoCount(sig) ==
    MaxExposure > 0 =>
        Exposure(sig.sleeve, MarketOf[sig.asset]) + Notional(sig) <= MaxExposure
WithinRiskCaps(sig) ==
    /\ BelowCap(sig.sleeve)
    /\ MaxExposure > 0 =>
          Exposure(sig.sleeve, MarketOf[sig.asset]) + Notional(sig) <= MaxExposure

\* The signal row is in: the signal is dropped (mode, caps, no book), or its order is sent off (the
\* latency is slept and the order row inserted) after the caps were checked.
SignalRow(t) ==
    /\ At(t, "signal row")
    /\ \/ Goto(t, [task[t] EXCEPT !.at = "strategies"])
       \/ /\ Mode[sent[task[t].cur].sleeve] # "live_log"
          /\ WithinRiskCaps(sent[task[t].cur])
          /\ Goto(t, [task[t] EXCEPT !.at = "order row"])
    /\ UNCHANGED <<vars, simVars, dbVars, sent, history, restarts, rowHistory>>

\* fill_simulator.submit: a taker fill, nothing, or a resting order.
Take(t, o) ==
    /\ \E size \in 1 .. sent[o].size, price \in Prices :
          /\ sent[o].limit # NoPrice =>
                IF sent[o].side = "buy" THEN price <= sent[o].limit
                                        ELSE price >= sent[o].limit
          /\ took' = [took EXCEPT ![o] = size]
          /\ Goto(t, [task[t] EXCEPT !.at = "fill row", !.direct = TRUE,
                                     !.fills = <<Fill(o, size, price, "taker")>>])
    /\ UNCHANGED <<order, resting, q_ahead, filled, missed, queue0, printed, placed>>

FindNothing(t, o) ==
    /\ sent[o].limit = NoPrice
    /\ Goto(t, [task[t] EXCEPT !.at = "strategies"])
    /\ UNCHANGED simVars

\* Mistake: a resting order is registered and no print is ever matched with it.
Rest_Unlisted(t, o) ==
    /\ sent[o].limit # NoPrice
    /\ \E depth \in Queues :
          Sim!Register(o, [asset |-> sent[o].asset, side |-> sent[o].side,
                           price |-> sent[o].limit, size |-> sent[o].size], depth)
    /\ Goto(t, [task[t] EXCEPT !.at = "strategies"])
    /\ UNCHANGED <<placed, took>>

Rest(t, o) ==
    /\ sent[o].limit # NoPrice
    /\ \E depth \in Queues :
          Sim!Register(o, [asset |-> sent[o].asset, side |-> sent[o].side,
                           price |-> sent[o].limit, size |-> sent[o].size], depth)
    /\ placed' = Append(placed, o)
    /\ Goto(t, [task[t] EXCEPT !.at = "strategies"])
    /\ UNCHANGED took

Submit(t, o) == Take(t, o) \/ FindNothing(t, o) \/ Rest(t, o)

\* The order row is in, or lost; a live_full sleeve may first refresh a stale book.
OrderRow(t) ==
    LET o == task[t].cur IN
    /\ At(t, "order row")
    /\ \E ok \in DbOutcomes :
          row' = IF ok THEN [row EXCEPT ![o].status = "open"] ELSE row
    /\ \/ Submit(t, o)
       \/ /\ Mode[sent[o].sleeve] = "live_full"
          /\ Goto(t, [task[t] EXCEPT !.at = "refresh"])
          /\ UNCHANGED simVars
    /\ UNCHANGED <<vars, mirror, sent, history, restarts, rowHistory>>

Refreshed(t) ==
    /\ At(t, "refresh")
    /\ Submit(t, task[t].cur)
    /\ UNCHANGED <<vars, dbVars, sent, history, restarts, rowHistory>>

-----------------------------------------------------------------------------
(* _handle_fill: whatever becomes of the rows, the tracker gets the fill. *)

\* A Position object is changed in place by the fills of its key.
Follow(held, k) ==
    IF held.live THEN [size |-> positions'[k].size, live |-> positions'[k].size > 0] ELSE held

\* on_fill, and the first position row is on its way.
Track(t, f) ==
    LET buy == KeyOf(f.order, "buy")
        sell == KeyOf(f.order, "sell")
        sig == sent[f.order]
    IN  /\ IF f.size = 0 THEN UNCHANGED vars
           ELSE OnFill(sig.sleeve, sig.asset, sig.side, f.size, f.price, FillGas)
        /\ task' = [u \in Tasks |->
              IF u = t
              THEN [task[t] EXCEPT !.at = "buy row", !.write = positions'[buy].size,
                                   !.sell = [size |-> positions'[sell].size, live |-> positions'[sell].size > 0]]
              ELSE IF task[u].sell.live
              THEN [task[u] EXCEPT !.sell =
                       Follow(@, KeyOf(Head(task[u].fills).order, "sell"))]
              ELSE task[u]]

\* A live_signal sleeve stops here, if _handle_fill was given its runner.
SkipsTracker(t) == task[t].direct /\ Mode[sent[task[t].cur].sleeve] = "live_signal"

Inserted(t) ==
    IF SkipsTracker(t) THEN Goto(t, NextFill(t)) /\ UNCHANGED vars
                       ELSE Track(t, Head(task[t].fills))

\* insert_fill, first statement: the fill row, which needs its order's row.
FillRow(t) ==
    LET f == Head(task[t].fills) IN
    /\ At(t, "fill row")
    /\ \E ok \in DbOutcomes :
          IF ok /\ row[f.order].status # "none"
          THEN /\ row' = [row EXCEPT ![f.order].done = @ + f.size]
               /\ Goto(t, [task[t] EXCEPT !.at = "order status"])
               /\ UNCHANGED <<vars, rowHistory>>
          ELSE /\ UNCHANGED row /\ Inserted(t)
               /\ unwritten' = [unwritten EXCEPT ![f.order] = @ + f.size]
               /\ stale' = IF f.kind = "missed" THEN stale \cup {f.order} ELSE stale
    /\ UNCHANGED <<simVars, mirror, sent, history, restarts>>

\* insert_fill, second statement: the status that the fill rows add up to.
StatusOf(o, done) ==
    IF done >= sent[o].size THEN "filled" ELSE IF done > 0 THEN "partially_filled" ELSE "open"

\* Mistake (before Audit Med-6): any fill makes the order filled.
NewStatus_Filled(f) ==
    IF f.kind # "missed" THEN "filled"
    ELSE IF row[f.order].status = "open" THEN "cancelled" ELSE row[f.order].status
NewStatus(f) ==
    IF f.kind # "missed" THEN StatusOf(f.order, row[f.order].done)
    ELSE IF row[f.order].status = "open" THEN "cancelled" ELSE row[f.order].status

OrderStatus(t) ==
    LET f == Head(task[t].fills) IN
    /\ At(t, "order status")
    /\ \E ok \in DbOutcomes :
          IF ok
          THEN /\ row' = [row EXCEPT ![f.order].status = NewStatus(f)]
               /\ stale' = IF f.kind = "missed" THEN stale ELSE stale \ {f.order}
          ELSE UNCHANGED row /\ stale' = stale \cup {f.order}
    /\ Inserted(t)
    /\ UNCHANGED <<simVars, mirror, sent, history, restarts, unwritten>>

\* upsert_position of the fill's key on `side`, with the size issued before.
PositionRow(t, side) ==
    \E ok \in DbOutcomes :
        mirror' = IF ok
                  THEN [mirror EXCEPT ![KeyOf(Head(task[t].fills).order, side)] = task[t].write]
                  ELSE mirror

\* _persist_positions_for: the buy row, then the sell row of the Position
\* object that was looked up before the buy row was written.
BuyRow(t) ==
    /\ At(t, "buy row")
    /\ PositionRow(t, "buy")
    /\ Goto(t, [task[t] EXCEPT !.at = "sell row", !.write = task[t].sell.size,
                               !.sell = NoObject])
    /\ UNCHANGED <<vars, simVars, row, sent, history, restarts, rowHistory>>

SellRow(t) ==
    /\ At(t, "sell row")
    /\ PositionRow(t, "sell")
    /\ Goto(t, [NextFill(t) EXCEPT !.write = 0])
    /\ UNCHANGED <<vars, simVars, row, sent, history, restarts, rowHistory>>

-----------------------------------------------------------------------------
SizeIn(fills, o) ==
    SumFunction([i \in DOMAIN fills |-> IF fills[i].order = o THEN fills[i].size ELSE 0])

\* What a crash would cut off before it is in a row.
Unwritten(t) ==
    IF At(t, "fill row") \/ task[t].fills = <<>> THEN task[t].fills ELSE Tail(task[t].fills)
Unbooked(o) == SumFunction([t \in Tasks |-> SizeIn(Unwritten(t), o)])

\* The process dies and boots again: what was in memory is gone, rows stay.
Restart ==
    /\ restarts < MaxRestarts
    /\ restarts' = restarts + 1
    /\ unwritten' = [o \in Orders |-> unwritten[o] + Unbooked(o)]
    /\ stale' = stale \cup {o \in Orders : \E t \in Tasks : Carries(t, o)}
    /\ positions' = [k \in Keys |-> NoPosition]
    /\ booked' = [s \in Sleeves |-> [a \in Assets |-> 0]]
    /\ gasPaid' = [s \in Sleeves |-> 0]
    /\ settled' = [s \in Sleeves |-> [a \in Assets |-> 0]]
    /\ forgot' = [o \in Orders |-> filled[o] + took[o]]
    /\ resting' = {} /\ placed' = <<>>
    /\ task' = [t \in Tasks |-> Idle]
    /\ UNCHANGED <<winnerOf, order, q_ahead, filled, missed, queue0, printed, took, dbVars, sent>>

-----------------------------------------------------------------------------
Step(t) ==
    \/ \E o \in Orders, sig \in Signal : Emit(t, o, sig)
    \/ Dispatched(t)
    \/ SignalRow(t)
    \/ OrderRow(t)
    \/ Refreshed(t)
    \/ FillRow(t)
    \/ OrderStatus(t)
    \/ BuyRow(t)
    \/ SellRow(t)

Event(t) ==
    \/ \E a \in Assets, price \in Prices, size \in PrintSizes : TradePrint(t, a, price, size)
    \/ \E a \in Assets, away \in SUBSET resting : BookMoved(t, a, away)
    \/ OtherEvent(t)
    \/ \E m \in Markets : \E winner \in Winners(m) : MarketResolved(t, m, winner)

\* History: what is under way when s is below its cap.
Remember ==
    cleared' = [s \in Sleeves |-> IF BelowCap(s)' THEN Outstanding(s)' ELSE cleared[s]]

RunnerStep == (\E t \in Tasks : Event(t) \/ Step(t)) \/ Restart

RunnerNext == RunnerStep /\ Remember

RunnerSpec == RunnerInit /\ [][RunnerNext]_runnerVars

-----------------------------------------------------------------------------
(* Properties *)

FillRecord == [order : Orders, size : Nat, price : Prices,
               kind : {"taker", "maker", "missed"}]

RunnerTypeOK ==
    /\ TypeOK
    /\ Sim!MakerTypeOK
    /\ placed \in Seq(Orders) /\ resting \subseteq Range(placed)
    /\ took \in [Orders -> Nat]
    /\ sent \in [Orders -> Signal \cup {NoSignal}]
    /\ row \in [Orders -> [status : {"none", "open", "partially_filled", "filled", "cancelled"},
                           done : Nat]]
    /\ mirror \in [Keys -> Nat]
    /\ settled \in [Sleeves -> [Assets -> Int]] /\ forgot \in [Orders -> Nat]
    /\ task \in [Tasks -> [at : Steps, turn : Nat, cur : Orders \cup {0},
                           fills : Seq(FillRecord), direct : BOOLEAN, write : Nat,
                           sell : [size : Nat, live : BOOLEAN]]]
    /\ restarts \in 0 .. MaxRestarts
    /\ unwritten \in [Orders -> Nat] /\ stale \subseteq Orders
    /\ cleared \in [Sleeves -> SUBSET Orders]

\* What the simulator has filled of o, and what of it no task has tracked yet.
SimFilled(o) == filled[o] + took[o]

Pending(o) == SumFunction([t \in Tasks |-> SizeIn(Untracked(t), o)])

\* The inventory that order o has brought sleeve s in a since the last boot.
Brought(o, s, a) ==
    IF sent[o] # NoSignal /\ sent[o].sleeve = s /\ sent[o].asset = a
    THEN Signed(sent[o].side, SimFilled(o) - forgot[o] - Pending(o)) ELSE 0

\* However the tasks interleave, whatever resolves meanwhile and whichever
\* writes fail, a live_full sleeve holds or has been paid out exactly what the
\* simulator has filled for it since the process booted, less the fills a task
\* is still carrying: no fill is lost between simulator and tracker, and none
\* is applied twice.
FillsReachTracker ==
    \A s \in {z \in Sleeves : Mode[z] = "live_full"}, a \in Assets :
        NetOf(s, a) + settled[s][a] = SumFunction([o \in Orders |-> Brought(o, s, a)])

\* The rows never claim more than happened, through failed writes and crashes
\* between the two statements of insert_fill: the fill rows of an order are
\* fills the simulator made, and its status is backed by its fill rows.
RowsBackedByFills ==
    \A o \in Orders :
        /\ row[o].done <= SimFilled(o)
        /\ row[o].status = "filled" => row[o].done >= sent[o].size
        /\ row[o].status = "partially_filled" => row[o].done > 0
        /\ row[o].status = "none" => row[o].done = 0

Carried(o) == \E t \in Tasks : Carries(t, o)

\* A failed write or a crash costs an order what it was about to write and no
\* more, and a later fill puts its status right again (Audit Med-6, docstring of
\* insert_fill).  Of every order whose fills have all been handled, the fill
\* rows add up to what the simulator filled, but for the fills whose own row
\* failed; and unless its last status failed, its status is the one its fill
\* rows add up to, or "cancelled" if it was missed.  Which of the two an order
\* has that was filled in part and then missed is left open: writers.py:165
\* says cancelled, and the update of a missed fill passes such a row over.
RowsCatchUp ==
    \A o \in Orders : ~Carried(o) =>
        /\ row[o].done + unwritten[o] = SimFilled(o)
        /\ row[o].status # "none" /\ o \notin stale =>
              IF o \notin missed THEN row[o].status = StatusOf(o, row[o].done)
              ELSE \/ row[o].status = "cancelled"
                   \/ row[o].done > 0 /\ row[o].status = StatusOf(o, row[o].done)

\* The risk caps are checked before latency and resting, so they can be
\* overrun, but by no more than the orders of the sleeve that were in flight or
\* resting, or had fills on their way, when it was last below its cap: from
\* then on every signal is refused until a position closes.
OverrunIsBounded ==
    \A s \in Sleeves :
        Cardinality(OpenKeys(s)) <= MaxPositions - 1 + Cardinality(cleared[s])

-----------------------------------------------------------------------------
(* What the documentation says where the code disagrees. *)

AllIdle == \A t \in Tasks : At(t, "idle")

\* "close all open positions on this market" (main.py:300).
ResolvedMarketsAreFlat ==
    AllIdle => \A k \in Keys : Open(k) => winnerOf[MarketOf[k[2]]] = NotResolved

\* paper_positions mirrors the tracker "so the API endpoint and dashboard
\* accurately reflect open positions" (main.py:476-478).
MirrorIsAccurate ==
    AllIdle => \A k \in Keys :
        winnerOf[MarketOf[k[2]]] = NotResolved => mirror[k] = positions[k].size
=============================================================================
