# A TLA+ model of the Master Oracle paper-trading worker

The repository runs trading strategies against live and recorded Polymarket data
without sending an order: a worker (`src/runner/main.py`) reads the venues, lets
strategies emit signals, simulates their fills, keeps positions and writes
everything to Postgres; an API process replays strategies over the recorded tape.
This directory holds TLA+ modules of both, TLC configurations that check them, and
TLAPS proofs. Paths below are relative to the repository's `src/`; `PROJECT.json`
gives the source lines of every definition.

To run: `tlc -config MCRunner.cfg MCRunner.tla` (and likewise the other pairs),
`tlapm PositionTrackerProofs.tla` (and the other `*Proofs.tla`).

## 1. Inventory

### The worker process: one asyncio loop, one task per venue

| Component | State it keeps | Operations | Must be true |
|---|---|---|---|
| Order book store `venues/_orderbook_store.py` | a book per (market, asset) | `apply_snapshot`, `apply_delta`, `get` | a drained feed leaves the venue's book |
| Reconnecting websocket `venues/_ws_helper.py` | the socket, backoff, stop event | `stream`, `stop`, `cycle` (no caller) | it reconnects and subscribes again until it is stopped |
| CLOB adapter `venues/polymarket_clob.py` | subscription list, REST client | `stream_events`, `fetch_book_rest`, `stop` | every message is applied in order; all assets are subscribed |
| Market discovery `venues/polymarket_markets.py` | known markets, last resolution state | prefill, poll, emit `MARKET_META`, `MARKET_RESOLVED` | strategies learn of the markets they trade; a resolution is handled once |
| Activity poller `venues/polymarket_activity.py` | bounded set of seen ids | poll, dedupe | a trade is copied once |
| Other venues (`binance_perp`, `deribit`, `kalshi`, `news_rss`, `reddit`) | cursors, seen sets | emit events | - |
| Runner `runner/main.py` | counters, tasks; shares everything below between its tasks | `_on_event`: tick, resolution, strategies, risk caps, latency, REST refresh, submit, fills, rows | a fill reaches the tracker once; rows tell what happened |
| Strategies `strategies/*/strategy.py`, `_lib` | per sleeve a `state` dict: books, metadata, prints, active set, cooldowns | `on_event` returns signals; `clear_for_market` | caps and cooldowns hold; no second entry while one is on |
| Fill simulator `execution/event_replay.py`, `_resting.py` | resting orders: queue ahead, filled, walk-away mark | `submit`, `on_event`, `cancel` | a maker fills only what passes its queue; a taker gets what the book holds; a gone order stays gone |
| Calibrated simulator `execution/calibrated.py` | two counters | delegates to the above | - |
| Position tracker `execution/position_tracker.py` | positions, realized P&L, gas | `on_fill`, `redeem_market`, `pnl` | money and inventory are conserved |
| Event writer `db/event_writer.py` | bounded ring, counters | `submit`, flush loop, `stop` | every event is in the ring, the tape, or known to be dropped or lost with its batch; the tape is in order |
| Aggregator `runner/aggregator.py`, Retention `runner/retention.py` | a timer, a run counter | minute and daily upserts; deletions | bars hold all prints that came in time and never lose one again |
| Fill validator `execution/validation.py` | a timer | two passes over `paper_fills` | a verdict is what the prints say, and final |
| PnL snapshotter `execution/pnl_snapshotter.py` | a timer | one row per sleeve and minute | - |
| Promotion gates `runner/promotion_gates.py` | none (reads rows) | `evaluate` | a sleeve is promoted on true evidence; a kill stays |
| Row writers `db/writers.py`, `schema.sql` | the tables | upserts and inserts | rows agree with each other |

### The API process

| Component | State | Operations | Must be true |
|---|---|---|---|
| Replay queue `runner/replay_queue.py` | jobs, deque, wake-up event, worker task | `submit`, `start`, `stop`, worker loop | one job at a time, in order, none slept through |
| Replay engine `runner/replay_engine.py` | own store, simulator, tracker; heap of orders in flight | `run`, `_stream_events` | the tape comes once, in order; an order meets the book of its arrival |
| API, analytics, dashboard | none | queries | - |

### How the parts interact, and what is hard

* The consumer tasks share the simulator, the tracker, the store and the caps, and
  suspend at every database write, REST call and latency sleep. What one task has
  checked or looked up may be stale when it goes on.
* A fill passes simulator, tracker, `paper_fills`, `paper_orders`, `paper_positions`;
  each database step can fail alone and is swallowed (`except Exception` with a log),
  `insert_fill` is two autocommitted statements, and the process may die anywhere.
* A resolution arrives from another task than the prints and the book, and so does
  everything discovery has to say about a market whose books are already coming.
* The event writer decouples tasks from the database with a bounded ring whose oldest
  end is both flushed and overwritten. Aggregator, validator and retention read and
  trim its table on timers of their own; the replay engine reads it with keyset pages.
* The venues' seen sets are trimmed in no order, trades come out of time order, and a
  restart forgets seen sets, active sets and cooldowns while the page stays.
* The row of a sleeve, its fills, signals, snapshots and replays outlive the process
  and are what promotion is decided on; every boot writes the row again.
* The feed loses messages with every connection; REST answers race with deltas.
* The replay queue's worker sleeps on an event that is set and cleared by two parties.

## 2. Modules

| Module | Models | Composes |
|---|---|---|
| `Ledger` | abstract: what inventory and cash a fill or redemption moves | |
| `PositionTracker` | `position_tracker.py` | refines `Ledger` |
| `RestingMaker` | `_resting.py` and the resting side of `event_replay.py` | |
| `FillSimulator` | `event_replay.py` with one `OrderBook` | extends `RestingMaker` |
| `Runner` | the hot path of `main.py`, the order, fill and position writers | extends `PositionTracker`, instantiates `RestingMaker` |
| `EventWriter` | `event_writer.py` | |
| `Tape` | what is in the rows it writes, and when they were written | extends `EventWriter` |
| `FillValidator` | `validation.py` | extends `Tape` |
| `PromotionGates` | `promotion_gates.py`, `upsert_sleeve`, `pnl_snapshotter.py` | extends `FillValidator`, whose flags it counts |
| `Aggregator` | `aggregator.py`, `retention.py` | extends `Tape` |
| `PeriodicJobs` | the worker beside its hot path, its stops and boots | extends `Aggregator` and `PromotionGates` |
| `MarketAssets` | the assets of a market | |
| `Strategies` | the nine strategies and `_lib` | extends `MarketAssets` |
| `Discovery` | `polymarket_markets.py`, `Runner._init_venues` | extends `MarketAssets` |
| `Poller` | `polymarket_activity.py`, `news_rss.py`, `reddit.py` | |
| `StrategyFeed` | a sleeve's strategy with what feeds it, live or in a replay | extends `Strategies`, `Discovery`, `Poller` |
| `TapeReader` | `_stream_events`, the inserts and deletions it runs against | |
| `ReplayEngine` | `ReplayEngine.run` | extends `TapeReader` |
| `ReplayQueue` | `replay_queue.py`, the header row of a run | |
| `BookFeed` | `_ws_helper.py`, `polymarket_clob.py`, `_orderbook_store.py` | |
| `*Proofs` | theorems about the module they are named after; `StrategyProofs` about `StrategyFeed` | |
| `MC*` | values for TLC | |

Definitions named `X_Something` beside a definition `X` are plausible mistakes in `X`
(a dropped guard, a missing reset). No specification uses them; replacing `X` by one
of them must break the property `PROJECT.json` pairs it with, which is how each
property is shown to depend on the code.

**PositionTracker.** `positions`, `realized`, gas and cash per sleeve are the fields
of the class; `OnFill` and `Redeem` are the two operations that change state, with
`CloseAgainst`, `Remainder` and `Leftover` for the three ways a fill meets the other
side. Sizes, prices and gas are integers (ticks, cents) where the code uses `Decimal`. An
average entry is kept as a cost, so products are exact in both; the part of a cost or a gas
that belongs to a part of a position (`Share`) is rounded down to a tick, and what it
leaves out stays with the rest of the position.
`Ledger` is a plain account: a fill moves shares against money at its price and pays its
gas once, a resolution turns a share of the winner into a dollar for whoever holds it and
takes a dollar from whoever is short of it. The refinement maps a position to its signed
inventory. In two cases the code is not such an account, and `KeepsTheLedger` leaves the
cash of the one account concerned open there: the gas of a fill that reverses a position, and what
redemption takes from a short. What the repository says of these two cases is in
section 6.

**RestingMaker, FillSimulator.** A maker order keeps `q_ahead`, `filled`, `missed`;
`queue0` and `printed` are histories that say what the order should have got. A taker
walks the ladder (`Take`), the better level first (`Better`, the order both lists of
a book are sorted in); `BestExecution` compares it with every other choice of levels.

**Runner.** An action is what a task does between two awaits. A database write lands
when the task that awaits it resumes, with the values it had when issued, so that any
other task can run in between, and may fail (`DbOutcomes`). `Crash` loses memory and
keeps rows. Signals, crossing and queue depths are chosen freely: the book belongs to
`FillSimulator`. A market order is priceless here; the only strategy that sends
one is `_synthetic`. Sides are free too: `whale_copy_eod` and `maker_passive` sell.
Trades, tags and signal rows are written and never read back by
this path and are left out. The model keeps a few histories. `settled` and `forgot` are the
inventory that resolutions have paid out and what of each order was filled when the process
last died; they let the tracker be compared with the simulator across restarts.
`unwritten` is the size of the fills of an order whose own row failed or was cut off by
a crash, `stale` the orders whose latest status did not get through, and `cleared` the orders
of a sleeve that were under way when it was last below its cap on positions. As in
`PeriodicJobs`, a behaviour that TLC checks starts by choosing a plan (`MCRunner`).

**EventWriter, Tape.** `Submit` from the tasks, `Flush` takes a batch, `Flushed` ends
it, in the table or lost, `FinalFlush` is the one flush of `stop()`, `Die` the end of
the process. An event is its number; `Tape` gives the numbers that are prints a time
and a price, and remembers when a row was written, which decides what a job that runs
once has seen.

**Aggregator.** A bar is the set of the prints it sums up: what an upsert computes is a
function of it. `RunMinute`, `RunDaily` and `RunFails` are the iterations of the loop;
the timer counts from the end of a run, so that it drifts against the minutes.

**FillValidator.** `Validate` and `CheckAdverse` are a row of one pass and of the
other; rows come in no order, and the passes may interleave as their awaits allow.

**PromotionGates.** The rows that a decision reads are variables; `Eligible` and
`KillTriggered` are the decision, which changes nothing. A promotion is an edit of the
configuration that the next boot reads (`Boots`), and `UpsertSleeve` may fail.

**PeriodicJobs.** A behaviour starts by choosing a plan: the jobs that run, the events
that come, whether the worker is stopped, and how often it dies and boots again.
The plans split one large state space into the combinations that interact; a job that
is off is one whose `start` failed (`_start_periodic_jobs`).

**Strategies, StrategyFeed.** A strategy is what it enters into its active set on an
event, given the books it has rebuilt, its metadata, prints and cooldowns. Sizes,
limits and reasons of signals are left out. `StrategyFeed` adds where events come
from: the tape, in order and with metadata; or the subscribed assets, discovery and
the polling venues. One `MARKET_META` per asset is one step. `Restart` forgets what a
process keeps in memory and leaves the venues as they are.

**Discovery, Poller.** `Boots` is the prefill with its fallback to nothing; `Item`
handles a market of a page, and `Resolved` is the end of a handler that awaits the
database. Page order is open. A trim of a seen set keeps any half of it, since
`list(set)` has no order. An item of `polymarket_activity` that cannot be read raises inside its
`try` and costs the rest of the page (`Raise`). The loops of `news_rss` and `reddit` have no such
`try`: an item that raises there ends the venue's task. From then on the venue says
nothing more, which every run allows; that the item is marked and never emitted is
not seen by anybody and is not modelled.

**TapeReader, ReplayEngine.** Rows are `(ts, id)` pairs that appear and expire while a
run reads. Ids grow with insertion, so they are unique, and time stamps may come out of
order. An event is handled in the steps of the loop's body: `Drain` submits one order that
is due, `Apply` brings the event to its book, `Tick` and `Signal` are what the simulator and the
strategy make of it; `LastDrain` empties the heap at the end. All orders of a run wait
equally long, so the heap is a sequence that is pushed at its end and popped at its front.
What is kept of its array is that it compares entries, and that equal arrival times raise:
which entries are compared is left open, but the first has been compared with every other.
An order fills in parts: a submission and every print that reaches a resting order take
any part of what is left. `net` is the tracker's position in a token, long or short; a fill
against it closes as much of it and is a trade, which `trades` counts and `rows` shows once it
is written; a write may fail, which the code swallows, and the trades of resting orders are
not written at all (section 6), so no property relates the two.

**ReplayQueue.** `Submit`, `Stop`, `Start`, `Reboot`, and one action per suspension of
`_loop` and of the engine's statements: `Header` inserts the row, `Close` completes it while the job
still runs, `Complete` is the engine's return. `row` is the status in `replay_runs`, `status`
the job in memory; either statement may fail (`unsaved`), and what was in memory
at a crash is `forgotten`.

**BookFeed.** A book is the set of its non-empty levels. The venue, the network and the
REST endpoint are external actions (`Change`, `Disconnect`, `ServeRest`); the venue
answers a subscription with snapshots, which `polymarket_clob.py` relies on
(`resubscribe`'s docstring). What was received before a connection ended may still be
read, the rest is lost. `drift` is a history: the levels that changed at the venue
between the read of a REST answer and its use. The age of a book is left out, so a
refresh may happen to any book.

## 3. What TLC checks

| Run | Question | Bounds, and why they are enough |
|---|---|---|
| `tracker` | is money conserved through every history? | 2 sleeves, 2 outcomes of a market, sizes 1 and 3, 4 steps: open, add, partial close, reversal and a redemption of the result fit into four |
| `simulator` | do makers and takers get exactly what book and queue allow? | 2 orders, so that they share prints; prints that stop short of, end at and pass the queue |
| `runner` | is a fill lost or doubled between tasks? what do failed writes and a crash leave behind? how far are the caps overrun? | 2 tasks, a live_signal and a live_full sleeve, a cap of 1 position, 2 signals of size 2 filled in parts of 1, so that every pair of handlers meets at every await. Three plans: `caps` (2 tokens: the cap is overrun by resting orders and by orders in latency, of one task and of the other), `settling` (1 token, orders of the live_full sleeve, the market resolves), `rough` (1 token, 2 buys of the live_full sleeve, any write may fail, one crash: one task may miss an order whose fill the other is still writing) |
| `runner_resolved` (violation) | is a resolved market flat? | 2 tasks, 1 order |
| `runner_positions` (violation) | do the position rows say what the tracker holds? | 2 tasks that both trade, 2 orders, no write fails |
| `replay_engine` | does a replay see the tape once, in order, as of arrival? | 2 time stamps, pages of 2, 3 rows: equal stamps straddle a page; latency 0 and 1; 2 signals of size 2, so that orders wait together, a push can meet a tie (a pop that raises takes three, which the proofs cover) and an order fills in two parts |
| `replay_queue` | is any job slept through, doubled or reordered? do rows and jobs agree? | 3 jobs, stops, restarts, failing statements and a crash |
| `book_feed` | is the stored book true once the socket is drained? does the feed recover? | 2 assets in two subscribe messages, 2 levels, 2 changes, 2 refused or dropped connections, a REST call by the reading task and one by another |
| `periodic_jobs` | is the tape in order and accounted for? do bars, verdicts, dates and kills survive late rows, deletions, failures and boots? | ring of 4, batches of 2, up to 6 events: it overflows during a flush and stops with more than a batch; a tick is 30 s, so the windows of the validator, the minute, the retention of 5 ticks and the timer all meet within 6; 1 fill (passes judge rows one by one), up to 2 boots, 3 snapshots for a rise, a fall and a recovery |
| `promotion_days` (violation) | are the days of a mode served in it? | 1 boot, 3 ticks |
| `strategies` | do cooldowns, active sets, caps and copies hold whatever feeds the strategy? | each of the nine strategies in a replay, and live with discovery, or with a polling venue; 2 markets of 2 legs, cooldown of 2, seen set of 2 against 3 items: it is trimmed while the items are on the page; 3 entries, 1 restart. With a cap of 2 one market has events; with a cap of 1 both have, so that every strategy would enter more than it may, and `maker_passive` reaches two |
| `live_meta` (violation) | does metadata reach the strategies? | the live deployment of a strategy that waits for it |

Every bound is a constant named in the module that has it (`MaxSteps`, `MaxSignals`,
`MaxRestarts`, `MaxRows`, `MaxChanges`, `MaxFaults`, `MaxCalls`, `Plans`, ...).
`CHECK_DEADLOCK FALSE` stands where the system really ends or its bounded inputs do:
the event writer and the feed after a stop, the replay at the end of its tape, the
tracker at `MaxSteps`, the jobs and the strategies when the clock is at its bound.
Symmetry is used in `MCFillSimulator` and `MCRunner`, over orders and over tokens that
the model does not order, and without liveness properties.

In `periodic_jobs` ages are scaled down (a tick is 30 s for the validator, a day of the
gates is a tick, a day of bars a minute), in the order the code has them: the adverse
pass waits longer than its window, the tentative pass longer than both, retention is
longer than either window of the aggregator.

### What the deeper properties say

* `VerdictMatchesTheTape`: if every print that bears on a fill was written before the
  pass that judges it could run, and was not deleted, the verdict is the one the prints
  give. `OnlyLatePrintsAreMissing`: a bar lacks a print only if that print was written
  after the last run that could read it, or no run came within the window.
* `ChangeOfModeIsDated`: the date of the row is that of the first of the boots that
  wrote its mode one after the other. `DrawdownKillStays`: no gain, snapshot, restart or
  shorter time lifts a drawdown kill until the snapshot the sleeve fell from is a month
  old. It may be lifted then although the bottom is younger: a window that has moved past the
  peak sees no loss (`promotion_gates.py:354-361`).
* `CooldownHolds`, `TradesAreCopiedOnce`: by the time stamps of trades, which do not
  come in order; what the seen set lets through a second time the signed comparison of
  the cooldown catches, except for a trade without a time stamp.
* `RowsCatchUp`: the fill rows of an order that no task is handling add up to its fills but for
  those whose own row failed, and a later fill puts right a status that an earlier one
  failed to write. `RowsBackedByFills` says the converse, at every moment.
* `OverrunIsBounded`: the caps are read before an order waits and rests, so they can be passed,
  but by no more than the orders that were in flight or resting, or had fills on their way,
  when the sleeve was last below its cap: every signal after that is refused until a position closes.
* `RowsTellTheTruth`: a completed row belongs to a job that is completed, is about to be, or was in
  memory at a crash; a job that completed without one has a failed statement to show for it.

### Fairness

* `PeriodicJobs`: weak fairness of the flush loop's own steps (`Flush`, `Flushed`,
  `FinalFlush`, `Stopped`). The loop wakes on a timer and a database call returns or raises
  within its command timeout. Nothing obliges a batch to succeed, an event to be
  submitted, a job to run or `stop` to be called.
* `ReplayQueue`: weak fairness of the worker. The five-second timeout of its wait is
  not assumed: `JobsEnd` holds on notifications alone.
* `ReplayEngine`: weak fairness of the replay's own steps; the tape may change for as
  long as the bound lets it.
* `BookFeed`: weak fairness of the stream's own steps and of REST calls, which have a
  timeout of five seconds. Connections are refused or dropped `MaxFaults` times; the
  liveness property says what follows when the network behaves again.
* `Runner`, `PositionTracker`, `FillSimulator`, `StrategyFeed`: safety only.

## 4. What is proved

For every value of the constants, from the named assumptions of the modules
(`TrackerAssumption` and its like: sizes are positive numbers, prices lie within the
payout, ticks and assets are finitely many, sets of tokens do not overlap markets).

* `PositionTrackerProofs`: the type invariant, one-sidedness, average entry within
  the payout, and that the tracker moves inventory and cash as `Ledger` does, but for the
  two open amounts of section 2 (`TrackerKeepsTheLedger`). The invariant that carries them
  says of each key that a closed position leaves neither cost nor gas, an open one
  costs at most its size times one dollar, and the opposite key of an open one is
  closed; the last part is what makes the refinement go through, since inventory is the
  difference of two sides. Which of the ledger's steps a step of the tracker is depends on
  what it did to the account: a reversal that pays gas is a `Trade`, every other fill a `Fill`.
* `RunnerProofs`: types, and the four properties of the hot path that hold. A fill is in the
  simulator, then in the hands of a task, then in tracker and rows; `Out` and `Put` are
  what of an order has left the tasks for the one and for the other. `RowsInv` says that
  the fill rows of an order add up to no more than was put to them, and that between the
  two statements of `insert_fill` the first has taken effect; so no row claims a fill
  nobody has (`RowsAreBacked`). `CatchUpInv` says of every order at every moment that its fill
  rows and the fills whose row was lost are the fills that were put (`AmountRight`), and
  that its status is right unless a task is between the two statements for it, a missed mark is
  on its way, or its latest status was lost (`StatusRight`); when no task handles
  the order nothing is on its way (`OrderRowsCatchUp`). `AccountsInv` says that inventory and
  payouts of a sleeve are what
  its orders have brought; a step moves one summand of one sum, and the sums are taken
  apart one member at a time (`EveryFillIsTracked`). `CapInv` says that the open positions of a
  sleeve are the few it had when it was last below its cap and such as an order of that time
  may have opened (`Anchored`), and that every order under way is one of that time: only
  orders under way open positions, and none starts out while the sleeve is at its
  cap (`OverrunIsAtMostTheFlight`).
* `FillSimulatorProofs`: the fill of a resting order is what was printed beyond its
  queue, up to its size. The strengthening ties `q_ahead` to the same two histories: it
  is the queue that was met less what was printed, never below zero. That is proved of
  `RestingMaker` alone; the exchange over the books implements it
  (`ImplementsRestingMaker`), which needs that the depth a maker meets is a natural number
  and that an order without a limit never rests, so it holds of the exchange too. For
  takers (`TakersGetTheBestPrice`), the walk is followed level by level: `Walked` says
  what was taken from which level so far, never past the limit and nothing from a level
  while a better one has something left. The price of the last level touched then
  separates the walk from any other choice of levels: shares that the other choice moves
  go from its better side to its worse one (`Exchange`, `Cheaper`), and the totals are
  compared value by value (`TotalCompare`).
* `ReplayQueueProofs`: types, one worker, FIFO, that no wake-up is lost, and that rows
  and jobs agree (`RowsAreHonest`). The order invariant says
  that what was accepted is what was started followed by what waits. The rows need
  `RunningRow`: at each place of the worker the row is what the statements up to there have made
  of it, or one of them has failed; and that a job nobody has submitted in this life has no
  row, or was in memory at a crash (`NoRowYet`).
* `ReplayEngineProofs`: a replay sees rows once and in `(ts, id)` order, and every row
  that stayed on the tape is seen. The invariant `ReaderInv` says the rows buffered from
  a page and those already seen are exactly the ones up to the cursor, for rows that do
  not change. On top of it, for any number of rows, signals and latencies: types, every
  order meets the book of its arrival time (`OrdersMeetTheirBook`), and orders arrive once,
  in order, all of them (`OrdersArriveOnce`), however many fills they have. What rests was submitted and
  has a part unfilled (`AccountInv`). In the
  invariant `EngineInv`, `SignalInv` ties an arrival time to the event the signal was heard
  with, so that the times ascend as rows do; `QueueInv` says that orders arrive in the
  order of their signals; `BooksInv` that a book is what the events handled so far make
  of it. The heart is `WaitInv`, an order that waits is later than every event in the
  books, with its mirror in `AsOfInv`, one that has arrived is not later than any event to
  come: an order is submitted between the last event before it and the first one after.
* `BookFeedProofs`: types, and that a drained connection leaves the venue's books in the
  store but for what a late REST answer overwrote (`DrainedBooksAreTrue`). That property
  speaks of an empty socket only; the invariant `Synced` says what holds on the way
  there, level by level: from some message on, everything under way says what the venue
  has, or nothing under way speaks of the level and the store has it right. It needs that a
  delta on its way to an asset without a book is followed by a snapshot (`GetsBook`), that
  a REST answer differs from the venue only where the book changed after the read
  (`AnswersAreRecent`), and that reading starts when every asset was asked for (`AllTold`).
* `PeriodicJobsProofs`: types, the tape keeps its order and accounts for every event,
  through drops, failing batches, a stop and dying processes; verdicts are final and are
  what the prints say; a bar never loses a print and lacks late ones only; a change of
  mode is dated; a drawdown kill stays. The writer's invariant is about the pieces of the
  trail, table, batch and buffer: each ascends and lies below the next, and none shares an
  event with what was dropped or lost. It needs `OneBatch`: whoever takes a batch, the
  flush loop or `stop()`, finds none still being written, or it would overwrite it. The
  order alone does not say that a new event is the newest: that comes from the accounting,
  by which everything is among the events submitted so far. The jobs stand on how rows come
  and go (`TapeInv`, `TapeGrows`): a row keeps its time stamp and its date of writing,
  and only retention takes it away. `VerdictsInv` dates a verdict by its pass, so that a
  print written later was too late for it. `BarsInv` says that a print in a bar is on the
  tape or out of the reach of every later run, which needs that retention keeps prints for
  longer than the windows the upserts read (`SweptIsOutOfReach`, `OutlivedIsOutOfReach`,
  from the assumptions on `EventsKeep` and `BarsKeep`). `RunsInv` and `CaughtInv` say
  which prints the latest run of each kind must have seen. The drawdown needs that a finite
  set of equities has a largest, and that it can only grow while no snapshot ages out.
  The dating invariant also needs that a sleeve without a row has no upsert behind it.
* `StrategyProofs`: caps, cooldowns, entries made once and trades copied once, for all
  nine strategies, in a replay and live. `Admissible` says what is true of the keys of
  one entry, whichever strategy makes it; every step of the system enters such keys,
  clears a market, starts the process anew, or leaves the active set alone
  (`StepKinds`). Cooldowns need that the cooldown map remembers the latest entry of
  each key of this life (`Remembered`, which uses that a cooldown is not zero); copying
  once follows from cooldowns, since two copies of a trade would have the same key and
  time (`CopyInv`); entering once counts entries against clearings and restarts
  (`OnceInv`), and needs that only its own market clears a key (`OwnMarketOnly`, from
  the assumption that markets are no assets, wallets or sides).
  Types and limits come from a second invariant (`TypesAndLimitsHold`): a boot takes
  the first `TopN` assets, so no more are subscribed to (`BootTypes`); an id that makes
  the set of seen ids too long has it cut (`TrimmedFits`). The proof fails for a limit of
  one, since half of one cuts nothing; the code has 5,000 and 20,000, and
  `PollerAssumption` asks for two.

Where a proof needs induction over data (a largest member, a sum), it is made by taking a
smallest counterexample, since the induction theorems of the library take an operator.

Model-checked only: liveness (`JobsEnd`, `ReplayEnds`, `BooksCatchUp`, `BufferDrains`),
which needs ENABLED. Every other property of a passing run is a theorem for every value of
the constants.

## 5. Findings

Each is a run whose property quotes the repository and which TLC violates:

* `runner_resolved`: an order that rests or is in latency when its market resolves can
  open a position that nothing closes (`runner/main.py:300`).
* `runner_positions`: `paper_positions` shall accurately reflect open positions
  (`main.py:476-478`); two tasks that handle fills of one position write its row in
  either order, the older size last, and nothing corrects it.
* `live_meta`: the prefill at boot makes every subscribed market known, and
  `MARKET_META` is emitted for unknown markets only; the strategies that wait for it
  (`maker_passive`, `redemption_sniper`, the weather strategies) never fire live
  (`venues/polymarket_markets.py:106-107`).
* `promotion_days`: the days a gate asks for are the age of the sleeve's row, whatever
  mode it spent them in, because nothing writes `sleeve_mode_history`
  (`db/writers.py:40-43`; `record_mode_change` has no caller).

## 6. Further disagreements met while modelling, without a run of their own

The models follow the code in each of these, and no property holds them to be right.

* `position_tracker.py:16`: gas is subtracted "per fill"; a reversal charges its gas to the
  trade it closes and to the position it opens (lines 266 and 336).
* `position_tracker.py:184-185`: the winning token redeems to $1 and others to $0; a short
  is settled at the other end (lines 203-205), so a short of the winner is booked as a gain.
* `DESIGN.md:125`: "worst-case queue position"; a print is given whole to every own order at
  its price, so together they may fill more than was traded (`_resting.py:101`).
* `db/writers.py:165`, `DESIGN.md:116`: "missed -> cancelled"; an order filled in part before the
  book walked away stays `partially_filled` (`writers.py:197-200`).
* `DESIGN.md:54`: a sleeve in `live_signal` keeps "fill stats only"; its resting orders
  move the tracker when they fill (`main.py:370`), its takers do not.
* `replay_engine.py:5-6`: results go to `paper_trades`; the trades that fills of resting
  orders make are counted and not written (line 252).
* `DESIGN.md:20`: any strategy with any overrides; two signals of one event with a latency
  above zero put two equal arrival times in the heap, `heapq` compares the orders and the
  run ends with a TypeError (`replay_engine.py:337`).
* `replay_queue.py:8-9`: "running jobs get marked 'failed' on next boot"; nothing marks the
  `replay_runs` rows of a killed process.
* `strategies/_template/README.md:71`: a sleeve with less than 80 % of its capital is killed; a
  restart gives the tracker its whole capital again, so losses of two lives are not added up.

* `main.py:388-389`: the risk caps read open positions, so orders in latency or resting
  pass together. `OverrunIsBounded` shows by how much.
* `strategies/maker_passive/DESIGN.md:44` states a cap on concurrent positions; the strategy checks it once
  for a pair of signals (`strategy.py:101`) and may end one above it. `CapHolds` allows it that one.
* `strategies/redemption_sniper/DESIGN.md:30` asks for no open position on the market; the code keys its
  active set by market and asset, so it may enter both legs, and so does the model.
* Replay and live differ on resolutions: a replay applies none and never clears an
  active set (`replay_engine.py:16-17`), nor does it apply the runner's risk caps.
* A prefill that fails leaves the CLOB adapter without assets for the life of the process.
* `polymarket_activity.py`: an item that cannot be read raises out of the page; the
  rest of the page waits for the next poll. In `news_rss.py` and `reddit.py` such an item ends
  the venue's task.
* A signal the runner rejects leaves its market in the active set, until it resolves.
* `validation.py:153`: the adverse pass writes `clean` over `thin_market`.
* `promotion_gates.py`: after a restart the equity curve falls to the starting capital,
  so a sleeve that had gained more than 20 % is killed without a loss. The kill by
  drawdown is lifted when the peak leaves the window of a month, though the loss may be younger. The drawdown
  of replays sums the trades of all replays there ever were and ignores losses before
  the first peak. The signals of 30 days are divided by all days of the sleeve, so one
  that signals at the replay's rate fails after some 43 days. The gate asks for a replay
  result of at least zero where `README.md` says above zero. `DESIGN.md` says that a
  promotion needs no restart; the mode is read at boot.
* `DESIGN.md:46`: `watch_configs` has no consumer, and `resubscribe` no caller.
* `_resting.py:56`: `cancel_decay` is stored and never used.

## 7. Not modelled, and why

Analytics, tags, metrics, the API's queries and the dashboard are pure functions or
reads. Configuration and plug-in loading happen once at boot. The database pool is a
retried singleton; a statement succeeds or fails. The calibrated simulator delegates.
`binance_perp`, `deribit` and `kalshi` feed no shipped strategy and keep no state beyond
the websocket helper's. Retention's deletion of signals is left out: signals are
counted over a month and kept for longer. Confidence scores, realism flags other than
the validator's, slippage and tags of a fill are data no decision of the modelled parts
depends on. In `Runner` the boot sequence and the order of `stop()` are not actions of
their own; `PeriodicJobs` has the part of them that concerns the jobs and the writer.

## 8. Plan

1. The boot and stop sequences of `Runner` as actions, with a venue that dies (the
   message that raises out of `_normalize`, the one hazard of the feed without a
   property).
2. `Runner` and `StrategyFeed` composed: an active entry is backed by an order or a
   position, or is an entry the runner rejected.
3. Proofs of what these add; the safety part of the liveness properties (what a queue
   that does not drain must contain).
