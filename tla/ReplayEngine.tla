---------------------------- MODULE ReplayEngine ----------------------------
(***************************************************************************)
(* The loop of ReplayEngine.run (src/src/runner/replay_engine.py) over the *)
(* tape TapeReader yields.  An event is handled in steps, as the code has  *)
(* its loops: the orders whose latency has passed are submitted one by one *)
(* against the books as they stand, then the event is applied to its book, *)
(* then the resting orders see it, then the strategy, each of whose        *)
(* signals becomes an order.                                               *)
(*                                                                         *)
(* A book is the number of events that made it.  Whether an order fills,   *)
(* rests or finds nothing, and how much of it a fill takes, is chosen      *)
(* freely (FillSimulator says when).  The strategy may emit anything.      *)
(***************************************************************************)
EXTENDS TapeReader

CONSTANTS
    Tokens,         \* the (market_id, asset_id) of books and orders
    Latencies,      \* the total latencies a replay may be asked for
    Sizes,          \* the sizes of orders
    MaxSignals      \* bound: signals of the strategy

ASSUME EngineAssumption ==
    /\ Payloads = [kind : {"snapshot", "delta", "print"}, key : Tokens]
    /\ Latencies \subseteq Nat
    /\ Sizes \subseteq Nat \ {0} /\ MaxSignals \in Nat

VARIABLES
    latency,        \* latency_delay
    books,          \* books[k]: the events applied to the book of k, 0 without a book
    heap,           \* pending: the orders in latency, in the order of their etas
    order,          \* order[o]: the o-th signal of the strategy
    sent,           \* signals_count
    resting,        \* the orders resting in the simulator
    unheard,        \* those of them sim.on_event has still to show the event to
    filled,         \* filled[o]: filled_size
    net,            \* the tracker: net[k], long or short
    trades,         \* trades_count
    rows,           \* the rows written to paper_trades
    engine,         \* where run() is: Stages
    arrived         \* history: the submissions and the book each of them met

account == <<filled, net, trades, rows>>
engineVars == <<latency, books, heap, order, sent, resting, unheard, account, engine, arrived>>
vars == <<readerVars, engineVars>>

Orders == 1 .. MaxSignals
Sides == {"buy", "sell"}
NoOrder == [eta |-> 0]

\* "reading" the tape, "draining" the orders that are due, "ticking" the resting
\* ones, "signalling" what the strategy made of the event; a run ends
\* "completed" or "raised".
Stages == {"reading", "draining", "ticking", "signalling", "completed", "raised"}

\* The loop may go on to the next event.
Between == engine \in {"reading", "ticking", "signalling"}

\* The event being handled.
event == yielded[Len(yielded)].payload
now == yielded[Len(yielded)].ts

-----------------------------------------------------------------------------
(* pending is a heap of (eta, Order).  Events come in time order and all   *)
(* orders wait equally long, so etas are pushed in order and are popped in *)
(* the order of pushing: a sequence.  Where two etas are equal heapq goes  *)
(* on to compare the Orders, which have no order, and the replay raises.   *)
(* Which entries it compares depends on their places in its array; but an  *)
(* entry is always compared with what comes to lie above it, so the first  *)
(* of a heap that has not raised is earlier than all others.               *)

Tie(h, i, j) == order'[h[i]].eta = order'[h[j]].eta
FirstIsTied(h) == Len(h) > 1 /\ Tie(h, 1, 2)

\* The exception leaves run() at once; memory is dropped with it.
Raise ==
    /\ engine' = "raised"
    /\ UNCHANGED <<heap, resting, account, arrived>>

\* A push compares the new entry with others, a pop those that remain.
Heappush(o) ==
    LET h == Append(heap, o) IN
    \/ ~FirstIsTied(h) /\ heap' = h /\ engine' = "signalling"
       /\ UNCHANGED <<resting, account, arrived>>
    \/ (\E i \in DOMAIN heap : Tie(h, i, Len(h))) /\ Raise

PopRaises == \E i, j \in 2 .. Len(heap) : i < j /\ Tie(heap, i, j)

\* Mistake: an order waits one event too long.
IsDue_Late(o) == order[o].eta < now
IsDue(o) == order[o].eta <= now
AnyDue == heap # <<>> /\ IsDue(Head(heap))

-----------------------------------------------------------------------------
(* The pieces of a step *)

Remaining(o) == order'[o].size - filled[o]

\* The fill of an order would be against the position it meets.
Closes(o) ==
    LET position == net[order'[o].key] IN
    IF order'[o].side = "buy" THEN position < 0 ELSE position > 0

\* tracker.on_fill of a fill of size n: one against the position closes as much
\* of it and is a trade, which is counted.
TrackFill(o, n) ==
    /\ filled' = [filled EXCEPT ![o] = @ + n]
    /\ net' = [net EXCEPT ![order'[o].key] = IF order'[o].side = "buy" THEN @ + n ELSE @ - n]
    /\ trades' = IF Closes(o) THEN trades + 1 ELSE trades

\* db_writers.insert_trade of the trade there is; its failure is logged.
InsertTrade(o) ==
    IF Closes(o)
    THEN rows' \in {rows + 1, rows}
    ELSE UNCHANGED rows

\* sim.submit: as much of the order fills as the book has (the levels it takes
\* are taken as one fill), or it rests, or it finds nothing.
Submit(o) ==
    /\ arrived' = Append(arrived, [order |-> o, book |-> books[order'[o].key]])
    /\ \/ (\E n \in 1 .. Remaining(o) : TrackFill(o, n)) /\ InsertTrade(o) /\ UNCHANGED resting
       \/ resting' = resting \cup {o} /\ UNCHANGED account
       \/ UNCHANGED <<resting, account>>

\* _apply_event_to_book
Applied ==
    IF \/ event.kind = "snapshot"
       \/ event.kind = "delta" /\ books[event.key] > 0
    THEN [books EXCEPT ![event.key] = @ + 1] ELSE books

-----------------------------------------------------------------------------
EngineInit ==
    /\ latency \in Latencies
    /\ books = [k \in Tokens |-> 0]
    /\ heap = <<>>
    /\ order = [o \in Orders |-> NoOrder]
    /\ sent = 0
    /\ resting = {} /\ unheard = {}
    /\ filled = [o \in Orders |-> 0]
    /\ net = [k \in Tokens |-> 0]
    /\ trades = 0 /\ rows = 0
    /\ engine = "reading"
    /\ arrived = <<>>

Init == ReaderInit /\ EngineInit

\* The loop awaits the next row, or the query for more of them.
Event(r) ==
    /\ Between
    /\ Yield(r)
    /\ engine' = "draining" /\ unheard' = {}
    /\ UNCHANGED <<latency, books, heap, order, sent, resting, account, arrived>>

Fetch ==
    /\ Between
    /\ Query
    /\ engine' = "reading"
    /\ UNCHANGED <<latency, books, heap, order, sent, resting, unheard, account, arrived>>

\* Mistake: what has been submitted stays in the heap.
Pop_Keeps(stage) ==
    /\ heap # <<>>
    /\ UNCHANGED <<latency, books, order, sent, unheard, heap>>
    /\ Submit(Head(heap)) /\ engine' = stage

\* The first order in latency arrives.
Pop(stage) ==
    /\ heap # <<>>
    /\ UNCHANGED <<latency, books, order, sent, unheard>>
    /\ \/ ~FirstIsTied(Tail(heap)) /\ heap' = Tail(heap)
          /\ Submit(Head(heap)) /\ engine' = stage
       \/ PopRaises /\ Raise

Drain == engine = "draining" /\ AnyDue /\ Pop("draining") /\ UNCHANGED readerVars

\* No order is due any more; the event reaches its book, and the simulator is
\* called if that has one.
Apply ==
    /\ engine = "draining" /\ ~AnyDue
    /\ books' = Applied
    /\ unheard' = {o \in resting : order[o].key = event.key /\ books'[event.key] > 0}
    /\ engine' = "ticking"
    /\ UNCHANGED <<readerVars, latency, heap, order, sent, resting, account, arrived>>

\* sim.on_event shows a resting order the event, or the order has seen it
\* without effect and is not mentioned again.  A print fills some of the order,
\* which leaves when it is done; another event lets it go.  The trade of the
\* fill is counted and nothing is written.
Tick(o) ==
    /\ engine = "ticking"
    /\ unheard' = unheard \ {o}
    /\ UNCHANGED <<readerVars, latency, books, heap, order, sent, engine, arrived, rows>>
    /\ IF event.kind = "print"
       THEN \E n \in 1 .. Remaining(o) :
               TrackFill(o, n) /\ resting' = IF n = Remaining(o) THEN resting \ {o} ELSE resting
       ELSE resting' = resting \ {o} /\ UNCHANGED <<filled, net, trades>>

\* A signal of strategy.on_event: dropped without a book, submitted at once
\* without latency, deferred with it.
Signal(k, side, size) ==
    LET o == sent + 1 IN
    /\ engine \in {"ticking", "signalling"}
    /\ sent < MaxSignals
    /\ sent' = o
    /\ order' = [order EXCEPT ![o] =
          [key |-> k, side |-> side, size |-> size, eta |-> now + latency, heard |-> Len(yielded)]]
    /\ IF books[k] = 0
       THEN engine' = "signalling" /\ UNCHANGED <<heap, resting, account, arrived>>
       ELSE IF latency = 0
            THEN Submit(o) /\ engine' = "signalling" /\ UNCHANGED heap
            ELSE Heappush(o)
    /\ UNCHANGED <<readerVars, latency, books, unheard>>

\* The tape has ended: what is still in latency meets the last books.  No order
\* is without one here, because books stay.
LastDrain == Between /\ reader = "done" /\ Pop("reading") /\ UNCHANGED readerVars

\* Mistake: what is in latency when the tape ends is forgotten.
Finish_Forgets ==
    /\ Between /\ reader = "done"
    /\ engine' = "completed"
    /\ UNCHANGED <<readerVars, latency, books, heap, order, sent, resting, unheard, account, arrived>>

Finish ==
    /\ Between /\ reader = "done" /\ heap = <<>>
    /\ engine' = "completed"
    /\ UNCHANGED <<readerVars, latency, books, heap, order, sent, resting, unheard, account, arrived>>

Replay ==
    \/ Fetch
    \/ \E r \in page : Event(r)
    \/ Drain \/ Apply
    \/ \E o \in unheard : Tick(o)
    \/ \E k \in Tokens, side \in Sides, size \in Sizes : Signal(k, side, size)
    \/ LastDrain \/ Finish

Next == Replay \/ (Tape /\ UNCHANGED engineVars)

\* The queue's worker awaits the run, and the queries and writes it awaits end.
Spec == Init /\ [][Next]_vars /\ WF_vars(Replay)

-----------------------------------------------------------------------------
(* Properties *)

Submitted == {arrived[i].order : i \in DOMAIN arrived}

\* Type invariant; an order waits in the heap until it arrives, not longer, and
\* rests until it is done, not longer.
TypeOK ==
    /\ ReaderTypeOK
    /\ latency \in Nat
    /\ books \in [Tokens -> Nat]
    /\ heap \in Seq(1 .. sent)
    /\ ToSet(heap) \cap Submitted = {}
    /\ order \in [Orders -> {NoOrder} \cup
                    [key : Tokens, side : Sides, size : Sizes, eta : Int, heard : Nat]]
    /\ sent \in 0 .. MaxSignals
    /\ unheard \subseteq resting /\ resting \subseteq Submitted
    /\ filled \in [Orders -> Nat] /\ \A o \in resting : filled[o] < order[o].size
    /\ net \in [Tokens -> Int]
    /\ trades \in Nat /\ rows \in Nat
    /\ engine \in Stages
    /\ arrived \in Seq([order : Orders, book : Nat \ {0}])

\* What the events of a set make of the book of k: those of them that are
\* about it, from its first snapshot on.
BookAfter(k, seen) ==
    LET Of(i, kinds) == yielded[i].payload.key = k /\ yielded[i].payload.kind \in kinds
    IN  Cardinality({i \in seen :
            /\ Of(i, {"snapshot", "delta"})
            /\ \E j \in seen : j <= i /\ Of(j, {"snapshot"})})

\* No look-ahead and no stale book: an order meets the book that exactly the
\* events before its arrival time made, though several events share a time
\* stamp; without latency, the book its strategy saw.
AsOfEta ==
    \A i \in DOMAIN arrived :
        LET o == order[arrived[i].order] IN
        arrived[i].book = BookAfter(o.key,
            IF latency = 0 THEN 1 .. o.heard
                           ELSE {n \in DOMAIN yielded : yielded[n].ts < o.eta})

\* Orders arrive in the order of their arrival times, each once, and by the
\* end of a completed replay all of them that had a book have.
EveryOrderArrives ==
    /\ \A i, j \in DOMAIN arrived : i < j =>
          /\ arrived[i].order # arrived[j].order
          /\ order[arrived[i].order].eta <= order[arrived[j].order].eta
    /\ engine = "completed" => \A o \in 1 .. sent :
          o \in Submitted \/ BookAfter(order[o].key, 1 .. order[o].heard) = 0

\* A replay ends, whatever is inserted and deleted behind and before it.
ReplayEnds == <>(engine \in {"completed", "raised"})

=============================================================================
