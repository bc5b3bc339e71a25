--------------------------- MODULE FillSimulator ----------------------------
(***************************************************************************)
(* src/src/execution/event_replay.py over the books of                     *)
(* src/src/venues/_orderbook_store.py: the paper exchange.  A submitted    *)
(* order either walks the opposite side of the book at once or rests; book *)
(* updates and trade prints arrive in any order between submissions.  The  *)
(* store is written by the venue adapter, the simulator only reads it, so  *)
(* the book may have moved any number of times between two calls of the    *)
(* simulator.                                                              *)
(*                                                                         *)
(* A side of a book is a function from price ticks to resting size, 0      *)
(* where there is no level: the store keeps one positive level per price   *)
(* and both lists sorted from the best price.  Realism flags, slippage and *)
(* time stamps are left out.                                               *)
(***************************************************************************)
EXTENDS RestingMaker, FiniteSets, Functions

CONSTANTS
    Depths,         \* the sizes a level of the book can have, 0 among them
    WalkAwayTicks,  \* the five cents of check_walk_away, in ticks
    NoPrice         \* the price of an order without a limit

ASSUME SimulatorAssumption == IsFiniteSet(Ticks) /\ Depths \subseteq Nat /\ 0 \in Depths

VARIABLES
    known,          \* the assets the store has had a snapshot of
    bids,           \* bids[a][p]: size bid for a at p
    asks,           \* asks[a][p]: size offered of a at p
    taken           \* taken[o]: the taker fill of order o, NoFill before it is submitted

vars == <<makerVars, known, bids, asks, taken>>

-----------------------------------------------------------------------------
(* The book *)

Ladder == [Ticks -> Depths]
EmptyLadder == [p \in Ticks |-> 0]
Levels(ladder) == {p \in Ticks : ladder[p] > 0}
Total(ladder, prices) == SumFunctionOnSet(ladder, prices)

\* Whether a level at p is acceptable to somebody who buys or sells at `price`.
Within(side, price, p) ==
    price = NoPrice \/ IF side = "buy" THEN p <= price ELSE p >= price

\* The side of the book an order of `side` takes from, and the one it joins.
Opposing(a, side) == IF side = "buy" THEN asks[a] ELSE bids[a]
Joined(a, side) == IF side = "buy" THEN bids[a] ELSE asks[a]

\* Mistake: the ladder is walked upwards on both sides.
Better_Upwards(side, p, q) == p < q

\* A taker of `side` meets p before q: both lists of a book are sorted so.
Better(side, p, q) == IF side = "buy" THEN p < q ELSE p > q

\* The last of some prices that it meets.
Last(side, prices) == CHOOSE p \in prices : \A q \in prices \ {p} : Better(side, q, p)

\* depth_at_or_better: the queue a maker of `side` meets at `price`.
DepthAtOrBetter(a, side, price) ==
    Total(Joined(a, side),
          {p \in Ticks : IF side = "buy" THEN p >= price ELSE p <= price})

\* taker_consumable_depth: what a taker of `side` can consume up to `price`.
TakerConsumableDepth(a, side, price) ==
    Total(Opposing(a, side), {p \in Ticks : Within(side, price, p)})

-----------------------------------------------------------------------------
(* The store *)

ApplySnapshot(a, newBids, newAsks) ==
    /\ known' = known \cup {a}
    /\ bids' = [bids EXCEPT ![a] = newBids]
    /\ asks' = [asks EXCEPT ![a] = newAsks]
    /\ UNCHANGED <<makerVars, taken>>

\* The size at one level is set; before the first snapshot a delta is dropped.
ApplyDelta(a, side, p, size) ==
    /\ a \in known
    /\ IF side = "buy"
       THEN bids' = [bids EXCEPT ![a][p] = size] /\ asks' = asks
       ELSE asks' = [asks EXCEPT ![a][p] = size] /\ bids' = bids
    /\ UNCHANGED <<makerVars, known, taken>>

-----------------------------------------------------------------------------
(* submit *)

NoFill == [size |-> 0]

Crosses(a, side, price) ==
    price = NoPrice \/ \E p \in Levels(Opposing(a, side)) : Within(side, price, p)

\* _fill_taker: level by level from the best, never past the limit.  walk[met]
\* is what is left of the order, and what it cost, after the levels in `met`.
Take(ladder, side, price, size) ==
    LET walk[met \in SUBSET Levels(ladder)] ==
            IF met = {} THEN [left |-> size, cost |-> 0]
            ELSE LET p == Last(side, met)
                     acc == walk[met \ {p}]
                     take == IF Within(side, price, p) THEN Least(acc.left, ladder[p]) ELSE 0
                 IN  [left |-> acc.left - take, cost |-> acc.cost + take * p]
    IN  walk[Levels(ladder)]

\* The fill of a taker; what the walk did not find is dropped, and a walk
\* that found nothing returns no fill (filled = 0).
TakerFill(a, side, price, size) ==
    LET walk == Take(Opposing(a, side), side, price, size)
    IN  [asset |-> a, side |-> side, limit |-> price, size |-> size,
         filled |-> size - walk.left, cost |-> walk.cost]

Fresh(o) == order[o] = NoOrder /\ taken[o] = NoFill

\* price is the limit of a LIMIT order; a MARKET order has none, whatever
\* price its signal carried, and a LIMIT order without a price is treated so.
Submit(o, a, side, price, size) ==
    /\ a \in known
    /\ Fresh(o)
    /\ IF Crosses(a, side, price)
       THEN /\ taken' = [taken EXCEPT ![o] = TakerFill(a, side, price, size)]
            /\ UNCHANGED makerVars
       ELSE /\ Register(o, [asset |-> a, side |-> side, price |-> price, size |-> size],
                        DepthAtOrBetter(a, side, price))
            /\ UNCHANGED taken
    /\ UNCHANGED <<known, bids, asks>>

-----------------------------------------------------------------------------
(* on_event *)

\* check_walk_away: no depth at or better than us and the other side, from its
\* best price on, far off.
WalkedAway(o) ==
    LET ord == order[o]
        opposing == Levels(Opposing(ord.asset, ord.side))
    IN  /\ opposing # {}
        /\ DepthAtOrBetter(ord.asset, ord.side, ord.price) = 0
        /\ \A p \in opposing : IF ord.side = "buy" THEN p > ord.price + WalkAwayTicks
                                                   ELSE p < ord.price - WalkAwayTicks

\* A BOOK_DELTA or BOOK_SNAPSHOT event reaches the simulator.
BookEvent(a) ==
    /\ a \in known
    /\ BookMoved({o \in resting : order[o].asset = a /\ WalkedAway(o)})
    /\ UNCHANGED <<known, bids, asks, taken>>

\* A TRADE_PRINT reaches the simulator; it leaves the book to the venue.
PrintEvent(a, price, size) ==
    /\ a \in known
    /\ TradePrint(a, price, size)
    /\ UNCHANGED <<known, bids, asks, taken>>

CancelOrder(o) ==
    /\ o \in resting
    /\ Cancel(o)
    /\ UNCHANGED <<known, bids, asks, taken>>

-----------------------------------------------------------------------------
Init ==
    /\ MakerInit
    /\ known = {}
    /\ bids = [a \in Assets |-> EmptyLadder]
    /\ asks = [a \in Assets |-> EmptyLadder]
    /\ taken = [o \in Orders |-> NoFill]

Next ==
    \/ \E a \in Assets, newBids \in Ladder, newAsks \in Ladder :
          ApplySnapshot(a, newBids, newAsks)
    \/ \E a \in Assets, side \in Sides, p \in Ticks, size \in Depths :
          ApplyDelta(a, side, p, size)
    \/ \E o \in Orders, a \in Assets, side \in Sides, price \in Ticks \cup {NoPrice},
          size \in OrderSizes : Submit(o, a, side, price, size)
    \/ \E a \in Assets : BookEvent(a)
    \/ \E a \in Assets, price \in Ticks, size \in PrintSizes : PrintEvent(a, price, size)
    \/ \E o \in Orders : CancelOrder(o)

Spec == Init /\ [][Next]_vars

-----------------------------------------------------------------------------
(* Properties *)

\* All the ways to take q shares from the levels within a limit.
Allocations(ladder, side, price, q) ==
    {x \in [Ticks -> 0 .. q] :
        /\ \A p \in Ticks : x[p] <= ladder[p] /\ (x[p] > 0 => Within(side, price, p))
        /\ Total(x, Ticks) = q}

Cost(x) == SumFunctionOnSet([p \in Ticks |-> x[p] * p], Ticks)

\* A taker gets as much as the book holds within its limit (the depth the
\* preflight check looked at), and no other choice of levels would have given
\* it a better price.
BestExecution ==
    [][\A o \in Orders : taken[o] = NoFill /\ taken'[o] # NoFill =>
          LET f == taken'[o] IN
          /\ f.filled = Least(f.size, TakerConsumableDepth(f.asset, f.side, f.limit))
          /\ \A x \in Allocations(Opposing(f.asset, f.side), f.side, f.limit, f.filled) :
                IF f.side = "buy" THEN f.cost <= Cost(x) ELSE f.cost >= Cost(x)]_vars

=============================================================================
