---------------------------- MODULE RestingMaker ----------------------------
(***************************************************************************)
(* src/src/execution/_resting.py and the part of event_replay.py that owns *)
(* its instances: paper limit orders that rest behind a queue of real      *)
(* ones.  The queue is known once, at placement; from then on only trade   *)
(* prints tell how far it has moved.  The order book itself is outside     *)
(* this module: it supplies the queue of a new order and the orders whose  *)
(* level the book has left (FillSimulator reads both from the book).       *)
(***************************************************************************)
EXTENDS Integers

CONSTANTS
    Orders,         \* order ids
    Assets,         \* outcome tokens
    Ticks,          \* prices
    OrderSizes,     \* the sizes of orders
    PrintSizes      \* the sizes of trade prints

ASSUME MakerAssumption ==
    /\ Ticks \subseteq Nat
    /\ OrderSizes \subseteq Nat \ {0}
    /\ PrintSizes \subseteq Nat

VARIABLES
    order,          \* the order behind an id, NoOrder before it is registered
    resting,        \* the ids in self._resting
    q_ahead,        \* RestingMaker.q_ahead
    filled,         \* RestingMaker.filled_size
    missed,         \* ids for which a MISSED marker was emitted
    queue0,         \* history: q_ahead at placement
    printed         \* history: volume printed at or through the order while it rested

makerVars == <<order, resting, q_ahead, filled, missed, queue0, printed>>

-----------------------------------------------------------------------------
Sides == {"buy", "sell"}
Order == [asset : Assets, side : Sides, price : Ticks, size : OrderSizes]
NoOrder == [asset |-> "none"]

Least(x, y) == IF x <= y THEN x ELSE y

\* Mistake: an order that is gone still hears prints.
EatsQueue_AnyOrder(o, asset, price) ==
    /\ order[o] # NoOrder
    /\ order[o].asset = asset
    /\ IF order[o].side = "buy" THEN price <= order[o].price ELSE price >= order[o].price

\* A trade at or through our price eats the queue ahead of us.
EatsQueue(o, asset, price) ==
    /\ o \in resting
    /\ order[o].asset = asset
    /\ IF order[o].side = "buy" THEN price <= order[o].price ELSE price >= order[o].price

Remaining(o) == order[o].size - filled[o]

IsDone(o, total) == total >= order[o].size

MakerInit ==
    /\ order = [o \in Orders |-> NoOrder]
    /\ resting = {}
    /\ missed = {}
    /\ q_ahead = [o \in Orders |-> 0]
    /\ filled = [o \in Orders |-> 0]
    /\ queue0 = [o \in Orders |-> 0]
    /\ printed = [o \in Orders |-> 0]

\* _register_resting: the whole depth at or better than our price is ahead.
Register(o, ord, depth) ==
    /\ order[o] = NoOrder
    /\ order' = [order EXCEPT ![o] = ord]
    /\ resting' = resting \cup {o}
    /\ q_ahead' = [q_ahead EXCEPT ![o] = depth]
    /\ queue0' = [queue0 EXCEPT ![o] = depth]
    /\ UNCHANGED <<filled, missed, printed>>

\* Mistake: we get the whole print.
FillSize_WholePrint(o, size) ==
    IF q_ahead[o] - Least(q_ahead[o], size) > 0 THEN 0 ELSE Least(Remaining(o), size)

\* process_trade_event: what is left of a print after the queue ahead.
Consumed(o, size) == IF q_ahead[o] > 0 THEN Least(q_ahead[o], size) ELSE 0
FillSize(o, size) ==
    IF q_ahead[o] - Consumed(o, size) > 0
    THEN 0
    ELSE Least(Remaining(o), size - Consumed(o, size))

\* on_event of a TRADE_PRINT: every resting order at or through the price.
TradePrint(asset, price, size) ==
    LET hit == {o \in Orders : EatsQueue(o, asset, price)} IN
    /\ q_ahead' = [o \in Orders |->
          IF o \in hit THEN q_ahead[o] - Consumed(o, size) ELSE q_ahead[o]]
    /\ filled' = [o \in Orders |->
          IF o \in hit THEN filled[o] + FillSize(o, size) ELSE filled[o]]
    /\ printed' = [o \in Orders |->
          IF o \in hit THEN printed[o] + size ELSE printed[o]]
    /\ resting' = resting \ {o \in hit : IsDone(o, filled'[o])}
    /\ UNCHANGED <<order, missed, queue0>>

\* on_event of a book event: orders whose level the book has left are missed.
BookMoved(walkedAway) ==
    /\ walkedAway \subseteq resting
    /\ resting' = resting \ walkedAway
    /\ missed' = missed \cup walkedAway
    /\ UNCHANGED <<order, q_ahead, filled, queue0, printed>>

\* cancel: the order disappears without a fill.
Cancel(o) ==
    /\ resting' = resting \ {o}
    /\ UNCHANGED <<order, q_ahead, filled, missed, queue0, printed>>

MakerNext ==
    \/ \E o \in Orders, ord \in Order, depth \in Nat : Register(o, ord, depth)
    \/ \E asset \in Assets, price \in Ticks, size \in PrintSizes :
          TradePrint(asset, price, size)
    \/ \E walkedAway \in SUBSET resting : BookMoved(walkedAway)
    \/ \E o \in Orders : Cancel(o)

MakerSpec == MakerInit /\ [][MakerNext]_makerVars

-----------------------------------------------------------------------------
(* Properties *)

MakerTypeOK ==
    /\ order \in [Orders -> Order \cup {NoOrder}]
    /\ resting \subseteq {o \in Orders : order[o] # NoOrder}
    /\ missed \subseteq {o \in Orders : order[o] # NoOrder} \ resting
    /\ q_ahead \in [Orders -> Nat]
    /\ filled \in [Orders -> Nat]
    /\ queue0 \in [Orders -> Nat]
    /\ printed \in [Orders -> Nat]

\* However the prints are cut into pieces, an order has filled exactly what
\* was printed beyond the queue it met at placement, up to its size: nothing
\* is filled early, twice, or beyond the order.
QueuePosition ==
    \A o \in Orders : order[o] # NoOrder =>
        /\ filled[o] = IF printed[o] <= queue0[o] THEN 0
                       ELSE Least(order[o].size, printed[o] - queue0[o])
        /\ q_ahead[o] = IF printed[o] <= queue0[o] THEN queue0[o] - printed[o] ELSE 0

\* An order leaves the simulator as soon as it is filled, never before unless
\* it was missed or cancelled, and never fills again afterwards.
RestingIsUnfilled == \A o \in resting : filled[o] < order[o].size

GoneStaysGone ==
    [][\A o \in Orders : order[o] # NoOrder /\ o \notin resting =>
          o \notin resting' /\ filled'[o] = filled[o]]_makerVars
=============================================================================
