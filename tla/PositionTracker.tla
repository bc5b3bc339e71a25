-------------------------- MODULE PositionTracker ---------------------------
(***************************************************************************)
(* src/src/execution/position_tracker.py: the per-sleeve book of open      *)
(* positions and the profit it books.                                      *)
(*                                                                         *)
(* A position is kept under (sleeve, market, asset, side); the market is   *)
(* determined by the asset, so the key here is <<sleeve, asset, side>>.    *)
(* The code stores the average entry price and computes with decimals; the *)
(* model stores size and cost = avg_entry * size, in ticks, and a          *)
(* proportional share is rounded down to a tick, so that what is taken out *)
(* of a position and what stays in it always add up.  Time stamps,         *)
(* slippage, the haircut column and the labels of a Trade are left out:    *)
(* they are display data.                                                  *)
(***************************************************************************)
EXTENDS Integers, FiniteSets, FiniteSetsExt

CONSTANTS
    Sleeves,        \* the registered sleeves
    Markets,        \* the markets
    Assets,         \* the outcome tokens of all markets
    MarketOf,       \* the market an outcome token belongs to
    One,            \* the number of price ticks in $1.00
    Sizes,          \* the sizes a fill can have
    Prices,         \* the prices a fill can have, in ticks
    Gases,          \* the gas a fill can cost
    Unknown,        \* the winner of a market that resolved without naming one
    NotResolved     \* the winner of a market that has not resolved

ASSUME TrackerAssumption ==
    /\ MarketOf \in [Assets -> Markets]
    /\ One \in Nat
    /\ Sizes \subseteq Nat \ {0}
    /\ Prices \subseteq 0 .. One
    /\ Gases \subseteq Nat
    /\ Unknown \notin Assets /\ NotResolved \notin Assets
    /\ Unknown # NotResolved

VARIABLES
    positions,      \* self._positions; a key the dict does not hold maps to NoPosition
    booked,         \* booked[s][a]: sum of the pnl of the Trades emitted for s and a
    gasPaid,        \* self._gas_paid
    winnerOf        \* history: the winner passed to the last redeem_market of a market

vars == <<positions, booked, gasPaid, winnerOf>>

-----------------------------------------------------------------------------
(* Positions *)

Sides == {"buy", "sell"}
Opposite(side) == IF side = "buy" THEN "sell" ELSE "buy"
Keys == Sleeves \X Assets \X Sides

Position == [size : Nat, cost : Nat, gas : Nat]
NoPosition == [size |-> 0, cost |-> 0, gas |-> 0]
Open(k) == positions[k].size > 0

\* The part of total that belongs to `part` out of `whole` shares.
Share(total, part, whole) == (total * part) \div whole

\* Profit of a holder on `side` that entered for `entry` and leaves for `exit`.
Gain(side, entry, exit) == IF side = "buy" THEN exit - entry ELSE entry - exit

\* self._realized: every change of it is the pnl of a Trade that is emitted too.
Realized(s) == MapThenSumSet(LAMBDA a : booked[s][a], Assets)

Init ==
    /\ positions = [k \in Keys |-> NoPosition]
    /\ booked = [s \in Sleeves |-> [a \in Assets |-> 0]]
    /\ gasPaid = [s \in Sleeves |-> 0]
    /\ winnerOf = [m \in Markets |-> NotResolved]

-----------------------------------------------------------------------------
(* on_fill *)

\* No position on the other side: the fill opens a position or adds to it.
OpenOrAdd(s, a, side, size, price, gas) ==
    /\ ~Open(<<s, a, Opposite(side)>>)
    /\ positions' = [positions EXCEPT ![<<s, a, side>>] =
                        [size |-> @.size + size,
                         cost |-> @.cost + price * size,
                         gas  |-> @.gas + gas]]
    /\ gasPaid' = [gasPaid EXCEPT ![s] = @ + gas]
    /\ UNCHANGED <<booked, winnerOf>>

\* Mistakes: a partial close leaves the gas, or the cost, as it was.
Remainder_KeepsGas(pos, part) ==
    [size |-> pos.size - part, cost |-> pos.cost - Share(pos.cost, part, pos.size),
     gas |-> pos.gas]
Remainder_KeepsCost(pos, part) ==
    IF part = pos.size THEN NoPosition
    ELSE [size |-> pos.size - part, cost |-> pos.cost,
          gas |-> pos.gas - Share(pos.gas, part, pos.size)]

\* What stays of a position once `part` of its shares are closed.
Remainder(pos, part) ==
    IF part = pos.size
    THEN NoPosition
    ELSE [size |-> pos.size - part,
          cost |-> pos.cost - Share(pos.cost, part, pos.size),
          gas  |-> pos.gas - Share(pos.gas, part, pos.size)]

\* The position that the rest of a closing fill opens on the fill's own side.
Leftover(size, price, gas) == [size |-> size, cost |-> price * size, gas |-> gas]

\* Mistake: a short that is bought back books the profit of a long.
ClosePnl_LongOnly(side, pos, part, price, gas) ==
    Gain("buy", Share(pos.cost, part, pos.size), price * part)
       - (Share(pos.gas, part, pos.size) + gas)

\* pnl of closing `part` shares of pos against a fill at this price and gas.
ClosePnl(side, pos, part, price, gas) ==
    Gain(side, Share(pos.cost, part, pos.size), price * part)
       - (Share(pos.gas, part, pos.size) + gas)

\* _close_against: the fill meets a position on the other side.
CloseAgainst(s, a, side, size, price, gas) ==
    LET key  == <<s, a, Opposite(side)>>
        pos  == positions[key]
        part == IF pos.size <= size THEN pos.size ELSE size
    IN  /\ Open(key)
        /\ positions' = [positions EXCEPT
                            ![key] = Remainder(pos, part),
                            ![<<s, a, side>>] =
                               IF size > part THEN Leftover(size - part, price, gas) ELSE @]
        /\ booked' = [booked EXCEPT ![s][a] =
                         @ + ClosePnl(Opposite(side), pos, part, price, gas)]
        /\ gasPaid' = [gasPaid EXCEPT ![s] = @ + gas]
        /\ UNCHANGED winnerOf

\* A MISSED fill and a fill of size 0 return before anything is changed.
OnFill(s, a, side, size, price, gas) ==
    \/ OpenOrAdd(s, a, side, size, price, gas)
    \/ CloseAgainst(s, a, side, size, price, gas)

-----------------------------------------------------------------------------
(* redeem_market *)

\* The exit price of one share at resolution.
ExitPrice(side, won) == IF won THEN (IF side = "buy" THEN One ELSE 0)
                               ELSE (IF side = "buy" THEN 0 ELSE One)

\* An unknown winner closes at the average entry, which costs only the gas.
ExitValue(k, winner) ==
    IF winner = Unknown
    THEN positions[k].cost
    ELSE positions[k].size * ExitPrice(k[3], k[2] = winner)

RedemptionPnl(k, winner) ==
    Gain(k[3], positions[k].cost, ExitValue(k, winner)) - positions[k].gas

\* Every position on the market is settled and removed, in all sleeves.
RedeemMarket(m, winner) ==
    /\ positions' = [k \in Keys |->
                        IF MarketOf[k[2]] = m THEN NoPosition ELSE positions[k]]
    /\ booked' = [s \in Sleeves |-> [a \in Assets |->
                     IF MarketOf[a] = m
                     THEN booked[s][a] + RedemptionPnl(<<s, a, "buy">>, winner)
                                       + RedemptionPnl(<<s, a, "sell">>, winner)
                     ELSE booked[s][a]]]
    /\ winnerOf' = [winnerOf EXCEPT ![m] = winner]
    /\ UNCHANGED gasPaid

-----------------------------------------------------------------------------
Winners(m) == {a \in Assets : MarketOf[a] = m} \cup {Unknown}

Next ==
    \/ \E s \in Sleeves, a \in Assets, side \in Sides,
          size \in Sizes, price \in Prices, gas \in Gases :
             OnFill(s, a, side, size, price, gas)
    \/ \E m \in Markets : \E winner \in Winners(m) : RedeemMarket(m, winner)

Spec == Init /\ [][Next]_vars

-----------------------------------------------------------------------------
(* Properties *)

\* Type invariant.  (A closed key is NoPosition: no cost and no gas are left
\* behind on a position that has been closed.)
TypeOK ==
    /\ positions \in [Keys -> Position]
    /\ \A k \in Keys : ~Open(k) => positions[k] = NoPosition
    /\ booked \in [Sleeves -> [Assets -> Int]]
    /\ gasPaid \in [Sleeves -> Nat]
    /\ winnerOf \in [Markets -> Assets \cup {Unknown, NotResolved}]

\* A sleeve is never long and short of the same token at once, whatever the
\* order of its fills, partial closes and reversals: on_fill nets them.
OneSided ==
    \A s \in Sleeves, a \in Assets :
        ~(Open(<<s, a, "buy">>) /\ Open(<<s, a, "sell">>))

\* The average entry price of a position stays between $0 and $1 through any
\* sequence of averaging and partial closes: avg_entry <= 1.
EntryWithinPayout ==
    \A k \in Keys : positions[k].cost <= One * positions[k].size

-----------------------------------------------------------------------------
(* Refinement: the tracker keeps the accounts that Ledger describes. *)

\* The signed inventory of s in a.
NetOf(s, a) == positions[<<s, a, "buy">>].size - positions[<<s, a, "sell">>].size

\* The money that moved: what was booked, less what is tied up in open
\* positions (cost of the longs, gas), plus what the open shorts were sold for.
CashOf(s, a) ==
    booked[s][a]
      - positions[<<s, a, "buy">>].cost + positions[<<s, a, "sell">>].cost
      - positions[<<s, a, "buy">>].gas - positions[<<s, a, "sell">>].gas

L == INSTANCE Ledger WITH
        net <- [s \in Sleeves |-> [a \in Assets |-> NetOf(s, a)]],
        cash <- [s \in Sleeves |-> [a \in Assets |-> CashOf(s, a)]]

\* What a fill adds to the inventory.
Signed(side, size) == IF side = "buy" THEN size ELSE -size

\* A fill with gas turns a long into a short or a short into a long.
ReversalWithGas(s, a) ==
    /\ \/ NetOf(s, a) > 0 /\ NetOf(s, a)' < 0
       \/ NetOf(s, a) < 0 /\ NetOf(s, a)' > 0
    /\ gasPaid'[s] > gasPaid[s]

\* Some sleeve is short of a token of the market.
Shorted(m) == \E s \in Sleeves, a \in Assets : MarketOf[a] = m /\ NetOf(s, a) < 0

\* Every history of fills and resolutions moves exactly the inventory and the
\* cash a plain ledger moves: averaging, partial closes, reversals and
\* redemption create and lose no share and no tick.  Two amounts of cash are
\* left open, because there the code is not a plain account: the gas of a fill
\* that reverses a position, and what redemption takes from a short.  The
\* inventory, and every other account, are exact in those steps too.
KeepsTheLedger ==
    /\ L!Init
    /\ [][ \/ L!Next
           \/ \E s \in Sleeves, a \in Assets, size \in Sizes, side \in Sides :
                 ReversalWithGas(s, a) /\ L!Trade(s, a, Signed(side, size))
           \/ \E m \in Markets : \E winner \in Winners(m) \ {Unknown} :
                 Shorted(m) /\ L!SettleLongs(m, winner) ]_vars

=============================================================================
