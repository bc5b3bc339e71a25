------------------------------- MODULE Ledger -------------------------------
(***************************************************************************)
(* What the paper accounts of a sleeve promise, without saying how         *)
(* positions are kept: for every sleeve and asset a signed inventory and   *)
(* the cash that buying, selling, gas and settlement have moved.  A fill   *)
(* moves shares against money at its price, a resolution turns every share *)
(* of the market into its payout.  There are no sides, no average prices   *)
(* and no partial closes here: those are PositionTracker's business.       *)
(*                                                                         *)
(* Every fill pays its gas once and a token is worth what it pays out, to  *)
(* its holder and to whoever is short of it.  Trade and SettleLongs are    *)
(* what is left of Fill and Settle when one amount of cash is left open.   *)
(***************************************************************************)
EXTENDS Integers

CONSTANTS
    Sleeves,        \* the sleeves that trade
    Markets,        \* the markets
    Assets,         \* the outcome tokens of all markets
    MarketOf,       \* the market an outcome token belongs to
    One,            \* the number of price ticks in the $1.00 a winning token pays
    Sizes,          \* the sizes a fill can have
    Prices,         \* the prices a fill can have, in ticks
    Gases,          \* the gas a fill can cost
    Unknown,        \* the winner of a market that resolved without naming one
    NotResolved     \* the winner of a market that has not resolved

VARIABLES
    net,            \* net[s][a]: signed number of tokens a that sleeve s holds
    cash,           \* cash[s][a]: money that trading a has brought sleeve s
    winnerOf        \* the winner that the last resolution of a market announced

vars == <<net, cash, winnerOf>>

Init ==
    /\ net = [s \in Sleeves |-> [a \in Assets |-> 0]]
    /\ cash = [s \in Sleeves |-> [a \in Assets |-> 0]]
    /\ winnerOf = [m \in Markets |-> NotResolved]

\* A fill of delta tokens (negative: sold).
Fill(s, a, delta, price, gas) ==
    /\ net' = [net EXCEPT ![s][a] = @ + delta]
    /\ cash' = [cash EXCEPT ![s][a] = @ - delta * price - gas]
    /\ UNCHANGED winnerOf

\* A fill of which only this much is said: one account traded delta tokens.
Trade(s, a, delta) ==
    /\ net' = [net EXCEPT ![s][a] = @ + delta]
    /\ cash' = [cash EXCEPT ![s][a] = cash'[s][a]]
    /\ UNCHANGED winnerOf

\* The value of holding q tokens (q < 0: being short of them) at resolution.
Payout(q, won) == q * (IF won THEN One ELSE 0)

\* A resolution takes the market's tokens out of every account.
Empties(m, winner) ==
    /\ winnerOf' = [winnerOf EXCEPT ![m] = winner]
    /\ net' = [s \in Sleeves |-> [a \in Assets |->
                  IF MarketOf[a] = m THEN 0 ELSE net[s][a]]]

Settle(m, winner) ==
    /\ Empties(m, winner)
    /\ cash' = [s \in Sleeves |-> [a \in Assets |->
                  IF MarketOf[a] = m
                  THEN cash[s][a] + Payout(net[s][a], a = winner)
                  ELSE cash[s][a]]]

\* A resolution that leaves open what the market's shorts cost.
SettleLongs(m, winner) ==
    /\ Empties(m, winner)
    /\ cash' = [s \in Sleeves |-> [a \in Assets |->
                  IF MarketOf[a] # m THEN cash[s][a]
                  ELSE IF net[s][a] < 0 THEN cash'[s][a]
                  ELSE cash[s][a] + Payout(net[s][a], a = winner)]]

\* A market resolves and nobody knows the winner: inventory is refunded at
\* some price per token between 0 and One, the ledger does not know which.
Void(m) ==
    /\ Empties(m, Unknown)
    /\ cash' \in [Sleeves -> [Assets -> Int]]
    /\ \A s \in Sleeves, a \in Assets :
          LET refund == cash'[s][a] - cash[s][a] IN
          /\ MarketOf[a] # m => refund = 0
          /\ net[s][a] >= 0 => 0 <= refund /\ refund <= One * net[s][a]
          /\ net[s][a] <= 0 => One * net[s][a] <= refund /\ refund <= 0

Next ==
    \/ \E s \in Sleeves, a \in Assets, q \in Sizes, price \in Prices, gas \in Gases :
          Fill(s, a, q, price, gas) \/ Fill(s, a, -q, price, gas)
    \/ \E m \in Markets :
          \/ \E winner \in {a \in Assets : MarketOf[a] = m} : Settle(m, winner)
          \/ Void(m)

Spec == Init /\ [][Next]_vars
=============================================================================
