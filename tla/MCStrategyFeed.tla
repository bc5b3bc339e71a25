--------------------------- MODULE MCStrategyFeed ---------------------------
(***************************************************************************)
(* StrategyFeed for TLC: two markets of two legs.  A payout is 10; the     *)
(* tops are a narrow and a wide spread at the low end, and one without an  *)
(* offer.  Every strategy runs in a replay, and live with the pipes it     *)
(* needs; the other polling venues run beside a strategy they do not feed. *)
(*                                                                         *)
(* A cap of two is more than what one market has to offer: there only the  *)
(* assets of m1 have events, and it is repetition, resolution, restart and *)
(* order of time that matter.  A cap of one is what every strategy would   *)
(* exceed: there both markets have events, at tops with an offer and at    *)
(* one moment.  cross_outcome_arb, which reads neither clock nor metadata, *)
(* has no time and no listing of m2.                                       *)
(***************************************************************************)
EXTENDS StrategyFeed
CONSTANTS m1, m2, w1

MCMarkets == {m1, m2}
MCAssets == 1 .. 4
MCMarketOf == [a \in MCAssets |-> IF a <= 2 THEN m1 ELSE m2]
MCKinds == OnceKinds \cup CooledKinds
MCTops == {[bid |-> 2, ask |-> 3], [bid |-> 2, ask |-> 8], [bid |-> 2, ask |-> 0]}
MCEndTime == [m \in MCMarkets |-> 2]
MCTradeOf == [i \in 1 .. 3 |-> <<w1, IF i = 3 THEN m2 ELSE m1>>]

Deploy(kinds, limit, on) == {[kind |-> k, cap |-> limit, pipes |-> on] : k \in kinds}
MCDeployments ==
    Deploy(MCKinds, 1, {})
      \cup Deploy(MCKinds, 2, {})
      \cup Deploy({"cross_outcome_arb", "maker_passive"}, 2, {"polymarket_clob"})
      \cup UNION {Deploy({"whale_copy_eod"}, 2, {v}) : v \in Venues}

Beyond == {a \in Assets : MarketOf[a] = m2}
AtTwo ==
    /\ \A a \in Beyond : UNCHANGED <<books[a], recent[a]>>
    /\ kind = "cross_outcome_arb" => UNCHANGED <<now, stage[m2]>>
AtOne ==
    /\ UNCHANGED now
    /\ \A a \in Assets : books'[a].seen => books'[a].ask > 0
MCNext == Next /\ (IF cap = 2 THEN AtTwo ELSE AtOne)
MCInit == Init /\ (kind = "cross_outcome_arb" => stage[m2] = "unlisted")
MCSpec == MCInit /\ [][MCNext]_vars
=============================================================================
