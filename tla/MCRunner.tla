------------------------------ MODULE MCRunner ------------------------------
(***************************************************************************)
(* Runner for TLC: the values its configurations choose from.  Every price *)
(* is $1.00, one tick, and gas is free: money is PositionTracker's         *)
(* business, here it only counts against the exposure cap.  Prints are     *)
(* bounded by the orders: one that touches no resting order changes        *)
(* nothing that an event without interest does not change too.             *)
(*                                                                         *)
(* A behaviour starts by choosing a plan, which splits one large state     *)
(* space into three that interact little: caps on two tokens of sleeves of *)
(* both modes, and orders and resolutions of one token, while every write  *)
(* succeeds; and what failed writes and a crash make of two buys of one    *)
(* token.  None of the three follows the position rows, which nothing      *)
(* reads; "all" is everything, for the claims that fail.                   *)
(***************************************************************************)
EXTENDS Runner, TLC

CONSTANTS full, signal, a1, a2, m1, Plans

VARIABLE plan

MCOneMarketOf == [a \in Assets |-> m1]
MCMode == [s \in Sleeves |-> IF s = full THEN "live_full" ELSE "live_signal"]
MCFullOnly == <<full>>
MCTwoModes == <<signal, full>>

MCSymmetry == Permutations(Assets)

\* The order row that a task awaits is written.
OrderRowsSucceed ==
    \A t \in Tasks : At(t, "order row") /\ ~At(t, "order row")' => row'[task[t].cur].status = "open"

OneToken == \A o, p \in Orders :
    sent'[o] # NoSignal /\ sent'[p] # NoSignal => sent'[o].asset = sent'[p].asset
AllFull == \A o \in Orders : sent'[o] # NoSignal => sent'[o].sleeve = full
AllBuys == \A o \in Orders : sent'[o] # NoSignal => sent'[o].side = "buy"

Calm == UNCHANGED <<mirror, restarts, rowHistory>> /\ OrderRowsSucceed
Caps == Calm /\ UNCHANGED winnerOf
Settling == Calm /\ OneToken /\ AllFull
Rough == UNCHANGED <<mirror, winnerOf>> /\ OneToken /\ AllFull /\ AllBuys

MCInit == RunnerInit /\ plan \in Plans
MCNext ==
    /\ RunnerNext
    /\ plan = "caps" => Caps
    /\ plan = "settling" => Settling
    /\ plan = "rough" => Rough
    /\ UNCHANGED plan
MCSpec == MCInit /\ [][MCNext]_<<runnerVars, plan>>
=============================================================================
