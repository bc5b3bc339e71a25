------------------------- MODULE MCPositionTracker --------------------------
(***************************************************************************)
(* PositionTracker for TLC: the number of fills and redemptions is bounded *)
(* by MaxSteps; nothing else of the tracker is.                            *)
(***************************************************************************)
EXTENDS PositionTracker

CONSTANTS a1, a2, m1, MaxSteps

VARIABLE steps          \* fills and redemptions so far

MCMarkets == {m1}
MCAssets == {a1, a2}
MCMarketOf == [a \in MCAssets |-> m1]

MCInit == Init /\ steps = 0
MCNext == steps < MaxSteps /\ steps' = steps + 1 /\ Next
MCSpec == MCInit /\ [][MCNext]_<<vars, steps>>
=============================================================================
