---------------------------- MODULE MarketAssets ----------------------------
(* MarketMeta of src/src/core/events.py as far as strategies and discovery *)
(* need it: the assets of each market.  Asset ids have an order.           *)
EXTENDS Naturals, FiniteSets

CONSTANTS
    Markets,
    Assets,         \* a set of numbers
    MarketOf        \* the market of an asset

ASSUME AssetsAssumption ==
    /\ Assets \subseteq Nat /\ IsFiniteSet(Assets)
    /\ MarketOf \in [Assets -> Markets]
=============================================================================
