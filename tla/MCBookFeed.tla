----------------------------- MODULE MCBookFeed -----------------------------
(* BookFeed with two assets, one per subscribe message, and two levels.    *)
(* One book starts full and the other empty, so that a first change can    *)
(* be a level that empties or one that appears.                            *)
EXTENDS BookFeed
CONSTANTS a1, a2, l1, l2
MCAssets == {a1, a2}
MCLevels == {l1, l2}
MCFirstBooks == {[a \in MCAssets |-> IF a = a1 THEN MCLevels ELSE {}]}
=============================================================================
