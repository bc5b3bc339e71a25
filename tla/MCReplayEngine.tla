--------------------------- MODULE MCReplayEngine ---------------------------
(***************************************************************************)
(* ReplayEngine for TLC: events of the kinds the engine tells apart, on    *)
(* every tape that fits the bounds.                                        *)
(***************************************************************************)
EXTENDS ReplayEngine

MCPayloads == [kind : {"snapshot", "delta", "print"}, key : Tokens]
=============================================================================
