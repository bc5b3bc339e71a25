--------------------------- MODULE MCReplayQueue ----------------------------
(***************************************************************************)
(* ReplayQueue for TLC: three jobs are enough for one to run, one to wait  *)
(* and one to arrive; two boots for a job to be cut off.                   *)
(***************************************************************************)
EXTENDS ReplayQueue

CONSTANTS j1, j2, j3
=============================================================================
