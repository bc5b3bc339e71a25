---------------------------- MODULE MCPeriodicJobs ----------------------------
(* PeriodicJobs with a tick of 30 seconds and a day of one minute.  Prints are *)
(* at the price of the fill or far below it, so that a buyer may have been     *)
(* picked off and a seller may have sold where nobody bought.                  *)
EXTENDS PeriodicJobs
MCOrders ==
    {[side |-> "buy", kind |-> "maker", flag |-> "clean"],
     [side |-> "sell", kind |-> "maker", flag |-> "thin_market"],
     [side |-> "buy", kind |-> "missed", flag |-> "clean"]}
MCReplays == {[signals |-> 30, realized |-> 1, trades |-> <<[exit |-> 0, pnl |-> -5], [exit |-> 1, pnl |-> 6]>>]}
MCPlans ==
    {[jobs |-> {}, events |-> 6, stops |-> TRUE, boots |-> 0, ends |-> 6],
     [jobs |-> {"aggregator", "retention"}, events |-> 2, stops |-> FALSE, boots |-> 0, ends |-> 6],
     [jobs |-> {"aggregator"}, events |-> 1, stops |-> TRUE, boots |-> 1, ends |-> 5],
     [jobs |-> {"fill_validator"}, events |-> 2, stops |-> FALSE, boots |-> 0, ends |-> 6],
     [jobs |-> {"retention", "fill_validator"}, events |-> 1, stops |-> FALSE, boots |-> 1, ends |-> 6],
     [jobs |-> {"aggregator", "retention", "fill_validator"}, events |-> 0, stops |-> TRUE, boots |-> 0, ends |-> 6],
     [jobs |-> {}, events |-> 4, stops |-> TRUE, boots |-> 1, ends |-> 0],
     [jobs |-> {"pnl_snapshotter"}, events |-> 0, stops |-> FALSE, boots |-> 2, ends |-> 2],
     [jobs |-> {"pnl_snapshotter"}, events |-> 0, stops |-> FALSE, boots |-> 0, ends |-> 5],
     [jobs |-> {"pnl_snapshotter"}, events |-> 1, stops |-> FALSE, boots |-> 0, ends |-> 1]}
PromotionPlans ==
    {[jobs |-> {"pnl_snapshotter"}, events |-> 1, stops |-> FALSE, boots |-> 1, ends |-> 3]}
=============================================================================
