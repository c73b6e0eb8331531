----------------------------- MODULE MCOrderFlow -----------------------------
(***************************************************************************)
(* Instances of OrderFlow for TLC.                                         *)
(***************************************************************************)
EXTENDS MCPipeline, OrderFlow

\* A funded account with small caps, so that every pre-trade rule can fire, whose
\* profits are paid out; the account may still have to earn its funding.
FlowPlan ==
    [OrderPlan EXCEPT !.profit_target_pct = 8, !.time_limit_days = None,
                      !.min_profitable_days = None, !.qualifying_day_pct = None,
                      !.inactivity_days = None]
FlowEvents == {"AccountStarted", "TradeFilled", "Tick", "OrderSubmitted", "PayoutRequest",
               "PayoutApprove"}

\* Orders the rules accept, refuse and ignore, and the fills of the accepted ones.
FlowOrders == {OrderOf("Open", "Buy", 2, None, TRUE), OrderOf("Open", "Sell", 3, 6000, FALSE),
               OrderOf("Reverse", "Buy", 1, None, FALSE),
               [OrderOf("Close", "Sell", 1, 6000, FALSE) EXCEPT !.in_news = TRUE]}
FlowFills == {Fill("Exit", 500), [Fill("Exit", -200) EXCEPT !.cost = 100], Fill("Entry", 0),
              Fill("Reverse", 0), [Fill("Exit", 0) EXCEPT !.has_exit = FALSE]}
FlowQuotes == {[equity |-> 10800, balance |-> 10800]}

\* No action reads the answer of the last call.
FlowView == <<acct, now, calls, hist, replayed, working>>
=============================================================================
