----------------------------- MODULE MCHttpApi -----------------------------
(***************************************************************************)
(* Instances of HttpApi for TLC.                                           *)
(***************************************************************************)
EXTENDS MCPipeline, HttpApi

\* A gain, and a loss past every limit.  The deadline can pass, and the trailing
\* drawdown is looser than the total one.
HttpQuotes == {[equity |-> 11000, balance |-> 11000], [equity |-> 8900, balance |-> 10000]}
HttpPlan == [BasePlan EXCEPT !.max_position_lots = 1, !.time_limit_days = 1,
                             !.trailing_drawdown_pct = 20]
HttpOrders == {OrderOf("Close", "Buy", 2, None, TRUE)}
StaleNowEarly == {-2, 0, 1}

\* No action reads the answer of the last call.
AccountView == <<acct, now, calls, hist>>

\* Ticks only, with a loss of the gain that is within the total limit.
HintEvents == {"AccountStarted", "Tick", "DayRollover"}
HintQuotes == HttpQuotes \cup {[equity |-> 10000, balance |-> 10000]}

\* The daily limit is a share of the initial balance.
PctInitialPlan == [HttpPlan EXCEPT !.daily_loss_type = "PctInitial"]
============================================================================
