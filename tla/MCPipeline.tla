----------------------------- MODULE MCPipeline -----------------------------
(***************************************************************************)
(* Instances of Pipeline for TLC: plans and the events submitted to them.  *)
(***************************************************************************)
EXTENDS Pipeline

\* A two-phase plan: 10% target, 5% daily and 10% total drawdown, $100 account.
BasePlan ==
    [initial_balance |-> 10000, profit_target_pct |-> 10,
     max_daily_drawdown_pct |-> 5, max_total_drawdown_pct |-> 10,
     max_loss_reference |-> "Static", daily_loss_type |-> "PctPriorDay",
     drawdown_on_balance |-> FALSE, daily_loss_soft |-> FALSE,
     eod_trail_locks_at_start |-> FALSE, trailing_drawdown_pct |-> 0,
     min_trading_days |-> 1, min_profitable_days |-> None,
     qualifying_day_pct |-> None, time_limit_days |-> 2,
     inactivity_days |-> None, consistency_pct |-> 50,
     consistency_type |-> "BestDayPctOfPositiveDays",
     consistency_applies_on_funded_stage |-> FALSE,
     max_daily_trades |-> None, max_open_positions |-> None,
     max_position_lots |-> None, max_total_lots |-> None,
     per_trade_max_loss_pct |-> None, per_trade_max_loss_money |-> None, cooldown |-> 0,
     hft_min_round_trip |-> None, require_stop_loss |-> FALSE,
     require_take_profit |-> FALSE, hedging_allowed |-> TRUE,
     news_trading_allowed |-> TRUE, overnight_holding_allowed |-> TRUE,
     weekend_holding_allowed |-> TRUE, grid_trading_allowed |-> TRUE,
     trading_hours |-> None, leverage |-> 1,
     refund_fee_amount |-> 100, minimum_payout |-> 200, payout_gap |-> 2,
     trader_share_pct |-> <<80, 90>>]

Fill(side, pnl) ==
    [trade_side |-> side, symbol |-> "EURUSD", side |-> "Buy", lots |-> 1,
     price |-> 6000, pnl |-> pnl, cost |-> 0, has_exit |-> side = "Exit"]

OrderOf(kind, side, lots, price, sl) ==
    [kind |-> kind, symbol |-> "EURUSD", side |-> side, lots |-> lots, price |-> price,
     stop_loss |-> sl, take_profit |-> FALSE, in_news |-> FALSE]

\* Stops, breaches and overrides of an account with a position: a hit of the target, a
\* loss past the floor.
StopEvents == {"AccountStarted", "TradeFilled", "Tick", "EmergencyStop", "OverrideBreach"}
StopFills == {Fill("Entry", 0)}
BreachFills == {Fill("Exit", 600)}
BreachQuotes == {[equity |-> 11000, balance |-> 11000], [equity |-> 8900, balance |-> 10000]}
NowOnly == {0}

\* Pre-trade and post-trade rules: small caps so that every rule can fire.
OrderPlan ==
    [BasePlan EXCEPT !.max_daily_trades = 2, !.max_open_positions = 1,
                     !.max_position_lots = 2, !.max_total_lots = 3,
                     !.per_trade_max_loss_pct = 2,
                     !.per_trade_max_loss_money = 150, !.cooldown = 1,
                     !.hft_min_round_trip = 0, !.require_stop_loss = TRUE,
                     !.require_take_profit = TRUE, !.hedging_allowed = FALSE,
                     !.news_trading_allowed = FALSE, !.overnight_holding_allowed = FALSE,
                     !.weekend_holding_allowed = FALSE, !.grid_trading_allowed = FALSE,
                     !.trading_hours = <<1, 0>>, !.min_profitable_days = 1,
                     !.qualifying_day_pct = 1, !.inactivity_days = 1]

\* Exits on both sides of the loss limit, one of them within the share of the balance
\* and past the amount of money.
LossPlan == [BasePlan EXCEPT !.per_trade_max_loss_pct = 2, !.per_trade_max_loss_money = 150]
LossEvents == {"AccountStarted", "TradeFilled"}
LossFills == {Fill("Entry", 0), Fill("Exit", -100), Fill("Exit", -180)}

\* Days of trading on both sides of a promotion, rolled only by the pipeline.
DayCountEvents == {"AccountStarted", "TradeFilled", "Tick"}
DayQuotes == {[equity |-> 11000, balance |-> 11000]}
DayCountFills == {Fill("Exit", 100)}

\* The same events on an account that is promoted to the funded phase.
FundedEvents == DayCountEvents
============================================================================
