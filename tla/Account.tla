------------------------------ MODULE Account ------------------------------
(***************************************************************************)
(* The account aggregate of core/account.rs and the state transformers of  *)
(* engine/state.rs.  An account is one record; every transformer is an     *)
(* operator from accounts to accounts, as `AccountState` methods consume   *)
(* and return `self`.                                                      *)
(*                                                                         *)
(* Abstractions.  Money is an integer number of cents.  A timestamp is an  *)
(* integer; a day is DayLength timestamps long and a trading-day start is  *)
(* represented by its day number (`trading_day_start` with a fixed offset: *)
(* time zones with DST are not modelled).  `account_type` is always equal  *)
(* to `plan.phase` and is merged with it.  `estimated_equity`,             *)
(* `estimated_balance`, the commission and swap totals, ids and tenants    *)
(* are never read by a transition and are left out.                        *)
(***************************************************************************)
EXTENDS Integers, FiniteSets, Sequences

CONSTANTS
    None,        \* Rust's Option::None
    DayLength,   \* timestamps per trading day
    Plan         \* the ChallengePlan of the account, a record (its phase is in the account)

Phase == {"Phase1", "Phase2", "Funded"}

Status == {"Pending", "Active", "TargetHitPending", "Passed", "Failed", "Funded",
           "PayoutPending", "EmergencyStopped", "Closed"}

is_breach_terminal(s) == s \in {"Failed", "EmergencyStopped"}

\* evaluation_mode() = Skip: the HTTP service does not evaluate such an account.
is_skipped(s) == s \in {"Pending", "Passed", "Failed", "Closed", "EmergencyStopped"}

Option(S) == S \cup {None}

\* ChallengePlan: percentages are whole percents, 0 or None disables a rule.
\* qualifying_day_pct is the larger of the two qualifying-day thresholds (the
\* code requires both of the same |P&L|); minimum_payout = None stands for a
\* plan without payout_config.
PlanType ==
    [initial_balance : Nat \ {0}, profit_target_pct : Nat,
     max_daily_drawdown_pct : Nat, max_total_drawdown_pct : Nat,
     max_loss_reference : {"Static", "Trailing", "EodTrailing", "IntradayTrail"},
     daily_loss_type : {"None", "PctInitial", "PctPriorDay", "TrailingIntradayHigh"},
     drawdown_on_balance : BOOLEAN, daily_loss_soft : BOOLEAN,
     eod_trail_locks_at_start : BOOLEAN, trailing_drawdown_pct : Nat,
     min_trading_days : Nat, min_profitable_days : Option(Nat),
     qualifying_day_pct : Option(Nat), time_limit_days : Option(Nat),
     inactivity_days : Option(Nat), consistency_pct : Option(Nat),
     consistency_type : {"None", "BestDayPctOfTotal", "BestDayPctOfPositiveDays"},
     consistency_applies_on_funded_stage : BOOLEAN,
     max_daily_trades : Option(Nat), max_open_positions : Option(Nat),
     max_position_lots : Option(Nat), max_total_lots : Option(Nat),
     per_trade_max_loss_pct : Option(Nat), per_trade_max_loss_money : Option(Nat),
     cooldown : Nat,
     hft_min_round_trip : Option(Nat), require_stop_loss : BOOLEAN,
     require_take_profit : BOOLEAN, hedging_allowed : BOOLEAN,
     news_trading_allowed : BOOLEAN, overnight_holding_allowed : BOOLEAN,
     weekend_holding_allowed : BOOLEAN, grid_trading_allowed : BOOLEAN,
     trading_hours : Option(Nat \X Nat), leverage : Nat,
     refund_fee_amount : Nat, minimum_payout : Option(Nat), payout_gap : Option(Nat),
     trader_share_pct : Seq(Nat)]

ASSUME DayLengthAssumption == DayLength \in Nat \ {0}
ASSUME NoneAssumption == None \notin Int
ASSUME PlanAssumption == Plan \in PlanType
----------------------------------------------------------------------------
trading_day_start(t) == t \div DayLength

Greater(x, y) == IF x > y THEN x ELSE y
Lesser(x, y) == IF x < y THEN x ELSE y

\* An open position; `lots` is its open quantity through the instrument spec, `price`
\* its avg_entry_price.
Position == [id : Nat, symbol : STRING, side : {"Buy", "Sell"}, lots : Nat, price : Nat]

\* A fill already counted for the day; `id` is its place in the day's list.
DayTrade == [id : Nat, executed_at : Int, trade_side : {"Entry", "Exit", "Reverse"},
             symbol : STRING, lots : Nat, price : Nat, net : Int]

AccountType ==
    [status : Status, phase : Phase, status_before_breach : Option(Status),
     started_at : Option(Int), deadline : Option(Int), target_reached_at : Option(Int),
     active_trading_days : Nat, trading_day_index : Nat, day_counted_today : BOOLEAN,
     current_trading_day_start : Option(Int), last_tick_ts : Option(Int),
     balance : Int, equity : Int, peak_balance : Int, peak_equity : Int,
     intraday_peak_equity : Int, day_start_balance : Int, day_start_equity : Int,
     today_realized_pnl : Int, total_realized_pnl : Int, largest_day_profit : Int,
     largest_day_loss : Int, sum_positive_days_profit : Int,
     profitable_days_count : Nat, qualifying_trading_days_count : Nat,
     last_trade_at : Option(Int), open_positions : SUBSET Position,
     today_trades : SUBSET DayTrade, payout_count : Nat,
     balance_at_last_payout : Int, last_payout_at : Option(Int), refund_used : BOOLEAN]

\* Account::new
NewAccount(ph) ==
    [status |-> "Pending", phase |-> ph, status_before_breach |-> None,
     started_at |-> None, deadline |-> None, target_reached_at |-> None,
     active_trading_days |-> 0, trading_day_index |-> 0, day_counted_today |-> FALSE,
     current_trading_day_start |-> None, last_tick_ts |-> None,
     balance |-> Plan.initial_balance, equity |-> Plan.initial_balance,
     peak_balance |-> Plan.initial_balance, peak_equity |-> Plan.initial_balance,
     intraday_peak_equity |-> Plan.initial_balance,
     day_start_balance |-> Plan.initial_balance, day_start_equity |-> Plan.initial_balance,
     today_realized_pnl |-> 0, total_realized_pnl |-> 0, largest_day_profit |-> 0,
     largest_day_loss |-> 0, sum_positive_days_profit |-> 0,
     profitable_days_count |-> 0, qualifying_trading_days_count |-> 0,
     last_trade_at |-> None, open_positions |-> {}, today_trades |-> {},
     payout_count |-> 0, balance_at_last_payout |-> Plan.initial_balance,
     last_payout_at |-> None, refund_used |-> FALSE]
----------------------------------------------------------------------------
(* Account::start: the caller has checked that the status is Pending. *)
start(a, at) ==
    [a EXCEPT !.status = "Active", !.started_at = at,
              !.current_trading_day_start = trading_day_start(at),
              !.deadline = IF Plan.time_limit_days = None THEN @
                           ELSE at + Plan.time_limit_days * DayLength]

net_profit(a) == a.balance - Plan.initial_balance

(* apply_realized_pnl: the equity is set to the new balance, and neither    *)
(* equity peak is raised.                                                   *)
apply_realized_pnl(a, net, at) ==
    [a EXCEPT !.balance = @ + net, !.equity = a.balance + net,
              !.peak_balance = Greater(@, a.balance + net),
              !.today_realized_pnl = @ + net, !.total_realized_pnl = @ + net,
              !.last_trade_at = at]

update_equity(a, equity) ==
    [a EXCEPT !.equity = equity, !.peak_equity = Greater(@, equity),
              !.intraday_peak_equity = Greater(@, equity)]

update_balance(a, balance) ==
    [a EXCEPT !.balance = balance, !.peak_balance = Greater(@, balance)]

\* Mutant of mark_active_trading_day: every fill counts a day.
mark_active_every_fill(a) ==
    [a EXCEPT !.active_trading_days = @ + 1, !.day_counted_today = TRUE]

mark_active_trading_day(a) ==
    IF a.day_counted_today THEN a
    ELSE [a EXCEPT !.active_trading_days = @ + 1, !.day_counted_today = TRUE]

\* The share of rollover_day that runs only for a day with trades.
freeze_day(a) ==
    LET today == a.today_realized_pnl
        size == IF today < 0 THEN -today ELSE today
    IN  [a EXCEPT
           !.largest_day_profit = Greater(@, today),
           !.largest_day_loss = Lesser(@, today),
           !.sum_positive_days_profit = IF today > 0 THEN @ + today ELSE @,
           !.profitable_days_count = IF today > 0 THEN @ + 1 ELSE @,
           !.qualifying_trading_days_count =
               IF /\ Plan.qualifying_day_pct # None
                  /\ 100 * size >= Plan.qualifying_day_pct * Plan.initial_balance
               THEN @ + 1 ELSE @,
           !.active_trading_days = IF a.day_counted_today THEN @ ELSE @ + 1]

\* The share of rollover_day that runs for every day: `day` is the new day.
open_day(a, day) ==
    [a EXCEPT !.trading_day_index = @ + 1,
              !.day_start_balance = a.balance, !.day_start_equity = a.equity,
              !.intraday_peak_equity = a.equity, !.today_realized_pnl = 0,
              !.today_trades = {}, !.day_counted_today = FALSE,
              !.current_trading_day_start = day]

rollover_day(a, had_trades, day) ==
    open_day(IF had_trades THEN freeze_day(a) ELSE a, day)

\* The day rollover_day moves to when it is given no timestamp.
following_day(a, now) ==
    1 + (IF a.current_trading_day_start = None THEN trading_day_start(now)
         ELSE a.current_trading_day_start)

can_upgrade(a) == a.phase \in {"Phase1", "Phase2"}

next_phase_for(phase) ==
    CASE phase = "Phase1" -> "Phase2" [] phase = "Phase2" -> "Funded" [] OTHER -> "Phase1"

\* Mutant of mark_target_reached: the pending status is set from any status.
mark_target_from_any(a, at) ==
    IF a.target_reached_at # None THEN a
    ELSE [a EXCEPT !.target_reached_at = at, !.status = "TargetHitPending"]

mark_target_reached(a, at) ==
    IF a.target_reached_at # None THEN a
    ELSE [a EXCEPT !.target_reached_at = at,
                   !.status = IF @ = "Active" THEN "TargetHitPending" ELSE @]

emergency_stop(a) ==
    [a EXCEPT !.status_before_breach = IF @ = None THEN a.status ELSE @,
              !.status = "EmergencyStopped"]


(* clear_breach: the caller has checked is_breach_terminal(a.status).       *)
clear_breach(a) ==
    [a EXCEPT !.status = IF a.status_before_breach # None THEN a.status_before_breach
                         ELSE IF a.phase = "Funded" THEN "Funded" ELSE "Active",
              !.status_before_breach = None]

(* mark_payout_pending: the caller has checked Funded or PayoutPending.     *)
mark_payout_pending(a) == [a EXCEPT !.status = "PayoutPending"]
============================================================================
