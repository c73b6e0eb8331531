-------------------------------- MODULE Rules --------------------------------
(***************************************************************************)
(* The rule library (rules/evaluators/*.rs) and the registry loop that     *)
(* runs it (rules/registry.rs).  One operator per rule, from the account   *)
(* `a` after the event was applied and the rule context `c` to a verdict.  *)
(* A rule that `is_enabled` excludes reports nothing, which the decision   *)
(* cannot tell from Pass.  Rules run with their plan parameters (no pack). *)
(*                                                                         *)
(* A context is [kind, broker_equity, order, submitted_at, trade,          *)
(* open_positions, today_trades, now]; broker_equity is None for an        *)
(* estimated equity input.  Comparisons of percentages are exact: money is *)
(* scaled by 1000 and a percentage p of x is 10 * p * x.                   *)
(*                                                                         *)
(* Three rules are left out.  copy_trading needs a fill and other          *)
(* accounts' trades in one context, lowcap_exposure an instrument spec:    *)
(* neither the pipeline nor the HTTP service supplies them.                *)
(* cross_account_hedging reads other accounts' trades and only warns.      *)
(***************************************************************************)
EXTENDS Account, Decision, FiniteSetsExt

CONSTANTS
    NightHours,      \* the in-day times overnight_holding forbids
    WeekendTimes,    \* the times weekend_holding forbids
    GridWindow       \* DEFAULT_MAX_WINDOW_MINUTES, in timestamps

Tolerance == 1          \* default tolerance_cents of the breach rules

PctOf(pct, x) == 10 * pct * x       \* thousandths of a cent
Milli(x) == 1000 * x

\* require_started and require_broker_equity, the gates of the drawdown rules.
has_inputs(a, c) == a.started_at # None /\ c.broker_equity # None

past_deadline(a, c) == a.deadline # None /\ c.now > a.deadline

is_open_order(c) == c.order # None /\ c.order.kind = "Open"

\* Anything but a close counts against the trade and position caps.
is_entry_order(c) == c.order # None /\ c.order.kind # "Close"
----------------------------------------------------------------------------
(* Drawdown rules *)

\* The (reference, floor) pair of MaxDrawdownRule, in thousandths.
max_drawdown_floor(a) ==
    LET p == Plan.max_total_drawdown_pct
        trail(peak) == [reference |-> Milli(peak), floor |-> Milli(peak) - PctOf(p, peak)]
        unlocked == Milli(a.day_start_balance) - PctOf(p, Plan.initial_balance)
    IN  CASE Plan.max_loss_reference = "Static" -> trail(Plan.initial_balance)
          [] Plan.max_loss_reference = "Trailing" -> trail(a.peak_balance)
          [] Plan.max_loss_reference = "EodTrailing" ->
               [reference |-> Milli(a.day_start_balance),
                floor |-> IF Plan.eod_trail_locks_at_start
                          THEN Lesser(unlocked, Milli(Plan.initial_balance)) ELSE unlocked]
          [] OTHER -> trail(IF Plan.drawdown_on_balance THEN a.peak_balance ELSE a.peak_equity)

max_drawdown(a, c) ==
    LET current == Milli(IF Plan.drawdown_on_balance THEN a.balance ELSE c.broker_equity)
        f == max_drawdown_floor(a)
        limit == Greater(f.reference - f.floor, 0)
    IN  IF Plan.max_total_drawdown_pct = 0 THEN "Pass"
        ELSE IF ~has_inputs(a, c) THEN "GapFlagged"
        ELSE IF current < f.floor - Milli(Tolerance) THEN "Liquidate"
        ELSE IF 10 * current <= 10 * f.floor + 8 * limit THEN "EarlyWarning"
        ELSE "Pass"

\* The (reference, drawdown) pair of DailyDrawdownRule.
daily_loss(a) ==
    LET current == IF Plan.drawdown_on_balance THEN a.balance ELSE a.equity
        day_start == IF Plan.drawdown_on_balance THEN a.day_start_balance
                     ELSE a.day_start_equity
        peak == IF Plan.drawdown_on_balance THEN a.peak_balance ELSE a.intraday_peak_equity
        from(x) == Greater(x - current, 0)
    IN  CASE Plan.daily_loss_type = "PctInitial" ->
               [reference |-> Plan.initial_balance, dd |-> from(day_start)]
          [] Plan.daily_loss_type = "PctPriorDay" ->
               [reference |-> day_start, dd |-> from(day_start)]
          [] OTHER -> [reference |-> peak, dd |-> from(peak)]

daily_drawdown(a, c) ==
    LET loss == daily_loss(a)
        limit == PctOf(Plan.max_daily_drawdown_pct, loss.reference)
    IN  IF Plan.max_daily_drawdown_pct = 0 THEN "Pass"
        ELSE IF ~has_inputs(a, c) THEN "GapFlagged"
        ELSE IF Plan.daily_loss_type = "None" THEN "Pass"
        ELSE IF Milli(loss.dd) > limit + Milli(Tolerance)
             THEN IF Plan.daily_loss_soft THEN "EarlyWarning" ELSE "Liquidate"
        ELSE IF 10 * Milli(loss.dd) >= 8 * limit THEN "EarlyWarning"
        ELSE "Pass"

trailing_drawdown(a, c) ==
    LET trail == PctOf(Plan.trailing_drawdown_pct, a.peak_equity)
        floor == Milli(a.peak_equity) - trail
        equity == Milli(c.broker_equity)
    IN  IF Plan.trailing_drawdown_pct = 0 THEN "Pass"
        ELSE IF ~has_inputs(a, c) THEN "GapFlagged"
        ELSE IF equity < floor THEN "Liquidate"
        ELSE IF 10 * equity < 10 * floor + 2 * trail THEN "EarlyWarning"
        ELSE "Pass"
----------------------------------------------------------------------------
(* Phase-completion rules *)

profit_target(a, c) ==
    LET target == PctOf(Plan.profit_target_pct, Plan.initial_balance)
    IN  IF target = 0 THEN "Pass"
        ELSE IF a.target_reached_at # None THEN "Pass"
        ELSE IF Milli(net_profit(a)) >= target THEN "TargetHit"
        ELSE IF past_deadline(a, c) THEN "Fail"
        ELSE "Pass"

\* The account's own deadline, or the plan's days from the start.
effective_deadline(a) ==
    IF a.deadline # None \/ Plan.time_limit_days = None \/ a.started_at = None THEN a.deadline
    ELSE a.started_at + Plan.time_limit_days * DayLength

\* Without a start to count the plan's days from the rule errs, which the registry
\* reports as a warning.
time_limit(a, c) ==
    LET deadline == effective_deadline(a)
    IN  IF deadline = None THEN IF Plan.time_limit_days # None THEN "Warn" ELSE "Pass"
        ELSE IF c.now > deadline THEN "Fail"
        ELSE IF /\ a.started_at # None
                /\ 10 * (c.now - a.started_at) > 9 * (deadline - a.started_at)
        THEN "Warn" ELSE "Pass"

\* min_trading_days and min_profitable_days: a count still short of its target.
day_count(a, c, required, actual) ==
    IF actual >= required THEN "Pass"
    ELSE IF past_deadline(a, c) THEN "Fail" ELSE "Warn"

min_trading_days(a, c) ==
    day_count(a, c, Plan.min_trading_days,
              IF Plan.qualifying_day_pct # None THEN a.qualifying_trading_days_count
              ELSE a.active_trading_days)

min_profitable_days(a, c) ==
    IF Plan.min_profitable_days = None THEN "Pass"
    ELSE day_count(a, c, Plan.min_profitable_days, a.profitable_days_count)

consistency(a, c) ==
    LET total == IF Plan.consistency_type = "BestDayPctOfTotal" THEN a.total_realized_pnl
                 ELSE a.sum_positive_days_profit
    IN  IF \/ Plan.consistency_pct = None \/ Plan.consistency_type = "None"
           \/ a.phase = "Funded" /\ ~Plan.consistency_applies_on_funded_stage
           \/ total <= 0 \/ a.largest_day_profit <= 0
        THEN "Pass"
        ELSE IF Milli(a.largest_day_profit) > PctOf(Plan.consistency_pct, total)
             THEN "Warn" ELSE "Pass"

inactivity(a, c) ==
    LET since == IF a.last_trade_at # None THEN a.last_trade_at ELSE a.started_at
        idle == IF c.now >= since THEN (c.now - since) \div DayLength
                ELSE -((since - c.now) \div DayLength)       \* num_days truncates
    IN  IF Plan.inactivity_days \in {None, 0} \/ since = None THEN "Pass"
        ELSE IF idle >= Plan.inactivity_days THEN "Fail"
        ELSE IF a.last_trade_at # None /\ idle >= Plan.inactivity_days - 1 THEN "Warn"
        ELSE "Pass"
----------------------------------------------------------------------------
(* Pre-trade rules: an order is [kind, symbol, side, lots, price,           *)
(* stop_loss, take_profit, in_news]                                         *)

max_daily_trades(a, c) ==
    IF /\ Plan.max_daily_trades # None /\ is_entry_order(c)
       /\ Cardinality(c.today_trades) + 1 > Plan.max_daily_trades
    THEN "Fail" ELSE "Pass"

\* Mutant of max_open_positions: the position the order would open is not counted.
max_open_positions_held(a, c) ==
    IF /\ Plan.max_open_positions # None /\ is_entry_order(c)
       /\ Cardinality(c.open_positions) > Plan.max_open_positions
    THEN "Fail" ELSE "Pass"

max_open_positions(a, c) ==
    IF /\ Plan.max_open_positions # None /\ is_entry_order(c)
       /\ Cardinality(c.open_positions) + 1 > Plan.max_open_positions
    THEN "Fail" ELSE "Pass"

max_position_size(a, c) ==
    IF Plan.max_position_lots = None \/ c.order = None THEN "Pass"
    ELSE IF c.order.lots > Plan.max_position_lots THEN "Fail"
    ELSE IF 10 * c.order.lots > 8 * Plan.max_position_lots THEN "Warn" ELSE "Pass"

max_total_lots(a, c) ==
    LET held == MapThenSumSet(LAMBDA p : p.lots, c.open_positions)
        asked == IF c.order = None THEN 0 ELSE c.order.lots
    IN  IF Plan.max_total_lots # None /\ held + asked > Plan.max_total_lots
        THEN "Fail" ELSE "Pass"

hedging(a, c) ==
    IF /\ ~Plan.hedging_allowed /\ is_open_order(c)
       /\ \E p \in c.open_positions : p.symbol = c.order.symbol /\ p.side # c.order.side
    THEN "Fail" ELSE "Pass"

news_trading(a, c) ==
    IF ~Plan.news_trading_allowed /\ c.order # None /\ c.order.in_news
    THEN "Fail" ELSE "Pass"

sl_required(a, c) ==
    IF Plan.require_stop_loss /\ is_open_order(c) /\ ~c.order.stop_loss
    THEN "Fail" ELSE "Pass"

tp_required(a, c) ==
    IF Plan.require_take_profit /\ is_open_order(c) /\ ~c.order.take_profit
    THEN "Warn" ELSE "Pass"

cooldown(a, c) ==
    LET last == CHOOSE t \in c.today_trades : \A u \in c.today_trades : u.id <= t.id
    IN  IF /\ Plan.cooldown > 0 /\ c.order # None /\ c.today_trades # {}
           /\ c.submitted_at - last.executed_at < Plan.cooldown
        THEN "Warn" ELSE "Pass"

\* A window whose start is past its end wraps midnight.
trading_hours(a, c) ==
    LET hour == c.submitted_at % DayLength
        from == Plan.trading_hours[1]
        to == Plan.trading_hours[2]
    IN  IF Plan.trading_hours = None \/ c.order = None THEN "Pass"
        ELSE IF IF from <= to THEN from <= hour /\ hour < to ELSE from <= hour \/ hour < to
        THEN "Pass" ELSE "Fail"

\* Both sides are multiplied by the leverage.  Dividing by a leverage of zero panics, and
\* the registry turns that into a warning.  An order of any kind is checked.
margin(a, c) ==
    LET used == MapThenSumSet(LAMBDA p : p.lots * p.price, c.open_positions)
    IN  IF c.order = None \/ c.order.lots = 0 \/ c.order.price = None THEN "Pass"
        ELSE IF Plan.leverage = 0 THEN "Warn"
        ELSE IF c.order.lots * c.order.price > a.equity * Plan.leverage - used
        THEN "Fail" ELSE "Pass"

\* The fills of the day in one direction, and the order they were executed in.
fills_of(c, side) ==
    {t \in c.today_trades : t.symbol = c.order.symbol /\ t.trade_side = side}

executed_before(t, u) ==
    \/ t.executed_at < u.executed_at
    \/ t.executed_at = u.executed_at /\ t.id < u.id

(* Evenly spaced entries: of the last five in the window, the variation of  *)
(* the price gaps is below 5% of their mean.  With n gaps of sum S and sum  *)
(* of squares Q, the squared coefficient of variation is n*Q/S^2 - 1.       *)
detect_grid(c) ==
    LET entries == {t \in fills_of(c, "Entry") : c.now - t.executed_at <= GridWindow}
        last == {t \in entries : Cardinality({u \in entries : executed_before(t, u)}) < 5}
        earlier(t) == {u \in last : executed_before(u, t)}
        gap(t) == LET prev == CHOOSE u \in earlier(t) :
                                 \A v \in earlier(t) : ~executed_before(u, v)
                  IN  IF t.price > prev.price THEN t.price - prev.price
                      ELSE prev.price - t.price
        spaced == {t \in last : earlier(t) # {}}
        total == MapThenSumSet(gap, spaced)
        squares == MapThenSumSet(LAMBDA t : gap(t) * gap(t), spaced)
    IN  /\ Cardinality(entries) >= 3 /\ total > 0
        /\ 400 * (Cardinality(spaced) * squares - total * total) < total * total

(* Martingale: the latest exits, two or more, all lost, and some entry of   *)
(* the day is at least 1.5 times as large as the first of them.             *)
detect_escalation(c) ==
    LET exits == fills_of(c, "Exit")
        run == {t \in exits : \A u \in exits : executed_before(u, t) \/ u.net < 0}
    IN  /\ Cardinality(run) >= 2
        /\ \E first \in run :
              /\ \A u \in run : ~executed_before(u, first)
              /\ 2 * Max({0} \cup {t.lots : t \in fills_of(c, "Entry")}) >= 3 * first.lots

grid_trading(a, c) ==
    IF ~Plan.grid_trading_allowed /\ c.order # None /\ (detect_grid(c) \/ detect_escalation(c))
    THEN "Warn" ELSE "Pass"
----------------------------------------------------------------------------
(* Post-trade rules and the rule on held positions *)

\* The tighter of the share of the balance and the amount of money; None without either.
per_trade_limit(a) ==
    LET share == PctOf(Plan.per_trade_max_loss_pct, a.balance)
        amount == Milli(Plan.per_trade_max_loss_money)
    IN  IF Plan.per_trade_max_loss_money = None
        THEN IF Plan.per_trade_max_loss_pct = None THEN None ELSE share
        ELSE IF Plan.per_trade_max_loss_pct = None THEN amount ELSE Lesser(share, amount)

\* A breach is a Liquidate only on a broker-reported equity input.
per_trade_max_loss(a, c) ==
    LET limit == per_trade_limit(a)
        loss == Milli(-c.trade.pnl)
    IN  IF \/ limit = None \/ c.trade = None
           \/ c.trade.trade_side # "Exit" \/ c.trade.pnl >= 0
        THEN "Pass"
        ELSE IF loss > limit + Milli(Tolerance)
             THEN IF c.broker_equity # None THEN "Liquidate" ELSE "Warn"
        ELSE IF 10 * loss >= 8 * limit THEN "EarlyWarning" ELSE "Pass"

\* The closes-per-minute pattern needs more than ten closes and is left out.
hft_scalping(a, c) ==
    IF /\ Plan.hft_min_round_trip # None /\ c.trade # None /\ c.trade.trade_side = "Exit"
       /\ \E t \in c.today_trades :
             /\ t.trade_side = "Entry" /\ t.symbol = c.trade.symbol
             /\ t.executed_at <= c.trade.executed_at
             /\ t.executed_at >= c.trade.executed_at - Plan.hft_min_round_trip
    THEN "Warn" ELSE "Pass"

overnight_holding(a, c) ==
    IF Plan.overnight_holding_allowed \/ (c.now % DayLength) \notin NightHours THEN "Pass"
    ELSE IF c.order # None THEN "Fail"
    ELSE IF c.open_positions # {} THEN "Warn" ELSE "Pass"

weekend_holding(a, c) ==
    IF Plan.weekend_holding_allowed \/ c.now \notin WeekendTimes THEN "Pass"
    ELSE IF c.order # None THEN "Fail"
    ELSE IF c.open_positions # {} THEN "Warn" ELSE "Pass"
----------------------------------------------------------------------------
(* RuleRegistry::evaluate *)

RuleContextKind == {"OnOrderSubmit", "OnTradeFill", "OnTick", "OnDayRollover",
                    "OnEndOfDay", "OnDemand"}

EvaluationScope == {"PreTrade", "PostTrade", "OnTick", "Periodic"}

applicable(kind, scope) ==
    \/ kind = "OnDemand"
    \/ kind = "OnOrderSubmit" /\ scope = "PreTrade"
    \/ kind = "OnTradeFill" /\ scope = "PostTrade"
    \/ kind = "OnTick" /\ scope = "OnTick"
    \/ kind \in {"OnDayRollover", "OnEndOfDay"} /\ scope = "Periodic"

\* The verdicts of the rules that declare a scope.
verdicts(a, c, scope) ==
    CASE scope = "OnTick" ->
           {daily_drawdown(a, c), max_drawdown(a, c), trailing_drawdown(a, c),
            profit_target(a, c), time_limit(a, c), overnight_holding(a, c),
            weekend_holding(a, c)}
      [] scope = "PreTrade" ->
           {max_daily_trades(a, c), max_open_positions(a, c), max_position_size(a, c),
            max_total_lots(a, c), hedging(a, c), news_trading(a, c), sl_required(a, c),
            tp_required(a, c), cooldown(a, c), trading_hours(a, c), margin(a, c),
            grid_trading(a, c)}
      [] scope = "PostTrade" -> {per_trade_max_loss(a, c), hft_scalping(a, c)}
      [] OTHER ->
           {min_trading_days(a, c), min_profitable_days(a, c), consistency(a, c),
            inactivity(a, c)}

\* Evaluator::evaluate: the decision kind on the applicable rules.
evaluate(a, c) ==
    KindOf(UNION {verdicts(a, c, s) : s \in {s \in EvaluationScope : applicable(c.kind, s)}})
============================================================================
