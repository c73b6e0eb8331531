------------------------------ MODULE RuleProofs ------------------------------
(***************************************************************************)
(* When the engine may close positions or end an account, for every plan.  *)
(* Every rule that can answer Liquidate asks for an equity the broker      *)
(* reported, and only a broker tick puts one into the context.             *)
(***************************************************************************)
EXTENDS LifecycleProofs

\* Verdicts that name positions to close.
Closing == {"Liquidate", "Emergency"}

\* The rules that run on a tick close nothing on an estimate.
LEMMA TickRulesOnEstimate ==
    ASSUME NEW a, NEW c, c.broker_equity = None
    PROVE  verdicts(a, c, "OnTick") \cap Closing = {}
<1> USE DEF Closing
<1>1. daily_drawdown(a, c) \notin Closing
  BY DEF daily_drawdown, has_inputs
<1>2. max_drawdown(a, c) \notin Closing
  BY DEF max_drawdown, has_inputs
<1>3. trailing_drawdown(a, c) \notin Closing
  BY DEF trailing_drawdown, has_inputs
<1>4. profit_target(a, c) \notin Closing
  BY DEF profit_target
<1>5. time_limit(a, c) \notin Closing
  BY DEF time_limit
<1>6. overnight_holding(a, c) \notin Closing /\ weekend_holding(a, c) \notin Closing
  BY DEF overnight_holding, weekend_holding
<1> QED BY <1>1, <1>2, <1>3, <1>4, <1>5, <1>6 DEF verdicts

\* The rules that run before a trade close nothing at all.
LEMMA PreTradeRules ==
    ASSUME NEW a, NEW c
    PROVE  verdicts(a, c, "PreTrade") \cap Closing = {}
<1> USE DEF Closing
<1>1. max_daily_trades(a, c) \notin Closing /\ max_open_positions(a, c) \notin Closing
  BY DEF max_daily_trades, max_open_positions
<1>2. max_position_size(a, c) \notin Closing /\ hedging(a, c) \notin Closing
  BY DEF max_position_size, hedging
<1>3. max_total_lots(a, c) \notin Closing
  BY Zenon DEF max_total_lots
<1>4. news_trading(a, c) \notin Closing /\ sl_required(a, c) \notin Closing
  BY DEF news_trading, sl_required
<1>5. tp_required(a, c) \notin Closing /\ cooldown(a, c) \notin Closing
  BY DEF tp_required, cooldown
<1>6. trading_hours(a, c) \notin Closing
  BY DEF trading_hours
<1>7. margin(a, c) \notin Closing
  BY Zenon DEF margin
<1>8. grid_trading(a, c) \notin Closing
  BY DEF grid_trading
<1> QED BY <1>1, <1>2, <1>3, <1>4, <1>5, <1>6, <1>7, <1>8 DEF verdicts

\* The rules that run after a fill only warn on an estimate.
LEMMA PostTradeOnEstimate ==
    ASSUME NEW a, NEW c, c.broker_equity = None
    PROVE  verdicts(a, c, "PostTrade") \cap (Closing \cup {"Fail"}) = {}
<1> USE DEF Closing
<1>1. per_trade_max_loss(a, c) \notin Closing \cup {"Fail"}
  BY DEF per_trade_max_loss
<1>2. hft_scalping(a, c) \notin Closing \cup {"Fail"}
  BY DEF hft_scalping
<1> QED BY <1>1, <1>2 DEF verdicts

\* The periodic rules close nothing.
LEMMA PeriodicRules ==
    ASSUME NEW a, NEW c
    PROVE  verdicts(a, c, "Periodic") \cap Closing = {}
<1> USE DEF Closing
<1>1. min_trading_days(a, c) \notin Closing
  BY DEF min_trading_days, day_count
<1>2. min_profitable_days(a, c) \notin Closing
  BY DEF min_profitable_days, day_count
<1>3. consistency(a, c) \notin Closing
  BY DEF consistency
<1>4. inactivity(a, c) \notin Closing
  BY DEF inactivity
<1> QED BY <1>1, <1>2, <1>3, <1>4 DEF verdicts

\* A decision is one of the verdicts reported, unless everything passed.
LEMMA KindIsReported ==
    ASSUME NEW V
    PROVE  KindOf(V) \in V \cup {"Pass"}
BY DEF KindOf

\* Without a broker-reported equity no decision closes positions.
LEMMA EstimateClosesNothing ==
    ASSUME NEW a, NEW c, c.broker_equity = None
    PROVE  evaluate(a, c) \notin Closing
<1> DEFINE scopes == {s \in EvaluationScope : applicable(c.kind, s)}
           reported == UNION {verdicts(a, c, s) : s \in scopes}
<1>1. \A s \in scopes : verdicts(a, c, s) \cap Closing = {}
  BY TickRulesOnEstimate, PreTradeRules, PostTradeOnEstimate, PeriodicRules DEF EvaluationScope
<1>2. reported \cap Closing = {}
  BY <1>1
<1>3. evaluate(a, c) = KindOf(reported)
  BY Zenon DEF evaluate
<1> HIDE DEF reported
<1> QED BY <1>2, <1>3, KindIsReported DEF Closing

\* Without a broker-reported equity a fill ends nothing.
LEMMA FillEndsNothing ==
    ASSUME NEW a, NEW c, c.broker_equity = None, c.kind = "OnTradeFill"
    PROVE  ~is_terminating(evaluate(a, c))
<1> DEFINE scopes == {s \in EvaluationScope : applicable(c.kind, s)}
           reported == UNION {verdicts(a, c, s) : s \in scopes}
<1>1. scopes \subseteq {"PostTrade"}
  BY DEF EvaluationScope, applicable
<1>2. \A s \in scopes : verdicts(a, c, s) \cap (Closing \cup {"Fail"}) = {}
  BY <1>1, PostTradeOnEstimate
<1>3. reported \cap (Closing \cup {"Fail"}) = {}
  BY <1>2
<1>4. evaluate(a, c) = KindOf(reported)
  BY Zenon DEF evaluate
<1> HIDE DEF reported
<1> QED BY <1>3, <1>4, KindIsReported DEF Closing, is_terminating
----------------------------------------------------------------------------
\* A refused call is not counted as a call.
LEMMA RejectIdle ==
    ASSUME NEW event, NEW outcome, reject(event, outcome)
    PROVE  calls' = calls
BY DEF reject

\* A call evaluated on an estimate closes no position.
LEMMA EstimateFinish ==
    ASSUME NEW event, NEW a, NEW c, NEW b, c.broker_equity = None, finish(event, a, c, b)
    PROVE  calls' = calls \/ (result'.liquidated = None /\ result'.event = event)
<1> DEFINE kind == evaluate(a, c)
<1>1. kind \notin Closing
  BY EstimateClosesNothing
<1> HIDE DEF kind
<1>2. liquidation(b, kind) = None
  BY <1>1 DEF liquidation, Closing
<1>3. \/ reject(event, "PhaseUpgradeFailed")
      \/ result' = [event |-> event, outcome |-> "Ok", decision |-> kind,
                    liquidated |-> liquidation(b, kind)]
  BY Zenon DEF finish, kind
<1> QED BY <1>2, <1>3, RejectIdle

\* What a call may leave behind: nothing, an answer that closes no position and, for
\* a fill, ends nothing, or the answer to a fresh tick newer than the last.
Careful ==
    \/ calls' = calls
    \/ result'.liquidated = None /\ result'.event # "TradeFilled"
    \/ result'.liquidated = None /\ ~is_terminating(result'.decision)
    \/ /\ result'.event = "Tick"
       /\ now - acct'.last_tick_ts <= StaleThreshold
       /\ acct.last_tick_ts # None => acct'.last_tick_ts > acct.last_tick_ts

\* The context of every event carries no broker equity until a tick adds it.
LEMMA ContextEstimates ==
    ASSUME NEW kind, NEW a, NEW x, NEW y
    PROVE  /\ context(kind, a).broker_equity = None /\ context(kind, a).kind = kind
           /\ [context(kind, a) EXCEPT !.order = x, !.submitted_at = y].broker_equity = None
           /\ [context(kind, a) EXCEPT !.trade = x].broker_equity = None
           /\ [context(kind, a) EXCEPT !.trade = x].kind = kind
BY DEF context

\* Neither the day's roll nor the decision touches the stamp of the last tick.
LEMMA RolloverKeepsTick ==
    ASSUME NEW a, AccountInv(a), NEW had_trades \in BOOLEAN, NEW day
    PROVE  rollover_day(a, had_trades, day).last_tick_ts = a.last_tick_ts
<1> DEFINE f == IF had_trades THEN freeze_day(a) ELSE a
<1>1. f \in AccountType
  BY FreezeDay DEF AccountInv
<1>2. f.last_tick_ts = a.last_tick_ts
  BY DEF AccountInv, AccountType, freeze_day
<1>3. rollover_day(a, had_trades, day) = open_day(f, day)
  BY DEF rollover_day
<1> HIDE DEF f
<1>4. open_day(f, day).last_tick_ts = f.last_tick_ts
  BY <1>1 DEF AccountType, open_day
<1> QED BY <1>2, <1>3, <1>4

\* The automatic rollover leaves the time of the last tick alone.
LEMMA PreparedKeepsTick ==
    ASSUME AccountInv(acct), NEW ts \in Int
    PROVE  prepared(ts).last_tick_ts = acct.last_tick_ts
<1> DEFINE r == auto_rollover(acct, ts)
           day == trading_day_start(ts)
           current == acct.current_trading_day_start
<1>1. Keeps(acct, r)
  BY AutoRolloverKeeps
<1>2. r.last_tick_ts = acct.last_tick_ts
  <2>1. CASE current = None \/ day <= current
    BY <2>1 DEF auto_rollover
  <2>2. CASE ~(current = None \/ day <= current)
    <3> DEFINE q == rollover_day(acct, acct.today_realized_pnl # 0, day)
    <3>1. q.last_tick_ts = acct.last_tick_ts
      BY RolloverKeepsTick
    <3>2. day \in Int
      BY DayStartType
    <3>3. q \in AccountType
      BY <3>2, RolloverKeeps DEF Keeps, AccountInv
    <3>4. r = [q EXCEPT !.trading_day_index = @ + (day - current - 1)]
      BY <2>2 DEF auto_rollover
    <3> HIDE DEF q, r
    <3> QED BY <3>1, <3>3, <3>4 DEF AccountType
  <2> QED BY <2>1, <2>2
<1> HIDE DEF r
<1>3. retain_today(r, ts).last_tick_ts = r.last_tick_ts
  BY <1>1 DEF Keeps, AccountInv, AccountType, retain_today
<1> QED BY <1>2, <1>3 DEF prepared, r

\* So does the decision, promotion included.
LEMMA DecisionKeepsTick ==
    ASSUME NEW a, AccountInv(a), NEW kind, NEW at \in Int, ~upgrade_fails(a, kind, at)
    PROVE  apply_decision(a, kind, at).last_tick_ts = a.last_tick_ts
<1> DEFINE m == marked(a, kind, at)
           p == IF ready_to_pass(m) THEN promote(m) ELSE m
           b == apply_decision(a, kind, at)
<1>1. Keeps(a, m)
  BY MarkTargetKeeps DEF marked, Keeps, SameWatermark
<1>2. m.last_tick_ts = a.last_tick_ts
  BY DEF AccountInv, AccountType, marked, mark_target_reached
<1>3. ready_to_pass(m) => can_upgrade(m)
  BY DEF upgrade_fails
<1> HIDE DEF m
<1>4. AccountInv(m)
  BY <1>1 DEF Keeps
<1>5. p.last_tick_ts = m.last_tick_ts
  BY <1>4 DEF AccountInv, AccountType, promote
<1>6. p \in AccountType
  BY <1>3, <1>4, PromoteKeeps DEF Keeps, AccountInv
<1>7. b = IF is_terminating(kind) THEN breach(p, kind) ELSE p
  BY DEF apply_decision, m
<1> HIDE DEF p, b
<1>8. b.last_tick_ts = p.last_tick_ts
  BY <1>6, <1>7 DEF AccountType, breach
<1> QED BY <1>2, <1>5, <1>8 DEF b

\* An accepted tick is fresh and newer than the last: its time is the new stamp.
LEMMA TickCareful ==
    ASSUME IInv, NEW ts \in Nat, NEW quote \in Quotes, Tick(quote, ts)
    PROVE  Careful
<1> DEFINE p == prepared(ts)
           q == update_equity(p, quote.equity)
           a == update_balance(q, quote.balance)
           b == [a EXCEPT !.last_tick_ts = ts]
           c == [context("OnTick", p) EXCEPT !.broker_equity = quote.equity]
           kind == evaluate(a, c)
<1>1. \/ reject("Tick", "TickRejected")
      \/ ~tick_is_stale(ts) /\ ~tick_is_out_of_order(p, ts) /\ finish("Tick", a, c, b)
  BY Zenon DEF Tick
<1>2. quote.equity \in Int /\ quote.balance \in Int
  BY EventAssumption
<1>3. AccountInv(p) /\ p.last_tick_ts = acct.last_tick_ts
  BY PreparedKeeps, PreparedKeepsTick DEF IInv, Keeps
<1> HIDE DEF p
<1>4. AccountInv(q)
  BY <1>2, <1>3, UpdateEquityKeeps DEF Keeps
<1> HIDE DEF q
<1>5. AccountInv(a)
  BY <1>2, <1>4, UpdateBalanceKeeps DEF Keeps
<1> HIDE DEF a
<1>6. AccountInv(b) /\ b.last_tick_ts = ts
  BY <1>5, LastTickKeeps DEF Keeps, AccountInv, AccountType
<1> HIDE DEF b, c, kind
<1>7. CASE reject("Tick", "TickRejected")
  BY <1>7, RejectIdle DEF Careful
<1>8. CASE ~tick_is_stale(ts) /\ ~tick_is_out_of_order(p, ts) /\ finish("Tick", a, c, b)
  <2>1. CASE upgrade_fails(b, kind, now)
    <3>1. reject("Tick", "PhaseUpgradeFailed")
      BY Zenon, <1>8, <2>1 DEF finish, kind
    <3> QED BY <3>1, RejectIdle DEF Careful
  <2>2. CASE ~upgrade_fails(b, kind, now)
    <3>1. /\ acct' = apply_decision(b, kind, now)
          /\ result' = [event |-> "Tick", outcome |-> "Ok", decision |-> kind,
                        liquidated |-> liquidation(b, kind)]
      BY Zenon, <1>8, <2>2 DEF finish, kind
    <3>2. acct'.last_tick_ts = ts
      BY <1>6, <2>2, <3>1, DecisionKeepsTick DEF IInv
    <3>3. now - ts <= StaleThreshold
      BY <1>8, EventAssumption DEF tick_is_stale, IInv
    <3>4. acct.last_tick_ts # None => ts > acct.last_tick_ts
      BY <1>3, <1>8 DEF tick_is_out_of_order, IInv, AccountInv, AccountType, Option
    <3> QED BY <3>1, <3>2, <3>3, <3>4 DEF Careful
  <2> QED BY <2>1, <2>2
<1> QED BY <1>1, <1>7, <1>8

\* A fill closes nothing and ends nothing.
LEMMA FillCareful ==
    ASSUME NEW fill, NEW at, NEW position, TradeFilled(fill, at, position)
    PROVE  Careful
<1> DEFINE p == prepared(at)
           a == mark_active_trading_day(apply_realized_pnl(p, fill.pnl - fill.cost, at))
           t == [trade_side |-> fill.trade_side, symbol |-> fill.symbol, pnl |-> fill.pnl,
                 executed_at |-> at]
           b == consume_fill(a, fill, at, position)
           c == [context("OnTradeFill", p) EXCEPT !.trade = t]
           kind == evaluate(a, c)
<1>1. \/ reject("TradeFilled", "Persistence")
      \/ finish("TradeFilled", a, c, b)
  BY Zenon DEF TradeFilled
<1>2. c.broker_equity = None /\ c.kind = "OnTradeFill"
  BY ContextEstimates
<1> HIDE DEF a, b, c
<1>3. ~is_terminating(kind)
  BY <1>2, FillEndsNothing
<1> HIDE DEF kind
<1>4. CASE finish("TradeFilled", a, c, b)
  <2>1. \/ reject("TradeFilled", "PhaseUpgradeFailed")
        \/ result' = [event |-> "TradeFilled", outcome |-> "Ok", decision |-> kind,
                      liquidated |-> liquidation(b, kind)]
    BY Zenon, <1>4 DEF finish, kind
  <2>2. calls' = calls \/ result'.liquidated = None
    BY <1>2, <1>4, EstimateFinish
  <2> QED BY <1>3, <2>1, <2>2, RejectIdle DEF Careful
<1> QED BY <1>1, <1>4, RejectIdle DEF Careful

\* Every other event is evaluated on an estimate.
LEMMA EstimateCareful ==
    ASSUME NEW event, event # "TradeFilled", NEW outcome, NEW a, NEW c, NEW b,
           c.broker_equity = None, reject(event, outcome) \/ finish(event, a, c, b)
    PROVE  Careful
BY EstimateFinish, RejectIdle DEF Careful

\* No step but a fresh broker tick closes positions, and no fill ends the account.
LEMMA NextCareful == IInv /\ [Next]_vars => Careful
<1> SUFFICES ASSUME IInv, [Next]_vars PROVE Careful
  OBVIOUS
<1> USE ContextEstimates, EstimateCareful
<1>1. ASSUME NEW at, AccountStarted(at) PROVE Careful
  <2> DEFINE a == prepared(at)
             b == start(a, at)
  <2>1. \/ reject("AccountStarted", "InvalidState")
        \/ finish("AccountStarted", b, context("OnDemand", a), b)
    BY Zenon, <1>1 DEF AccountStarted
  <2> HIDE DEF a, b
  <2> QED BY Zenon, <2>1
<1>2. ASSUME NEW o, NEW at, OrderSubmitted(o, at) PROVE Careful
  <2> DEFINE a == prepared(at)
             c == [context("OnOrderSubmit", a) EXCEPT !.order = o, !.submitted_at = at]
  <2>1. finish("OrderSubmitted", a, c, a)
    BY Zenon, <1>2 DEF OrderSubmitted
  <2>2. c.broker_equity = None
    BY ContextEstimates
  <2> HIDE DEF a, c
  <2> QED BY Zenon, <2>1, <2>2
<1>3. ASSUME NEW f, NEW at, NEW p, TradeFilled(f, at, p) PROVE Careful
  BY <1>3, FillCareful
<1>4. ASSUME NEW q \in Quotes, NEW ts \in Stamps, Tick(q, ts) PROVE Careful
  BY <1>4, TickCareful DEF Stamps
<1>5. ASSUME NEW ts, TickEstimated(ts) PROVE Careful
  BY Zenon, <1>5 DEF TickEstimated
<1>6. ASSUME NEW had, DayRollover(had) PROVE Careful
  BY Zenon, <1>6 DEF DayRollover
<1>7. CASE EndOfDay
  BY Zenon, <1>7 DEF EndOfDay, Evaluation
<1>8. CASE OnDemand
  BY Zenon, <1>8 DEF OnDemand, Evaluation
<1>9. ASSUME NEW at, EmergencyStop(at) PROVE Careful
  BY Zenon, <1>9 DEF EmergencyStop
<1>10. ASSUME NEW at, NEW valid, OverrideBreach(at, valid) PROVE Careful
  BY Zenon, <1>10 DEF OverrideBreach
<1>11. CASE PayoutRequest
  BY Zenon, <1>11 DEF PayoutRequest
<1>12. CASE PayoutApprove
  BY Zenon, <1>12 DEF PayoutApprove
<1>13. CASE Advance \/ FundedByPlatform \/ UNCHANGED vars
  BY Zenon, <1>13 DEF Advance, FundedByPlatform, vars, Careful
<1> QED BY <1>1, <1>2, <1>3, <1>4, <1>5, <1>6, <1>7, <1>8, <1>9, <1>10, <1>11, <1>12,
           <1>13 DEF Next

\* A breach closes positions only on a broker tick that is fresh and past the stamp of
\* the account, whatever the plan (rules/*.rs has_inputs, pipeline.rs Tick).
THEOREM LiquidatesOnFreshTick == Spec => LiquidationNeedsFreshTick
<1>1. IInv /\ [Next]_vars =>
        [calls' # calls /\ result'.decision = "Liquidate" /\ result'.liquidated # None
           => /\ result'.event = "Tick"
              /\ now - acct'.last_tick_ts <= StaleThreshold
              /\ acct.last_tick_ts # None => acct'.last_tick_ts > acct.last_tick_ts]_vars
  BY NextCareful DEF Careful
<1> QED BY <1>1, InductiveInvariant, PTL DEF Spec, LiquidationNeedsFreshTick

\* No fill, however large its loss, ends the account or closes a position.
FillNeverFails ==
    [][calls' # calls /\ result'.event = "TradeFilled"
         => ~is_terminating(result'.decision) /\ result'.liquidated = None]_vars

\* The pipeline evaluates every fill on an estimate, on which the post-trade rules only
\* warn: the loss_limit run meets a loss that is not enforced, and under no plan is one
\* (pipeline.rs TradeFilled, rules/per_trade_max_loss.rs).
THEOREM FillsEndNothing == Spec => FillNeverFails
<1>1. IInv /\ [Next]_vars =>
        [calls' # calls /\ result'.event = "TradeFilled"
           => ~is_terminating(result'.decision) /\ result'.liquidated = None]_vars
  BY NextCareful DEF Careful
<1> QED BY <1>1, InductiveInvariant, PTL DEF Spec, FillNeverFails

\* A stop closes no position.
StopNeverCloses ==
    [][calls' # calls /\ result'.event = "EmergencyStop" => result'.liquidated = None]_vars

\* Nor is a stop evaluated on more than an estimate, so that under no plan does its
\* decision name the positions to close: the stop run meets one that does not
\* (pipeline.rs EmergencyStop, rules/*.rs require_broker_equity).
THEOREM StopsCloseNothing == Spec => StopNeverCloses
<1>1. IInv /\ [Next]_vars =>
        [calls' # calls /\ result'.event = "EmergencyStop" => result'.liquidated = None]_vars
  BY NextCareful DEF Careful
<1> QED BY <1>1, InductiveInvariant, PTL DEF Spec, StopNeverCloses
===============================================================================
