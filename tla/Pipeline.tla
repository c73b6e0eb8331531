------------------------------ MODULE Pipeline ------------------------------
(***************************************************************************)
(* Pipeline::process (engine/pipeline.rs): one account driven by the       *)
(* events a caller submits, one action per PipelineEvent.  A call rolls    *)
(* the trading day if the event's timestamp is past it, applies the event, *)
(* evaluates the rules on the resulting account, consumes the fill and     *)
(* applies the decision.  The engine keeps no account between calls: the   *)
(* caller stores the returned account, or keeps the old one on an error.   *)
(*                                                                         *)
(* The wall clock `now` moves on its own.  Timestamps of events are near   *)
(* it (Offsets), behind it when delivery is slow and ahead of it when the  *)
(* broker's clock is fast.  `hist` holds history variables that no action  *)
(* reads.                                                                  *)
(***************************************************************************)
EXTENDS Rules, Payout

CONSTANTS
    Events,          \* the kinds of event the caller submits in this instance
    InitPhases,      \* phases a new account may be opened in
    Quotes,          \* broker reports: records [equity, balance]
    Fills,           \* fills: records [trade_side, symbol, side, lots, price, pnl, cost,
                     \* has_exit]
    Orders,          \* orders: records [kind, symbol, side, lots, price, stop_loss,
                     \* take_profit, in_news]; price is None for a market order
    Offsets,         \* event timestamp minus wall clock
    StaleThreshold,  \* STALE_TICK_THRESHOLD_MINUTES, in timestamps
    MaxTime,         \* bound on the wall clock
    MaxCalls         \* bound on the calls that succeed

PipelineEvent == {"AccountStarted", "OrderSubmitted", "TradeFilled", "Tick",
                  "TickEstimated", "DayRollover", "EndOfDay", "OnDemand",
                  "EmergencyStop", "OverrideBreach", "PayoutRequest", "PayoutApprove"}

ASSUME EventAssumption ==
    /\ Events \subseteq PipelineEvent /\ InitPhases \subseteq Phase
    /\ Quotes \subseteq [equity : Int, balance : Int]
    /\ Fills \subseteq [trade_side : {"Entry", "Exit", "Reverse"}, symbol : STRING,
                       side : {"Buy", "Sell"}, lots : Nat, price : Nat, pnl : Int,
                       cost : Int, has_exit : BOOLEAN]
    /\ Offsets \subseteq Int /\ StaleThreshold \in Nat /\ MaxCalls \in Nat

VARIABLES acct, now, calls, result, hist

vars == <<acct, now, calls, result, hist>>

\* The last one is an answer of the HTTP service only.
Outcome == {"Ok", "InvalidState", "TickRejected", "Persistence", "PhaseUpgradeFailed",
            "NotEvaluated"}

NoResult == [event |-> None, outcome |-> "Ok", decision |-> None, liquidated |-> None]

Init ==
    /\ \E ph \in InitPhases : acct = NewAccount(ph)
    /\ now = 0
    /\ calls = 0
    /\ result = NoResult
    /\ hist = [paid_basis |-> 0, traded_days |-> {}]

Stamps == {now + d : d \in Offsets} \cap Nat
----------------------------------------------------------------------------
(* The parts of a call *)

\* Mutant of auto_rollover: a late event rolls the day too.
auto_rollover_backwards(a, ts) ==
    LET day == trading_day_start(ts)
        current == a.current_trading_day_start
    IN  IF current = None \/ day = current THEN a
        ELSE [rollover_day(a, a.today_realized_pnl # 0, day)
                EXCEPT !.trading_day_index = @ + (day - current - 1)]

(* The automatic rollover.  The loop rolls day by day; only its first       *)
(* iteration can have had trades, and the later ones change nothing but the *)
(* day index, since today's P&L is then 0 and balance and equity stand.     *)
auto_rollover(a, ts) ==
    LET day == trading_day_start(ts)
        current == a.current_trading_day_start
    IN  IF current = None \/ day <= current THEN a
        ELSE [rollover_day(a, a.today_realized_pnl # 0, day)
                EXCEPT !.trading_day_index = @ + (day - current - 1)]

\* apply_event begins by dropping the trades of earlier days.
retain_today(a, ts) ==
    [a EXCEPT !.today_trades =
        {t \in @ : trading_day_start(t.executed_at) >= trading_day_start(ts)}]

prepared(ts) == retain_today(auto_rollover(acct, ts), ts)

\* build_context: lists as they were before the fill, equity estimated.
context(kind, a) ==
    [kind |-> kind, broker_equity |-> None, order |-> None, submitted_at |-> None,
     trade |-> None, open_positions |-> a.open_positions,
     today_trades |-> a.today_trades, now |-> now]

marked(a, kind, at) == IF kind = "TargetHit" THEN mark_target_reached(a, at) ELSE a

ready_to_pass(a) ==
    /\ a.target_reached_at # None /\ a.status = "TargetHitPending"
    /\ a.active_trading_days >= Plan.min_trading_days

\* Mutant of promote: the best day of the old phase is kept.
promote_keeps_best_day(a) ==
    [a EXCEPT !.phase = next_phase_for(@), !.status = "Active",
              !.target_reached_at = None, !.active_trading_days = 0,
              !.trading_day_index = 0, !.day_counted_today = FALSE,
              !.today_realized_pnl = 0, !.largest_day_loss = 0,
              !.sum_positive_days_profit = 0, !.day_start_balance = a.balance,
              !.day_start_equity = a.equity, !.current_trading_day_start = None,
              !.peak_equity = a.equity, !.peak_balance = a.balance]

\* Passed, upgraded to the next phase and active again.
promote(a) ==
    [a EXCEPT !.phase = next_phase_for(@), !.status = "Active",
              !.target_reached_at = None, !.active_trading_days = 0,
              !.trading_day_index = 0, !.day_counted_today = FALSE,
              !.today_realized_pnl = 0, !.largest_day_profit = 0,
              !.largest_day_loss = 0, !.sum_positive_days_profit = 0,
              !.day_start_balance = a.balance, !.day_start_equity = a.equity,
              !.current_trading_day_start = None,
              !.peak_equity = a.equity, !.peak_balance = a.balance]

breach(a, kind) ==
    [a EXCEPT !.status_before_breach = a.status, !.status = account_status_target(kind)]

upgrade_fails(a, kind, at) ==
    ready_to_pass(marked(a, kind, at)) /\ ~can_upgrade(marked(a, kind, at))

\* apply_decision: mark the target, promote, then breach.
apply_decision(a, kind, at) ==
    LET m == marked(a, kind, at)
        p == IF ready_to_pass(m) THEN promote(m) ELSE m
    IN  IF is_terminating(kind) THEN breach(p, kind) ELSE p

\* The LiquidationInstruction a decision requests: the open positions' ids.
liquidation(a, kind) ==
    IF kind \in {"Liquidate", "Emergency"} THEN {p.id : p \in a.open_positions} ELSE None

\* A call that returns an error leaves the caller with the account it had.
reject(event, outcome) ==
    /\ result' = [event |-> event, outcome |-> outcome, decision |-> None,
                  liquidated |-> None]
    /\ UNCHANGED <<acct, now, calls>>

(* The rest of a call once the event is applied: `a` is the account the     *)
(* rules see in context `c`, `b` the same account with the fill consumed.   *)
finish(event, a, c, b) ==
    LET kind == evaluate(a, c)
    IN  IF upgrade_fails(b, kind, now) THEN reject(event, "PhaseUpgradeFailed")
        ELSE /\ acct' = apply_decision(b, kind, now)
             /\ calls' = calls + 1
             /\ result' = [event |-> event, outcome |-> "Ok", decision |-> kind,
                           liquidated |-> liquidation(b, kind)]
             /\ UNCHANGED now

\* The caller may submit this event.
submits(event) == event \in Events /\ calls < MaxCalls

\* History: the profit bases paid so far, and the days with a fill in the phase of
\* a started account.
history(days, paid) ==
    hist' = IF result'.outcome # "Ok" THEN hist
            ELSE [paid_basis |-> hist.paid_basis + paid,
                  traded_days |-> IF acct'.phase # acct.phase \/ acct.started_at = None
                                  THEN {} ELSE hist.traded_days \cup days]

unrecorded == history({}, 0)
----------------------------------------------------------------------------
(* One action per PipelineEvent *)

AccountStarted(at) ==
    LET a == prepared(at)
    IN  /\ submits("AccountStarted")
        /\ IF a.status # "Pending" THEN reject("AccountStarted", "InvalidState")
           ELSE finish("AccountStarted", start(a, at), context("OnDemand", a), start(a, at))
        /\ unrecorded

OrderSubmitted(order, at) ==
    LET a == prepared(at)
        c == [context("OnOrderSubmit", a) EXCEPT !.order = order, !.submitted_at = at]
    IN  /\ submits("OrderSubmitted")
        /\ finish("OrderSubmitted", a, c, a)
        /\ unrecorded

(* The whole position of an exit is closed, whatever quantity was closed;   *)
(* an entry or a reversal opens a new position.                             *)
consume_fill(a, fill, at, position) ==
    LET others == {p \in a.open_positions : p.id # position}
        opened == [id |-> calls, symbol |-> fill.symbol, side |-> fill.side,
                   lots |-> fill.lots, price |-> fill.price]
    IN  [a EXCEPT !.open_positions =
                      IF fill.trade_side = "Exit" THEN others ELSE @ \cup {opened},
                  !.today_trades = @ \cup {[id |-> calls, executed_at |-> at,
                                            trade_side |-> fill.trade_side,
                                            symbol |-> fill.symbol, lots |-> fill.lots,
                                            price |-> fill.price,
                                            net |-> fill.pnl - fill.cost]}]

TradeFilled(fill, at, position) ==
    LET p == prepared(at)
        a == mark_active_trading_day(apply_realized_pnl(p, fill.pnl - fill.cost, at))
        t == [trade_side |-> fill.trade_side, symbol |-> fill.symbol, pnl |-> fill.pnl,
              executed_at |-> at]
    IN  /\ submits("TradeFilled")
        /\ IF fill.trade_side = "Exit" /\ ~fill.has_exit
           THEN reject("TradeFilled", "Persistence")
           ELSE finish("TradeFilled", a, [context("OnTradeFill", p) EXCEPT !.trade = t],
                       consume_fill(a, fill, at, position))
        /\ history({trading_day_start(at)}, 0)

\* The position a fill names: an open one or one this account does not track.
named_positions(fill) ==
    IF fill.trade_side = "Exit" THEN {p.id : p \in acct.open_positions} \cup {MaxCalls}
    ELSE {MaxCalls}

\* The stale-tick and out-of-order guards of a broker tick.
tick_is_stale(ts) == now - ts > StaleThreshold

\* Mutant of tick_is_out_of_order: a duplicate tick is in order.
tick_is_older(a, ts) == a.last_tick_ts # None /\ ts < a.last_tick_ts

tick_is_out_of_order(a, ts) == a.last_tick_ts # None /\ ts <= a.last_tick_ts

Tick(quote, ts) ==
    LET p == prepared(ts)
        a == update_balance(update_equity(p, quote.equity), quote.balance)
    IN  /\ submits("Tick")
        /\ IF tick_is_stale(ts) \/ tick_is_out_of_order(p, ts)
           THEN reject("Tick", "TickRejected")
           ELSE finish("Tick", a, [context("OnTick", p) EXCEPT !.broker_equity = quote.equity],
                       [a EXCEPT !.last_tick_ts = ts])
        /\ unrecorded

\* An estimated tick has no guard and stamps last_tick_ts all the same.
TickEstimated(ts) ==
    LET a == prepared(ts)
    IN  /\ submits("TickEstimated")
        /\ finish("TickEstimated", a, context("OnTick", a), [a EXCEPT !.last_tick_ts = ts])
        /\ unrecorded

DayRollover(had_trades) ==
    LET r == retain_today(acct, now)
        a == rollover_day(r, had_trades, following_day(r, now))
    IN  /\ submits("DayRollover")
        /\ finish("DayRollover", a, context("OnDayRollover", r), a)
        /\ unrecorded

\* EndOfDay and OnDemand only evaluate.
Evaluation(event, kind) ==
    LET a == prepared(now)
    IN  /\ submits(event)
        /\ finish(event, a, context(kind, a), a)
        /\ unrecorded

EndOfDay == Evaluation("EndOfDay", "OnEndOfDay")

OnDemand == Evaluation("OnDemand", "OnDemand")

EmergencyStop(at) ==
    LET a == emergency_stop(prepared(at))
    IN  /\ submits("EmergencyStop")
        /\ finish("EmergencyStop", a, context("OnDemand", a), a)
        /\ unrecorded

\* `valid` is Override::validate and the account-id match.
OverrideBreach(at, valid) ==
    LET a == prepared(at)
    IN  /\ submits("OverrideBreach")
        /\ IF ~valid \/ ~is_breach_terminal(a.status)
           THEN reject("OverrideBreach", "InvalidState")
           ELSE finish("OverrideBreach", clear_breach(a), context("OnDemand", a), clear_breach(a))
        /\ unrecorded

\* Mutant of payout_refused: any status may be paid out.
payout_refused_by_quote(a) ==
    Plan.minimum_payout = None \/ quote_payout(a, now) # "None"

payout_refused(a) ==
    \/ Plan.minimum_payout = None \/ quote_payout(a, now) # "None"
    \/ a.status \notin {"Funded", "PayoutPending"}

PayoutRequest ==
    LET a == prepared(now)
        b == mark_payout_pending(a)
    IN  /\ submits("PayoutRequest")
        /\ IF payout_refused(a) THEN reject("PayoutRequest", "InvalidState")
           ELSE finish("PayoutRequest", b, context("OnDemand", a), b)
        /\ unrecorded

PayoutApprove ==
    LET a == prepared(now)
        b == record_payout(a, now)
    IN  /\ submits("PayoutApprove")
        /\ IF payout_refused(a) THEN reject("PayoutApprove", "InvalidState")
           ELSE finish("PayoutApprove", b, context("OnDemand", a), b)
        /\ history({}, profit_basis(a))
----------------------------------------------------------------------------
(* The environment *)

Advance ==
    /\ now < MaxTime
    /\ now' = now + 1
    /\ UNCHANGED <<acct, calls, result, hist>>

(* No engine code sets the status Funded: the platform does, on an active   *)
(* account of the funded phase, before payouts can be asked for.            *)
FundedByPlatform ==
    /\ acct.phase = "Funded" /\ acct.status = "Active"
    /\ "PayoutRequest" \in Events
    /\ acct' = [acct EXCEPT !.status = "Funded"]
    /\ result' = NoResult
    /\ UNCHANGED <<now, calls, hist>>

Next ==
    \/ \E at \in Stamps : AccountStarted(at)
    \/ \E o \in Orders, at \in Stamps : OrderSubmitted(o, at)
    \/ \E f \in Fills, at \in Stamps : \E p \in named_positions(f) : TradeFilled(f, at, p)
    \/ \E q \in Quotes, ts \in Stamps : Tick(q, ts)
    \/ \E ts \in Stamps : TickEstimated(ts)
    \/ \E had \in BOOLEAN : DayRollover(had)
    \/ EndOfDay
    \/ OnDemand
    \/ \E at \in Stamps : EmergencyStop(at)
    \/ \E at \in Stamps, valid \in BOOLEAN : OverrideBreach(at, valid)
    \/ PayoutRequest
    \/ PayoutApprove
    \/ Advance
    \/ FundedByPlatform

Spec == Init /\ [][Next]_vars
----------------------------------------------------------------------------
(* Properties *)

\* Type invariant of the pipeline state: the account stays a well-formed
\* Account whatever events arrive and whatever the rules decide.
TypeOK ==
    /\ acct \in AccountType
    /\ now \in Nat
    /\ calls \in Nat
    /\ result \in [event : Option(PipelineEvent), outcome : Outcome,
                   decision : Option(DecisionKind), liquidated : Option(SUBSET Nat)]

\* No trading day is counted twice by mark_active_trading_day and rollover_day
\* together ("the two paths cannot double-count", engine/state.rs): there are
\* never more active days than days rolled plus the day in progress.
NoDayCountedTwice ==
    acct.active_trading_days
        <= acct.trading_day_index + (IF acct.day_counted_today THEN 1 ELSE 0)

\* A failed or emergency-stopped account leaves that status only through an
\* override: no tick, fill, rollover, payout or restart revives it.
BreachIsSticky ==
    [][is_breach_terminal(acct.status) /\ ~is_breach_terminal(acct'.status)
         => result'.event = "OverrideBreach"]_vars

\* A rule breach asks for the liquidation of positions only on a broker tick that is
\* fresh and past the stamp of the account: an estimate, a fill, a rollover or a manual
\* run never closes positions ("a stale equity value must never drive a breach").  The
\* order is that of the stamp, last_tick_ts, which an estimated tick, not guarded although
\* core/account.rs says "any tick", may set back; what a stop is to close is
\* StopForcesEmergency's.
LiquidationNeedsFreshTick ==
    [][calls' # calls /\ result'.decision = "Liquidate" /\ result'.liquidated # None
         => /\ result'.event = "Tick"
            /\ now - acct'.last_tick_ts <= StaleThreshold
            /\ acct.last_tick_ts # None => acct'.last_tick_ts > acct.last_tick_ts]_vars

\* The watermark of balance-based drawdown is never below the balance, through
\* fills, broker reports, payouts and promotion.
PeakBalanceIsPeak == acct.balance <= acct.peak_balance

\* The consistency rule's numbers agree: the best day is one of the positive
\* days whose profits are summed, so its profit never exceeds their sum.
BestDayWithinSum ==
    /\ 0 <= acct.largest_day_profit
    /\ acct.largest_day_profit <= acct.sum_positive_days_profit
    /\ acct.largest_day_loss <= 0

\* Profit already paid out is never paid again: the bases of all payouts add up
\* to the rise of the watermark, whatever the balance does in between.
ProfitPaidOnce ==
    hist.paid_basis = acct.balance_at_last_payout - Plan.initial_balance

\* An exit that loses more than the plan's limit for one trade ends a started account
\* ("Enforces a maximum loss on any single trade", docs/features.md): the loss is the
\* broker's own number, so that the rule may act on it.
LossLimitIsEnforced ==
    [][calls' # calls /\ acct.started_at # None /\ per_trade_limit(acct') # None
       /\ (\E t \in acct'.today_trades \ acct.today_trades :
              t.trade_side = "Exit" /\ Milli(-t.net) > per_trade_limit(acct') + Milli(Tolerance))
         => is_terminating(result'.decision)]_vars

\* An emergency stop "forces `DecisionKind::Emergency`" and "Beats every other verdict"
\* (docs/features.md): whatever the rules say of an account that trades, the stop is
\* answered so, names the open positions for liquidation and leaves the account stopped.
StopForcesEmergency ==
    [][calls' # calls /\ result'.event = "EmergencyStop" /\ ~is_skipped(acct.status)
         => /\ result'.decision = "Emergency"
            /\ result'.liquidated = {p.id : p \in acct.open_positions}
            /\ acct'.status = "EmergencyStopped"]_vars

\* active_trading_days is the "Number of distinct trading days (days with at least
\* one trade)" of the phase (core/account.rs): no such day is missed.
EveryTradingDayCounts == Cardinality(hist.traded_days) <= acct.active_trading_days

\* An account of the funded phase is never asked to upgrade ("unreachable in
\* practice", engine/pipeline.rs next_phase_for): no call fails that way.
FundedNeverUpgrades == result.outcome # "PhaseUpgradeFailed"

\* An override that is accepted, and whose own evaluation ends nothing, takes the
\* account out of breach ("this method just transitions the account back to
\* `Active`", engine/state.rs clear_breach).
OverrideClears ==
    [][calls' # calls /\ result'.event = "OverrideBreach" /\ ~is_terminating(result'.decision)
         => ~is_breach_terminal(acct'.status)]_vars

Lifecycle == INSTANCE StatusMachine
    WITH s <- [status |-> acct.status, phase |-> acct.phase,
               before |-> acct.status_before_breach]

\* The pipeline implements the abstract lifecycle: every call is one move of
\* the event followed by one verdict, and nothing else changes the status, the
\* phase or the status an override restores.  StatusMachine says where that lifecycle
\* is wider than the documented one.
ImplementsLifecycle == Lifecycle!Spec
============================================================================
