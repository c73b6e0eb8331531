------------------------------- MODULE HttpApi -------------------------------
(***************************************************************************)
(* The endpoints of the internal HTTP API (api/handlers.rs) on one account *)
(* that the platform stores: it sends the account in each request and      *)
(* keeps the account_state of the answer.  An endpoint does not evaluate   *)
(* an account whose evaluation_mode is Skip, and otherwise runs the        *)
(* pipeline, except POST /internal/v1/evaluate, which evaluates and        *)
(* applies the decision without a pipeline: it rolls no day, and neither   *)
(* reads nor stamps last_tick_ts.  Requests that fail validation change    *)
(* nothing and are not modelled here.                                      *)
(*                                                                         *)
(* The start of an account, its fills, broker ticks with a sequence, the   *)
(* day rollover and payouts have no endpoint: the platform runs them       *)
(* through the library, on the same account.  The lists a request carries  *)
(* are the ones the account holds.                                         *)
(***************************************************************************)
EXTENDS Pipeline

\* Answered with the account as it was sent.
answer(event, outcome, decision) ==
    /\ result' = [event |-> event, outcome |-> outcome, decision |-> decision,
                  liquidated |-> None]
    /\ UNCHANGED <<acct, now, calls, hist>>

not_evaluated(event) == answer(event, "NotEvaluated", None)

(* Who vouches for the numbers: a bridge tick overwrites equity and balance *)
(* with the broker's; a legacy tick leaves the stored ones.                 *)
EquitySource == {"bridge_tick", "broker_reported", "estimated"}

received(source, quote) ==
    IF source = "bridge_tick"
    THEN [acct EXCEPT !.equity = quote.equity, !.balance = quote.balance] ELSE acct

\* Mutant of raise_baselines: only the equity watermark is raised.
raise_equity_only(a, source) ==
    IF source = "estimated" THEN a
    ELSE [a EXCEPT !.peak_equity = Greater(a.equity, @)]

raise_baselines(a, source) ==
    IF source = "estimated" THEN a
    ELSE [a EXCEPT !.peak_equity = Greater(a.equity, @),
                   !.peak_balance = Greater(a.balance, @)]

\* pure::evaluate: the rules for a tick, at the tick's time and equity source.
pure_evaluate(a, source, ts) ==
    evaluate(a, [context("OnTick", a) EXCEPT
                   !.now = ts,
                   !.broker_equity = IF source = "estimated" THEN None ELSE a.equity])

\* POST /internal/v1/evaluate.  The answer carries no liquidation instruction.
evaluate_internal(source, quote, ts) ==
    LET a == raise_baselines(received(source, quote), source)
        kind == pure_evaluate(a, source, ts)
    IN  /\ submits("Tick")
        /\ IF is_skipped(acct.status) THEN not_evaluated("Tick")
           ELSE IF now - ts > StaleThreshold THEN answer("Tick", "TickRejected", None)
           ELSE IF upgrade_fails(a, kind, ts) THEN answer("Tick", "PhaseUpgradeFailed", None)
           ELSE /\ acct' = apply_decision(a, kind, ts)
                /\ calls' = calls + 1
                /\ result' = [event |-> "Tick", outcome |-> "Ok", decision |-> kind,
                              liquidated |-> None]
                /\ UNCHANGED <<now, hist>>

\* POST /internal/v1/override, with the pipeline's own checks repeated first.
override_breach(valid) == OverrideBreach(now, valid)

\* POST /internal/v1/manual-run.
manual_run ==
    IF is_skipped(acct.status) THEN submits("OnDemand") /\ not_evaluated("OnDemand")
    ELSE OnDemand

\* Mutant of emergency_stop_endpoint: the status is not looked at.
emergency_stop_any == EmergencyStop(now)

\* POST /internal/v1/emergency-stop; a stopped account is answered as stopped.
emergency_stop_endpoint ==
    IF acct.status = "EmergencyStopped"
    THEN submits("EmergencyStop") /\ answer("EmergencyStop", "Ok", "Emergency")
    ELSE IF is_skipped(acct.status)
    THEN submits("EmergencyStop") /\ not_evaluated("EmergencyStop")
    ELSE EmergencyStop(now)

\* POST /internal/v1/breach-report evaluates, and drops the resulting account.
breach_report ==
    LET a == prepared(now)
        kind == evaluate(a, context("OnDemand", a))
    IN  /\ submits("OnDemand")
        /\ IF upgrade_fails(a, kind, now) THEN answer("OnDemand", "PhaseUpgradeFailed", None)
           ELSE answer("OnDemand", "Ok", kind)

\* POST /internal/v1/evaluate-order: every order is taken as an opening one.
evaluate_order(order) ==
    IF is_skipped(acct.status) THEN submits("OrderSubmitted") /\ not_evaluated("OrderSubmitted")
    ELSE OrderSubmitted([order EXCEPT !.kind = "Open"], now)
----------------------------------------------------------------------------
(* compute_floor_hints: the equity at which the bridge should send a tick *)

\* to_cents rounds toward zero.
to_cents(x) == IF x >= 0 THEN x \div 1000 ELSE -((-x) \div 1000)

\* Mutant of floor_daily_cents: the hint of the initial balance for every type.
floor_daily_of_initial(a) ==
    to_cents(Milli(Plan.initial_balance)
               - PctOf(Plan.max_daily_drawdown_pct, Plan.initial_balance))

floor_daily_cents(a) ==
    LET reference == CASE Plan.daily_loss_type = "PctInitial" -> Plan.initial_balance
                       [] Plan.daily_loss_type = "PctPriorDay" -> a.day_start_equity
                       [] OTHER -> a.intraday_peak_equity
    IN  IF \/ Plan.drawdown_on_balance \/ Plan.daily_loss_type = "None"
           \/ Plan.max_daily_drawdown_pct = 0
        THEN None
        ELSE to_cents(Milli(reference) - PctOf(Plan.max_daily_drawdown_pct, reference))

floor_total_cents(a) ==
    IF Plan.drawdown_on_balance \/ Plan.max_total_drawdown_pct = 0 THEN None
    ELSE to_cents(max_drawdown_floor(a).floor)
----------------------------------------------------------------------------
Endpoint ==
    \/ \E source \in EquitySource, q \in Quotes, ts \in Stamps :
          evaluate_internal(source, q, ts)
    \/ \E valid \in BOOLEAN : override_breach(valid)
    \/ manual_run
    \/ emergency_stop_endpoint
    \/ breach_report
    \/ \E o \in Orders : evaluate_order(o)

\* The platform uses the endpoints and the library.
HttpNext == Endpoint \/ Next

HttpSpec == Init /\ [][HttpNext]_vars

\* An account that is not evaluated (pending, failed, stopped) is changed by no
\* endpoint but the override: neither a late tick nor a repeated emergency stop
\* overwrites its status or the status an override restores.
SkippedIsUntouched ==
    [][is_skipped(acct.status) /\ acct' # acct /\ Endpoint
         => result'.event = "OverrideBreach"]_vars

\* The bridge stays silent while no deal moves the balance ("deals always emit ticks")
\* and the equity is at or above both floors.
SilentEquities ==
    LET above(equity, floor) == floor = None \/ equity >= floor
    IN  {e \in {q.equity : q \in Quotes} :
            above(e, floor_daily_cents(acct)) /\ above(e, floor_total_cents(acct))}

\* The floor hints hide no breach: on none of the ticks a silent bridge leaves out
\* would a drawdown rule (daily, maximum or trailing) have liquidated ("The formulas
\* invert the same expressions the rule evaluators use", api/handlers.rs
\* compute_floor_hints).
HintsCoverBreach ==
    \A e \in SilentEquities :
        LET quote == [equity |-> e, balance |-> acct.balance]
            a == raise_baselines(received("bridge_tick", quote), "bridge_tick")
            c == [context("OnTick", a) EXCEPT !.broker_equity = e]
        IN  ~Plan.drawdown_on_balance
            => "Liquidate" \notin {daily_drawdown(a, c), max_drawdown(a, c),
                                   trailing_drawdown(a, c)}
============================================================================
