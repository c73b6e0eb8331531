----------------------------- MODULE HttpProofs -----------------------------
(***************************************************************************)
(* The service endpoints keep what the pipeline keeps.  A bridge tick does *)
(* not go through update_equity and update_balance: it overwrites the      *)
(* balances and raises the watermarks afterwards, and in between the       *)
(* account's invariant does not hold.  Everything else is an action of     *)
(* Pipeline behind a check, or an answer that changes nothing.             *)
(***************************************************************************)
EXTENDS HttpApi, LifecycleProofs

\* The account that a tick's rules see is well formed again, and its standing and
\* its payout watermark are the stored ones.
LEMMA ReceivedKeeps ==
    ASSUME AccountInv(acct), NEW source \in EquitySource, NEW quote \in Quotes
    PROVE  LET a == raise_baselines(received(source, quote), source)
           IN  Keeps(acct, a) /\ Frames(acct, a)
<1> DEFINE r == received(source, quote)
           a == raise_baselines(r, source)
<1>1. quote.equity \in Int /\ quote.balance \in Int
  BY EventAssumption
<1>2. r \in AccountType
  BY Zenon, <1>1 DEF received, AccountInv, AccountType
<1>3. /\ SameDays(acct, r) /\ SameLedger(acct, r) /\ SameWatermark(acct, r)
      /\ Frames(acct, r)
  BY DEF received, AccountInv, AccountType, SameDays, SameLedger, SameWatermark, Frames,
         SameStanding, SamePosted
<1>4. source = "estimated" => r = acct
  BY DEF received
<1> HIDE DEF r
<1>5. Greater(r.equity, r.peak_equity) \in Int /\ Greater(r.balance, r.peak_balance) \in Int
  BY <1>2 DEF AccountType, Greater
<1>6. a \in AccountType
  BY Zenon, <1>2, <1>5 DEF raise_baselines, AccountType
<1>7. SameDays(r, a) /\ SameLedger(r, a) /\ SameWatermark(r, a) /\ Frames(r, a)
  BY <1>2 DEF raise_baselines, AccountType, SameDays, SameLedger, SameWatermark, Frames,
              SameStanding, SamePosted
<1>8. PeakOK(a)
  <2>1. CASE source = "estimated"
    BY <1>4, <2>1 DEF raise_baselines, AccountInv
  <2>2. CASE source # "estimated"
    <3>1. a.balance = r.balance /\ a.peak_balance = Greater(r.balance, r.peak_balance)
      BY <1>2, <2>2 DEF raise_baselines, AccountType
    <3>2. r.balance \in Int /\ r.peak_balance \in Int
      BY <1>2 DEF AccountType
    <3> QED BY <3>1, <3>2 DEF PeakOK, Greater
  <2> QED BY <2>1, <2>2
<1> HIDE DEF a
<1>9. AccountInv(a)
  BY <1>3, <1>6, <1>7, <1>8 DEF AccountInv, DaysOK, LedgerOK, SameDays, SameLedger
<1> QED BY <1>3, <1>7, <1>9 DEF Keeps, SameWatermark, Frames, SameStanding, SamePosted, a, r

\* An answer changes no account.
LEMMA AnswerOK ==
    ASSUME IInv, NEW event \in PipelineEvent, NEW outcome \in Outcome,
           NEW decision \in Option(DecisionKind), answer(event, outcome, decision)
    PROVE  IInv' /\ acct' = acct
<1>1. result' \in ResultType
  BY DEF answer, ResultType, Option
<1>2. acct' = acct /\ now' = now /\ calls' = calls /\ hist' = hist
  BY DEF answer
<1> QED BY <1>1, <1>2 DEF IInv, ProfitPaidOnce

\* POST /internal/v1/evaluate: a tick keeps the invariant and is a call on the
\* received account, or changes nothing.
LEMMA EvaluateInternalOK ==
    ASSUME IInv, NEW source \in EquitySource, NEW quote \in Quotes, NEW ts \in Nat,
           evaluate_internal(source, quote, ts)
    PROVE  /\ IInv' /\ Lives
           /\ is_skipped(acct.status) => acct' = acct
<1> DEFINE a == raise_baselines(received(source, quote), source)
           kind == pure_evaluate(a, source, ts)
<1>1. Keeps(acct, a) /\ Frames(acct, a)
  BY ReceivedKeeps DEF IInv
<1>2. kind \in DecisionKind
  BY EvaluateType DEF pure_evaluate
<1>3. \/ \E outcome \in {"NotEvaluated", "TickRejected", "PhaseUpgradeFailed"} :
           answer("Tick", outcome, None)
      \/ /\ ~is_skipped(acct.status) /\ ~upgrade_fails(a, kind, ts)
         /\ acct' = apply_decision(a, kind, ts) /\ calls' = calls + 1
         /\ result' = [event |-> "Tick", outcome |-> "Ok", decision |-> kind,
                       liquidated |-> None]
         /\ now' = now /\ hist' = hist
  BY Zenon DEF evaluate_internal, not_evaluated
<1> HIDE DEF a, kind
<1>4. CASE \E outcome \in {"NotEvaluated", "TickRejected", "PhaseUpgradeFailed"} :
             answer("Tick", outcome, None)
  <2>1. IInv' /\ acct' = acct
    BY <1>4, AnswerOK DEF PipelineEvent, Outcome, Option
  <2> QED BY <2>1 DEF Lives
<1>5. CASE /\ ~is_skipped(acct.status) /\ ~upgrade_fails(a, kind, ts)
           /\ acct' = apply_decision(a, kind, ts) /\ calls' = calls + 1
           /\ result' = [event |-> "Tick", outcome |-> "Ok", decision |-> kind,
                         liquidated |-> None]
           /\ now' = now /\ hist' = hist
  <2>1. Keeps(a, acct')
    BY <1>1, <1>5, ApplyDecisionKeeps DEF Keeps
  <2>2. result' \in ResultType /\ result'.event = "Tick" /\ result'.outcome = "Ok"
    BY <1>2, <1>5 DEF ResultType, Option, PipelineEvent, Outcome
  <2>3. IInv'
    BY <1>1, <1>5, <2>1, <2>2 DEF IInv, Keeps, SameWatermark, ProfitPaidOnce
  <2>4. Called("Tick", a)
    BY <1>1, <1>5, <2>2, DecisionIsVerdict DEF Called, Keeps
  <2> QED BY <1>1, <1>5, <2>3, <2>4, FrameLives DEF Frames
<1> QED BY <1>3, <1>4, <1>5

\* What serving one request keeps.
Served ==
    /\ IInv' /\ Lives
    /\ is_skipped(acct.status) /\ acct' # acct => result'.event = "OverrideBreach"

\* An answer without a call.
LEMMA AnswerServed ==
    ASSUME IInv, NEW event \in PipelineEvent, NEW outcome \in Outcome,
           NEW decision \in Option(DecisionKind), answer(event, outcome, decision)
    PROVE  Served
BY AnswerOK DEF Served, Lives

\* An endpoint that does not evaluate answers and changes nothing.
LEMMA NotEvaluatedServed ==
    ASSUME IInv, NEW event \in PipelineEvent, not_evaluated(event)
    PROVE  Served
BY AnswerServed DEF not_evaluated, Option, Outcome

\* POST /internal/v1/manual-run.
LEMMA ManualRunServed ==
    ASSUME IInv, manual_run
    PROVE  Served
<1>1. CASE is_skipped(acct.status)
  BY <1>1, NotEvaluatedServed DEF manual_run, PipelineEvent
<1>2. CASE ~is_skipped(acct.status)
  <2>1. Evaluation("OnDemand", "OnDemand")
    BY <1>2 DEF manual_run, OnDemand
  <2> QED BY <1>2, <2>1, EvaluationOK, EvaluationCalled, FrameLives
          DEF Served, Frames, PipelineEvent
<1> QED BY <1>1, <1>2

\* POST /internal/v1/emergency-stop.
LEMMA EmergencyStopServed ==
    ASSUME IInv, emergency_stop_endpoint
    PROVE  Served
<1>1. CASE acct.status = "EmergencyStopped"
  <2>1. answer("EmergencyStop", "Ok", "Emergency")
    BY <1>1 DEF emergency_stop_endpoint
  <2> QED BY <2>1, AnswerServed DEF PipelineEvent, Outcome, Option, DecisionKind, RuleVerdict
<1>2. CASE acct.status # "EmergencyStopped" /\ is_skipped(acct.status)
  BY <1>2, NotEvaluatedServed DEF emergency_stop_endpoint, PipelineEvent
<1>3. CASE ~is_skipped(acct.status)
  <2>1. EmergencyStop(now)
    BY <1>3 DEF emergency_stop_endpoint, is_skipped
  <2> QED BY <1>3, <2>1, EmergencyStopOK, StopLives DEF Served, IInv
<1> QED BY <1>1, <1>2, <1>3

\* POST /internal/v1/breach-report.
LEMMA BreachReportServed ==
    ASSUME IInv, breach_report
    PROVE  Served
<1> DEFINE a == prepared(now)
           kind == evaluate(a, context("OnDemand", a))
<1>1. kind \in DecisionKind
  BY EvaluateType
<1>2. answer("OnDemand", "PhaseUpgradeFailed", None) \/ answer("OnDemand", "Ok", kind)
  BY Zenon DEF breach_report
<1> HIDE DEF kind
<1> QED BY <1>1, <1>2, AnswerServed DEF PipelineEvent, Outcome, Option

\* POST /internal/v1/evaluate-order.
LEMMA EvaluateOrderServed ==
    ASSUME IInv, NEW order, evaluate_order(order)
    PROVE  Served
<1> DEFINE opening == [order EXCEPT !.kind = "Open"]
<1>1. CASE is_skipped(acct.status)
  BY <1>1, NotEvaluatedServed DEF evaluate_order, PipelineEvent
<1>2. CASE ~is_skipped(acct.status)
  <2>1. OrderSubmitted(opening, now)
    BY <1>2 DEF evaluate_order
  <2> HIDE DEF opening
  <2> QED BY <1>2, <2>1, OrderSubmittedOK, OrderCalled, FrameLives DEF Served, Frames, IInv
<1> QED BY <1>1, <1>2

\* Every request keeps the invariant and lives by the lifecycle.
LEMMA EndpointServed == IInv /\ Endpoint => Served
<1> SUFFICES ASSUME IInv, Endpoint PROVE Served
  OBVIOUS
<1>1. ASSUME NEW source \in EquitySource, NEW q \in Quotes, NEW ts \in Stamps,
             evaluate_internal(source, q, ts)
      PROVE  Served
  BY <1>1, EvaluateInternalOK DEF Served, Stamps
<1>2. ASSUME NEW valid \in BOOLEAN, override_breach(valid) PROVE Served
  <2>1. OverrideBreach(now, valid)
    BY <1>2 DEF override_breach
  <2>2. result'.event = "OverrideBreach"
    BY <2>1, OverrideCalled DEF Called, IInv
  <2> QED BY <2>1, <2>2, OverrideBreachOK, OverrideLives DEF Served, IInv
<1>3. CASE manual_run
  BY <1>3, ManualRunServed
<1>4. CASE emergency_stop_endpoint
  BY <1>4, EmergencyStopServed
<1>5. CASE breach_report
  BY <1>5, BreachReportServed
<1>6. ASSUME NEW o \in Orders, evaluate_order(o) PROVE Served
  BY <1>6, EvaluateOrderServed
<1> QED BY <1>1, <1>2, <1>3, <1>4, <1>5, <1>6 DEF Endpoint

\* So does every call of the library the service stands beside.
LEMMA HttpLives == IInv /\ [HttpNext]_vars => IInv' /\ (Lives \/ UNCHANGED vars)
BY EndpointServed, NextOK, NextLives DEF HttpNext, Served
----------------------------------------------------------------------------
\* The pipeline's inductive invariant holds behind the service too.
LEMMA HttpInvariant == HttpSpec => []IInv
<1>1. Init => IInv
  BY InitOK
<1>2. IInv /\ [HttpNext]_vars => IInv'
  BY HttpLives
<1> QED BY <1>1, <1>2, PTL DEF HttpSpec

\* Though a bridge tick writes the balance before the watermark, no request leaves
\* an account whose balance is above its peak (api/handlers.rs raise_baselines).
THEOREM HttpPeakBalance == HttpSpec => []PeakBalanceIsPeak
<1>1. IInv => PeakBalanceIsPeak
  BY DEF IInv, AccountInv, PeakOK, PeakBalanceIsPeak
<1> QED BY <1>1, HttpInvariant, PTL

\* No endpoint but the override changes an account that is not evaluated, whatever
\* the plan and the rules' verdicts (api/handlers.rs, the evaluation_mode checks).
THEOREM HttpSkipsUntouched == HttpSpec => SkippedIsUntouched
<1>1. IInv /\ [HttpNext]_vars =>
        [is_skipped(acct.status) /\ acct' # acct /\ Endpoint
           => result'.event = "OverrideBreach"]_vars
  BY EndpointServed DEF Served
<1> QED BY <1>1, HttpInvariant, PTL DEF HttpSpec, SkippedIsUntouched

\* Behind the service too, an account leaves Failed and EmergencyStopped only through
\* an override: the bridge's own tick path revives nothing (api/handlers.rs
\* evaluate_internal).
THEOREM HttpBreachSticks == HttpSpec => BreachIsSticky
<1>1. IInv /\ [HttpNext]_vars =>
        [is_breach_terminal(acct.status) /\ ~is_breach_terminal(acct'.status)
           => result'.event = "OverrideBreach"]_vars
  BY HttpLives DEF Lives
<1> QED BY <1>1, HttpInvariant, PTL DEF HttpSpec, BreachIsSticky

\* The service as a whole, its own tick path included, implements the abstract
\* lifecycle of an account.
THEOREM HttpImplementsLifecycle == HttpSpec => ImplementsLifecycle
<1>1. Init => Lifecycle!Init
  BY InitLives
<1>2. IInv /\ [HttpNext]_vars =>
        [Lifecycle!Next]_[status |-> acct.status, phase |-> acct.phase,
                          before |-> acct.status_before_breach]
  BY HttpLives DEF Lives, Lifecycle!Next, View, vars
<1> QED BY <1>1, <1>2, HttpInvariant, PTL DEF HttpSpec, ImplementsLifecycle, Lifecycle!Spec
----------------------------------------------------------------------------
(* Where the floor hints can be trusted. *)

\* The floor of the trailing rule.
trailing_floor(peak) == Milli(peak) - PctOf(Plan.trailing_drawdown_pct, peak)

\* The hints stand for the floors of the rules: a daily limit of the initial balance
\* meets a day that did not start in profit, the references that may be losses are not
\* negative, and the trailing rule, which no hint is computed for, is off or has its
\* floor at or below one that is hinted.
FloorsHinted ==
    /\ Plan.daily_loss_type = "PctInitial" => acct.day_start_equity <= Plan.initial_balance
    /\ Plan.daily_loss_type = "PctPriorDay" => acct.day_start_equity >= 0
    /\ Plan.daily_loss_type = "TrailingIntradayHigh" => acct.intraday_peak_equity >= 0
    /\ Plan.max_loss_reference = "IntradayTrail" => acct.peak_equity >= 0
    /\ Plan.trailing_drawdown_pct # 0
         => /\ acct.peak_equity >= 0
            /\ \E h \in {floor_daily_cents(acct), floor_total_cents(acct)} \ {None} :
                  trailing_floor(acct.peak_equity) <= Milli(h)

\* to_cents may round a floor down by less than a cent, the tolerance of the rules.
LEMMA FloorRounds ==
    ASSUME NEW x \in Int, NEW equity \in Int, equity >= to_cents(x)
    PROVE  Milli(equity) > x - Milli(Tolerance)
<1>1. CASE x >= 0
  <2>1. x \div 1000 \in Int /\ x < 1000 * (x \div 1000) + 1000
    BY <1>1
  <2> QED
    BY <1>1, <2>1 DEF to_cents, Milli, Tolerance
<1>2. CASE ~(x >= 0)
  <2>1. (-x) \div 1000 \in Int /\ 1000 * ((-x) \div 1000) <= -x
    BY <1>2
  <2> QED
    BY <1>2, <2>1 DEF to_cents, Milli, Tolerance
<1> QED
  BY <1>1, <1>2

\* A percentage of an amount is an integer of its sign.
LEMMA PctOfType ==
    ASSUME NEW pct \in Nat, NEW x \in Int
    PROVE  PctOf(pct, x) \in Int /\ (x >= 0 => PctOf(pct, x) >= 0)
<1>1. pct * x \in Int /\ (x >= 0 => pct * x >= 0)
  OBVIOUS
<1> QED
  BY <1>1 DEF PctOf

\* A tick of a silent bridge: the equity moved, the balance did not.
silent(equity) ==
    raise_baselines(received("bridge_tick", [equity |-> equity, balance |-> acct.balance]),
                    "bridge_tick")

\* The fields of the account such a tick is evaluated on.
LEMMA SilentTick ==
    ASSUME AccountInv(acct), NEW e \in Int
    PROVE  /\ silent(e).equity = e
           /\ silent(e).day_start_equity = acct.day_start_equity
           /\ silent(e).day_start_balance = acct.day_start_balance
           /\ silent(e).intraday_peak_equity = acct.intraday_peak_equity
           /\ silent(e).peak_equity = Greater(e, acct.peak_equity)
           /\ silent(e).peak_balance = acct.peak_balance
<1> DEFINE q == [equity |-> e, balance |-> acct.balance]
           r == received("bridge_tick", q)
           a == raise_baselines(r, "bridge_tick")
<1>1. r = [acct EXCEPT !.equity = e, !.balance = acct.balance]
  BY DEF received
<1>2. a = [r EXCEPT !.peak_equity = Greater(r.equity, r.peak_equity),
                    !.peak_balance = Greater(r.balance, r.peak_balance)]
  BY Zenon DEF raise_baselines
<1>3. /\ r.equity = e /\ r.balance = acct.balance
      /\ r.day_start_equity = acct.day_start_equity
      /\ r.day_start_balance = acct.day_start_balance
      /\ r.intraday_peak_equity = acct.intraday_peak_equity
      /\ r.peak_equity = acct.peak_equity /\ r.peak_balance = acct.peak_balance
  BY <1>1 DEF AccountInv, AccountType
<1> HIDE DEF r, q
<1>4. r \in AccountType
  <2>1. acct.balance \in Int
    BY DEF AccountInv, AccountType
  <2> QED BY <1>1, <2>1, Zenon DEF AccountInv, AccountType
<1>5. /\ a.equity = r.equity
      /\ a.day_start_equity = r.day_start_equity
      /\ a.day_start_balance = r.day_start_balance
      /\ a.intraday_peak_equity = r.intraday_peak_equity
      /\ a.peak_equity = Greater(r.equity, r.peak_equity)
      /\ a.peak_balance = Greater(r.balance, r.peak_balance)
  BY <1>2, <1>4 DEF AccountType
<1>6. Greater(acct.balance, acct.peak_balance) = acct.peak_balance
  BY DEF AccountInv, AccountType, PeakOK, Greater
<1> HIDE DEF a
<1> QED BY <1>3, <1>5, <1>6, Zenon DEF silent, a, r, q

\* A floor is an integer, in thousandths of a cent.
LEMMA FloorType ==
    ASSUME NEW a \in AccountType, ~Plan.drawdown_on_balance
    PROVE  max_drawdown_floor(a).floor \in Int
<1> DEFINE p == Plan.max_total_drawdown_pct
           kind == Plan.max_loss_reference
<1>1. /\ a.day_start_balance \in Int /\ a.peak_equity \in Int /\ a.peak_balance \in Int
      /\ p \in Nat /\ Plan.initial_balance \in Nat
      /\ kind \in {"Static", "Trailing", "EodTrailing", "IntradayTrail"}
  BY PlanAssumption DEF AccountType, PlanType
<1>2. max_drawdown_floor(a).floor =
        CASE kind = "Static" -> Milli(Plan.initial_balance) - PctOf(p, Plan.initial_balance)
          [] kind = "Trailing" -> Milli(a.peak_balance) - PctOf(p, a.peak_balance)
          [] kind = "EodTrailing" ->
               LET unlocked == Milli(a.day_start_balance) - PctOf(p, Plan.initial_balance)
               IN  IF Plan.eod_trail_locks_at_start
                   THEN Lesser(unlocked, Milli(Plan.initial_balance)) ELSE unlocked
          [] OTHER -> Milli(a.peak_equity) - PctOf(p, a.peak_equity)
  BY <1>1 DEF max_drawdown_floor
<1>3. ASSUME NEW x \in Int PROVE Milli(x) \in Int /\ PctOf(p, x) \in Int
  <2>1. PctOf(p, x) \in Int
    BY <1>1, PctOfType, Zenon
  <2> QED BY <2>1 DEF Milli
<1> QED BY <1>1, <1>2, <1>3 DEF Lesser

\* A hint is an amount of cents or absent.
LEMMA HintTypes ==
    ASSUME acct \in AccountType
    PROVE  floor_daily_cents(acct) \in Option(Int) /\ floor_total_cents(acct) \in Option(Int)
<1>1. ASSUME NEW x \in Int PROVE to_cents(x) \in Int
  BY DEF to_cents
<1>2. floor_daily_cents(acct) \in Option(Int)
  <2> DEFINE p == Plan.max_daily_drawdown_pct
             reference == CASE Plan.daily_loss_type = "PctInitial" -> Plan.initial_balance
                            [] Plan.daily_loss_type = "PctPriorDay" -> acct.day_start_equity
                            [] OTHER -> acct.intraday_peak_equity
             floor == Milli(reference) - PctOf(p, reference)
  <2>1. reference \in Int /\ p \in Nat
    BY PlanAssumption DEF AccountType, PlanType
  <2>2. floor_daily_cents(acct) \in {None, to_cents(floor)}
    BY Zenon DEF floor_daily_cents
  <2> HIDE DEF reference
  <2>3. PctOf(p, reference) \in Int
    BY <2>1, PctOfType, Zenon
  <2>4. floor \in Int
    BY <2>1, <2>3 DEF Milli
  <2> HIDE DEF floor
  <2> QED BY <1>1, <2>2, <2>4 DEF Option
<1>3. floor_total_cents(acct) \in Option(Int)
  <2>1. \/ floor_total_cents(acct) = None
        \/ /\ ~Plan.drawdown_on_balance
           /\ floor_total_cents(acct) = to_cents(max_drawdown_floor(acct).floor)
    BY Zenon DEF floor_total_cents
  <2> QED BY <1>1, <2>1, FloorType DEF Option
<1> QED BY <1>2, <1>3

\* Above the daily hint, the daily rule does not liquidate.
LEMMA DailyHint ==
    ASSUME AccountInv(acct), FloorsHinted, ~Plan.drawdown_on_balance, NEW e \in Int,
           floor_daily_cents(acct) = None \/ e >= floor_daily_cents(acct), NEW c
    PROVE  daily_drawdown(silent(e), c) # "Liquidate"
<1> DEFINE a == silent(e)
           p == Plan.max_daily_drawdown_pct
           type == Plan.daily_loss_type
           reference == CASE type = "PctInitial" -> Plan.initial_balance
                          [] type = "PctPriorDay" -> acct.day_start_equity
                          [] OTHER -> acct.intraday_peak_equity
           floor == Milli(reference) - PctOf(p, reference)
           loss == daily_loss(a)
<1> SUFFICES daily_drawdown(a, c) # "Liquidate"
  OBVIOUS
<1>1. /\ a.equity = e
      /\ a.day_start_equity = acct.day_start_equity
      /\ a.intraday_peak_equity = acct.intraday_peak_equity
  BY SilentTick
<1> HIDE DEF a
<1>2. /\ acct.day_start_equity \in Int /\ acct.intraday_peak_equity \in Int
      /\ p \in Nat /\ Plan.initial_balance \in Nat
      /\ type \in {"None", "PctInitial", "PctPriorDay", "TrailingIntradayHigh"}
  BY PlanAssumption DEF AccountInv, AccountType, PlanType
<1>3. CASE type = "None" \/ p = 0
  BY <1>3 DEF daily_drawdown
<1>4. CASE type # "None" /\ p # 0
  <2>1. reference \in Int /\ reference >= 0
    BY <1>2, <1>4 DEF FloorsHinted
  <2>2. /\ loss.reference = reference
        /\ loss.dd \in Int /\ (loss.dd = 0 \/ loss.dd <= reference - e)
    BY <1>1, <1>2, <1>4 DEF daily_loss, Greater, FloorsHinted
  <2> HIDE DEF loss
  <2>3. floor_daily_cents(acct) = to_cents(floor)
    BY <1>4, Zenon DEF floor_daily_cents
  <2> HIDE DEF reference
  <2>4. PctOf(p, reference) \in Int /\ PctOf(p, reference) >= 0
    BY <1>2, <2>1, PctOfType, Zenon
  <2>5. floor \in Int
    BY <2>1, <2>4 DEF Milli
  <2>6. floor_daily_cents(acct) \in Int
    <3> HIDE DEF floor
    <3> QED
      BY <2>3, <2>5 DEF to_cents
  <2>7. Milli(e) > floor - Milli(Tolerance)
    <3> HIDE DEF floor
    <3> QED
      BY <1>1, <2>3, <2>5, <2>6, FloorRounds, NoneAssumption
  <2>8. ~(Milli(loss.dd) > PctOf(p, loss.reference) + Milli(Tolerance))
    BY <1>1, <2>1, <2>2, <2>4, <2>7 DEF Milli, Tolerance
  <2> QED
    BY <2>8 DEF daily_drawdown, loss
<1> QED
  BY <1>3, <1>4

\* Above the total hint, the total rule does not liquidate.
LEMMA TotalHint ==
    ASSUME AccountInv(acct), FloorsHinted, ~Plan.drawdown_on_balance, NEW e \in Int,
           floor_total_cents(acct) = None \/ e >= floor_total_cents(acct),
           NEW c, c.broker_equity = e
    PROVE  max_drawdown(silent(e), c) # "Liquidate"
<1> DEFINE a == silent(e)
           p == Plan.max_total_drawdown_pct
           kind == Plan.max_loss_reference
           hinted == max_drawdown_floor(acct).floor
           floor == max_drawdown_floor(a).floor
<1> SUFFICES max_drawdown(a, c) # "Liquidate"
  OBVIOUS
<1>1. /\ a.equity = e
      /\ a.day_start_balance = acct.day_start_balance
      /\ a.peak_equity = Greater(e, acct.peak_equity)
      /\ a.peak_balance = acct.peak_balance
  BY SilentTick
<1> HIDE DEF a
<1>2. /\ acct.day_start_balance \in Int /\ acct.peak_equity \in Int /\ acct.peak_balance \in Int
      /\ p \in Nat /\ Plan.initial_balance \in Nat
      /\ kind \in {"Static", "Trailing", "EodTrailing", "IntradayTrail"}
  BY PlanAssumption DEF AccountInv, AccountType, PlanType
<1>3. CASE p = 0
  BY <1>3 DEF max_drawdown
<1>4. CASE p # 0
  <2>1. ASSUME NEW x \in {acct, a}
        PROVE  max_drawdown_floor(x).floor =
                 CASE kind = "Static" ->
                        Milli(Plan.initial_balance) - PctOf(p, Plan.initial_balance)
                   [] kind = "Trailing" -> Milli(x.peak_balance) - PctOf(p, x.peak_balance)
                   [] kind = "EodTrailing" ->
                        LET unlocked == Milli(x.day_start_balance)
                                          - PctOf(p, Plan.initial_balance)
                        IN  IF Plan.eod_trail_locks_at_start
                            THEN Lesser(unlocked, Milli(Plan.initial_balance)) ELSE unlocked
                   [] OTHER -> Milli(x.peak_equity) - PctOf(p, x.peak_equity)
    BY <1>2 DEF max_drawdown_floor
  <2>2. hinted \in Int
    BY FloorType DEF AccountInv
  <2>3. floor = hinted
        \/ (floor = Milli(e) - PctOf(p, e) /\ e >= 0)
    <3>1. CASE kind \in {"Static", "EodTrailing"}
      BY <1>1, <2>1, <3>1
    <3>2. CASE kind = "Trailing"
      BY <1>1, <2>1, <3>2
    <3>3. CASE kind = "IntradayTrail"
      <4>1. a.peak_equity = acct.peak_equity \/ (a.peak_equity = e /\ e >= 0)
        BY <1>1, <1>2, <3>3 DEF FloorsHinted, Greater
      <4> QED
        BY <2>1, <3>3, <4>1
    <3> QED
      BY <1>2, <3>1, <3>2, <3>3
  <2>4. floor_total_cents(acct) = to_cents(hinted)
    BY <1>4, Zenon DEF floor_total_cents
  <2> HIDE DEF hinted, floor
  <2>5. floor_total_cents(acct) \in Int
    BY <2>2, <2>4 DEF to_cents
  <2>6. Milli(e) > hinted - Milli(Tolerance)
    BY <1>1, <2>2, <2>4, <2>5, FloorRounds, NoneAssumption
  <2>7. PctOf(p, e) \in Int /\ (e >= 0 => PctOf(p, e) >= 0)
    BY <1>1, <1>2, PctOfType, Zenon
  <2>8. ~(Milli(e) < floor - Milli(Tolerance))
    BY <1>1, <2>2, <2>3, <2>6, <2>7 DEF Milli, Tolerance
  <2> QED
    BY <2>8 DEF max_drawdown, floor
<1> QED
  BY <1>3, <1>4

\* The trailing rule does not liquidate where a hinted floor stands for its own.
LEMMA TrailingHint ==
    ASSUME AccountInv(acct), FloorsHinted, NEW e \in Int,
           floor_daily_cents(acct) = None \/ e >= floor_daily_cents(acct),
           floor_total_cents(acct) = None \/ e >= floor_total_cents(acct),
           NEW c, c.broker_equity = e
    PROVE  trailing_drawdown(silent(e), c) # "Liquidate"
<1> DEFINE a == silent(e)
           p == Plan.trailing_drawdown_pct
           peak == acct.peak_equity
<1> SUFFICES trailing_drawdown(a, c) # "Liquidate"
  OBVIOUS
<1>1. a.peak_equity = Greater(e, peak)
  BY SilentTick
<1> HIDE DEF a
<1>2. peak \in Int /\ p \in Nat
  BY PlanAssumption DEF AccountInv, AccountType, PlanType
<1>3. CASE p = 0
  BY <1>3 DEF trailing_drawdown
<1>4. CASE p # 0
  <2>1. PICK h \in {floor_daily_cents(acct), floor_total_cents(acct)} \ {None} :
          trailing_floor(peak) <= Milli(h)
    BY <1>4 DEF FloorsHinted
  <2>2. h \in Int /\ e >= h /\ peak >= 0
    BY <1>4, <2>1, HintTypes DEF Option, FloorsHinted, AccountInv
  <2>3. PctOf(p, e) \in Int /\ PctOf(p, peak) \in Int /\ (e >= 0 => PctOf(p, e) >= 0)
    BY <1>2, PctOfType, Zenon
  <2>4. trailing_floor(peak) = Milli(peak) - PctOf(p, peak)
    BY DEF trailing_floor
  <2>5. ~(Milli(e) < Milli(a.peak_equity) - PctOf(p, a.peak_equity))
    <3>1. CASE e > peak
      <4>1. a.peak_equity = e
        BY <1>1, <1>2, <3>1 DEF Greater
      <4> QED BY <1>2, <2>2, <2>3, <3>1, <4>1 DEF Milli
    <3>2. CASE ~(e > peak)
      <4>1. a.peak_equity = peak
        BY <1>1, <1>2, <3>2 DEF Greater
      <4> QED BY <1>2, <2>1, <2>2, <2>3, <2>4, <4>1 DEF Milli
    <3> QED BY <3>1, <3>2
  <2> QED BY <2>5 DEF trailing_drawdown
<1> QED BY <1>3, <1>4

\* In every reachable state in which the hints stand for the rules' floors, a bridge
\* that stays silent at or above them misses no liquidation by a drawdown rule, the
\* trailing one included, for every plan and every equity, rounding included
\* (api/handlers.rs compute_floor_hints).  Without the condition it is false: the
\* floor_hints run shows it for a daily limit of the initial balance, and a trailing
\* rule that is tighter than the hinted floors has no hint.
THEOREM HintsCoverHintedFloors == HttpSpec => [](FloorsHinted => HintsCoverBreach)
<1>1. IInv => (FloorsHinted => HintsCoverBreach)
  <2> SUFFICES ASSUME IInv, FloorsHinted, NEW e \in SilentEquities, ~Plan.drawdown_on_balance,
                      NEW c, c = [context("OnTick", silent(e)) EXCEPT !.broker_equity = e]
               PROVE  "Liquidate" \notin {daily_drawdown(silent(e), c),
                                          max_drawdown(silent(e), c),
                                          trailing_drawdown(silent(e), c)}
    BY Zenon DEF HintsCoverBreach, silent
  <2>1. /\ e \in Int
        /\ floor_daily_cents(acct) = None \/ e >= floor_daily_cents(acct)
        /\ floor_total_cents(acct) = None \/ e >= floor_total_cents(acct)
    BY EventAssumption DEF SilentEquities
  <2>2. AccountInv(acct) /\ c.broker_equity = e
    BY DEF IInv, context
  <2>3. daily_drawdown(silent(e), c) # "Liquidate"
    BY <2>1, <2>2, DailyHint, Zenon
  <2>4. max_drawdown(silent(e), c) # "Liquidate"
    BY <2>1, <2>2, TotalHint, Zenon
  <2>5. trailing_drawdown(silent(e), c) # "Liquidate"
    BY <2>1, <2>2, TrailingHint, Zenon
  <2> QED BY <2>3, <2>4, <2>5, Zenon
<1> QED BY <1>1, HttpInvariant, PTL
=============================================================================
