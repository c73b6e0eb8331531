--------------------------- MODULE LifecycleProofs ---------------------------
(***************************************************************************)
(* Pipeline implements StatusMachine, and a breach is left only by an      *)
(* override, for every plan and every verdict the rules may report.  Each  *)
(* call has two parts: what the event itself does to the standing of the   *)
(* account (a move), and what the decision does to it (a verdict).         *)
(***************************************************************************)
EXTENDS PipelineProofs

\* The fields StatusMachine reads, the open positions, and the fields of the log.
SameStanding(a, b) ==
    /\ b.status = a.status /\ b.phase = a.phase
    /\ b.status_before_breach = a.status_before_breach

SamePosted(a, b) ==
    /\ b.started_at = a.started_at /\ b.deadline = a.deadline
    /\ b.total_realized_pnl = a.total_realized_pnl /\ b.payout_count = a.payout_count
    /\ b.last_payout_at = a.last_payout_at /\ b.refund_used = a.refund_used

\* A bookkeeping change: none of those fields is touched.
Frames(a, b) ==
    SameStanding(a, b) /\ SamePosted(a, b) /\ b.open_positions = a.open_positions

\* The state of StatusMachine that stands for an account.
View(a) == [status |-> a.status, phase |-> a.phase, before |-> a.status_before_breach]
----------------------------------------------------------------------------
\* Rolling the day changes no standing, no position and nothing the log posts.
LEMMA RolloverFrames ==
    ASSUME NEW a, AccountInv(a), NEW had_trades \in BOOLEAN, NEW day
    PROVE  Frames(a, rollover_day(a, had_trades, day))
<1> DEFINE f == IF had_trades THEN freeze_day(a) ELSE a
<1>1. f \in AccountType
  BY FreezeDay DEF AccountInv
<1>2. Frames(a, freeze_day(a))
  BY DEF AccountInv, AccountType, freeze_day, Frames, SameStanding, SamePosted
<1>3. Frames(a, f)
  BY <1>2 DEF Frames, SameStanding, SamePosted
<1>4. rollover_day(a, had_trades, day) = open_day(f, day)
  BY DEF rollover_day
<1> HIDE DEF f
<1>5. Frames(f, open_day(f, day))
  BY <1>1 DEF AccountType, open_day, Frames, SameStanding, SamePosted
<1> QED BY <1>3, <1>4, <1>5 DEF Frames, SameStanding, SamePosted

\* What a call does before its own event changes none of those fields.
LEMMA PreparedFrames ==
    ASSUME AccountInv(acct), NEW ts \in Int
    PROVE  Frames(acct, prepared(ts))
<1> DEFINE r == auto_rollover(acct, ts)
           day == trading_day_start(ts)
           current == acct.current_trading_day_start
<1>1. Keeps(acct, r)
  BY AutoRolloverKeeps
<1>2. Frames(acct, r)
  <2>1. CASE current = None \/ day <= current
    BY <2>1 DEF auto_rollover, Frames, SameStanding, SamePosted
  <2>2. CASE ~(current = None \/ day <= current)
    <3> DEFINE q == rollover_day(acct, acct.today_realized_pnl # 0, day)
               b == [q EXCEPT !.trading_day_index = @ + (day - current - 1)]
    <3>1. Frames(acct, q)
      BY RolloverFrames
    <3>2. day \in Int
      BY DayStartType
    <3>3. q \in AccountType
      BY <3>2, RolloverKeeps DEF Keeps, AccountInv
    <3>4. r = b
      BY <2>2 DEF auto_rollover
    <3> HIDE DEF q, r
    <3>5. Frames(q, b)
      BY <3>3 DEF AccountType, Frames, SameStanding, SamePosted
    <3> QED BY <3>1, <3>4, <3>5 DEF Frames, SameStanding, SamePosted
  <2> QED BY <2>1, <2>2
<1> HIDE DEF r
<1>3. Frames(r, retain_today(r, ts))
  BY <1>1 DEF Keeps, AccountInv, AccountType, retain_today, Frames, SameStanding, SamePosted
<1> QED BY <1>2, <1>3 DEF prepared, r, Frames, SameStanding, SamePosted

\* apply_decision makes one verdict of the lifecycle and never revives an account;
\* it touches no position and posts nothing.
LEMMA DecisionIsVerdict ==
    ASSUME NEW a, AccountInv(a), NEW kind, NEW at \in Int, ~upgrade_fails(a, kind, at)
    PROVE  LET b == apply_decision(a, kind, at)
           IN  /\ View(b) \in Lifecycle!Verdicts(View(a))
               /\ is_breach_terminal(a.status) => is_breach_terminal(b.status)
               /\ SamePosted(a, b) /\ b.open_positions = a.open_positions
<1> DEFINE m == marked(a, kind, at)
           p == IF ready_to_pass(m) THEN promote(m) ELSE m
           b == apply_decision(a, kind, at)
<1>1. Keeps(a, m)
  BY MarkTargetKeeps DEF marked, Keeps, SameWatermark
<1>2. /\ View(m) \in Lifecycle!Hit(View(a))
      /\ is_breach_terminal(a.status) => is_breach_terminal(m.status)
      /\ SamePosted(a, m) /\ m.open_positions = a.open_positions
  <2>1. /\ m.phase = a.phase /\ m.status_before_breach = a.status_before_breach
        /\ \/ m.status = a.status
           \/ a.status = "Active" /\ m.status = "TargetHitPending"
        /\ SamePosted(a, m) /\ m.open_positions = a.open_positions
    BY DEF AccountInv, AccountType, marked, mark_target_reached, SamePosted
  <2> QED BY <2>1 DEF View, Lifecycle!Hit, Lifecycle!Standing, is_breach_terminal
<1>3. ready_to_pass(m) => can_upgrade(m)
  BY DEF upgrade_fails
<1> HIDE DEF m
<1>4. AccountInv(m)
  BY <1>1 DEF Keeps
<1>5. /\ View(p) \in Lifecycle!Pass(View(m))
      /\ is_breach_terminal(m.status) => is_breach_terminal(p.status)
      /\ SamePosted(m, p) /\ p.open_positions = m.open_positions
  <2>1. CASE ready_to_pass(m)
    <3>1. /\ promote(m).status = "Active" /\ promote(m).phase = next_phase_for(m.phase)
          /\ promote(m).status_before_breach = m.status_before_breach
          /\ SamePosted(m, promote(m)) /\ promote(m).open_positions = m.open_positions
      BY <1>4 DEF AccountInv, AccountType, promote, SamePosted
    <3>2. m.status = "TargetHitPending" /\ m.phase \in {"Phase1", "Phase2"}
      BY <1>3, <2>1 DEF ready_to_pass, can_upgrade
    <3> QED BY <2>1, <3>1, <3>2
            DEF View, Lifecycle!Pass, Lifecycle!Standing, is_breach_terminal, next_phase_for
  <2>2. CASE ~ready_to_pass(m)
    BY <2>2 DEF Lifecycle!Pass, SamePosted
  <2> QED BY <2>1, <2>2
<1>6. p \in AccountType
  BY <1>3, <1>4, PromoteKeeps DEF Keeps, AccountInv
<1>7. b = IF is_terminating(kind) THEN breach(p, kind) ELSE p
  BY DEF apply_decision, m
<1> HIDE DEF p, b
<1>8. /\ View(b) \in Lifecycle!Fail(View(p))
      /\ is_breach_terminal(p.status) => is_breach_terminal(b.status)
      /\ SamePosted(p, b) /\ b.open_positions = p.open_positions
  <2>1. CASE is_terminating(kind)
    <3>1. /\ b.status_before_breach = p.status /\ b.status = account_status_target(kind)
          /\ b.phase = p.phase
          /\ SamePosted(p, b) /\ b.open_positions = p.open_positions
      BY <1>6, <1>7, <2>1 DEF AccountType, breach, SamePosted
    <3>2. b.status \in {"Failed", "EmergencyStopped"}
      BY <3>1 DEF account_status_target
    <3> QED BY <3>1, <3>2 DEF View, Lifecycle!Fail, Lifecycle!Standing,
                              Lifecycle!TerminalByBreach, is_breach_terminal
  <2>2. CASE ~is_terminating(kind)
    BY <1>7, <2>2 DEF Lifecycle!Fail, SamePosted
  <2> QED BY <2>1, <2>2
<1>9. View(b) \in Lifecycle!Verdicts(View(a))
  BY <1>2, <1>5, <1>8 DEF Lifecycle!Verdicts
<1> QED BY <1>2, <1>5, <1>8, <1>9 DEF SamePosted, b
----------------------------------------------------------------------------
(* What a call leaves behind, for every event *)

\* A call for `event` whose event part made `b` of the account: it fails and changes
\* nothing, or a verdict on b follows.
Called(event, b) ==
    /\ result'.event = event
    /\ IF result'.outcome = "Ok"
       THEN /\ View(acct') \in Lifecycle!Verdicts(View(b))
            /\ is_breach_terminal(b.status) => is_breach_terminal(acct'.status)
            /\ SamePosted(b, acct') /\ acct'.open_positions = b.open_positions
       ELSE acct' = acct

\* A rejected call changes nothing.
LEMMA RejectCalled ==
    ASSUME NEW event, NEW outcome, outcome # "Ok", reject(event, outcome), NEW b
    PROVE  Called(event, b) /\ result'.outcome # "Ok"
BY DEF reject, Called

\* A call that gets to its decision.
LEMMA FinishCalled ==
    ASSUME NEW event, NEW a, NEW c, NEW b, AccountInv(b), now \in Int, finish(event, a, c, b)
    PROVE  Called(event, b)
<1> DEFINE kind == evaluate(a, c)
<1> HIDE DEF kind
<1>1. CASE upgrade_fails(b, kind, now)
  <2>1. reject(event, "PhaseUpgradeFailed")
    BY <1>1 DEF finish, kind
  <2> QED BY <2>1, RejectCalled
<1>2. CASE ~upgrade_fails(b, kind, now)
  <2>1. acct' = apply_decision(b, kind, now) /\ result'.event = event /\ result'.outcome = "Ok"
    BY <1>2 DEF finish, kind
  <2> QED BY <1>2, <2>1, DecisionIsVerdict DEF Called
<1> QED BY <1>1, <1>2

\* The event part of a fill: one position more or fewer, its net P&L posted.
Filled(b, fill, position) ==
    /\ SameStanding(acct, b)
    /\ b.open_positions =
         IF fill.trade_side = "Exit" THEN {p \in acct.open_positions : p.id # position}
         ELSE acct.open_positions \cup
                {[id |-> calls, symbol |-> fill.symbol, side |-> fill.side,
                  lots |-> fill.lots, price |-> fill.price]}
    /\ b.started_at = acct.started_at /\ b.deadline = acct.deadline
    /\ b.total_realized_pnl = acct.total_realized_pnl + (fill.pnl - fill.cost)
    /\ b.payout_count = acct.payout_count /\ b.last_payout_at = acct.last_payout_at
    /\ b.refund_used = acct.refund_used

\* PipelineEvent::AccountStarted: only a pending account starts.
LEMMA StartCalled ==
    ASSUME IInv, NEW at \in Nat, AccountStarted(at)
    PROVE  \E b : /\ Called("AccountStarted", b)
                  /\ result'.outcome = "Ok" => acct.status = "Pending"
                  /\ b.status = "Active" /\ b.phase = acct.phase
                  /\ b.status_before_breach = acct.status_before_breach
                  /\ b.open_positions = acct.open_positions
                  /\ b.started_at = at
                  /\ b.deadline = IF Plan.time_limit_days = None THEN acct.deadline
                                  ELSE at + Plan.time_limit_days * DayLength
                  /\ b.total_realized_pnl = acct.total_realized_pnl
                  /\ b.payout_count = acct.payout_count
                  /\ b.last_payout_at = acct.last_payout_at
                  /\ b.refund_used = acct.refund_used
<1> DEFINE a == prepared(at)
           b == start(a, at)
<1>1. AccountInv(a) /\ Frames(acct, a)
  BY PreparedKeeps, PreparedFrames DEF IInv, Keeps
<1>2. \/ reject("AccountStarted", "InvalidState")
      \/ a.status = "Pending" /\ finish("AccountStarted", b, context("OnDemand", a), b)
  BY Zenon DEF AccountStarted
<1> HIDE DEF a
<1>3. AccountInv(b)
  BY <1>1, StartKeeps DEF Keeps
<1>4. /\ b.status = "Active" /\ b.phase = a.phase
      /\ b.status_before_breach = a.status_before_breach
      /\ b.open_positions = a.open_positions /\ b.started_at = at
      /\ b.deadline = IF Plan.time_limit_days = None THEN a.deadline
                      ELSE at + Plan.time_limit_days * DayLength
      /\ b.total_realized_pnl = a.total_realized_pnl /\ b.payout_count = a.payout_count
      /\ b.last_payout_at = a.last_payout_at /\ b.refund_used = a.refund_used
  BY <1>1 DEF AccountInv, AccountType, start
<1> HIDE DEF b
<1>5. Called("AccountStarted", b) /\ (result'.outcome = "Ok" => a.status = "Pending")
  BY <1>2, <1>3, RejectCalled, FinishCalled DEF IInv
<1> WITNESS b
<1> QED BY <1>1, <1>4, <1>5 DEF Frames, SameStanding, SamePosted

\* PipelineEvent::TradeFilled.
LEMMA FillCalled ==
    ASSUME IInv, NEW at \in Nat, NEW fill \in Fills, NEW position,
           TradeFilled(fill, at, position)
    PROVE  \E b : Called("TradeFilled", b) /\ Filled(b, fill, position)
<1> DEFINE p == prepared(at)
           net == fill.pnl - fill.cost
           q == apply_realized_pnl(p, net, at)
           a == mark_active_trading_day(q)
           b == consume_fill(a, fill, at, position)
           t == [trade_side |-> fill.trade_side, symbol |-> fill.symbol,
                 pnl |-> fill.pnl, executed_at |-> at]
           c == [context("OnTradeFill", p) EXCEPT !.trade = t]
<1>1. \/ reject("TradeFilled", "Persistence")
      \/ finish("TradeFilled", a, c, b)
  BY Zenon DEF TradeFilled
<1>2. net \in Int
  BY EventAssumption
<1>3. AccountInv(p) /\ Frames(acct, p)
  BY PreparedKeeps, PreparedFrames DEF IInv, Keeps
<1> HIDE DEF p, net
<1>4. AccountInv(q)
  BY <1>2, <1>3, RealizedPnlKeeps DEF Keeps
<1>5. /\ SameStanding(p, q) /\ q.open_positions = p.open_positions
      /\ q.started_at = p.started_at /\ q.deadline = p.deadline
      /\ q.total_realized_pnl = p.total_realized_pnl + net
      /\ q.payout_count = p.payout_count /\ q.last_payout_at = p.last_payout_at
      /\ q.refund_used = p.refund_used
  BY <1>3 DEF AccountInv, AccountType, apply_realized_pnl, SameStanding
<1> HIDE DEF q
<1>6. AccountInv(a) /\ Frames(q, a)
  <2>1. AccountInv(a)
    BY <1>4, MarkActiveKeeps DEF Keeps
  <2>2. Frames(q, a)
    BY <1>4 DEF AccountInv, AccountType, mark_active_trading_day, Frames, SameStanding, SamePosted
  <2> QED BY <2>1, <2>2
<1> HIDE DEF a
<1>7. AccountInv(b)
  BY <1>6, ConsumeFillKeeps DEF Keeps, IInv
<1>8. /\ SameStanding(a, b) /\ SamePosted(a, b)
      /\ b.open_positions =
           IF fill.trade_side = "Exit" THEN {x \in a.open_positions : x.id # position}
           ELSE a.open_positions \cup
                  {[id |-> calls, symbol |-> fill.symbol, side |-> fill.side,
                    lots |-> fill.lots, price |-> fill.price]}
  BY <1>6 DEF AccountInv, AccountType, consume_fill, SameStanding, SamePosted
<1> HIDE DEF b, c
<1>9. Called("TradeFilled", b)
  BY <1>1, <1>7, RejectCalled, FinishCalled DEF IInv
<1>10. Filled(b, fill, position)
  BY <1>3, <1>5, <1>6, <1>8 DEF Filled, Frames, SameStanding, SamePosted, net
<1> QED BY <1>9, <1>10

\* PipelineEvent::OrderSubmitted: the rules run on the account as it stands.
LEMMA OrderCalled ==
    ASSUME IInv, NEW at \in Nat, NEW order, OrderSubmitted(order, at)
    PROVE  \E b : Called("OrderSubmitted", b) /\ Frames(acct, b)
<1> DEFINE a == prepared(at)
           c == [context("OnOrderSubmit", a) EXCEPT !.order = order, !.submitted_at = at]
<1>1. AccountInv(a) /\ Frames(acct, a)
  BY PreparedKeeps, PreparedFrames DEF IInv, Keeps
<1>2. finish("OrderSubmitted", a, c, a)
  BY Zenon DEF OrderSubmitted
<1> HIDE DEF a, c
<1> QED BY <1>1, <1>2, FinishCalled DEF IInv

\* PipelineEvent::Tick: the broker's equity and balance, and the time of the tick.
LEMMA TickCalled ==
    ASSUME IInv, NEW ts \in Nat, NEW quote \in Quotes, Tick(quote, ts)
    PROVE  \E b : Called("Tick", b) /\ Frames(acct, b)
<1> DEFINE p == prepared(ts)
           q == update_equity(p, quote.equity)
           a == update_balance(q, quote.balance)
           b == [a EXCEPT !.last_tick_ts = ts]
           c == [context("OnTick", p) EXCEPT !.broker_equity = quote.equity]
<1>1. \/ reject("Tick", "TickRejected")
      \/ finish("Tick", a, c, b)
  BY Zenon DEF Tick
<1>2. quote.equity \in Int /\ quote.balance \in Int
  BY EventAssumption
<1>3. AccountInv(p) /\ Frames(acct, p)
  BY PreparedKeeps, PreparedFrames DEF IInv, Keeps
<1> HIDE DEF p
<1>4. AccountInv(q)
  BY <1>2, <1>3, UpdateEquityKeeps DEF Keeps
<1>5. Frames(p, q)
  BY <1>3 DEF AccountInv, AccountType, update_equity, Frames, SameStanding, SamePosted
<1> HIDE DEF q
<1>6. AccountInv(a)
  BY <1>2, <1>4, UpdateBalanceKeeps DEF Keeps
<1>7. Frames(q, a)
  BY <1>4 DEF AccountInv, AccountType, update_balance, Frames, SameStanding, SamePosted
<1> HIDE DEF a
<1>8. AccountInv(b)
  BY <1>6, LastTickKeeps DEF Keeps
<1>9. Frames(a, b)
  BY <1>6 DEF AccountInv, AccountType, Frames, SameStanding, SamePosted
<1> HIDE DEF b, c
<1>10. Called("Tick", b)
  BY <1>1, <1>8, RejectCalled, FinishCalled DEF IInv
<1>11. Frames(acct, b)
  BY <1>3, <1>5, <1>7, <1>9 DEF Frames, SameStanding, SamePosted
<1> QED BY <1>10, <1>11

\* PipelineEvent::TickEstimated.
LEMMA TickEstimatedCalled ==
    ASSUME IInv, NEW ts \in Nat, TickEstimated(ts)
    PROVE  \E b : Called("TickEstimated", b) /\ Frames(acct, b)
<1> DEFINE a == prepared(ts)
           b == [a EXCEPT !.last_tick_ts = ts]
           c == context("OnTick", a)
<1>1. finish("TickEstimated", a, c, b)
  BY Zenon DEF TickEstimated
<1>2. AccountInv(a) /\ Frames(acct, a)
  BY PreparedKeeps, PreparedFrames DEF IInv, Keeps
<1> HIDE DEF a
<1>3. AccountInv(b)
  BY <1>2, LastTickKeeps DEF Keeps
<1>4. Frames(a, b)
  BY <1>2 DEF AccountInv, AccountType, Frames, SameStanding, SamePosted
<1> HIDE DEF b, c
<1>5. Called("TickEstimated", b) /\ Frames(acct, b)
  BY <1>1, <1>2, <1>3, <1>4, FinishCalled DEF IInv, Frames, SameStanding, SamePosted
<1> QED BY <1>5

\* PipelineEvent::DayRollover.
LEMMA DayRolloverCalled ==
    ASSUME IInv, NEW had \in BOOLEAN, DayRollover(had)
    PROVE  \E b : Called("DayRollover", b) /\ Frames(acct, b)
<1> DEFINE r == retain_today(acct, now)
           next == following_day(r, now)
           a == rollover_day(r, had, next)
           c == context("OnDayRollover", r)
<1>1. finish("DayRollover", a, c, a)
  BY Zenon DEF DayRollover
<1>2. AccountInv(r)
  BY RetainTodayKeeps DEF IInv, Keeps
<1>3. Frames(acct, r)
  BY DEF IInv, AccountInv, AccountType, retain_today, Frames, SameStanding, SamePosted
<1> HIDE DEF r
<1>4. next \in Int
  BY <1>2, FollowingDayType DEF AccountInv, IInv
<1> HIDE DEF next
<1>5. AccountInv(a) /\ Frames(r, a)
  BY <1>2, <1>4, RolloverKeeps, RolloverFrames DEF Keeps
<1> HIDE DEF a, c
<1>6. Called("DayRollover", a) /\ Frames(acct, a)
  BY <1>1, <1>3, <1>5, FinishCalled DEF IInv, Frames, SameStanding, SamePosted
<1> QED BY <1>6

\* PipelineEvent::EndOfDay and OnDemand.
LEMMA EvaluationCalled ==
    ASSUME IInv, NEW event, NEW kind, Evaluation(event, kind)
    PROVE  \E b : Called(event, b) /\ Frames(acct, b)
<1> DEFINE a == prepared(now)
           c == context(kind, a)
<1>1. finish(event, a, c, a)
  BY Zenon DEF Evaluation
<1>2. AccountInv(a) /\ Frames(acct, a)
  BY PreparedKeeps, PreparedFrames DEF IInv, Keeps
<1> HIDE DEF a, c
<1> QED BY <1>1, <1>2, FinishCalled DEF IInv

\* PipelineEvent::EmergencyStop: the status to restore is the first one saved.
LEMMA EmergencyStopCalled ==
    ASSUME IInv, NEW at \in Nat, EmergencyStop(at)
    PROVE  \E b : /\ Called("EmergencyStop", b)
                  /\ b.status = "EmergencyStopped" /\ b.phase = acct.phase
                  /\ b.status_before_breach =
                       IF acct.status_before_breach = None THEN acct.status
                       ELSE acct.status_before_breach
<1> DEFINE p == prepared(at)
           a == emergency_stop(p)
           c == context("OnDemand", a)
<1>1. finish("EmergencyStop", a, c, a)
  BY Zenon DEF EmergencyStop
<1>2. AccountInv(p) /\ Frames(acct, p)
  BY PreparedKeeps, PreparedFrames DEF IInv, Keeps
<1> HIDE DEF p
<1>3. AccountInv(a)
  BY <1>2, EmergencyStopKeeps DEF Keeps
<1>4. /\ a.status = "EmergencyStopped" /\ a.phase = p.phase
      /\ a.status_before_breach = IF p.status_before_breach = None THEN p.status
                                  ELSE p.status_before_breach
  BY <1>2 DEF AccountInv, AccountType, emergency_stop
<1> HIDE DEF a, c
<1>5. Called("EmergencyStop", a)
  BY <1>1, <1>3, FinishCalled DEF IInv
<1> WITNESS a
<1> QED BY <1>2, <1>4, <1>5 DEF Frames, SameStanding

\* PipelineEvent::OverrideBreach: only a breached account is restored.
LEMMA OverrideCalled ==
    ASSUME IInv, NEW at \in Nat, NEW valid, OverrideBreach(at, valid)
    PROVE  \E b : /\ Called("OverrideBreach", b)
                  /\ result'.outcome = "Ok" => is_breach_terminal(acct.status)
                  /\ b.status = IF acct.status_before_breach # None
                                THEN acct.status_before_breach
                                ELSE IF acct.phase = "Funded" THEN "Funded" ELSE "Active"
                  /\ b.phase = acct.phase /\ b.status_before_breach = None
<1> DEFINE a == prepared(at)
           b == clear_breach(a)
           c == context("OnDemand", a)
<1>1. \/ reject("OverrideBreach", "InvalidState")
      \/ is_breach_terminal(a.status) /\ finish("OverrideBreach", b, c, b)
  BY Zenon DEF OverrideBreach
<1>2. AccountInv(a) /\ Frames(acct, a)
  BY PreparedKeeps, PreparedFrames DEF IInv, Keeps
<1> HIDE DEF a
<1>3. AccountInv(b)
  BY <1>2, ClearBreachKeeps DEF Keeps
<1>4. /\ b.status = IF a.status_before_breach # None THEN a.status_before_breach
                    ELSE IF a.phase = "Funded" THEN "Funded" ELSE "Active"
      /\ b.phase = a.phase /\ b.status_before_breach = None
  BY <1>2 DEF AccountInv, AccountType, clear_breach
<1> HIDE DEF b, c
<1>5. /\ Called("OverrideBreach", b)
      /\ result'.outcome = "Ok" => is_breach_terminal(a.status)
  BY <1>1, <1>3, RejectCalled, FinishCalled DEF IInv
<1> WITNESS b
<1> QED BY <1>2, <1>4, <1>5 DEF Frames, SameStanding

\* PipelineEvent::PayoutRequest: only from Funded or PayoutPending.
LEMMA RequestCalled ==
    ASSUME IInv, PayoutRequest
    PROVE  \E b : /\ Called("PayoutRequest", b)
                  /\ result'.outcome = "Ok" => acct.status \in {"Funded", "PayoutPending"}
                  /\ b.status = "PayoutPending" /\ b.phase = acct.phase
                  /\ b.status_before_breach = acct.status_before_breach
                  /\ SamePosted(acct, b) /\ b.open_positions = acct.open_positions
<1> DEFINE a == prepared(now)
           b == mark_payout_pending(a)
           c == context("OnDemand", a)
<1>1. \/ reject("PayoutRequest", "InvalidState")
      \/ ~payout_refused(a) /\ finish("PayoutRequest", b, c, b)
  BY Zenon DEF PayoutRequest
<1>2. AccountInv(a) /\ Frames(acct, a)
  BY PreparedKeeps, PreparedFrames DEF IInv, Keeps
<1> HIDE DEF a
<1>3. AccountInv(b)
  BY <1>2, PayoutPendingKeeps DEF Keeps
<1>4. /\ b.status = "PayoutPending" /\ b.phase = a.phase
      /\ b.status_before_breach = a.status_before_breach /\ SamePosted(a, b)
      /\ b.open_positions = a.open_positions
  BY <1>2 DEF AccountInv, AccountType, mark_payout_pending, SamePosted
<1>5. ~payout_refused(a) => a.status \in {"Funded", "PayoutPending"}
  BY Zenon DEF payout_refused
<1> HIDE DEF b, c
<1>6. /\ Called("PayoutRequest", b)
      /\ result'.outcome = "Ok" => ~payout_refused(a)
  BY <1>1, <1>3, RejectCalled, FinishCalled DEF IInv
<1> WITNESS b
<1> QED BY <1>2, <1>4, <1>5, <1>6 DEF Frames, SameStanding, SamePosted

\* PipelineEvent::PayoutApprove: a pending payout is paid and the account funded again.
LEMMA ApproveCalled ==
    ASSUME IInv, PayoutApprove
    PROVE  \E b : /\ Called("PayoutApprove", b)
                  /\ result'.outcome = "Ok" => acct.status \in {"Funded", "PayoutPending"}
                  /\ b.status = (IF acct.status = "PayoutPending" THEN "Funded" ELSE acct.status)
                  /\ b.phase = acct.phase /\ b.open_positions = acct.open_positions
                  /\ b.status_before_breach = acct.status_before_breach
                  /\ b.started_at = acct.started_at /\ b.deadline = acct.deadline
                  /\ b.total_realized_pnl = acct.total_realized_pnl
                  /\ b.payout_count = acct.payout_count + 1 /\ b.last_payout_at = now
                  /\ b.refund_used = (acct.refund_used \/ fee_refund(prepared(now)) > 0)
<1> DEFINE a == prepared(now)
           b == record_payout(a, now)
           c == context("OnDemand", a)
<1>1. \/ reject("PayoutApprove", "InvalidState")
      \/ ~payout_refused(a) /\ finish("PayoutApprove", b, c, b)
  BY Zenon DEF PayoutApprove
<1>2. AccountInv(a) /\ Frames(acct, a)
  BY PreparedKeeps, PreparedFrames DEF IInv, Keeps
<1> HIDE DEF a
<1>3. AccountInv(b)
  BY <1>2, RecordPayout DEF IInv
<1>4. /\ b.status = (IF a.status = "PayoutPending" THEN "Funded" ELSE a.status)
      /\ b.phase = a.phase /\ b.status_before_breach = a.status_before_breach
      /\ b.started_at = a.started_at /\ b.deadline = a.deadline
      /\ b.total_realized_pnl = a.total_realized_pnl
      /\ b.payout_count = a.payout_count + 1 /\ b.last_payout_at = now
      /\ b.refund_used = (a.refund_used \/ fee_refund(a) > 0)
      /\ b.open_positions = a.open_positions
  BY <1>2 DEF AccountInv, AccountType, record_payout
<1>5. ~payout_refused(a) => a.status \in {"Funded", "PayoutPending"}
  BY Zenon DEF payout_refused
<1> HIDE DEF b, c
<1>6. /\ Called("PayoutApprove", b)
      /\ result'.outcome = "Ok" => ~payout_refused(a)
  BY <1>1, <1>3, RejectCalled, FinishCalled DEF IInv
<1> WITNESS b
<1> QED BY <1>2, <1>4, <1>5, <1>6 DEF Frames, SameStanding, SamePosted, a
----------------------------------------------------------------------------
(* The lifecycle *)

\* A step of the pipeline as the lifecycle sees it.
Lives ==
    /\ \/ View(acct') = View(acct)
       \/ View(acct') \in UNION {Lifecycle!Verdicts(y) : y \in Lifecycle!Moves(View(acct))}
    /\ is_breach_terminal(acct.status) /\ ~is_breach_terminal(acct'.status)
         => result'.event = "OverrideBreach"

\* A move of the event, then a verdict.
LEMMA CallLives ==
    ASSUME NEW event, NEW b, Called(event, b),
           result'.outcome = "Ok" => View(b) \in Lifecycle!Moves(View(acct)),
           is_breach_terminal(acct.status) /\ event # "OverrideBreach"
             /\ result'.outcome = "Ok" => is_breach_terminal(b.status)
    PROVE  Lives
<1>1. CASE result'.outcome = "Ok"
  BY <1>1 DEF Called, Lives
<1>2. CASE result'.outcome # "Ok"
  BY <1>2 DEF Called, Lives
<1> QED BY <1>1, <1>2

\* An event that does not touch the standing makes the empty move.
LEMMA FrameLives ==
    ASSUME NEW event, NEW b, Called(event, b), SameStanding(acct, b)
    PROVE  Lives
<1>1. View(b) = View(acct)
  BY DEF SameStanding, View
<1>2. View(acct) \in Lifecycle!Moves(View(acct))
  BY DEF Lifecycle!Moves
<1> QED BY <1>1, <1>2, CallLives DEF SameStanding

\* Starting moves a pending account to active.
LEMMA StartLives ==
    ASSUME IInv, NEW at \in Nat, AccountStarted(at)
    PROVE  Lives
<1>1. PICK b : /\ Called("AccountStarted", b)
               /\ result'.outcome = "Ok" => acct.status = "Pending"
               /\ b.status = "Active" /\ b.phase = acct.phase
               /\ b.status_before_breach = acct.status_before_breach
  BY StartCalled
<1>2. result'.outcome = "Ok" => View(b) \in Lifecycle!Moves(View(acct))
  BY <1>1 DEF View, Lifecycle!Moves, Lifecycle!Standing
<1> QED BY <1>1, <1>2, CallLives DEF is_breach_terminal

\* An emergency stop ends any account.
LEMMA StopLives ==
    ASSUME IInv, NEW at \in Nat, EmergencyStop(at)
    PROVE  Lives
<1>1. PICK b : /\ Called("EmergencyStop", b)
               /\ b.status = "EmergencyStopped" /\ b.phase = acct.phase
               /\ b.status_before_breach =
                    IF acct.status_before_breach = None THEN acct.status
                    ELSE acct.status_before_breach
  BY EmergencyStopCalled
<1>2. View(b) \in Lifecycle!Moves(View(acct))
  BY <1>1 DEF View, Lifecycle!Moves, Lifecycle!Standing
<1> QED BY <1>1, <1>2, CallLives DEF is_breach_terminal

\* An override takes an ended account back to where it was.
LEMMA OverrideLives ==
    ASSUME IInv, NEW at \in Nat, NEW valid \in BOOLEAN, OverrideBreach(at, valid)
    PROVE  Lives
<1>1. PICK b : /\ Called("OverrideBreach", b)
               /\ result'.outcome = "Ok" => is_breach_terminal(acct.status)
               /\ b.status = IF acct.status_before_breach # None
                             THEN acct.status_before_breach
                             ELSE IF acct.phase = "Funded" THEN "Funded" ELSE "Active"
               /\ b.phase = acct.phase /\ b.status_before_breach = None
  BY OverrideCalled
<1>2. result'.outcome = "Ok" => View(b) \in Lifecycle!Moves(View(acct))
  BY <1>1 DEF View, Lifecycle!Moves, Lifecycle!Standing, Lifecycle!TerminalByBreach,
              is_breach_terminal
<1> QED BY <1>1, <1>2, CallLives

\* Every step of the pipeline is a step of the lifecycle or a stutter of it.
LEMMA NextLives == IInv /\ [Next]_vars => Lives \/ UNCHANGED vars
<1> SUFFICES ASSUME IInv, Next PROVE Lives
  OBVIOUS
<1> Stamps \subseteq Nat
  BY DEF Stamps
<1>1. CASE \E at \in Stamps : AccountStarted(at)
  BY <1>1, StartLives
<1>2. CASE \E o \in Orders, at \in Stamps : OrderSubmitted(o, at)
  BY <1>2, OrderCalled, FrameLives DEF Frames
<1>3. CASE \E f \in Fills, at \in Stamps : \E p \in named_positions(f) : TradeFilled(f, at, p)
  BY <1>3, FillCalled, FrameLives DEF Filled
<1>4. CASE \E q \in Quotes, ts \in Stamps : Tick(q, ts)
  BY <1>4, TickCalled, FrameLives DEF Frames
<1>5. CASE \E ts \in Stamps : TickEstimated(ts)
  BY <1>5, TickEstimatedCalled, FrameLives DEF Frames
<1>6. CASE \E had \in BOOLEAN : DayRollover(had)
  BY <1>6, DayRolloverCalled, FrameLives DEF Frames
<1>7. CASE EndOfDay \/ OnDemand
  BY <1>7, EvaluationCalled, FrameLives DEF EndOfDay, OnDemand, Frames
<1>8. CASE \E at \in Stamps : EmergencyStop(at)
  BY <1>8, StopLives
<1>9. CASE \E at \in Stamps, valid \in BOOLEAN : OverrideBreach(at, valid)
  BY <1>9, OverrideLives
<1>10. CASE PayoutRequest
  <2>1. PICK b : /\ Called("PayoutRequest", b)
                 /\ result'.outcome = "Ok" => acct.status \in {"Funded", "PayoutPending"}
                 /\ b.status = "PayoutPending" /\ b.phase = acct.phase
                 /\ b.status_before_breach = acct.status_before_breach
    BY <1>10, RequestCalled
  <2>2. result'.outcome = "Ok" => View(b) \in Lifecycle!Moves(View(acct))
    BY <2>1 DEF View, Lifecycle!Moves, Lifecycle!Standing
  <2> QED BY <2>1, <2>2, CallLives DEF is_breach_terminal
<1>11. CASE PayoutApprove
  <2>1. PICK b : /\ Called("PayoutApprove", b)
                 /\ result'.outcome = "Ok" => acct.status \in {"Funded", "PayoutPending"}
                 /\ b.status = (IF acct.status = "PayoutPending" THEN "Funded" ELSE acct.status)
                 /\ b.phase = acct.phase
                 /\ b.status_before_breach = acct.status_before_breach
    BY <1>11, ApproveCalled
  <2>2. result'.outcome = "Ok" => View(b) \in Lifecycle!Moves(View(acct))
    BY <2>1 DEF View, Lifecycle!Moves, Lifecycle!Standing
  <2> QED BY <2>1, <2>2, CallLives DEF is_breach_terminal
<1>12. CASE Advance
  BY <1>12 DEF Advance, Lives
<1>13. CASE FundedByPlatform
  <2>1. /\ acct.phase = "Funded" /\ acct.status = "Active"
        /\ acct'.status = "Funded" /\ acct'.phase = acct.phase
        /\ acct'.status_before_breach = acct.status_before_breach
    BY <1>13 DEF FundedByPlatform, IInv, AccountInv, AccountType
  <2>2. View(acct') \in Lifecycle!Moves(View(acct))
    BY <2>1 DEF View, Lifecycle!Moves, Lifecycle!Standing
  <2>3. View(acct') \in Lifecycle!Verdicts(View(acct'))
    BY DEF Lifecycle!Verdicts, Lifecycle!Hit, Lifecycle!Pass, Lifecycle!Fail
  <2> QED BY <2>1, <2>2, <2>3 DEF Lives, is_breach_terminal
<1> QED BY <1>1, <1>2, <1>3, <1>4, <1>5, <1>6, <1>7, <1>8, <1>9, <1>10, <1>11, <1>12,
           <1>13 DEF Next

\* A new account is an initial state of the lifecycle.
LEMMA InitLives == Init => Lifecycle!Init
<1> SUFFICES ASSUME Init PROVE Lifecycle!Init
  OBVIOUS
<1>1. PICK ph \in InitPhases : acct = NewAccount(ph)
  BY DEF Init
<1>2. ph \in {"Phase1", "Phase2", "Funded"}
  BY EventAssumption DEF Phase
<1>3. acct.status = "Pending" /\ acct.phase = ph /\ acct.status_before_breach = None
  BY <1>1 DEF NewAccount
<1> QED BY <1>2, <1>3 DEF Lifecycle!Init, Lifecycle!Standing

\* No tick, fill, order, rollover, payout, stop or restart takes a failed or stopped
\* account out of breach: only an override does (engine/pipeline.rs apply_decision).
THEOREM BreachSticks == Spec => BreachIsSticky
<1>1. IInv /\ [Next]_vars =>
        [is_breach_terminal(acct.status) /\ ~is_breach_terminal(acct'.status)
           => result'.event = "OverrideBreach"]_vars
  BY NextLives DEF Lives
<1> QED BY <1>1, InductiveInvariant, PTL DEF Spec, BreachIsSticky

\* Pipeline::process implements the abstract lifecycle: whatever the plan and the
\* verdicts of the rules, a call is one move of its event and one verdict.
THEOREM PipelineImplementsLifecycle == Spec => ImplementsLifecycle
<1>1. Init => Lifecycle!Init
  BY InitLives
<1>2. IInv /\ [Next]_vars =>
        [Lifecycle!Next]_[status |-> acct.status, phase |-> acct.phase,
                          before |-> acct.status_before_breach]
  BY NextLives DEF Lives, Lifecycle!Next, View, vars
<1> QED BY <1>1, <1>2, InductiveInvariant, PTL DEF Spec, ImplementsLifecycle, Lifecycle!Spec
==============================================================================
