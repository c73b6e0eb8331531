----------------------------- MODULE FlowProofs -----------------------------
(***************************************************************************)
(* The event log kept beside an account, and the orders in flight beside   *)
(* both.  The log is shown to implement the pipeline and the order flow to *)
(* implement the log, so the pipeline's invariant and its theorems carry   *)
(* over; what each adds is proved on top.  For the log, what a call posts  *)
(* to the ledger is compared with what replay posts for the event it logs. *)
(* For the orders, positions and orders in flight are counted against the  *)
(* cap.                                                                    *)
(***************************************************************************)
EXTENDS OrderFlow, RuleProofs, FiniteSetTheorems

(* The event log *)

\* The ledger of an account with another phase of the plan.
Rebuilt(a, x) ==
    [started_at |-> a.started_at, deadline |-> a.deadline,
     account_type |-> a.phase, plan_phase |-> x,
     total_realized_pnl |-> a.total_realized_pnl, payout_count |-> a.payout_count,
     last_payout_at |-> a.last_payout_at, refund_used |-> a.refund_used]

\* A ledger that is the account's but for the phase of the plan.
Agrees(ledger, a) == \E x : ledger = Rebuilt(a, x)

\* While a log is empty, or once it begins with AccountStarted, its ledger agrees with
\* the account's.  Any other log has no account, for good.
Follows(r, a) == r.first \in {None, "AccountStarted"} => Agrees(r.ledger, a)

\* The inductive invariant.
ReplayInv == Follows(replayed, acct)

\* An event of the log is one of the pipeline.
LEMMA EventStep == [EventNext]_eventVars => [Next]_vars
BY DEF EventNext, StartAndLog, OrderAndLog, FillAndLog, TickAndLog, RequestAndLog,
       ApproveAndLog, Next, eventVars, vars

\* Logging next to the pipeline changes nothing of what the pipeline does.
THEOREM EventStoreImplementsPipeline == EventSpec => Spec
<1>1. EventInit => Init
  BY DEF EventInit
<1> QED BY <1>1, EventStep, PTL DEF EventSpec, Spec

\* If replay makes of an event what happened to the ledger, the log follows.
LEMMA AppendFollows ==
    ASSUME NEW r, NEW a, Follows(r, a), NEW b, NEW e, e.kind \in EventKind,
           \A l : Agrees(l, a) => Agrees(replay_event(l, e), b)
    PROVE  Follows(append(r, e), b)
<1> DEFINE first == IF r.first = None THEN e.kind ELSE r.first
<1>1. /\ append(r, e).first = first
      /\ first = "AccountStarted" => append(r, e).ledger = replay_event(r.ledger, e)
  BY DEF append
<1>2. first # None
  BY LogAssumption
<1>3. CASE first = "AccountStarted"
  <2>1. Agrees(r.ledger, a)
    BY <1>3 DEF Follows
  <2> QED BY <1>1, <1>3, <2>1 DEF Follows
<1>4. CASE first # "AccountStarted"
  BY <1>1, <1>2, <1>4 DEF Follows
<1> QED BY <1>3, <1>4

\* An event that posts nothing leaves the log following.
LEMMA UnpostedFollows ==
    ASSUME NEW r, NEW a, Follows(r, a), NEW kind, NEW at,
           kind \in {"TickEvaluated", "PayoutRequested", "RuleViolated"}
    PROVE  Follows(append(r, Unposted(kind, at)), a)
<1> DEFINE e == Unposted(kind, at)
<1>1. e.kind = kind /\ kind \in EventKind
  BY DEF Unposted, DomainEvent, EventKind
<1> HIDE DEF e
<1>2. \A l : replay_event(l, e) = l
  BY <1>1 DEF replay_event
<1>3. Follows(append(r, e), a)
  BY <1>1, <1>2, AppendFollows
<1> QED BY <1>3 DEF e

\* So does the promotion of an account whose ledger otherwise stays as it is.
LEMMA UpgradeFollows ==
    ASSUME NEW r, NEW a, NEW b, Follows(r, a), SamePosted(a, b), NEW at
    PROVE  Follows(append(r, DomainEvent("PlanUpgraded", at, 0, b.phase)), b)
<1> DEFINE e == DomainEvent("PlanUpgraded", at, 0, b.phase)
<1>1. e.kind = "PlanUpgraded" /\ e.kind \in EventKind /\ e.to_phase = b.phase
  BY DEF DomainEvent, EventKind
<1> HIDE DEF e
<1>2. ASSUME NEW l, Agrees(l, a) PROVE Agrees(replay_event(l, e), b)
  <2>1. PICK x : l = Rebuilt(a, x)
    BY <1>2 DEF Agrees
  <2>2. replay_event(l, e) = [l EXCEPT !.account_type = b.phase]
    BY <1>1 DEF replay_event
  <2>3. replay_event(l, e) = Rebuilt(b, x)
    BY <2>1, <2>2 DEF Rebuilt, SamePosted
  <2> QED BY <2>3 DEF Agrees
<1>3. Follows(append(r, e), b)
  BY <1>1, <1>2, AppendFollows
<1> QED BY <1>3 DEF e

\* Where the log with the call's own event follows the account the event left, it
\* follows after the decision too, with the promotion and the violations it logs.
LEMMA LogKeeps ==
    ASSUME ReplayInv, NEW event, NEW b, Called(event, b), b.phase = acct.phase,
           NEW r, logged(r), Follows(r, b)
    PROVE  ReplayInv'
<1>1. CASE result'.outcome # "Ok"
  BY <1>1 DEF Called, logged, ReplayInv, Follows, Agrees, Rebuilt
<1>2. CASE result'.outcome = "Ok"
  <2> DEFINE promoted == IF acct'.phase = acct.phase THEN r
                         ELSE append(r, DomainEvent("PlanUpgraded", now, 0, acct'.phase))
  <2>1. SamePosted(b, acct')
    BY <1>2 DEF Called
  <2>2. Follows(promoted, acct')
    <3>1. CASE acct'.phase = acct.phase
      <4>1. \A x : Rebuilt(acct', x) = Rebuilt(b, x)
        BY <2>1, <3>1 DEF SamePosted, Rebuilt
      <4> QED BY <3>1, <4>1 DEF Follows, Agrees
    <3>2. CASE acct'.phase # acct.phase
      BY <2>1, <3>2, UpgradeFollows
    <3> QED BY <3>1, <3>2
  <2>3. replayed' = IF result'.decision = "Pass" THEN promoted
                    ELSE append(promoted, Unposted("RuleViolated", now))
    BY <1>2 DEF logged
  <2> HIDE DEF promoted
  <2>4. Follows(replayed', acct')
    BY <2>2, <2>3, UnpostedFollows
  <2> QED BY <2>4 DEF ReplayInv, Follows, Agrees, Rebuilt
<1> QED BY <1>1, <1>2

\* A start, a fill and an approved payout post what replay posts for them; orders,
\* ticks and requests post nothing.
LEMMA EventNextKeeps == IInv /\ ReplayInv /\ [EventNext]_eventVars => ReplayInv'
<1> SUFFICES ASSUME IInv, ReplayInv, [EventNext]_eventVars PROVE ReplayInv'
  OBVIOUS
<1> Stamps \subseteq Nat
  BY DEF Stamps
<1>1. ASSUME NEW at \in Stamps, StartAndLog(at) PROVE ReplayInv'
  <2> DEFINE e == Unposted("AccountStarted", at)
  <2>1. PICK b : /\ Called("AccountStarted", b)
                 /\ b.phase = acct.phase /\ b.started_at = at
                 /\ b.deadline = IF Plan.time_limit_days = None THEN acct.deadline
                                 ELSE at + Plan.time_limit_days * DayLength
                 /\ b.total_realized_pnl = acct.total_realized_pnl
                 /\ b.payout_count = acct.payout_count
                 /\ b.last_payout_at = acct.last_payout_at
                 /\ b.refund_used = acct.refund_used
    BY <1>1, StartCalled DEF StartAndLog
  <2>2. /\ logged(append(replayed, e)) /\ e.kind \in EventKind
        /\ e.kind = "AccountStarted" /\ e.occurred_at = at
    BY <1>1 DEF StartAndLog, Unposted, DomainEvent, EventKind
  <2> HIDE DEF e
  <2>3. ASSUME NEW l, Agrees(l, acct) PROVE Agrees(replay_event(l, e), b)
    <3>1. PICK x : l = Rebuilt(acct, x)
      BY <2>3 DEF Agrees
    <3>2. replay_event(l, e) = Rebuilt(b, x)
      BY <2>1, <2>2, <3>1 DEF replay_event, Rebuilt
    <3> QED BY <3>2 DEF Agrees
  <2>4. Follows(append(replayed, e), b)
    BY <2>2, <2>3, AppendFollows DEF ReplayInv
  <2> QED BY <2>1, <2>2, <2>4, LogKeeps
<1>2. ASSUME NEW f \in Fills, NEW at \in Stamps, NEW p \in named_positions(f),
             FillAndLog(f, at, p)
      PROVE  ReplayInv'
  <2> DEFINE e == DomainEvent("TradeFilled", at, f.pnl - f.cost, None)
  <2>1. PICK b : Called("TradeFilled", b) /\ Filled(b, f, p)
    BY <1>2, FillCalled DEF FillAndLog
  <2>2. /\ logged(append(replayed, e)) /\ e.kind \in EventKind
        /\ e.kind = "TradeFilled" /\ e.money = f.pnl - f.cost
    BY <1>2 DEF FillAndLog, DomainEvent, EventKind
  <2> HIDE DEF e
  <2>3. ASSUME NEW l, Agrees(l, acct) PROVE Agrees(replay_event(l, e), b)
    <3>1. PICK x : l = Rebuilt(acct, x)
      BY <2>3 DEF Agrees
    <3>2. replay_event(l, e) = Rebuilt(b, x)
      BY <2>1, <2>2, <3>1 DEF replay_event, Rebuilt, Filled, SameStanding
    <3> QED BY <3>2 DEF Agrees
  <2>4. Follows(append(replayed, e), b)
    BY <2>2, <2>3, AppendFollows DEF ReplayInv
  <2> QED BY <2>1, <2>2, <2>4, LogKeeps DEF Filled, SameStanding
<1>3. ASSUME NEW o \in Orders, NEW at \in Stamps, OrderAndLog(o, at) PROVE ReplayInv'
  <2>1. PICK b : Called("OrderSubmitted", b) /\ Frames(acct, b)
    BY <1>3, OrderCalled DEF OrderAndLog
  <2>2. Follows(replayed, b)
    BY <2>1 DEF ReplayInv, Follows, Agrees, Rebuilt, Frames, SameStanding, SamePosted
  <2> QED BY <1>3, <2>1, <2>2, LogKeeps DEF OrderAndLog, Frames, SameStanding
<1>4. ASSUME NEW q \in Quotes, NEW ts \in Stamps, TickAndLog(q, ts) PROVE ReplayInv'
  <2>1. PICK b : Called("Tick", b) /\ Frames(acct, b)
    BY <1>4, TickCalled DEF TickAndLog
  <2>2. Follows(replayed, b)
    BY <2>1 DEF ReplayInv, Follows, Agrees, Rebuilt, Frames, SameStanding, SamePosted
  <2>3. Follows(append(replayed, Unposted("TickEvaluated", ts)), b)
    BY <2>2, UnpostedFollows
  <2> QED BY <1>4, <2>1, <2>3, LogKeeps DEF TickAndLog, Frames, SameStanding
<1>5. ASSUME RequestAndLog PROVE ReplayInv'
  <2>1. PICK b : /\ Called("PayoutRequest", b)
                 /\ b.phase = acct.phase /\ SamePosted(acct, b)
    BY <1>5, RequestCalled DEF RequestAndLog
  <2>2. Follows(replayed, b)
    BY <2>1 DEF ReplayInv, Follows, Agrees, Rebuilt, SamePosted
  <2>3. Follows(append(replayed, Unposted("PayoutRequested", now)), b)
    BY <2>2, UnpostedFollows
  <2> QED BY <1>5, <2>1, <2>3, LogKeeps DEF RequestAndLog
<1>6. ASSUME ApproveAndLog PROVE ReplayInv'
  <2> DEFINE refund == fee_refund(prepared(now))
             e == DomainEvent("PayoutApproved", now, refund, None)
  <2>1. PICK b : /\ Called("PayoutApprove", b)
                 /\ b.phase = acct.phase
                 /\ b.started_at = acct.started_at /\ b.deadline = acct.deadline
                 /\ b.total_realized_pnl = acct.total_realized_pnl
                 /\ b.payout_count = acct.payout_count + 1 /\ b.last_payout_at = now
                 /\ b.refund_used = (acct.refund_used \/ refund > 0)
    BY <1>6, ApproveCalled DEF ApproveAndLog
  <2>2. /\ logged(append(replayed, e)) /\ e.kind \in EventKind
        /\ e.kind = "PayoutApproved" /\ e.occurred_at = now /\ e.money = refund
    BY <1>6 DEF ApproveAndLog, DomainEvent, EventKind
  <2> HIDE DEF refund, e
  <2>3. ASSUME NEW l, Agrees(l, acct) PROVE Agrees(replay_event(l, e), b)
    <3>1. PICK x : l = Rebuilt(acct, x)
      BY <2>3 DEF Agrees
    <3>2. replay_event(l, e) = Rebuilt(b, x)
      BY <2>1, <2>2, <3>1 DEF replay_event, Rebuilt
    <3> QED BY <3>2 DEF Agrees
  <2>4. Follows(append(replayed, e), b)
    BY <2>2, <2>3, AppendFollows DEF ReplayInv
  <2> QED BY <2>1, <2>2, <2>4, LogKeeps
<1>7. CASE Advance /\ UNCHANGED replayed
  BY <1>7 DEF Advance, ReplayInv, Follows, Agrees, Rebuilt
<1>8. CASE FundedByPlatform /\ UNCHANGED replayed
  <2>1. \A x : Rebuilt(acct', x) = Rebuilt(acct, x)
    BY <1>8 DEF FundedByPlatform, IInv, AccountInv, AccountType, Rebuilt
  <2>2. Follows(replayed', acct')
    BY <1>8, <2>1 DEF ReplayInv, Follows, Agrees
  <2> QED BY <2>2 DEF ReplayInv, Follows, Agrees, Rebuilt
<1>9. CASE UNCHANGED eventVars
  BY <1>9 DEF eventVars, vars, ReplayInv, Follows, Agrees, Rebuilt
<1> QED BY <1>1, <1>2, <1>3, <1>4, <1>5, <1>6, <1>7, <1>8, <1>9 DEF EventNext

\* Replaying the log of an account gives back its ledger: every fill's net P&L once,
\* every payout and the refund once, the account type and the deadline, whatever calls
\* failed in between and whatever the rules decided.  The phase of the plan is not part
\* of it: replay never writes it (events/store.rs replay).
THEOREM ReplayRebuildsLedger == EventSpec => []ReplayKeepsLedger
<1>1. EventInit => ReplayInv
  <2>1. Ledger(acct) = Rebuilt(acct, acct.phase)
    BY DEF Ledger, Rebuilt
  <2> QED BY <2>1 DEF EventInit, ReplayInv, Follows, Agrees
<1>2. IInv /\ ReplayInv /\ [EventNext]_eventVars => ReplayInv'
  BY EventNextKeeps
<1>3. ReplayInv => ReplayKeepsLedger
  <2> SUFFICES ASSUME ReplayInv, replayed.first = "AccountStarted"
               PROVE  [replayed.ledger EXCEPT !.plan_phase = acct.phase] = Ledger(acct)
    BY DEF ReplayKeepsLedger
  <2>1. PICK x : replayed.ledger = Rebuilt(acct, x)
    BY DEF ReplayInv, Follows, Agrees
  <2> QED BY <2>1 DEF Ledger, Rebuilt
<1> QED BY <1>1, <1>2, <1>3, EventStoreImplementsPipeline, InductiveInvariant, PTL
        DEF EventSpec
----------------------------------------------------------------------------
(* Orders in flight *)

\* The inductive invariant: both sets are finite, the platform's bound holds, and so
\* does the count of positions held and positions that may still be filled.
FlowInv ==
    /\ IsFiniteSet(acct.open_positions) /\ IsFiniteSet(working)
    /\ Cardinality(working) <= MaxWorking
    /\ CapExceededOnlyInFlight

\* An accepted entry order found room for one more position.
LEMMA AcceptedHasRoom ==
    ASSUME IInv, NEW order, OrderSubmitted(order, now), accepted, enters(order),
           order # None, IsFiniteSet(acct.open_positions), Plan.max_open_positions # None
    PROVE  Cardinality(acct.open_positions) + 1 <= Plan.max_open_positions
<1> DEFINE a == prepared(now)
           c == [context("OnOrderSubmit", a) EXCEPT !.order = order, !.submitted_at = now]
           reported == UNION {verdicts(a, c, s) : s \in {s \in EvaluationScope : applicable(c.kind, s)}}
<1>1. a.open_positions = acct.open_positions
  BY PreparedFrames DEF IInv, Frames
<1>2. finish("OrderSubmitted", a, c, a)
  BY Zenon DEF OrderSubmitted
<1>3. /\ c.kind = "OnOrderSubmit" /\ c.order = order
      /\ c.open_positions = acct.open_positions
  BY <1>1 DEF context
<1> HIDE DEF a, c
<1>4. result'.decision = evaluate(a, c)
  BY <1>2 DEF finish, accepted, reject
<1>5. "Fail" \notin reported
  <2>1. ~is_terminating(KindOf(reported))
    BY <1>4 DEF accepted, evaluate
  <2> HIDE DEF reported
  <2> QED BY <2>1 DEF KindOf, is_terminating
<1>6. max_open_positions(a, c) \in reported
  <2>1. "PreTrade" \in {s \in EvaluationScope : applicable(c.kind, s)}
    BY <1>3 DEF EvaluationScope, applicable
  <2>2. max_open_positions(a, c) \in verdicts(a, c, "PreTrade")
    BY DEF verdicts
  <2> QED BY <2>1, <2>2
<1> HIDE DEF reported
<1>7. ~(Cardinality(c.open_positions) + 1 > Plan.max_open_positions)
  BY <1>3, <1>5, <1>6 DEF max_open_positions, is_entry_order, enters
<1>8. Cardinality(acct.open_positions) \in Nat /\ Plan.max_open_positions \in Nat
  BY FS_CardinalityType, PlanAssumption DEF PlanType, Option
<1> QED BY <1>3, <1>7, <1>8

\* One more element is at most one more.
LEMMA AddOne ==
    ASSUME NEW S, NEW x, IsFiniteSet(S)
    PROVE  IsFiniteSet(S \cup {x}) /\ Cardinality(S \cup {x}) <= Cardinality(S) + 1
<1>1. Cardinality(S) \in Nat
  BY FS_CardinalityType
<1>2. /\ IsFiniteSet(S \cup {x})
      /\ Cardinality(S \cup {x}) = IF x \in S THEN Cardinality(S) ELSE Cardinality(S) + 1
  BY FS_AddElement
<1> QED BY <1>1, <1>2

\* A step that leaves positions and orders alone keeps the count.
LEMMA SameCounts ==
    ASSUME FlowInv, acct'.open_positions = acct.open_positions, working' = working
    PROVE  FlowInv'
BY DEF FlowInv, CapExceededOnlyInFlight

\* Holding fewer positions keeps the count.
LEMMA FewerPositions ==
    ASSUME FlowInv, acct'.open_positions \subseteq acct.open_positions, working' = working
    PROVE  FlowInv'
<1>1. /\ IsFiniteSet(acct'.open_positions)
      /\ Cardinality(acct'.open_positions) <= Cardinality(acct.open_positions)
  BY FS_Subset DEF FlowInv
<1>2. /\ Cardinality(acct'.open_positions) \in Nat /\ Cardinality(acct.open_positions) \in Nat
      /\ Cardinality(working) \in Nat
  BY <1>1, FS_CardinalityType DEF FlowInv
<1>3. Plan.max_open_positions # None => Plan.max_open_positions \in Nat
  BY PlanAssumption DEF PlanType, Option
<1> QED BY <1>1, <1>2, <1>3, WorkingAssumption DEF FlowInv, CapExceededOnlyInFlight

\* An order the engine accepts takes the last place in flight at most.
LEMMA SubmitKeeps ==
    ASSUME IInv, FlowInv, NEW order \in Orders, order # None, SubmitOrder(order)
    PROVE  FlowInv'
<1> DEFINE w == [id |-> calls, order |-> order]
<1>1. OrderSubmitted(order, now) /\ now \in Nat
  BY DEF SubmitOrder, OrderAndLog, IInv
<1>2. acct'.open_positions = acct.open_positions
  BY <1>1, OrderCalled DEF Called, Frames
<1>3. CASE accepted /\ enters(order)
  <2>1. working' = working \cup {w} /\ Cardinality(working) < MaxWorking
    BY <1>3 DEF SubmitOrder
  <2> HIDE DEF w
  <2>2. IsFiniteSet(working') /\ Cardinality(working') <= Cardinality(working) + 1
    BY <2>1, AddOne DEF FlowInv
  <2>3. /\ Cardinality(acct.open_positions) \in Nat
        /\ Cardinality(working) \in Nat /\ Cardinality(working') \in Nat
    BY <2>2, FS_CardinalityType DEF FlowInv
  <2>4. Plan.max_open_positions # None =>
          /\ Plan.max_open_positions \in Nat
          /\ Cardinality(acct.open_positions) + 1 <= Plan.max_open_positions
    BY <1>1, <1>3, AcceptedHasRoom, PlanAssumption DEF PlanType, Option, FlowInv
  <2> QED BY <1>2, <2>1, <2>2, <2>3, <2>4, WorkingAssumption
          DEF FlowInv, CapExceededOnlyInFlight
<1>4. CASE ~(accepted /\ enters(order))
  <2>1. working' = working
    BY <1>4 DEF SubmitOrder
  <2> QED BY <1>2, <2>1, SameCounts
<1> QED BY <1>3, <1>4

\* A fill turns an order in flight into a position.
LEMMA FillOrderKeeps ==
    ASSUME IInv, FlowInv, NEW w \in working, NEW fill \in Fills, FillOrder(w, fill)
    PROVE  FlowInv'
<1> DEFINE opened == [id |-> calls, symbol |-> fill.symbol, side |-> fill.side,
                      lots |-> fill.lots, price |-> fill.price]
<1>1. TradeFilled(fill, now, MaxCalls) /\ now \in Nat /\ fill.trade_side # "Exit"
  BY DEF FillOrder, FillAndLog, fills_order, IInv
<1>2. PICK b : Called("TradeFilled", b) /\ Filled(b, fill, MaxCalls)
  BY <1>1, FillCalled
<1>3. CASE result'.outcome = "Ok"
  <2>1. working' = working \ {w}
    BY <1>3 DEF FillOrder
  <2>2. acct'.open_positions = acct.open_positions \cup {opened}
    BY <1>1, <1>2, <1>3 DEF Called, Filled
  <2> HIDE DEF opened
  <2>3. IsFiniteSet(working') /\ Cardinality(working') = Cardinality(working) - 1
    BY <2>1, FS_RemoveElement DEF FlowInv
  <2>4. /\ IsFiniteSet(acct'.open_positions)
        /\ Cardinality(acct'.open_positions) <= Cardinality(acct.open_positions) + 1
    BY <2>2, AddOne DEF FlowInv
  <2>5. /\ Cardinality(acct.open_positions) \in Nat
        /\ Cardinality(acct'.open_positions) \in Nat
        /\ Cardinality(working) \in Nat /\ Cardinality(working') \in Nat
    BY <2>3, <2>4, FS_CardinalityType DEF FlowInv
  <2>6. Plan.max_open_positions # None => Plan.max_open_positions \in Nat
    BY PlanAssumption DEF PlanType, Option
  <2> QED BY <2>3, <2>4, <2>5, <2>6, WorkingAssumption DEF FlowInv, CapExceededOnlyInFlight
<1>4. CASE result'.outcome # "Ok"
  <2>1. working' = working
    BY <1>4 DEF FillOrder
  <2> QED BY <1>2, <1>4, <2>1, SameCounts DEF Called
<1> QED BY <1>3, <1>4

\* An exit closes a position or none.
LEMMA ExitKeeps ==
    ASSUME IInv, FlowInv, NEW fill \in Fills, NEW position, ExitFill(fill, position)
    PROVE  FlowInv'
<1>1. TradeFilled(fill, now, position) /\ now \in Nat /\ fill.trade_side = "Exit"
  BY DEF ExitFill, FillAndLog, IInv
<1>2. PICK b : Called("TradeFilled", b) /\ Filled(b, fill, position)
  BY <1>1, FillCalled
<1>3. acct'.open_positions \subseteq acct.open_positions
  BY <1>1, <1>2 DEF Called, Filled
<1> QED BY <1>3, FewerPositions DEF ExitFill

\* An order that lapses frees its place.
LEMMA LapseKeeps ==
    ASSUME FlowInv, NEW w \in working, Lapse(w)
    PROVE  FlowInv'
<1>1. acct' = acct /\ working' = working \ {w}
  BY DEF Lapse, eventVars, vars
<1>2. IsFiniteSet(working') /\ Cardinality(working') = Cardinality(working) - 1
  BY <1>1, FS_RemoveElement DEF FlowInv
<1>3. /\ Cardinality(acct.open_positions) \in Nat
      /\ Cardinality(working) \in Nat /\ Cardinality(working') \in Nat
  BY <1>2, FS_CardinalityType DEF FlowInv
<1>4. Plan.max_open_positions # None => Plan.max_open_positions \in Nat
  BY PlanAssumption DEF PlanType, Option
<1> QED BY <1>1, <1>2, <1>3, <1>4, WorkingAssumption DEF FlowInv, CapExceededOnlyInFlight
----------------------------------------------------------------------------
\* Orders, fills and exits are calls stamped with the current time; a lapse is none.
LEMMA FlowStep == IInv /\ [FlowNext]_flowVars => [EventNext]_eventVars
<1> SUFFICES ASSUME IInv, [FlowNext]_flowVars PROVE [EventNext]_eventVars
  OBVIOUS
<1> now \in Stamps
  BY StampAssumption DEF Stamps, IInv
<1>1. CASE \E o \in Orders : SubmitOrder(o)
  BY <1>1 DEF SubmitOrder, EventNext
<1>2. CASE \E w \in working, f \in Fills : FillOrder(w, f)
  <2>1. PICK w \in working, f \in Fills : FillOrder(w, f)
    BY <1>2
  <2>2. FillAndLog(f, now, MaxCalls) /\ MaxCalls \in named_positions(f)
    BY <2>1 DEF FillOrder, named_positions
  <2> QED BY <2>2 DEF EventNext
<1>3. CASE \E p \in exited_positions, f \in Fills : ExitFill(f, p)
  <2>1. PICK p \in exited_positions, f \in Fills : ExitFill(f, p)
    BY <1>3
  <2>2. FillAndLog(f, now, p) /\ p \in named_positions(f)
    BY <2>1 DEF ExitFill, exited_positions, named_positions
  <2> QED BY <2>2 DEF EventNext
<1>4. CASE (\E w \in working : Lapse(w)) \/ UNCHANGED flowVars
  BY <1>4 DEF Lapse, flowVars
<1>5. CASE StartAndLog(now)
  BY <1>5 DEF EventNext
<1>6. CASE \E q \in Quotes, ts \in Stamps : TickAndLog(q, ts)
  BY <1>6 DEF EventNext
<1>7. CASE \/ RequestAndLog \/ ApproveAndLog
           \/ (Advance \/ FundedByPlatform) /\ UNCHANGED replayed
  BY <1>7 DEF EventNext
<1> QED BY <1>1, <1>2, <1>3, <1>4, <1>5, <1>6, <1>7 DEF FlowNext

\* The invariant of the pipeline holds in the flow.
LEMMA FlowInvariant == FlowSpec => []IInv
<1>1. FlowInit => IInv
  BY InitOK DEF FlowInit, EventInit
<1>2. IInv /\ [FlowNext]_flowVars => IInv'
  BY FlowStep, EventStep, NextOK
<1> QED BY <1>1, <1>2, PTL DEF FlowSpec

\* What the platform does with orders and fills is, to the engine and its log, a
\* sequence of calls: the order flow implements the event log.
THEOREM OrderFlowImplementsLog == FlowSpec => EventSpec
<1>1. FlowInit => EventInit
  BY DEF FlowInit
<1> QED BY <1>1, FlowStep, FlowInvariant, PTL DEF FlowSpec, EventSpec

\* With orders in flight and the log kept beside the account, replay still gives back
\* the ledger, profit is paid out once and the status and phase move as the lifecycle
\* allows (events/store.rs replay, pipeline.rs PayoutApprove, apply_decision).
COROLLARY FlowKeepsMoney ==
    FlowSpec => []ReplayKeepsLedger /\ []ProfitPaidOnce /\ ImplementsLifecycle
BY OrderFlowImplementsLog, ReplayRebuildsLedger, EventStoreImplementsPipeline, PaidOnce,
   PipelineImplementsLifecycle, PTL

\* The steps of the order flow keep the count.
LEMMA FlowKeepsCount == IInv /\ FlowInv /\ [FlowNext]_flowVars => FlowInv'
<1> SUFFICES ASSUME IInv, FlowInv, [FlowNext]_flowVars PROVE FlowInv'
  OBVIOUS
<1> Stamps \subseteq Nat /\ now \in Nat
  BY DEF Stamps, IInv
<1>1. CASE \E o \in Orders : SubmitOrder(o)
  BY <1>1, SubmitKeeps, WorkingAssumption
<1>2. CASE \E w \in working, f \in Fills : FillOrder(w, f)
  BY <1>2, FillOrderKeeps
<1>3. CASE \E p \in exited_positions, f \in Fills : ExitFill(f, p)
  BY <1>3, ExitKeeps
<1>4. CASE \E w \in working : Lapse(w)
  BY <1>4, LapseKeeps
<1>5. CASE StartAndLog(now) /\ UNCHANGED working
  BY <1>5, StartCalled, SameCounts DEF StartAndLog, Called
<1>6. CASE \E q \in Quotes, ts \in Stamps : TickAndLog(q, ts) /\ UNCHANGED working
  BY <1>6, TickCalled, SameCounts DEF TickAndLog, Called, Frames
<1>7. CASE (RequestAndLog \/ ApproveAndLog) /\ UNCHANGED working
  BY <1>7, RequestCalled, ApproveCalled, SameCounts DEF RequestAndLog, ApproveAndLog, Called
<1>8. CASE (Advance \/ FundedByPlatform) /\ UNCHANGED working
  <2>1. acct'.open_positions = acct.open_positions
    BY <1>8 DEF Advance, FundedByPlatform, IInv, AccountInv, AccountType
  <2> QED BY <1>8, <2>1, SameCounts
<1>9. CASE UNCHANGED flowVars
  BY <1>9, SameCounts DEF flowVars, eventVars, vars
<1> QED BY <1>1, <1>2, <1>3, <1>4, <1>5, <1>6, <1>7, <1>8, <1>9 DEF FlowNext

\* Checking the cap against filled positions only, as MaxOpenPositionsRule does, lets an
\* account exceed it by at most the orders in flight but one, however the platform
\* orders submissions, fills and lapses.
THEOREM CapBound == FlowSpec => []CapExceededOnlyInFlight
<1>1. FlowInit => IInv /\ FlowInv
  <2> SUFFICES ASSUME FlowInit PROVE IInv /\ FlowInv
    OBVIOUS
  <2>1. IInv
    BY InitOK DEF FlowInit, EventInit
  <2>2. acct.open_positions = {} /\ working = {}
    BY DEF FlowInit, EventInit, Init, NewAccount
  <2>3. IsFiniteSet({}) /\ Cardinality({}) = 0
    BY FS_EmptySet
  <2>4. Plan.max_open_positions # None => Plan.max_open_positions \in Nat
    BY PlanAssumption DEF PlanType, Option
  <2> QED BY <2>1, <2>2, <2>3, <2>4, WorkingAssumption DEF FlowInv, CapExceededOnlyInFlight
<1>2. IInv /\ FlowInv /\ [FlowNext]_flowVars => (IInv /\ FlowInv)'
  BY FlowStep, EventStep, NextOK, FlowKeepsCount
<1>3. FlowInv => CapExceededOnlyInFlight
  BY DEF FlowInv
<1> QED BY <1>1, <1>2, <1>3, PTL DEF FlowSpec
=============================================================================
