------------------------------ MODULE EventStore ------------------------------
(***************************************************************************)
(* The event log (events/store.rs) kept beside a stored account: after     *)
(* each call that succeeds the caller appends the domain events the        *)
(* pipeline returned, and `replay` rebuilds an account from the log alone. *)
(* replay is a left fold, so `replayed` holds what it returns for the log  *)
(* so far instead of the log itself.                                       *)
(*                                                                         *)
(* Only the ledger of the account is rebuilt here: when it started, its    *)
(* phase, its realized P&L and its payouts.  The other fields differ from  *)
(* the account's by design of the events (a broker tick logs no balance,   *)
(* PayoutApproved lowers the balance by the refund too and moves the       *)
(* payout watermark to what is left, RuleViolated sets a status without a  *)
(* decision), and nothing is claimed about them.                           *)
(*                                                                         *)
(* The account's type and the phase of its plan, one field in Account, are *)
(* two here: upgrade_phase sets both, replay only the first.               *)
(***************************************************************************)
EXTENDS Pipeline

VARIABLE replayed    \* [first, ledger]: the kind of the first event, the account rebuilt

eventVars == <<vars, replayed>>

Ledger(a) ==
    [started_at |-> a.started_at, deadline |-> a.deadline,
     account_type |-> a.phase, plan_phase |-> a.phase,
     total_realized_pnl |-> a.total_realized_pnl, payout_count |-> a.payout_count,
     last_payout_at |-> a.last_payout_at, refund_used |-> a.refund_used]

\* The DomainEventKinds of the calls modelled here.
EventKind == {"AccountStarted", "TradeFilled", "TickEvaluated", "PayoutRequested",
              "PayoutApproved", "PlanUpgraded", "RuleViolated"}

ASSUME LogAssumption == None \notin EventKind

\* A domain event, with the payload replay reads into the ledger.
DomainEvent(kind, at, money, to_phase) ==
    [kind |-> kind, occurred_at |-> at, money |-> money, to_phase |-> to_phase]

\* An event that tells the ledger nothing: TickEvaluated, PayoutRequested, RuleViolated.
Unposted(kind, at) == DomainEvent(kind, at, 0, None)

\* Mutant of replay_event: the refund of a payout is not remembered.
replay_forgets_refund(l, e) ==
    CASE e.kind = "AccountStarted" ->
           [l EXCEPT !.started_at = e.occurred_at,
                     !.deadline = IF Plan.time_limit_days = None THEN @
                                  ELSE e.occurred_at + Plan.time_limit_days * DayLength]
      [] e.kind = "TradeFilled" -> [l EXCEPT !.total_realized_pnl = @ + e.money]
      [] e.kind = "PlanUpgraded" -> [l EXCEPT !.account_type = e.to_phase]
      [] e.kind = "PayoutApproved" ->
           [l EXCEPT !.payout_count = @ + 1, !.last_payout_at = e.occurred_at]
      [] OTHER -> l

\* One iteration of replay's loop.
replay_event(l, e) ==
    CASE e.kind = "AccountStarted" ->
           [l EXCEPT !.started_at = e.occurred_at,
                     !.deadline = IF Plan.time_limit_days = None THEN @
                                  ELSE e.occurred_at + Plan.time_limit_days * DayLength]
      [] e.kind = "TradeFilled" -> [l EXCEPT !.total_realized_pnl = @ + e.money]
      [] e.kind = "PlanUpgraded" -> [l EXCEPT !.account_type = e.to_phase]
      [] e.kind = "PayoutApproved" ->
           [l EXCEPT !.payout_count = @ + 1, !.last_payout_at = e.occurred_at,
                     !.refund_used = @ \/ e.money > 0]
      [] OTHER -> l

\* A log that does not begin with AccountStarted has no account to replay.
append(r, e) ==
    LET first == IF r.first = None THEN e.kind ELSE r.first
    IN  [first |-> first,
         ledger |-> IF first = "AccountStarted" THEN replay_event(r.ledger, e) ELSE r.ledger]

(* The events of a call: the one of the event applied, if it has one, then  *)
(* (after what it makes of the log, `applied`) PlanUpgraded when the        *)
(* decision promoted the account, then RuleViolated for what the rules      *)
(* reported.  A call that fails returns none.                               *)
logged(applied) ==
    LET promoted == IF acct'.phase = acct.phase THEN applied
                    ELSE append(applied, DomainEvent("PlanUpgraded", now, 0, acct'.phase))
    IN  replayed' =
          IF result'.outcome # "Ok" THEN replayed
          ELSE IF result'.decision = "Pass" THEN promoted
          ELSE append(promoted, Unposted("RuleViolated", now))
----------------------------------------------------------------------------
StartAndLog(at) ==
    AccountStarted(at) /\ logged(append(replayed, Unposted("AccountStarted", at)))

\* An order has no domain event of its own.
OrderAndLog(order, at) ==
    OrderSubmitted(order, at) /\ logged(replayed)

FillAndLog(fill, at, position) ==
    /\ TradeFilled(fill, at, position)
    /\ logged(append(replayed, DomainEvent("TradeFilled", at, fill.pnl - fill.cost, None)))

TickAndLog(quote, ts) ==
    Tick(quote, ts) /\ logged(append(replayed, Unposted("TickEvaluated", ts)))

RequestAndLog ==
    PayoutRequest /\ logged(append(replayed, Unposted("PayoutRequested", now)))

ApproveAndLog ==
    /\ PayoutApprove
    /\ logged(append(replayed,
                     DomainEvent("PayoutApproved", now, fee_refund(prepared(now)), None)))

EventInit ==
    /\ Init
    /\ replayed = [first |-> None, ledger |-> Ledger(acct)]

(* Orders and the events that move money.  One that only evaluates, stops   *)
(* or overrides posts nothing but a promotion, as a tick does.              *)
EventNext ==
    \/ \E at \in Stamps : StartAndLog(at)
    \/ \E o \in Orders, at \in Stamps : OrderAndLog(o, at)
    \/ \E f \in Fills, at \in Stamps : \E p \in named_positions(f) : FillAndLog(f, at, p)
    \/ \E q \in Quotes, ts \in Stamps : TickAndLog(q, ts)
    \/ RequestAndLog
    \/ ApproveAndLog
    \/ (Advance \/ FundedByPlatform) /\ UNCHANGED replayed

EventSpec == EventInit /\ [][EventNext]_eventVars

\* Where the log has an account, replay gives back its ledger: the realized P&L of
\* every fill net of its costs, the payouts and the used refund, the account type and
\* the deadline, whatever calls failed in between (events/store.rs replay).  All but
\* the phase of the plan, which replay leaves as the account was opened with: after a
\* promotion the rebuilt account is not the one "source-of-truth" (core/events.rs)
\* speaks of.
ReplayKeepsLedger ==
    replayed.first = "AccountStarted"
        => [replayed.ledger EXCEPT !.plan_phase = acct.phase] = Ledger(acct)
=============================================================================
