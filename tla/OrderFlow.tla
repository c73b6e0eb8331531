------------------------------ MODULE OrderFlow ------------------------------
(***************************************************************************)
(* From an order to its fill.  The engine sees an order when it is         *)
(* submitted, and the position only when the broker reports the fill; in   *)
(* between the order is in flight and no rule counts it.  The platform     *)
(* (external) forwards an order whose decision did not terminate the       *)
(* account, and has at most MaxWorking entry orders in flight.             *)
(*                                                                         *)
(* Orders are immediate-or-cancel, as Order::market_open builds them: an   *)
(* order is filled once, perhaps for less than was asked, or lapses.  Exit *)
(* fills need no order of the engine's: stops and targets rest with the    *)
(* broker.  Orders and fills are stamped when they happen, quotes may be   *)
(* late.  The event log is kept beside the account meanwhile.              *)
(***************************************************************************)
EXTENDS EventStore

CONSTANT MaxWorking      \* entry orders the platform keeps in flight

ASSUME WorkingAssumption == MaxWorking \in Nat \ {0} /\ None \notin Orders

\* A call may carry the time it is made at.
ASSUME StampAssumption == 0 \in Offsets

VARIABLE working         \* accepted entry orders: records [id, order]

flowVars == <<eventVars, working>>

\* Closes are forwarded too, but open nothing when they fill.
enters(order) == order.kind # "Close"

accepted == result'.outcome = "Ok" /\ ~is_terminating(result'.decision)

SubmitOrder(order) ==
    /\ enters(order) => Cardinality(working) < MaxWorking
    /\ OrderAndLog(order, now)
    /\ working' = IF accepted /\ enters(order)
                  THEN working \cup {[id |-> calls, order |-> order]} ELSE working

\* A fill the broker may report for an order.
fills_order(fill, order) ==
    /\ fill.trade_side = (IF order.kind = "Open" THEN "Entry" ELSE "Reverse")
    /\ fill.symbol = order.symbol /\ fill.side = order.side /\ fill.lots <= order.lots

\* The platform delivers the fill again while the call fails.
FillOrder(w, fill) ==
    /\ fills_order(fill, w.order)
    /\ FillAndLog(fill, now, MaxCalls)
    /\ working' = IF result'.outcome = "Ok" THEN working \ {w} ELSE working

\* An open position, or one this account does not track.
exited_positions == {p.id : p \in acct.open_positions} \cup {MaxCalls}

ExitFill(fill, position) ==
    /\ fill.trade_side = "Exit"
    /\ FillAndLog(fill, now, position)
    /\ UNCHANGED working

Lapse(w) ==
    /\ working' = working \ {w}
    /\ UNCHANGED eventVars

FlowInit == EventInit /\ working = {}

FlowNext ==
    \/ \E o \in Orders : SubmitOrder(o)
    \/ \E w \in working, f \in Fills : FillOrder(w, f)
    \/ \E p \in exited_positions, f \in Fills : ExitFill(f, p)
    \/ \E w \in working : Lapse(w)
    \/ StartAndLog(now) /\ UNCHANGED working
    \/ \E q \in Quotes, ts \in Stamps : TickAndLog(q, ts) /\ UNCHANGED working
    \/ (RequestAndLog \/ ApproveAndLog) /\ UNCHANGED working
    \/ (Advance \/ FundedByPlatform) /\ UNCHANGED <<replayed, working>>

FlowSpec == FlowInit /\ [][FlowNext]_flowVars

\* The cap on open positions is checked at submission against filled positions only
\* (rules/evaluators/max_open_positions.rs): the orders in flight may pass it
\* together, but by no more than all of them but one.
CapExceededOnlyInFlight ==
    Plan.max_open_positions # None =>
        Cardinality(acct.open_positions) + Cardinality(working)
            <= Plan.max_open_positions + MaxWorking - 1
=============================================================================
