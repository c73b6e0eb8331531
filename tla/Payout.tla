------------------------------- MODULE Payout -------------------------------
(***************************************************************************)
(* Payout quotes and their bookkeeping (payout.rs).  A share is a whole    *)
(* percentage; the trader's part of a profit basis is kept in whole cents. *)
(***************************************************************************)
EXTENDS Account

\* PayoutConfig::trader_share_for: the last tier repeats.
trader_share_for(payout_count) ==
    LET tiers == Plan.trader_share_pct
    IN  IF tiers = <<>> THEN 0
        ELSE tiers[Lesser(payout_count, Len(tiers) - 1) + 1]

profit_basis(a) == Greater(a.balance - a.balance_at_last_payout, 0)

\* The fee is quoted whether or not the plan is marked refundable.
fee_refund(a) ==
    IF a.payout_count = 0 /\ ~a.refund_used THEN Plan.refund_fee_amount ELSE 0

trader_part(a) == (profit_basis(a) * trader_share_for(a.payout_count)) \div 100

amount(a) == trader_part(a) + fee_refund(a)

\* quote_payout(..).rejected, or "None" when the payout is permitted.
quote_payout(a, now) ==
    IF profit_basis(a) <= 0 THEN "NoProfit"
    ELSE IF amount(a) < Plan.minimum_payout THEN "BelowMinimum"
    ELSE IF /\ Plan.payout_gap # None /\ a.last_payout_at # None
            /\ now < a.last_payout_at + Plan.payout_gap
         THEN "CycleNotReached"
    ELSE "None"

\* Mutant of record_payout: the watermark is the balance after the payment.
record_payout_low_watermark(a, now) ==
    LET left == a.balance - amount(a) + fee_refund(a)
    IN  [a EXCEPT !.payout_count = @ + 1, !.balance_at_last_payout = left,
                  !.last_payout_at = now, !.balance = left,
                  !.status = IF @ = "PayoutPending" THEN "Funded" ELSE @,
                  !.refund_used = @ \/ fee_refund(a) > 0]

(* record_payout and the refund flag set by its caller.  The watermark is   *)
(* the balance before the cash leaves; the refund is the firm's own money.  *)
record_payout(a, now) ==
    [a EXCEPT !.payout_count = @ + 1,
              !.balance_at_last_payout = a.balance,
              !.last_payout_at = now,
              !.balance = @ - amount(a) + fee_refund(a),
              !.status = IF @ = "PayoutPending" THEN "Funded" ELSE @,
              !.refund_used = @ \/ fee_refund(a) > 0]
============================================================================
