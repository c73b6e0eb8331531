------------------------------ MODULE Decision ------------------------------
(***************************************************************************)
(* How one decision is made from the reports of many rules                 *)
(* (rules/traits.rs RuleVerdict, engine/decision.rs Decision::from_reports).*)
(*                                                                         *)
(* No transition of the account depends on more than the kind of the       *)
(* decision; the report that won is for breach reports.  A report is       *)
(* [rule, verdict, priority]; texts and numbers are left out.              *)
(***************************************************************************)
EXTENDS VecOps, Functions

RuleVerdict == {"Pass", "Skip", "Warn", "EarlyWarning", "TargetHit", "GapFlagged",
                "SoftFail", "Fail", "Liquidate", "Emergency"}

DecisionKind == RuleVerdict \ {"Skip"}

\* The kind of Decision::from_reports, from the set of verdicts reported: the
\* first non-empty category, breaches before everything else.
KindOf(verdicts) ==
    IF "Emergency" \in verdicts THEN "Emergency"
    ELSE IF "Liquidate" \in verdicts THEN "Liquidate"
    ELSE IF "Fail" \in verdicts THEN "Fail"
    ELSE IF "SoftFail" \in verdicts THEN "SoftFail"
    ELSE IF "GapFlagged" \in verdicts THEN "GapFlagged"
    ELSE IF "TargetHit" \in verdicts THEN "TargetHit"
    ELSE IF "EarlyWarning" \in verdicts THEN "EarlyWarning"
    ELSE IF "Warn" \in verdicts THEN "Warn"
    ELSE "Pass"

\* Mutant of pick_winner: the rule registered last wins.
pick_last(list) == list[Len(list)]


\* max_by returns the last of the reports that share the highest priority.
pick_winner(list) ==
    list[CHOOSE i \in DOMAIN list : \A j \in DOMAIN list :
            \/ list[j].priority < list[i].priority
            \/ list[j].priority = list[i].priority /\ j <= i]

(* Decision::from_reports.  `named` are the rules of the decision's reason: *)
(* the winner's, or all that warned.                                        *)
from_reports(reports) ==
    LET kind == KindOf({reports[i].verdict : i \in DOMAIN reports})
        category == retain(reports, {r \in Range(reports) : r.verdict = kind})
    IN  [kind |-> kind,
         winning_priority |-> IF kind = "Pass" THEN 0 ELSE pick_winner(category).priority,
         named |-> IF kind = "Pass" THEN {}
                   ELSE IF kind \in {"EarlyWarning", "Warn"}
                   THEN {category[i].rule : i \in DOMAIN category}
                   ELSE {pick_winner(category).rule}]

is_terminating(kind) == kind \in {"Fail", "Liquidate", "Emergency"}

\* Decision::account_status_target; only terminating kinds have one.
account_status_target(kind) == IF kind = "Emergency" THEN "EmergencyStopped" ELSE "Failed"
============================================================================
