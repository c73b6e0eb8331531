---------------------------- MODULE MCRuleRegistry ----------------------------
(***************************************************************************)
(* Instances of RuleRegistry for TLC.                                      *)
(***************************************************************************)
EXTENDS RuleRegistry, SequencesExt

Entry(id, kind, priority, policy) ==
    [id |-> id, kind |-> kind, enabled |-> TRUE, priority |-> priority,
     failure_policy |-> policy]

\* Two entries of one kind, one whose parameters are not kept, a disabled one and one of
\* a kind that no pack can name.
PackEntries ==
    {Entry("total_loss", "max_drawdown", 1000, "fail"),
     Entry("total_loss_soft", "max_drawdown", 500, "soft_fail"),
     Entry("idle", "inactivity", 500, None), Entry("margin", "margin", 700, "fail"),
     [Entry("idle_off", "inactivity", 900, "fail") EXCEPT !.enabled = FALSE],
     Entry("good_days", "min_profitable_days", 100, None)}

ThreeEntryPacks == BoundedSeq(PackEntries, 3)
===============================================================================
