---------------------------- MODULE MCEvaluateApi ----------------------------
(***************************************************************************)
(* Instances of EvaluateApi for TLC.                                       *)
(***************************************************************************)
EXTENDS EvaluateApi

CONSTANTS h1, h2, k1, k2

TwoHandlers == {h1, h2}

PlainPlan == [terms |-> "standard", enabled |-> {}]
InactivityPlan == [PlainPlan EXCEPT !.enabled = {"inactivity"}]
ProfitableDaysPlan == [PlainPlan EXCEPT !.enabled = {"min_profitable_days"}]

Body(plan, at) == [plan |-> plan, server_time |-> at, skip |-> FALSE, fails |-> "never"]

\* Evaluations of two plans that grow stale, one of a closed account and two that fail.
MixedBodies == {Body(PlainPlan, 0), Body(InactivityPlan, 1),
                [Body(PlainPlan, 1) EXCEPT !.skip = TRUE],
                [Body(PlainPlan, 0) EXCEPT !.fails = "account_state"],
                [Body(PlainPlan, 0) EXCEPT !.fails = "upgrade"]}
OneBody == {Body(PlainPlan, 0)}
TwoPlans == {Body(PlainPlan, 0), Body(ProfitableDaysPlan, 0)}
==============================================================================
