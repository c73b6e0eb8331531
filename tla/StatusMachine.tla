---------------------------- MODULE StatusMachine ----------------------------
(***************************************************************************)
(* The lifecycle of an account that the engine follows, without money,     *)
(* days or clocks.  A call makes at most one move of its own (start, stop, *)
(* override, payout) and then at most one verdict: the target is hit, the  *)
(* phase is passed, the account is ended, or several of these in order.    *)
(*                                                                         *)
(* It is wider than the documented lifecycle in three places, where the    *)
(* code is.  A verdict ends an account of any status: a stopped one too,   *)
(* which core/account.rs says becomes Failed only through an override, and *)
(* one that the same call has just stopped, which docs/features.md says    *)
(* beats every verdict.  Ending an account twice makes the first end the   *)
(* status an override restores.  Pipeline states the documented behaviour  *)
(* as StopForcesEmergency and OverrideClears.                              *)
(***************************************************************************)
CONSTANT None

VARIABLE s      \* [status, phase, before]: before is the status an override restores

TerminalByBreach == {"Failed", "EmergencyStopped"}

Standing(status, phase, before) == [status |-> status, phase |-> phase, before |-> before]

Init == \E phase \in {"Phase1", "Phase2", "Funded"} : s = Standing("Pending", phase, None)

\* The moves of start, emergency_stop, clear_breach, the payout calls and the
\* platform; every other event makes none.
Moves(x) ==
    {x}
    \cup {Standing("EmergencyStopped", x.phase, IF x.before = None THEN x.status ELSE x.before)}
    \cup (IF x.status = "Pending" THEN {Standing("Active", x.phase, x.before)} ELSE {})
    \cup (IF x.status \in TerminalByBreach
          THEN {Standing(IF x.before # None THEN x.before
                         ELSE IF x.phase = "Funded" THEN "Funded" ELSE "Active", x.phase, None)}
          ELSE {})
    \cup (IF x.status \in {"Funded", "PayoutPending"}
          THEN {Standing(status, x.phase, x.before) : status \in {"PayoutPending", "Funded"}}
          ELSE {})
    \cup (IF x.status = "Active" /\ x.phase = "Funded"
          THEN {Standing("Funded", x.phase, x.before)} ELSE {})

Hit(x) ==
    {x} \cup (IF x.status = "Active"
              THEN {Standing("TargetHitPending", x.phase, x.before)} ELSE {})

\* A pending target that has its days is passed; nothing follows the funded phase.
Pass(x) ==
    {x} \cup (IF x.status = "TargetHitPending" /\ x.phase # "Funded"
              THEN {Standing("Active", IF x.phase = "Phase1" THEN "Phase2" ELSE "Funded", x.before)}
              ELSE {})

\* No status is exempt from a verdict.
Fail(x) ==
    {x} \cup {Standing(status, x.phase, x.status) : status \in TerminalByBreach}

Verdicts(x) == UNION {UNION {Fail(z) : z \in Pass(y)} : y \in Hit(x)}

Next == s' \in UNION {Verdicts(y) : y \in Moves(s)}

Spec == Init /\ [][Next]_s
============================================================================
