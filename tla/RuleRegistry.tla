----------------------------- MODULE RuleRegistry -----------------------------
(***************************************************************************)
(* The set of rules an evaluator holds (rules/registry.rs): a vector of    *)
(* rules and an index by id, built from a rule pack (rulepack.rs) or from  *)
(* the default library, edited by register and unregister, and run on a    *)
(* context.                                                                *)
(*                                                                         *)
(* A rule is [id, priority, failure_policy, entry]: the id of a rule is    *)
(* its kind, also when a pack's entry made it; `entry` names that entry.   *)
(* What a rule's own code does on a context is an outcome from Outcomes:   *)
(* a verdict, "errs" when it returns an error or panics, "inapplicable"    *)
(* when is_enabled or the scope keeps it from running.  The limits an      *)
(* entry carries (value, unit, basis) matter to a rule's outcome only.     *)
(***************************************************************************)
EXTENDS Decision, SequencesExt

CONSTANTS
    None,        \* Rust's Option::None
    Packs,       \* rule packs: sequences of RuleEntry
    Library,     \* the kinds a library user registers with their defaults
    Outcomes     \* what a rule may do on a context

RuleEntry ==
    [id : STRING, kind : STRING, enabled : BOOLEAN, priority : Nat,
     failure_policy : {None} \cup STRING]

ASSUME PacksAssumption == Packs \subseteq Seq(RuleEntry)
ASSUME LibraryAssumption == Library \subseteq STRING

VARIABLES
    registry,    \* [rules, by_id]
    pack,        \* the pack the registry was built from, None once it was edited
    outcome,     \* what each rule did in the last evaluation, by id
    decision     \* Decision::from_reports of the last evaluation, or None

registryVars == <<registry, pack, outcome, decision>>

\* default_factory_for_kind: the kinds a pack may name.
SupportedKinds ==
    {"daily_drawdown", "max_drawdown", "trailing_drawdown", "profit_target",
     "min_trading_days", "consistency", "news_trading", "overnight_holding",
     "weekend_holding", "max_position_size", "max_open_positions", "max_daily_trades",
     "time_limit", "cooldown", "hedging", "grid_trading", "copy_trading", "sl_required",
     "tp_required", "hft_scalping", "per_trade_max_loss", "inactivity", "max_total_lots",
     "trading_hours", "margin"}

\* Rule::priority of a rule without an entry.
DefaultPriority(kind) ==
    CASE kind = "max_drawdown" -> 1000
      [] kind = "daily_drawdown" -> 900
      [] kind = "per_trade_max_loss" -> 800
      [] kind = "inactivity" -> 500
      [] OTHER -> 100

default_rule(kind) ==
    [id |-> kind, priority |-> DefaultPriority(kind), failure_policy |-> None, entry |-> None]

(* A factory.  Only five rules read the priority of their entry, and two    *)
(* keep no parameters at all, so that their failure policy is lost.         *)
from_entry(e) ==
    [id |-> e.kind,
     priority |-> IF e.kind \in {"max_drawdown", "daily_drawdown", "per_trade_max_loss",
                                 "inactivity", "hft_scalping"}
                  THEN e.priority ELSE DefaultPriority(e.kind),
     failure_policy |-> IF e.kind \in {"trading_hours", "margin"} THEN None
                        ELSE e.failure_policy,
     entry |-> e.id]
----------------------------------------------------------------------------
empty == [rules |-> <<>>, by_id |-> <<>>]

\* A rule with a known id replaces the one registered in its place.
register(r, rule) ==
    IF rule.id \in DOMAIN r.by_id
    THEN [r EXCEPT !.rules[r.by_id[rule.id]] = rule]
    ELSE [rules |-> Append(r.rules, rule),
          by_id |-> [id \in DOMAIN r.by_id \cup {rule.id} |->
                        IF id = rule.id THEN Len(r.rules) + 1 ELSE r.by_id[id]]]

\* The index that a pass over the rules inserts: the last place of an id stands.
index(rules) ==
    [id \in {rules[i].id : i \in DOMAIN rules} |->
        CHOOSE i \in DOMAIN rules :
            rules[i].id = id /\ \A j \in DOMAIN rules : rules[j].id = id => j <= i]

\* Mutant of unregister: the index of the rules behind the removed one stands.
unregister_keeps_index(r, id) ==
    IF id \notin DOMAIN r.by_id THEN r
    ELSE [rules |-> RemoveAt(r.rules, r.by_id[id]),
          by_id |-> [x \in DOMAIN r.by_id \ {id} |-> r.by_id[x]]]

unregister(r, id) ==
    LET left == RemoveAt(r.rules, r.by_id[id])
    IN  IF id \notin DOMAIN r.by_id THEN r ELSE [rules |-> left, by_id |-> index(left)]

\* Mutant of refuses: an entry of an unknown kind is passed over.
refuses_nothing(p) == FALSE

\* build_from_pack fails on an enabled entry of an unknown kind.
refuses(p) == \E i \in DOMAIN p : p[i].enabled /\ p[i].kind \notin SupportedKinds

\* build_from_pack registers the enabled entries in order; it is asked for the packs
\* it does not refuse.
build_from_pack(p) ==
    LET built[n \in 0 .. Len(p)] ==
          IF n = 0 THEN empty
          ELSE IF p[n].enabled /\ p[n].kind \in SupportedKinds
          THEN register(built[n - 1], from_entry(p[n])) ELSE built[n - 1]
    IN  built[Len(p)]
----------------------------------------------------------------------------
(* RuleRegistry::evaluate *)

\* failure_verdict, for an error and for a caught panic.
failure_verdict(rule) ==
    CASE rule.failure_policy = "soft_fail" -> "SoftFail"
      [] rule.failure_policy = "fail" -> "Fail"
      [] rule.failure_policy = "gap_flagged" -> "GapFlagged"
      [] OTHER -> "Warn"

verdict(rule, did) == IF did = "errs" THEN failure_verdict(rule) ELSE did

report(rule, did) ==
    [rule |-> rule.id, verdict |-> verdict(rule, did), priority |-> rule.priority]

\* Mutant of evaluate: the first rule that errs ends the loop.
evaluate_until_error(rules, did) ==
    LET before == {i \in DOMAIN rules : \A j \in 1 .. i : did[rules[j].id] # "errs"}
        run == retain(SubSeq(rules, 1, Cardinality(before)),
                      {r \in Range(rules) : did[r.id] # "inapplicable"})
    IN  [i \in DOMAIN run |-> report(run[i], did[run[i].id])]

\* A rule that errs reports a verdict too, and the loop goes on.
evaluate(rules, did) ==
    LET run == retain(rules, {r \in Range(rules) : did[r.id] # "inapplicable"})
    IN  [i \in DOMAIN run |-> report(run[i], did[run[i].id])]
----------------------------------------------------------------------------
edited(r, source) ==
    /\ registry' = r
    /\ pack' = source
    /\ outcome' = <<>>
    /\ decision' = None

BuildFromPack(p) ==
    IF refuses(p) THEN UNCHANGED registryVars
    ELSE edited(build_from_pack(p), p)

Register(kind) == edited(register(registry, default_rule(kind)), None)

Unregister(kind) ==
    edited(unregister(registry, kind), IF kind \in DOMAIN registry.by_id THEN None ELSE pack)

Evaluate ==
    /\ \E did \in [DOMAIN registry.by_id -> Outcomes] :
          /\ outcome' = did
          /\ decision' = from_reports(evaluate(registry.rules, did))
    /\ UNCHANGED <<registry, pack>>

Init == registry = empty /\ pack = None /\ outcome = <<>> /\ decision = None

Next ==
    \/ \E p \in Packs : BuildFromPack(p)
    \/ \E kind \in Library : Register(kind)
    \/ \E kind \in Library : Unregister(kind)
    \/ Evaluate

Spec == Init /\ [][Next]_registryVars
----------------------------------------------------------------------------
\* The index names every rule and leads to it, through replacements in place and
\* removals from the middle (registry.rs get): no rule is reached under another's id.
RegistryIndexed ==
    /\ DOMAIN registry.by_id = {registry.rules[i].id : i \in DOMAIN registry.rules}
    /\ \A id \in DOMAIN registry.by_id :
          /\ registry.by_id[id] \in DOMAIN registry.rules
          /\ registry.rules[registry.by_id[id]].id = id

\* A pack that is accepted is enforced: its enabled entries have their rules, made
\* from the last entry of each kind, and nothing else runs ("silently dropping a
\* rule means silently not enforcing it", registry.rs build_from_pack).
PackIsEnforced ==
    pack # None =>
        LET last(i) == \A j \in DOMAIN pack :
                          j > i /\ pack[j].enabled => pack[j].kind # pack[i].kind
            enabled == {i \in DOMAIN pack : pack[i].enabled}
        IN  /\ {pack[i].kind : i \in enabled} = DOMAIN registry.by_id
            /\ {pack[i].id : i \in {i \in enabled : last(i)}}
                 = {registry.rules[i].entry : i \in DOMAIN registry.rules}

\* The rules in every other order of registration.
Reorderings ==
    {[i \in DOMAIN registry.rules |-> registry.rules[f[i]]] :
        f \in {f \in [DOMAIN registry.rules -> DOMAIN registry.rules] :
                  \A i, j \in DOMAIN registry.rules : f[i] = f[j] => i = j}}

\* What the order of registration cannot change (engine/decision.rs from_reports): the
\* kind of the decision and the winning priority are the same in every order, and so is
\* the rule it names unless two rules with that verdict and that priority tie.  The
\* promise that order "no longer affects the outcome" is wider; TiesGoToTheLast says
\* what a tie does.
DecisionIgnoresOrder ==
    decision # None =>
        \A rules \in Reorderings :
            LET other == from_reports(evaluate(rules, outcome))
            IN  /\ other.kind = decision.kind
                /\ other.winning_priority = decision.winning_priority
                /\ \/ other.named = decision.named
                   \/ \E r, q \in {registry.rules[i] : i \in DOMAIN registry.rules} :
                        /\ r # q
                        /\ \A x \in {r, q} : /\ x.priority = decision.winning_priority
                                            /\ verdict(x, outcome[x.id]) = decision.kind


\* "Breach wins, always" (engine/decision.rs): a rule that terminates, or errs under
\* the failure policy "fail", ends the account whatever the other rules report, with
\* higher priority or by failing themselves.
BreachAlwaysWins ==
    decision # None =>
        ((\E i \in DOMAIN registry.rules :
            LET rule == registry.rules[i]
            IN  \/ outcome[rule.id] \in {"Fail", "Liquidate", "Emergency"}
                \/ outcome[rule.id] = "errs" /\ rule.failure_policy = "fail")
         <=> is_terminating(decision.kind))
===============================================================================
