---------------------------- MODULE RegistryCache ----------------------------
(***************************************************************************)
(* The per-plan cache of rule registries (registry_cache.rs) and the       *)
(* construction it caches (RuleRegistry::with_default_rules_for_plan).     *)
(*                                                                         *)
(* A plan is [terms, enabled]: `enabled` is the set of opt-in rules it     *)
(* switches on, `terms` stands for all its other hashed fields.  The       *)
(* cache is a function from keys to registries; a key is what the hash is  *)
(* computed from (collisions of the 64-bit hash are not modelled).         *)
(***************************************************************************)
EXTENDS FiniteSets

\* The rules that are registered only for a plan that enables them.
OptIn == {"hft_scalping", "per_trade_max_loss", "inactivity", "min_profitable_days",
          "cross_account_hedging", "lowcap_exposure", "hedging", "grid_trading",
          "copy_trading", "news_trading", "cooldown"}

\* The registry built for a plan, as the opt-in rules it registers; the seventeen
\* other rules are in every registry.
with_default_rules_for_plan(plan) == OptIn \cap plan.enabled

\* The opt-in switches among the fields plan_cache_key hashes.
Hashed == OptIn \ {"min_profitable_days", "cross_account_hedging", "lowcap_exposure"}

\* Mutant of plan_cache_key: the opt-in switches are left out of the hash.
plan_cache_key_of_terms(plan) == [terms |-> plan.terms, enabled |-> {}]

plan_cache_key(plan) == [terms |-> plan.terms, enabled |-> plan.enabled \cap Hashed]

\* The first critical section of get_or_build: a hit, or nothing.
cache_hit(cache, plan) == plan_cache_key(plan) \in DOMAIN cache

cache_get(cache, plan) == cache[plan_cache_key(plan)]

\* The second one: insert overwrites what another builder inserted meanwhile.
cache_insert(cache, plan, registry) ==
    [k \in DOMAIN cache \cup {plan_cache_key(plan)} |->
        IF k = plan_cache_key(plan) THEN registry ELSE cache[k]]
==============================================================================
