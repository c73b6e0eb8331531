----------------------------- MODULE EvaluateApi -----------------------------
(***************************************************************************)
(* POST /internal/v1/evaluate (api/handlers.rs evaluate_internal) with the *)
(* two shared structures its handlers touch: the registry cache and the    *)
(* idempotency store.  Requests run concurrently, one per slot, and        *)
(* interleave at the critical sections of the two mutexes.  A client may   *)
(* send a request again at any time: after its answer, or while the first  *)
(* copy is still being handled because it timed out.                       *)
(*                                                                         *)
(* The verdict is not modelled here (Pipeline does): a response is         *)
(* identified by the attempt that computed it, since every evaluation      *)
(* stamps fresh violation ids.                                             *)
(***************************************************************************)
EXTENDS RegistryCache, Idempotency

CONSTANTS
    None,
    Slots,           \* handlers that may run at once
    Keys,            \* <<tenant, Idempotency-Key>> pairs clients use
    Bodies,          \* request bodies: [plan, server_time, skip, fails]
    StaleThreshold,  \* the ten minutes of the staleness check
    MaxTime,         \* bound on the clock
    MaxAttempts      \* bound on the requests sent

VARIABLES
    cache,           \* registry_cache::CACHE
    store,           \* AppState.idempotency
    now,             \* the pod's clock
    req,             \* the request in each slot
    attempts,        \* requests sent so far
    replies          \* history: the answers given to bodies that can be evaluated

vars == <<cache, store, now, req, attempts, replies>>

Idle == [pc |-> "idle"]

Init ==
    /\ cache = <<>>
    /\ store = EmptyStore
    /\ now = 0
    /\ req = [s \in Slots |-> Idle]
    /\ attempts = 0
    /\ replies = {}

\* `answer` leaves the handler: `of` is the attempt whose response is returned.
answer(s, status, of) ==
    /\ replies' = replies \cup {[attempt |-> req[s].attempt, key |-> req[s].key,
                                 body |-> req[s].body, status |-> status, of |-> of,
                                 at |-> now, registry |-> req[s].registry]}
    /\ req' = [req EXCEPT ![s] = Idle]

\* An error that this body always gets.
refuse(s) == req' = [req EXCEPT ![s] = Idle] /\ UNCHANGED replies

goto(s, pc) == req' = [req EXCEPT ![s].pc = pc]

\* A client sends a request, with or without an Idempotency-Key.
Send(s, key, body) ==
    /\ req[s] = Idle /\ attempts < MaxAttempts
    /\ attempts' = attempts + 1
    /\ req' = [req EXCEPT ![s] = [pc |-> "received", key |-> key, body |-> body,
                                  attempt |-> attempts + 1, registry |-> None]]
    /\ UNCHANGED <<cache, store, now, replies>>

\* The checks before the registry is fetched: an invalid account_state is an
\* error, an account that is not evaluated skips to the answer.  body.fails is
\* the place where the handling of the body fails, or "never".
Validate(s) ==
    /\ req[s].pc = "received"
    /\ IF req[s].body.fails = "account_state" THEN refuse(s)
       ELSE /\ goto(s, IF req[s].body.skip THEN "evaluated" ELSE "lookup")
            /\ UNCHANGED replies
    /\ UNCHANGED <<cache, store, now, attempts>>

\* get_or_build, first lock.
Lookup(s) ==
    /\ req[s].pc = "lookup"
    /\ req' = IF cache_hit(cache, req[s].body.plan)
              THEN [req EXCEPT ![s].pc = "fetched",
                               ![s].registry = cache_get(cache, req[s].body.plan)]
              ELSE [req EXCEPT ![s].pc = "building"]
    /\ UNCHANGED <<cache, store, now, attempts, replies>>

\* get_or_build, second lock.
Build(s) ==
    LET registry == with_default_rules_for_plan(req[s].body.plan)
    IN  /\ req[s].pc = "building"
        /\ cache' = cache_insert(cache, req[s].body.plan, registry)
        /\ req' = [req EXCEPT ![s].pc = "fetched", ![s].registry = registry]
        /\ UNCHANGED <<store, now, attempts, replies>>

\* Conversion of the positions and trades, the staleness check, which comes
\* before the idempotency store is asked, the evaluation and apply_decision,
\* whose error is a refused phase upgrade.
Evaluate(s) ==
    LET body == req[s].body
    IN  /\ req[s].pc = "fetched"
        /\ CASE body.fails = "conversion" -> refuse(s)
             [] body.fails # "conversion" /\ now - body.server_time > StaleThreshold ->
                  answer(s, "Stale", None)
             [] body.fails = "upgrade" /\ now - body.server_time <= StaleThreshold -> refuse(s)
             [] OTHER -> goto(s, "evaluated") /\ UNCHANGED replies
        /\ UNCHANGED <<cache, store, now, attempts>>

\* check_and_remember, for a request with a key.
Respond(s) ==
    LET r == req[s]
        live == prune(store, now)
    IN  /\ r.pc = "evaluated"
        /\ IF r.key = None THEN answer(s, "Ok", r.attempt) /\ UNCHANGED store
           ELSE /\ store' = check_and_remember(store, r.key, r.body, r.attempt, now)
                /\ CASE lookup(live, r.key, r.body) = "Fresh" -> answer(s, "Ok", r.attempt)
                     [] lookup(live, r.key, r.body) = "Replay" ->
                          answer(s, "Ok", live.entries[r.key].response)
                     [] OTHER -> answer(s, "Conflict", None)
        /\ UNCHANGED <<cache, now, attempts>>

Advance == now < MaxTime /\ now' = now + 1 /\ UNCHANGED <<cache, store, req, attempts, replies>>

Step(s) == Validate(s) \/ Lookup(s) \/ Build(s) \/ Evaluate(s) \/ Respond(s)

Next ==
    \/ \E s \in Slots, k \in Keys \cup {None}, b \in Bodies : Send(s, k, b)
    \/ \E s \in Slots : Step(s)
    \/ Advance

Spec == Init /\ [][Next]_vars
----------------------------------------------------------------------------
(* Properties *)

\* The answers computed by the attempt that received them, not replayed.
Executed == {x \in replies : x.status = "Ok" /\ x.of = x.attempt}

\* The two structures of the store agree and respect the capacity, through
\* concurrent remembers, evictions and expiry (api/idempotency.rs Inner).
StoreOK == StoreConsistent(store)

\* A replayed response was computed for the same tenant, the same key and the
\* same body: no answer crosses tenants or conflicting requests.
ReplayIsOwn ==
    \A x \in replies : x.status = "Ok" =>
        \E y \in Executed : y.attempt = x.of /\ y.key = x.key /\ y.body = x.body

\* Two requests with one key both keep the response they computed only when the
\* first entry had expired or Capacity newer keys had displaced it, however
\* check_and_remember calls interleave.
ExecutedTwiceOnlyAfterLoss ==
    \A x, y \in Executed :
        /\ x.key # None /\ x.key = y.key /\ x.attempt # y.attempt /\ x.at <= y.at
        => \/ y.at - x.at > Ttl
           \/ Capacity <= Cardinality({z.key : z \in {u \in Executed :
                 u.key \notin {None, x.key} /\ x.at <= u.at /\ u.at <= y.at}})

\* However lookups and inserts of handlers with different plans interleave, an
\* evaluation runs with the opt-in rules of its own plan as far as the hash tells plans
\* apart (registry_cache.rs get_or_build): of the switches in the key, none is another
\* plan's.  RegistryMatchesPlan asks the same of all the switches.
HashedRulesMatch ==
    \A x \in replies :
        x.registry # None => x.registry \cap Hashed = x.body.plan.enabled \cap Hashed

\* A request seen before, with the same key and body, is answered with the stored
\* response while the entry lives ("replay the stored response without
\* re-executing", api/idempotency.rs IdempotencyOutcome::Replay).
RetryIsReplayed ==
    \A x \in replies, y \in Executed :
        x.key # None /\ x.key = y.key /\ x.body = y.body /\ y.at <= x.at /\ x.at - y.at <= Ttl
        => x.status = "Ok"

\* Every evaluation runs the rules its own plan enables ("If two plans produce
\* the same hash, they produce the same registry", registry_cache.rs).
RegistryMatchesPlan ==
    \A x \in replies :
        x.registry # None => x.registry = with_default_rules_for_plan(x.body.plan)
==============================================================================
