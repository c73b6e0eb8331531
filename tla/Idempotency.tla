----------------------------- MODULE Idempotency -----------------------------
(***************************************************************************)
(* The in-memory idempotency store (api/idempotency.rs).  A store is       *)
(* [entries, order]: a function from composite keys to entries and the     *)
(* sequence of keys in insertion order.  An operator is one critical       *)
(* section of the mutex.  A composite key is <<tenant, key>> (the only     *)
(* caller uses one endpoint), and a body stands for its hash.              *)
(***************************************************************************)
EXTENDS VecOps, SequencesExt

CONSTANTS
    Capacity,   \* entries the store holds
    Ttl         \* age after which an entry has expired

ASSUME StoreAssumption == Capacity \in Nat \ {0} /\ Ttl \in Nat

EmptyStore == [entries |-> <<>>, order |-> <<>>]

without(order, k) == retain(order, Range(order) \ {k})

\* Mutant of expired: an entry goes at the very end of its life.
expired_at_ttl(store, now) ==
    {k \in DOMAIN store.entries : now - store.entries[k].inserted_at >= Ttl}

expired(store, now) ==
    {k \in DOMAIN store.entries : now - store.entries[k].inserted_at > Ttl}

prune(store, now) ==
    LET gone == expired(store, now)
    IN  [entries |-> [k \in DOMAIN store.entries \ gone |-> store.entries[k]],
         order |-> retain(store.order, Range(store.order) \ gone)]

\* Mutant of evict: only the insertion order is trimmed.
evict_order_only(store) ==
    LET surplus == Len(store.order) - Capacity
    IN  IF surplus > 0
        THEN [store EXCEPT !.order = SubSeq(@, surplus + 1, Len(@))] ELSE store

\* The eviction loop: the oldest insertions go until the order fits.
evict(store) ==
    LET surplus == Len(store.order) - Capacity
        kept == IF surplus > 0 THEN SubSeq(store.order, surplus + 1, Len(store.order))
                ELSE store.order
    IN  [entries |-> [k \in DOMAIN store.entries \cap Range(kept) |-> store.entries[k]],
         order |-> kept]

\* remember: the key moves to the back and its entry is overwritten.
remember(store, key, body, response, now) ==
    evict([entries |-> [k \in DOMAIN store.entries \cup {key} |->
                          IF k = key
                          THEN [body |-> body, response |-> response, inserted_at |-> now]
                          ELSE store.entries[k]],
           order |-> Append(without(store.order, key), key)])

\* Mutant of lookup: the body is not compared.
lookup_any_body(store, key, body) ==
    IF key \in DOMAIN store.entries THEN "Replay" ELSE "Fresh"

\* What check and check_and_remember find in a pruned store.
lookup(store, key, body) ==
    IF key \notin DOMAIN store.entries THEN "Fresh"
    ELSE IF store.entries[key].body = body THEN "Replay" ELSE "Conflict"

\* check_and_remember: the outcome is lookup's on the pruned store.
check_and_remember(store, key, body, response, now) ==
    LET live == prune(store, now)
    IN  IF lookup(live, key, body) = "Fresh"
        THEN remember(live, key, body, response, now) ELSE live

\* The map and the insertion order hold the same keys, each once, and at most
\* Capacity of them.
StoreConsistent(store) ==
    /\ DOMAIN store.entries = Range(store.order)
    /\ Cardinality(Range(store.order)) = Len(store.order)
    /\ Len(store.order) <= Capacity
==============================================================================
