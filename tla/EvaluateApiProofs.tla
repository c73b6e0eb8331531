------------------------- MODULE EvaluateApiProofs -------------------------
(***************************************************************************)
(* The idempotency store under any number of handlers, keys and bodies,    *)
(* any capacity and any lifetime.  Three results: a replayed answer is the *)
(* caller's own; the store's two structures agree; and a key's request is  *)
(* computed twice only when its entry had expired or was displaced.  And   *)
(* one of the registry cache: no hashed switch is another plan's.          *)
(*                                                                         *)
(* The third needs an account of every answer ever computed (History): it   *)
(* is still in the store, or has expired, or Capacity other keys came      *)
(* after it.  That an evicted entry is older than all those that stay is   *)
(* where the insertion order must be sorted by time (Sorted).              *)
(***************************************************************************)
EXTENDS EvaluateApi, SequenceLemmas, SequenceTheorems

\* Among the answers R is one to this key and body, given as computed.
Computed(R, attempt, key, body) ==
    \E y \in R : /\ y.status = "Ok" /\ y.of = y.attempt
                 /\ y.attempt = attempt /\ y.key = key /\ y.body = body

\* Every entry was computed for its own key and body.
Own(entries, R) ==
    \A k \in DOMAIN entries : Computed(R, entries[k].response, k, entries[k].body)

\* So was every answer.
Replayed(R) == \A x \in R : x.status = "Ok" => Computed(R, x.of, x.key, x.body)

ReplayInv == Own(store.entries, replies) /\ Replayed(replies)

\* More answers take nothing away.
LEMMA ComputedStays ==
    ASSUME NEW R, NEW S, R \subseteq S, NEW attempt, NEW key, NEW body,
           Computed(R, attempt, key, body)
    PROVE  Computed(S, attempt, key, body)
BY DEF Computed

\* A further reply leaves the stored entries backed.
LEMMA OwnStays ==
    ASSUME NEW R, NEW S, R \subseteq S, NEW entries, Own(entries, R)
    PROVE  Own(entries, S)
BY ComputedStays DEF Own

\* Expiry only forgets.
LEMMA PruneOwn ==
    ASSUME NEW st, NEW R, Own(st.entries, R), NEW t
    PROVE  Own(prune(st, t).entries, R)
BY DEF Own, prune

\* Remembering a response keeps or forgets the other entries.
LEMMA RememberForgets ==
    ASSUME NEW st, NEW key, NEW body, NEW response, NEW t
    PROVE  LET e == remember(st, key, body, response, t).entries
           IN  \A k \in DOMAIN e :
                  IF k = key THEN e[k].response = response /\ e[k].body = body
                  ELSE k \in DOMAIN st.entries /\ e[k] = st.entries[k]
<1> DEFINE order == Append(without(st.order, key), key)
           fresh == [k \in DOMAIN st.entries \cup {key} |->
                        IF k = key
                        THEN [body |-> body, response |-> response, inserted_at |-> t]
                        ELSE st.entries[k]]
           full == [entries |-> fresh, order |-> order]
<1>1. remember(st, key, body, response, t) = evict(full)
  BY Zenon DEF remember
<1>2. full.entries = fresh
  BY Zenon
<1> HIDE DEF order, full
<1>3. PICK kept :
        evict(full).entries = [k \in DOMAIN full.entries \cap kept |-> full.entries[k]]
  BY DEF evict
<1> QED BY <1>1, <1>2, <1>3

\* One answer more: an error, or a response computed for its key and body.
LEMMA AnswerReplayed ==
    ASSUME NEW R, Replayed(R), NEW x,
           x.status = "Ok" => x.of = x.attempt \/ Computed(R, x.of, x.key, x.body)
    PROVE  Replayed(R \cup {x})
<1> DEFINE S == R \cup {x}
<1>1. R \subseteq S /\ x \in S
  OBVIOUS
<1>2. ASSUME NEW y \in R, y.status = "Ok" PROVE Computed(S, y.of, y.key, y.body)
  BY <1>1, <1>2, ComputedStays DEF Replayed
<1>3. ASSUME x.status = "Ok" PROVE Computed(S, x.of, x.key, x.body)
  <2>1. CASE x.of = x.attempt
    BY <1>1, <1>3, <2>1 DEF Computed
  <2>2. CASE Computed(R, x.of, x.key, x.body)
    BY <1>1, <2>2, ComputedStays
  <2> QED BY <1>3, <2>1, <2>2
<1> QED BY <1>2, <1>3 DEF Replayed

\* The response a fresh key keeps is the one its own request was answered with.
LEMMA RememberOwn ==
    ASSUME NEW st, NEW R, Own(st.entries, R), NEW key, NEW body, NEW response, NEW t,
           Computed(R, response, key, body)
    PROVE  Own(remember(st, key, body, response, t).entries, R)
BY RememberForgets DEF Own

\* check_and_remember and the answer, whatever was in the store.
LEMMA RespondReplays ==
    ASSUME ReplayInv, NEW s, Respond(s)
    PROVE  ReplayInv'
<1> DEFINE r == req[s]
           live == prune(store, now)
           reply(status, of) ==
               [attempt |-> r.attempt, key |-> r.key, body |-> r.body, status |-> status,
                of |-> of, at |-> now, registry |-> r.registry]
<1>1. Own(live.entries, replies)
  BY PruneOwn DEF ReplayInv
<1>2. ASSUME NEW status, NEW of, answer(s, status, of)
      PROVE  replies' = replies \cup {reply(status, of)}
  BY <1>2 DEF answer
<1>3. ASSUME NEW status, NEW of, answer(s, status, of),
             status = "Ok" => of = r.attempt \/ Computed(replies, of, r.key, r.body)
      PROVE  Replayed(replies') /\ Own(live.entries, replies')
                /\ Own(store.entries, replies')
  <2>1. replies' = replies \cup {reply(status, of)} /\ replies \subseteq replies'
    BY <1>2, <1>3
  <2>2. Replayed(replies')
    BY <1>3, <2>1, AnswerReplayed, Zenon DEF ReplayInv
  <2> QED BY <1>1, <2>1, <2>2, OwnStays DEF ReplayInv
<1>4. CASE r.key = None
  <2>1. answer(s, "Ok", r.attempt) /\ store' = store
    BY <1>4 DEF Respond
  <2> QED BY <1>3, <2>1 DEF ReplayInv
<1>5. CASE r.key # None /\ lookup(live, r.key, r.body) = "Fresh"
  <2>1. answer(s, "Ok", r.attempt)
        /\ store' = remember(live, r.key, r.body, r.attempt, now)
    BY <1>5 DEF Respond, check_and_remember
  <2>2. reply("Ok", r.attempt) \in replies'
    BY <1>2, <2>1
  <2>3. Computed(replies', r.attempt, r.key, r.body)
    BY <2>2 DEF Computed
  <2> HIDE DEF r, live
  <2>4. Replayed(replies') /\ Own(live.entries, replies')
    BY <1>3, <2>1
  <2> QED BY <2>1, <2>3, <2>4, RememberOwn DEF ReplayInv
<1>6. CASE r.key # None /\ lookup(live, r.key, r.body) # "Fresh"
  <2>1. store' = live
    BY <1>6 DEF Respond, check_and_remember
  <2>2. CASE lookup(live, r.key, r.body) = "Replay"
    <3>1. answer(s, "Ok", live.entries[r.key].response)
      BY <1>6, <2>2 DEF Respond
    <3>2. r.key \in DOMAIN live.entries /\ live.entries[r.key].body = r.body
      BY <2>2 DEF lookup
    <3> HIDE DEF r, live
    <3>3. Computed(replies, live.entries[r.key].response, r.key, r.body)
      BY <1>1, <3>2 DEF Own
    <3> QED BY <1>3, <2>1, <3>1, <3>3 DEF ReplayInv
  <2>3. CASE lookup(live, r.key, r.body) # "Replay"
    <3>1. answer(s, "Conflict", None)
      BY <1>6, <2>3 DEF Respond
    <3> QED BY <1>3, <2>1, <3>1 DEF ReplayInv
  <2> QED BY <2>2, <2>3
<1> QED BY <1>4, <1>5, <1>6

\* The steps before the store is asked add errors only.
LEMMA EvaluateReplays ==
    ASSUME ReplayInv, NEW s, Evaluate(s)
    PROVE  ReplayInv'
<1>1. store' = store
  BY DEF Evaluate
<1>2. replies' = replies \/ answer(s, "Stale", None)
  BY DEF Evaluate, refuse
<1>3. CASE replies' = replies
  BY <1>1, <1>3 DEF ReplayInv
<1>4. CASE answer(s, "Stale", None)
  <2>1. PICK x : x.status = "Stale" /\ replies' = replies \cup {x}
    BY <1>4, Zenon DEF answer
  <2>2. Replayed(replies')
    BY <2>1, AnswerReplayed DEF ReplayInv
  <2>3. Own(store.entries, replies')
    BY <2>1, OwnStays DEF ReplayInv
  <2> QED BY <1>1, <2>2, <2>3 DEF ReplayInv
<1> QED BY <1>2, <1>3, <1>4

\* Every step of a handler, a client or the clock keeps ReplayInv.
LEMMA NextReplays == ReplayInv /\ [Next]_vars => ReplayInv'
<1> SUFFICES ASSUME ReplayInv, [Next]_vars PROVE ReplayInv'
  OBVIOUS
<1>1. ASSUME NEW s, NEW k, NEW b, Send(s, k, b) PROVE ReplayInv'
  BY <1>1 DEF Send, ReplayInv
<1>2. ASSUME NEW s, Validate(s) \/ Lookup(s) \/ Build(s) PROVE ReplayInv'
  BY <1>2 DEF Validate, Lookup, Build, refuse, ReplayInv
<1>3. CASE Advance \/ UNCHANGED vars
  BY <1>3 DEF Advance, vars, ReplayInv
<1> QED BY <1>1, <1>2, <1>3, EvaluateReplays, RespondReplays DEF Next, Step

\* A replayed response was computed for the same tenant, key and body, however the
\* handlers, expiry and eviction interleave (api/idempotency.rs check_and_remember).
THEOREM ReplaysAreOwn == Spec => []ReplayIsOwn
<1>1. Init => ReplayInv
  BY DEF Init, EmptyStore, ReplayInv, Own, Replayed
<1>2. ReplayInv => ReplayIsOwn
  BY DEF ReplayInv, Replayed, Computed, ReplayIsOwn, Executed
<1> QED BY <1>1, <1>2, NextReplays, PTL DEF Spec
----------------------------------------------------------------------------
(* The store, as one critical section leaves it. *)

\* The keys in the order of their insertion, each once; the entries are theirs.
Listed(e, o) == o \in Seq(Range(o)) /\ IsInjective(o) /\ DOMAIN e = Range(o)

\* No entry is of a later time than t.
Timed(e, t) == \A k \in DOMAIN e : e[k].inserted_at \in Nat /\ e[k].inserted_at <= t

\* An entry is not older than one inserted before it.
Sorted(e, o) == \A i, j \in DOMAIN o : i < j => e[o[i]].inserted_at <= e[o[j]].inserted_at

Ordered(st, t) ==
    /\ Listed(st.entries, st.order) /\ Len(st.order) <= Capacity
    /\ Timed(st.entries, t) /\ Sorted(st.entries, st.order)

\* Fewer keys in the same order, with their entries.
LEMMA FewerKeys ==
    ASSUME NEW e, NEW o, NEW t, Listed(e, o), Timed(e, t), Sorted(e, o),
           NEW q \in Seq(Range(o)), InOrder(q, o)
    PROVE  LET f == [k \in DOMAIN e \cap Range(q) |-> e[k]]
           IN  Listed(f, q) /\ Timed(f, t) /\ Sorted(f, q)
<1> DEFINE f == [k \in DOMAIN e \cap Range(q) |-> e[k]]
<1>1. Range(q) \subseteq Range(o) /\ q \in Seq(Range(q))
  BY DEF Range
<1>2. DOMAIN f = Range(q)
  BY <1>1 DEF Listed
<1>3. IsInjective(q)
  BY InOrderInjective DEF Listed
<1>4. Listed(f, q)
  BY <1>1, <1>2, <1>3, Zenon DEF Listed
<1>5. \A k \in Range(q) : f[k] = e[k] /\ k \in DOMAIN e
  BY <1>2
<1>6. Timed(f, t)
  BY <1>2, <1>5, Zenon DEF Timed
<1>7. \A i \in DOMAIN q : q[i] \in Range(q)
  BY DEF Range
<1> HIDE DEF f
<1>8. ASSUME NEW i \in DOMAIN q, NEW j \in DOMAIN q, i < j
      PROVE  f[q[i]].inserted_at <= f[q[j]].inserted_at
  <2>1. PICK k, l \in DOMAIN o : k < l /\ q[i] = o[k] /\ q[j] = o[l]
    BY <1>8, Zenon DEF InOrder
  <2>2. e[o[k]].inserted_at <= e[o[l]].inserted_at
    BY <2>1, Zenon DEF Sorted
  <2> QED
    BY <2>1, <2>2, <1>5, <1>7, Zenon
<1>9. Sorted(f, q)
  BY <1>8, Zenon DEF Sorted
<1> QED
  BY <1>4, <1>6, <1>9 DEF f

\* prune drops the expired keys and nothing else.
LEMMA PruneOrdered ==
    ASSUME NEW st, NEW t, Ordered(st, t)
    PROVE  /\ Ordered(prune(st, t), t)
           /\ DOMAIN prune(st, t).entries = DOMAIN st.entries \ expired(st, t)
           /\ \A k \in DOMAIN prune(st, t).entries : prune(st, t).entries[k] = st.entries[k]
<1> DEFINE e == st.entries
           o == st.order
           gone == expired(st, t)
           q == retain(o, Range(o) \ gone)
           f == [k \in DOMAIN e \cap Range(q) |-> e[k]]
<1>1. o \in Seq(Range(o)) /\ DOMAIN e = Range(o)
  BY DEF Ordered, Listed
<1>2. /\ q \in Seq(Range(o)) /\ Len(q) <= Len(o) /\ InOrder(q, o)
      /\ Range(q) = Range(o) \ gone
  <2> HIDE DEF o, gone
  <2>1. Range(o) \cap (Range(o) \ gone) = Range(o) \ gone
    OBVIOUS
  <2> QED
    BY <1>1, <2>1, RetainRange, RetainOrder
<1>3. prune(st, t) = [entries |-> f, order |-> q]
  <2>1. DOMAIN e \ gone = DOMAIN e \cap Range(q)
    BY <1>1, <1>2, Zenon
  <2> HIDE DEF gone
  <2> QED
    BY <2>1, Zenon DEF prune, gone
<1>4. Listed(f, q) /\ Timed(f, t) /\ Sorted(f, q)
  <2>1. Listed(e, o) /\ Timed(e, t) /\ Sorted(e, o)
    BY DEF Ordered
  <2> HIDE DEF e, o, q
  <2> QED
    BY <1>2, <2>1, FewerKeys, Zenon
<1>5. Len(q) <= Capacity
  <2>1. Len(o) <= Capacity /\ Len(o) \in Nat
    BY <1>1 DEF Ordered
  <2>2. Len(q) \in Nat
    BY <1>2
  <2> HIDE DEF o, q
  <2> QED
    BY <1>2, <2>1, <2>2, StoreAssumption
<1> HIDE DEF q
<1>6. DOMAIN f = DOMAIN e \ gone /\ \A k \in DOMAIN f : f[k] = e[k]
  BY <1>1, <1>2
<1> HIDE DEF f
<1>7. prune(st, t).entries = f /\ prune(st, t).order = q
  BY <1>3
<1>8. Ordered(prune(st, t), t)
  BY <1>4, <1>5, <1>7, Zenon DEF Ordered
<1> QED
  BY <1>6, <1>7, <1>8

\* The end of a sequence is in order.
LEMMA SuffixOrder ==
    ASSUME NEW X, NEW o \in Seq(X), NEW n \in 0 .. Len(o)
    PROVE  LET q == SubSeq(o, n + 1, Len(o))
           IN  /\ q \in Seq(Range(o)) /\ Len(q) = Len(o) - n /\ InOrder(q, o)
               /\ \A i \in DOMAIN q : n + i \in DOMAIN o /\ q[i] = o[n + i]
<1> DEFINE q == SubSeq(o, n + 1, Len(o))
<1>1. \A i \in (n + 1) .. Len(o) : o[i] \in Range(o)
  BY DEF Range
<1>2. n + 1 \in Int /\ Len(o) \in Int
  OBVIOUS
<1>3. /\ q \in Seq(Range(o))
      /\ Len(q) = IF n + 1 <= Len(o) THEN Len(o) - (n + 1) + 1 ELSE 0
      /\ \A i \in 1 .. (Len(o) - (n + 1) + 1) : q[i] = o[(n + 1) + i - 1]
  BY <1>1, <1>2, SubSeqProperties
<1> HIDE DEF q
<1>4. Len(q) = Len(o) - n /\ DOMAIN q = 1 .. Len(q)
  BY <1>3
<1>5. ASSUME NEW i \in DOMAIN q PROVE n + i \in DOMAIN o /\ q[i] = o[n + i]
  <2>1. i \in 1 .. (Len(o) - (n + 1) + 1) /\ (n + 1) + i - 1 = n + i
    BY <1>4
  <2>2. q[i] = o[(n + 1) + i - 1]
    BY <2>1, <1>3, Zenon
  <2>3. n + i \in DOMAIN o
    BY <2>1
  <2> QED
    BY <2>1, <2>2, <2>3
<1>6. InOrder(q, o)
  <2> SUFFICES ASSUME NEW i \in DOMAIN q, NEW j \in DOMAIN q, i < j
               PROVE  \E k, l \in DOMAIN o : k < l /\ q[i] = o[k] /\ q[j] = o[l]
    BY DEF InOrder
  <2>1. n + i < n + j
    BY <1>4
  <2> QED
    BY <2>1, <1>5
<1> QED
  BY <1>3, <1>4, <1>5, <1>6 DEF q

\* The eviction leaves the newest keys: whatever goes is no newer than the Capacity
\* keys that stay.
LEMMA EvictOrdered ==
    ASSUME NEW st, NEW t, Listed(st.entries, st.order), Timed(st.entries, t),
           Sorted(st.entries, st.order)
    PROVE  /\ Ordered(evict(st), t)
           /\ \A k \in DOMAIN evict(st).entries :
                 k \in DOMAIN st.entries /\ evict(st).entries[k] = st.entries[k]
           /\ \A k \in DOMAIN st.entries \ DOMAIN evict(st).entries :
                 /\ Len(evict(st).order) = Capacity
                 /\ \A l \in DOMAIN evict(st).entries :
                       st.entries[k].inserted_at <= st.entries[l].inserted_at
<1> DEFINE e == st.entries
           o == st.order
           surplus == Len(o) - Capacity
           n == IF surplus > 0 THEN surplus ELSE 0
           q == SubSeq(o, n + 1, Len(o))
           f == [k \in DOMAIN e \cap Range(q) |-> e[k]]
<1>1. Listed(e, o) /\ Timed(e, t) /\ Sorted(e, o)
  OBVIOUS
<1>2. o \in Seq(Range(o)) /\ DOMAIN e = Range(o)
  BY <1>1 DEF Listed
<1>3. evict(st) = [entries |-> f, order |-> q]
  <2>1. q = IF surplus > 0 THEN SubSeq(o, surplus + 1, Len(o)) ELSE o
    <3>1. SubSeq(o, 0 + 1, Len(o)) = o
      BY <1>2, SubSeqFull
    <3> QED
      BY <3>1, Zenon
  <2> HIDE DEF q
  <2> QED
    BY <2>1 DEF evict
<1> HIDE DEF e, o
<1>4. /\ n \in 0 .. Len(o) /\ Len(o) - n <= Capacity
      /\ n > 0 => Len(o) - n = Capacity
  BY <1>2, StoreAssumption
<1>5. /\ q \in Seq(Range(o)) /\ Len(q) = Len(o) - n /\ InOrder(q, o)
      /\ \A i \in DOMAIN q : n + i \in DOMAIN o /\ q[i] = o[n + i]
  <2> HIDE DEF n
  <2> QED
    BY <1>2, <1>4, SuffixOrder
<1> HIDE DEF q, n
<1>6. Listed(f, q) /\ Timed(f, t) /\ Sorted(f, q)
  BY <1>1, <1>5, FewerKeys, Zenon
<1>7. DOMAIN f = Range(q)
  BY <1>6 DEF Listed
<1>8. \A k \in DOMAIN f : k \in DOMAIN e /\ f[k] = e[k]
  OBVIOUS
<1> HIDE DEF f
<1>9. evict(st).entries = f /\ evict(st).order = q
  BY <1>3
<1>10. Ordered(evict(st), t)
  BY <1>4, <1>5, <1>6, <1>9, Zenon DEF Ordered
<1>11. ASSUME NEW k \in DOMAIN e \ DOMAIN f
       PROVE  /\ Len(q) = Capacity
              /\ \A l \in DOMAIN f : e[k].inserted_at <= e[l].inserted_at
  <2>1. PICK i \in DOMAIN o : o[i] = k
    BY <1>2 DEF Range
  <2>2. DOMAIN o = 1 .. Len(o) /\ DOMAIN q = 1 .. Len(q)
    BY <1>2, <1>5
  <2>3. i <= n
    <3> SUFFICES ASSUME i > n PROVE FALSE
      BY <2>2, <1>4
    <3>1. i - n \in DOMAIN q /\ n + (i - n) = i
      BY <2>2, <1>4, <1>5
    <3>2. q[i - n] = k
      BY <3>1, <1>5, <2>1
    <3>3. k \in Range(q)
      BY <3>1, <3>2 DEF Range
    <3> QED
      BY <3>3, <1>7
  <2>4. Len(q) = Capacity
    BY <2>2, <2>3, <1>4, <1>5
  <2>5. ASSUME NEW l \in DOMAIN f PROVE e[k].inserted_at <= e[l].inserted_at
    <3>1. PICK j \in DOMAIN q : q[j] = l
      BY <1>7 DEF Range
    <3>2. n + j \in DOMAIN o /\ o[n + j] = l /\ i < n + j
      BY <3>1, <1>4, <1>5, <2>2, <2>3
    <3> QED
      BY <3>2, <2>1, <1>1, Zenon DEF Sorted
  <2> QED
    BY <2>4, <2>5
<1> QED
  BY <1>8, <1>9, <1>10, <1>11, Zenon DEF e

\* remember puts its key last and overwrites its entry; the keys that go make room for
\* Capacity newer ones.
LEMMA RememberOrdered ==
    ASSUME NEW st, NEW t \in Nat, Ordered(st, t), NEW key, NEW body, NEW response
    PROVE  LET new == remember(st, key, body, response, t)
           IN  /\ Ordered(new, t)
               /\ \A k \in DOMAIN new.entries :
                     IF k = key THEN new.entries[k].inserted_at = t
                     ELSE k \in DOMAIN st.entries /\ new.entries[k] = st.entries[k]
               /\ key \in DOMAIN new.entries
               /\ \A k \in DOMAIN st.entries \ DOMAIN new.entries :
                     /\ Len(new.order) = Capacity
                     /\ \A l \in DOMAIN new.entries :
                           st.entries[k].inserted_at <= new.entries[l].inserted_at
<1> DEFINE e == st.entries
           o == st.order
           w == without(o, key)
           q == Append(w, key)
           entry == [body |-> body, response |-> response, inserted_at |-> t]
           f == [k \in DOMAIN e \cup {key} |-> IF k = key THEN entry ELSE e[k]]
           full == [entries |-> f, order |-> q]
           new == remember(st, key, body, response, t)
<1>1. new = evict(full)
  BY Zenon DEF remember
<1>2. full.entries = f /\ full.order = q /\ entry.inserted_at = t
  BY Zenon
<1>3. o \in Seq(Range(o)) /\ DOMAIN e = Range(o) /\ IsInjective(o) /\ Timed(e, t)
      /\ Sorted(e, o)
  BY DEF Ordered, Listed
<1> HIDE DEF e, o, entry, full, new
<1>4. /\ w \in Seq(Range(o)) /\ InOrder(w, o) /\ Range(w) = Range(o) \ {key}
  <2>1. Range(o) \cap (Range(o) \ {key}) = Range(o) \ {key}
    OBVIOUS
  <2> QED
    BY <1>3, <2>1, RetainRange, RetainOrder DEF without
<1>5. IsInjective(w)
  BY <1>3, <1>4, InOrderInjective
<1> HIDE DEF w
<1>6. /\ Len(q) = Len(w) + 1 /\ DOMAIN q = 1 .. Len(q) /\ q[Len(q)] = key
      /\ DOMAIN w = 1 .. Len(w) /\ Len(w) \in Nat
      /\ \A i \in DOMAIN w : i \in DOMAIN q /\ q[i] = w[i]
      /\ \A i \in DOMAIN q : i \in DOMAIN w \/ i = Len(q)
  BY <1>4
<1>7. q \in Seq(Range(o) \cup {key})
  <2>1. w \in Seq(Range(o) \cup {key})
    BY <1>4, SeqMonotonic
  <2> QED
    BY <2>1
<1> HIDE DEF q
<1>8. Range(q) = Range(o) \cup {key}
  <2>1. ASSUME NEW i \in DOMAIN q PROVE q[i] \in Range(w) \cup {key}
    BY <1>6 DEF Range
  <2>2. Range(q) \subseteq Range(w) \cup {key}
    BY <2>1, Zenon DEF Range
  <2>3. ASSUME NEW i \in DOMAIN w PROVE w[i] \in Range(q)
    BY <1>6, Zenon DEF Range
  <2>4. Range(w) \subseteq Range(q)
    BY <2>3, Zenon DEF Range
  <2>5. Len(q) \in DOMAIN q
    BY <1>6
  <2>6. key \in Range(q)
    BY <1>6, <2>5, Zenon DEF Range
  <2> QED
    BY <1>4, <2>2, <2>4, <2>6
<1>9. ASSUME NEW i \in DOMAIN w PROVE w[i] \in Range(o) /\ w[i] # key
  BY <1>4, Zenon DEF Range
<1>10. IsInjective(q)
  BY <1>5, <1>6, <1>9 DEF IsInjective
<1>11. Listed(f, q)
  BY <1>3, <1>7, <1>8, <1>10 DEF Listed
<1>12. Timed(f, t)
  BY <1>2, <1>3 DEF Timed
<1>13. DOMAIN f = DOMAIN e \cup {key} /\ f[key] = entry
       /\ \A k \in DOMAIN e : k # key => f[k] = e[k]
  OBVIOUS
<1> HIDE DEF f
<1>14. Sorted(f, q)
  <2> SUFFICES ASSUME NEW i \in DOMAIN q, NEW j \in DOMAIN q, i < j
               PROVE  f[q[i]].inserted_at <= f[q[j]].inserted_at
    BY DEF Sorted
  <2>1. i \in DOMAIN w
    BY <1>6
  <2>2. CASE j \in DOMAIN w
    <3>1. PICK k, l \in DOMAIN o : k < l /\ w[i] = o[k] /\ w[j] = o[l]
      BY <1>4, <2>1, <2>2, Zenon DEF InOrder
    <3>2. e[w[i]].inserted_at <= e[w[j]].inserted_at
      BY <1>3, <3>1, Zenon DEF Sorted
    <3>3. f[w[i]] = e[w[i]] /\ f[w[j]] = e[w[j]]
      BY <1>3, <1>9, <1>13, <2>1, <2>2
    <3> QED
      BY <3>2, <3>3, <1>6, <2>1, <2>2
  <2>3. CASE j = Len(q)
    <3>1. q[i] \in DOMAIN e /\ f[q[i]] = e[q[i]]
      BY <1>3, <1>6, <1>9, <1>13, <2>1
    <3>2. f[q[j]].inserted_at = t
      BY <1>2, <1>6, <1>13, <2>3
    <3> QED
      BY <3>1, <3>2, <1>3 DEF Timed
  <2> QED
    BY <1>6, <2>2, <2>3
<1>15. /\ Ordered(new, t)
       /\ \A k \in DOMAIN new.entries : k \in DOMAIN f /\ new.entries[k] = f[k]
       /\ \A k \in DOMAIN f \ DOMAIN new.entries :
             /\ Len(new.order) = Capacity
             /\ \A l \in DOMAIN new.entries : f[k].inserted_at <= f[l].inserted_at
  BY <1>1, <1>2, <1>11, <1>12, <1>14, EvictOrdered
<1>16. ASSUME NEW k \in DOMAIN new.entries
       PROVE  IF k = key THEN new.entries[k].inserted_at = t
              ELSE k \in DOMAIN e /\ new.entries[k] = e[k]
  BY <1>2, <1>13, <1>15
<1>17. key \in DOMAIN new.entries
  <2> DEFINE surplus == Len(q) - Capacity
  <2>1. new.order = IF surplus > 0 THEN SubSeq(q, surplus + 1, Len(q)) ELSE q
    BY <1>1, <1>2 DEF evict
  <2>2. DOMAIN new.entries = Range(new.order)
    BY <1>15 DEF Ordered, Listed
  <2>3. CASE surplus > 0
    <3>1. surplus \in 0 .. Len(q) /\ surplus < Len(q)
      BY <2>3, <1>6, StoreAssumption
    <3>2. /\ Len(new.order) = Len(q) - surplus
          /\ \A i \in DOMAIN new.order : new.order[i] = q[surplus + i]
          /\ new.order \in Seq(Range(q))
      <4> HIDE DEF surplus
      <4> QED
        BY <1>7, <2>1, <2>3, <3>1, SuffixOrder
    <3>3. Len(q) - surplus \in DOMAIN new.order /\ surplus + (Len(q) - surplus) = Len(q)
      BY <3>1, <3>2, <1>6
    <3> QED
      BY <1>6, <2>2, <3>2, <3>3 DEF Range
  <2>4. CASE ~(surplus > 0)
    BY <1>6, <2>1, <2>2, <2>4 DEF Range
  <2> QED
    BY <2>3, <2>4
<1>18. ASSUME NEW k \in DOMAIN e \ DOMAIN new.entries
       PROVE  /\ Len(new.order) = Capacity
              /\ \A l \in DOMAIN new.entries : e[k].inserted_at <= new.entries[l].inserted_at
  <2>1. k # key /\ k \in DOMAIN f /\ f[k] = e[k]
    BY <1>13, <1>17
  <2> QED
    BY <2>1, <1>15
<1> QED
  BY <1>15, <1>16, <1>17, <1>18, Zenon DEF e, new

\* A store that is in order is consistent.
LEMMA OrderedConsistent ==
    ASSUME NEW st, NEW t, Ordered(st, t)
    PROVE  StoreConsistent(st)
BY DistinctCardinality DEF Ordered, Listed, StoreConsistent
----------------------------------------------------------------------------
(* What the store still knows of the answers computed so far. *)

\* Executed, of a set of answers.
ExecutedIn(R) == {x \in R : x.status = "Ok" /\ x.of = x.attempt}

\* The other keys under which an answer was computed from time a to time t.
Newer(E, k, a, t) ==
    {z.key : z \in {u \in E : u.key \notin {None, k} /\ a <= u.at /\ u.at <= t}}

\* An answer computed for key k at time a was not lost without a reason: its entry, or
\* a later one, is there, or it has expired, or Capacity other keys came after it.
Accounted(e, E, k, a, t) ==
    \/ k \in DOMAIN e /\ a <= e[k].inserted_at
    \/ t - a > Ttl
    \/ Capacity <= Cardinality(Newer(E, k, a, t))

Dated(E) == IsFiniteSet(E) /\ \A x \in E : x.at \in Nat

Stamped(E, t) == Dated(E) /\ \A x \in E : x.at <= t

Kept(e, E, t) == \A x \in E : x.key # None => Accounted(e, E, x.key, x.at, t)

\* An entry is of the time at which an answer was computed for its key.
Backed(e, E) ==
    \A k \in DOMAIN e : k # None /\ \E y \in E : y.key = k /\ y.at = e[k].inserted_at

\* ExecutedTwiceOnlyAfterLoss, of a set of computed answers.
Twice(E) ==
    \A x, y \in E :
        x.key # None /\ x.key = y.key /\ x.attempt # y.attempt /\ x.at <= y.at
        => y.at - x.at > Ttl \/ Capacity <= Cardinality(Newer(E, x.key, x.at, y.at))

History(st, E, t) ==
    /\ t \in Nat /\ Ordered(st, t) /\ Stamped(E, t) /\ Backed(st.entries, E)
    /\ Kept(st.entries, E, t) /\ Twice(E)

\* The keys executed in an interval are finitely many.
LEMMA NewerFinite ==
    ASSUME NEW E, IsFiniteSet(E), NEW k, NEW a, NEW t
    PROVE  IsFiniteSet(Newer(E, k, a, t)) /\ Cardinality(Newer(E, k, a, t)) \in Nat
<1> DEFINE U == {u \in E : u.key \notin {None, k} /\ a <= u.at /\ u.at <= t}
           f == [z \in U |-> z.key]
<1>1. IsFiniteSet(U)
  BY FS_Subset
<1>2. f \in Surjection(U, Newer(E, k, a, t))
  BY DEF Surjection, Newer
<1>3. IsFiniteSet(Newer(E, k, a, t))
  <2> HIDE DEF U, f
  <2> QED
    BY <1>1, <1>2, FS_Surjection
<1> QED
  BY <1>3, FS_CardinalityType

\* More answers and more time take no newer key away.
LEMMA NewerGrows ==
    ASSUME NEW E, NEW F, E \subseteq F, NEW k, NEW a, NEW t \in Nat, NEW v \in Nat, t <= v,
           Dated(F), Capacity <= Cardinality(Newer(E, k, a, t))
    PROVE  Capacity <= Cardinality(Newer(F, k, a, v))
<1>1. IsFiniteSet(F) /\ IsFiniteSet(E)
  BY FS_Subset DEF Dated
<1>2. Newer(E, k, a, t) \subseteq Newer(F, k, a, v)
  BY DEF Newer, Dated
<1>3. /\ Cardinality(Newer(E, k, a, t)) \in Nat /\ Cardinality(Newer(F, k, a, v)) \in Nat
      /\ IsFiniteSet(Newer(F, k, a, v))
  BY <1>1, NewerFinite
<1>4. Cardinality(Newer(E, k, a, t)) <= Cardinality(Newer(F, k, a, v))
  BY <1>2, <1>3, FS_Subset
<1> QED
  BY <1>3, <1>4, StoreAssumption

\* Time passes.
LEMMA LaterHistory ==
    ASSUME NEW st, NEW E, NEW t, History(st, E, t)
    PROVE  History(st, E, t + 1)
<1>1. t \in Nat /\ t + 1 \in Nat /\ t <= t + 1 /\ Stamped(E, t) /\ Dated(E)
  BY DEF History, Stamped
<1>2. Stamped(E, t + 1)
  BY <1>1 DEF Stamped, Dated
<1>3. Ordered(st, t + 1)
  <2>1. Timed(st.entries, t + 1)
    BY <1>1 DEF History, Ordered, Timed
  <2> QED
    BY <2>1 DEF History, Ordered
<1>4. Kept(st.entries, E, t + 1)
  <2> SUFFICES ASSUME NEW x \in E, x.key # None
               PROVE  Accounted(st.entries, E, x.key, x.at, t + 1)
    BY DEF Kept
  <2>1. Accounted(st.entries, E, x.key, x.at, t) /\ x.at \in Nat
    BY <1>1 DEF History, Kept, Stamped, Dated
  <2>2. CASE t - x.at > Ttl
    BY <1>1, <2>1, <2>2, StoreAssumption DEF Accounted
  <2>3. CASE Capacity <= Cardinality(Newer(E, x.key, x.at, t))
    BY <1>1, <1>2, <2>3, NewerGrows DEF Accounted
  <2> QED
    BY <2>1, <2>2, <2>3 DEF Accounted
<1> QED
  BY <1>1, <1>2, <1>3, <1>4 DEF History

\* Expired entries go.
LEMMA PruneHistory ==
    ASSUME NEW st, NEW E, NEW t, History(st, E, t)
    PROVE  History(prune(st, t), E, t)
<1> DEFINE e == prune(st, t).entries
<1>1. /\ Ordered(prune(st, t), t)
      /\ DOMAIN e = DOMAIN st.entries \ expired(st, t)
      /\ \A k \in DOMAIN e : e[k] = st.entries[k]
  BY PruneOrdered DEF History
<1> HIDE DEF e
<1>2. Backed(e, E)
  BY <1>1 DEF History, Backed
<1>3. Kept(e, E, t)
  <2> SUFFICES ASSUME NEW x \in E, x.key # None PROVE Accounted(e, E, x.key, x.at, t)
    BY DEF Kept
  <2>1. Accounted(st.entries, E, x.key, x.at, t) /\ x.at \in Nat /\ t \in Nat
    BY DEF History, Kept, Stamped, Dated
  <2>2. CASE x.key \in expired(st, t) /\ x.at <= st.entries[x.key].inserted_at
    <3>1. st.entries[x.key].inserted_at \in Nat /\ t - st.entries[x.key].inserted_at > Ttl
      BY <2>2 DEF expired, History, Ordered, Timed
    <3> QED
      BY <2>1, <2>2, <3>1, StoreAssumption DEF Accounted
  <2> QED
    BY <1>1, <2>1, <2>2 DEF Accounted
<1> QED
  BY <1>1, <1>2, <1>3 DEF History, e

\* An answer to a request without a key is not stored.
LEMMA KeylessHistory ==
    ASSUME NEW st, NEW E, NEW t, History(st, E, t), NEW x, x.key = None, x.at = t
    PROVE  History(st, E \cup {x}, t)
<1> DEFINE F == E \cup {x}
<1>1. t \in Nat /\ t <= t /\ E \subseteq F /\ Stamped(E, t)
  BY DEF History
<1>2. Stamped(F, t) /\ Dated(F)
  BY <1>1, FS_AddElement DEF Stamped, Dated
<1>3. \A y \in F : y.key # None => y \in E
  OBVIOUS
<1> HIDE DEF F
<1>4. Backed(st.entries, F)
  BY <1>1 DEF History, Backed
<1>5. Kept(st.entries, F, t)
  <2> SUFFICES ASSUME NEW y \in F, y.key # None
               PROVE  Accounted(st.entries, F, y.key, y.at, t)
    BY DEF Kept
  <2>1. Accounted(st.entries, E, y.key, y.at, t)
    BY <1>3 DEF History, Kept
  <2> QED
    BY <1>1, <1>2, <2>1, NewerGrows DEF Accounted
<1>6. Twice(F)
  <2> SUFFICES ASSUME NEW y \in F, NEW z \in F, y.key # None, y.key = z.key,
                      y.attempt # z.attempt, y.at <= z.at
               PROVE  \/ z.at - y.at > Ttl
                      \/ Capacity <= Cardinality(Newer(F, y.key, y.at, z.at))
    BY DEF Twice
  <2>1. y \in E /\ z \in E
    BY <1>3
  <2>2. z.at \in Nat /\ z.at <= z.at /\ z.at <= t
    BY <1>2 DEF Stamped, Dated
  <2>3. z.at - y.at > Ttl \/ Capacity <= Cardinality(Newer(E, y.key, y.at, z.at))
    BY <2>1 DEF History, Twice
  <2> QED
    BY <1>1, <1>2, <2>2, <2>3, NewerGrows
<1> QED
  BY <1>1, <1>2, <1>4, <1>5, <1>6 DEF History, F

\* An answer computed under a fresh key is stored in the room its remember makes.
LEMMA FreshHistory ==
    ASSUME NEW st, NEW E, NEW t, History(st, E, t), NEW x, x.key # None, x.at = t,
           x.key \notin DOMAIN st.entries, NEW body, NEW response
    PROVE  History(remember(st, x.key, body, response, t), E \cup {x}, t)
<1> DEFINE F == E \cup {x}
           new == remember(st, x.key, body, response, t)
           e == new.entries
<1>1. t \in Nat /\ t <= t /\ E \subseteq F /\ x \in F /\ Stamped(E, t)
  BY DEF History
<1>2. Stamped(F, t) /\ Dated(F)
  BY <1>1, FS_AddElement DEF Stamped, Dated
<1>3. \A y \in F : y \in E \/ y = x
  BY Zenon
<1> HIDE DEF F
<1>4. /\ Ordered(new, t)
      /\ \A k \in DOMAIN e : IF k = x.key THEN e[k].inserted_at = t
                             ELSE k \in DOMAIN st.entries /\ e[k] = st.entries[k]
      /\ x.key \in DOMAIN e
      /\ \A k \in DOMAIN st.entries \ DOMAIN e :
            /\ Len(new.order) = Capacity
            /\ \A l \in DOMAIN e : st.entries[k].inserted_at <= e[l].inserted_at
  <2>1. Ordered(st, t) /\ t \in Nat
    BY DEF History
  <2> QED
    BY <2>1, RememberOrdered
<1>5. DOMAIN e = Range(new.order) /\ new.order \in Seq(Range(new.order))
      /\ IsInjective(new.order) /\ Timed(e, t)
  BY <1>4 DEF Ordered, Listed
<1> HIDE DEF new, e
<1>6. Backed(e, F)
  <2> SUFFICES ASSUME NEW k \in DOMAIN e
               PROVE  k # None /\ \E y \in F : y.key = k /\ y.at = e[k].inserted_at
    BY DEF Backed
  <2>1. CASE k = x.key
    BY <1>1, <1>4, <2>1
  <2>2. CASE k # x.key
    <3>1. k \in DOMAIN st.entries /\ e[k] = st.entries[k]
      BY <1>4, <2>2
    <3> QED
      BY <1>1, <3>1 DEF History, Backed
  <2> QED
    BY <2>1, <2>2
<1>7. ASSUME NEW y \in E, y.key # None, y.key \in DOMAIN st.entries, y.key \notin DOMAIN e,
             y.at <= st.entries[y.key].inserted_at
      PROVE  Capacity <= Cardinality(Newer(F, y.key, y.at, t))
  <2>1. /\ y.at \in Nat /\ st.entries[y.key].inserted_at \in Nat
        /\ \A l \in DOMAIN e : e[l].inserted_at \in Nat /\ e[l].inserted_at <= t
    BY <1>1, <1>5, <1>7 DEF History, Ordered, Timed, Stamped, Dated
  <2>2. ASSUME NEW l \in DOMAIN e PROVE l \in Newer(F, y.key, y.at, t)
    <3>1. y.at <= e[l].inserted_at /\ e[l].inserted_at <= t
      BY <1>4, <1>7, <2>1
    <3>2. PICK u \in F : u.key = l /\ u.at = e[l].inserted_at
      BY <1>6 DEF Backed
    <3>3. l # None /\ l # y.key
      BY <1>6, <1>7 DEF Backed
    <3> QED
      BY <3>1, <3>2, <3>3, Zenon DEF Newer
  <2>3. Cardinality(DOMAIN e) = Capacity
    BY <1>4, <1>5, <1>7, DistinctCardinality
  <2>4. IsFiniteSet(Newer(F, y.key, y.at, t))
    BY <1>2, NewerFinite DEF Dated
  <2> QED
    BY <2>2, <2>3, <2>4, FS_Subset
<1>8. Kept(e, F, t)
  <2> SUFFICES ASSUME NEW y \in F, y.key # None PROVE Accounted(e, F, y.key, y.at, t)
    BY DEF Kept
  <2>1. CASE y.key = x.key
    BY <1>2, <1>4, <2>1 DEF Accounted, Stamped
  <2>2. CASE y.key # x.key
    <3>1. y \in E
      BY <1>3, <2>2
    <3>2. Accounted(st.entries, E, y.key, y.at, t)
      BY <3>1 DEF History, Kept
    <3>3. CASE y.key \in DOMAIN st.entries /\ y.at <= st.entries[y.key].inserted_at
      <4>1. CASE y.key \in DOMAIN e
        BY <1>4, <2>2, <3>3, <4>1, Zenon DEF Accounted
      <4>2. CASE y.key \notin DOMAIN e
        BY <1>7, <3>1, <3>3, <4>2, Zenon DEF Accounted
      <4> QED
        BY <4>1, <4>2
    <3>4. CASE Capacity <= Cardinality(Newer(E, y.key, y.at, t))
      BY <1>1, <1>2, <3>4, NewerGrows DEF Accounted
    <3> QED
      BY <3>2, <3>3, <3>4, Zenon DEF Accounted
  <2> QED
    BY <2>1, <2>2
<1>9. ASSUME NEW y \in E, y.key = x.key
      PROVE  t - y.at > Ttl \/ Capacity <= Cardinality(Newer(F, y.key, y.at, t))
  <2>1. Accounted(st.entries, E, y.key, y.at, t)
    BY <1>9 DEF History, Kept
  <2> QED
    BY <1>1, <1>2, <1>9, <2>1, NewerGrows DEF Accounted
<1>10. Twice(F)
  <2> SUFFICES ASSUME NEW y \in F, NEW z \in F, y.key # None, y.key = z.key,
                      y.attempt # z.attempt, y.at <= z.at
               PROVE  \/ z.at - y.at > Ttl
                      \/ Capacity <= Cardinality(Newer(F, y.key, y.at, z.at))
    BY DEF Twice
  <2>1. z.at \in Nat /\ y.at \in Nat /\ z.at <= z.at /\ z.at <= t
    BY <1>2 DEF Stamped, Dated
  <2>2. CASE y \in E /\ z \in E
    <3>1. z.at - y.at > Ttl \/ Capacity <= Cardinality(Newer(E, y.key, y.at, z.at))
      BY <2>2 DEF History, Twice
    <3> QED
      BY <1>1, <1>2, <2>1, <3>1, NewerGrows
  <2>3. CASE y \in E /\ z = x
    BY <1>9, <2>3
  <2>4. CASE y = x /\ z \in E
    <3>1. z.at = t /\ y.at = t /\ z.key = y.key
      BY <1>1, <2>1, <2>4
    <3> QED
      BY <1>9, <2>4, <3>1, Zenon
  <2> QED
    BY <1>3, <2>2, <2>3, <2>4
<1> QED
  BY <1>1, <1>2, <1>4, <1>6, <1>8, <1>10, Zenon DEF History, F, new, e
----------------------------------------------------------------------------
(* The handlers. *)

IsRequest(r) ==
    r = [pc |-> r.pc, key |-> r.key, body |-> r.body, attempt |-> r.attempt,
         registry |-> r.registry]

\* A request that is being handled has not been answered, and no two are one attempt.
AttemptInv ==
    /\ attempts \in Nat /\ DOMAIN req = Slots
    /\ \A s \in Slots : req[s] # Idle => IsRequest(req[s]) /\ req[s].attempt \in 1 .. attempts
    /\ \A s, u \in Slots :
          s # u /\ req[s] # Idle /\ req[u] # Idle => req[s].attempt # req[u].attempt
    /\ \A x \in replies : x.attempt \in 1 .. attempts
    /\ \A x \in replies, s \in Slots : req[s] # Idle => x.attempt # req[s].attempt

LossInv == AttemptInv /\ ReplayInv /\ History(store, ExecutedIn(replies), now)

\* A field of a request changes.
LEMMA RequestFields ==
    ASSUME NEW r, IsRequest(r), NEW v
    PROVE  /\ IsRequest([r EXCEPT !.pc = v]) /\ [r EXCEPT !.pc = v].attempt = r.attempt
           /\ IsRequest([r EXCEPT !.registry = v])
           /\ [r EXCEPT !.registry = v].attempt = r.attempt
<1>1. /\ IsRequest([r EXCEPT !.pc = v]) /\ [r EXCEPT !.pc = v].attempt = r.attempt
  BY DEF IsRequest
<1>2. /\ IsRequest([r EXCEPT !.registry = v])
      /\ [r EXCEPT !.registry = v].attempt = r.attempt
  BY DEF IsRequest
<1> QED
  BY <1>1, <1>2

\* The request in slot s moves on to r.
LEMMA MovesOn ==
    ASSUME AttemptInv, NEW s \in Slots, req[s] # Idle, NEW r, IsRequest(r),
           r.attempt = req[s].attempt, req' = [req EXCEPT ![s] = r],
           UNCHANGED <<attempts, replies>>
    PROVE  AttemptInv'
<1>1. DOMAIN req' = Slots /\ \A u \in Slots : req'[u] = IF u = s THEN r ELSE req[u]
  BY DEF AttemptInv
<1> QED
  BY <1>1 DEF AttemptInv

\* The request in slot s is done, answered or not.
LEMMA IsDone ==
    ASSUME AttemptInv, NEW s \in Slots, req[s] # Idle, req' = [req EXCEPT ![s] = Idle],
           attempts' = attempts,
           \A x \in replies' : x \in replies \/ x.attempt = req[s].attempt
    PROVE  AttemptInv'
<1>1. DOMAIN req' = Slots /\ \A u \in Slots : req'[u] = IF u = s THEN Idle ELSE req[u]
  BY DEF AttemptInv
<1>2. \A x \in replies' : x.attempt \in 1 .. attempts
  BY DEF AttemptInv
<1>3. ASSUME NEW x \in replies', NEW u \in Slots, req'[u] # Idle
      PROVE  x.attempt # req'[u].attempt
  BY <1>1, <1>3 DEF AttemptInv
<1> QED
  BY <1>1, <1>2, <1>3 DEF AttemptInv

\* An answer retires the attempt it is given to.
LEMMA AnswerIsDone ==
    ASSUME AttemptInv, NEW s \in Slots, req[s] # Idle, attempts' = attempts,
           NEW status, NEW of, answer(s, status, of)
    PROVE  AttemptInv'
<1>1. req' = [req EXCEPT ![s] = Idle]
      /\ \A x \in replies' : x \in replies \/ x.attempt = req[s].attempt
  BY DEF answer
<1> QED
  BY <1>1, IsDone, Zenon

\* No two requests or replies ever carry one attempt number.
LEMMA NextAttempts ==
    ASSUME AttemptInv, [Next]_vars
    PROVE  AttemptInv'
<1>1. ASSUME NEW s \in Slots, NEW k, NEW b, Send(s, k, b) PROVE AttemptInv'
  <2> DEFINE r == [pc |-> "received", key |-> k, body |-> b, attempt |-> attempts + 1,
                   registry |-> None]
  <2>1. DOMAIN req' = Slots /\ \A u \in Slots : req'[u] = IF u = s THEN r ELSE req[u]
    BY <1>1 DEF AttemptInv, Send
  <2>2. IsRequest(r) /\ r.attempt = attempts + 1
    BY DEF IsRequest
  <2>3. attempts \in Nat /\ attempts' = attempts + 1 /\ replies' = replies
    BY <1>1 DEF AttemptInv, Send
  <2> HIDE DEF r
  <2>4. \A u \in Slots :
          req'[u] # Idle => IsRequest(req'[u]) /\ req'[u].attempt \in 1 .. attempts'
    BY <2>1, <2>2, <2>3 DEF AttemptInv
  <2>5. ASSUME NEW u \in Slots, NEW v \in Slots, u # v, req'[u] # Idle, req'[v] # Idle
        PROVE  req'[u].attempt # req'[v].attempt
    BY <2>1, <2>2, <2>3, <2>5 DEF AttemptInv
  <2>6. ASSUME NEW x \in replies', NEW u \in Slots, req'[u] # Idle
        PROVE  x.attempt \in 1 .. attempts' /\ x.attempt # req'[u].attempt
    BY <2>1, <2>2, <2>3, <2>6 DEF AttemptInv
  <2>7. \A x \in replies' : x.attempt \in 1 .. attempts'
    BY <2>3 DEF AttemptInv
  <2> QED
    BY <2>1, <2>3, <2>4, <2>5, <2>6, <2>7 DEF AttemptInv
<1>2. ASSUME NEW s \in Slots, req[s] # Idle, NEW pc, goto(s, pc),
             UNCHANGED <<attempts, replies>>
      PROVE  AttemptInv'
  <2>1. IsRequest(req[s])
    BY <1>2 DEF AttemptInv
  <2>2. /\ IsRequest([req[s] EXCEPT !.pc = pc])
        /\ [req[s] EXCEPT !.pc = pc].attempt = req[s].attempt
    BY <2>1, RequestFields, Zenon
  <2>3. req' = [req EXCEPT ![s] = [req[s] EXCEPT !.pc = pc]]
    BY <1>2, Zenon DEF goto
  <2> QED
    BY <1>2, <2>2, <2>3, MovesOn, Zenon
<1>3. ASSUME NEW s \in Slots, req[s] # Idle, refuse(s), attempts' = attempts
      PROVE  AttemptInv'
  BY <1>3, IsDone, Zenon DEF refuse
<1>4. ASSUME NEW s \in Slots, req[s] # Idle, NEW registry, UNCHANGED <<attempts, replies>>,
             req' = [req EXCEPT ![s].pc = "fetched", ![s].registry = registry]
      PROVE  AttemptInv'
  <2> DEFINE r == [[req[s] EXCEPT !.pc = "fetched"] EXCEPT !.registry = registry]
  <2>1. IsRequest(req[s])
    BY <1>4 DEF AttemptInv
  <2>2. IsRequest(r) /\ r.attempt = req[s].attempt
    <3> DEFINE q == [req[s] EXCEPT !.pc = "fetched"]
    <3>1. IsRequest(q) /\ q.attempt = req[s].attempt
      BY <2>1, RequestFields, Zenon
    <3>2. r = [q EXCEPT !.registry = registry]
      OBVIOUS
    <3> HIDE DEF q, r
    <3>3. IsRequest(r) /\ r.attempt = q.attempt
      BY <3>1, <3>2, RequestFields, Zenon
    <3> QED
      BY <3>1, <3>3, Zenon
  <2>3. req' = [req EXCEPT ![s] = r]
    BY <1>4, Zenon DEF AttemptInv
  <2> HIDE DEF r
  <2> QED
    BY <1>4, <2>2, <2>3, MovesOn, Zenon
<1>5. ASSUME NEW s \in Slots, req[s].pc # "idle" PROVE req[s] # Idle
  BY <1>5 DEF Idle
<1>6. ASSUME NEW s \in Slots, Validate(s) PROVE AttemptInv'
  <2>1. req[s] # Idle /\ attempts' = attempts
        /\ (refuse(s) \/ (replies' = replies /\ \E pc : goto(s, pc)))
    BY <1>5, <1>6 DEF Validate
  <2> QED
    BY <1>2, <1>3, <2>1, Zenon
<1>7. ASSUME NEW s \in Slots, Lookup(s) PROVE AttemptInv'
  <2>1. req[s] # Idle /\ UNCHANGED <<attempts, replies>>
    BY <1>5, <1>7 DEF Lookup
  <2>2. goto(s, "building")
        \/ \E registry : req' = [req EXCEPT ![s].pc = "fetched", ![s].registry = registry]
    BY <1>7, Zenon DEF Lookup, goto
  <2> QED
    BY <1>2, <1>4, <2>1, <2>2, Zenon
<1>8. ASSUME NEW s \in Slots, Build(s) PROVE AttemptInv'
  <2>1. req[s] # Idle /\ UNCHANGED <<attempts, replies>>
    BY <1>5, <1>8 DEF Build
  <2>2. \E registry : req' = [req EXCEPT ![s].pc = "fetched", ![s].registry = registry]
    BY <1>8, Zenon DEF Build
  <2> QED
    BY <1>4, <2>1, <2>2, Zenon
<1>9. ASSUME NEW s \in Slots, Evaluate(s) PROVE AttemptInv'
  <2>1. /\ req[s] # Idle /\ attempts' = attempts
        /\ \/ refuse(s) \/ answer(s, "Stale", None)
           \/ (goto(s, "evaluated") /\ replies' = replies)
    BY <1>5, <1>9 DEF Evaluate
  <2> QED
    BY <1>2, <1>3, <2>1, AnswerIsDone, Zenon
<1>10. ASSUME NEW s \in Slots, Respond(s) PROVE AttemptInv'
  <2>1. /\ req[s] # Idle /\ attempts' = attempts
        /\ \E status, of : answer(s, status, of)
    BY <1>5, <1>10 DEF Respond
  <2> QED
    BY <2>1, AnswerIsDone, Zenon
<1>11. CASE Advance \/ UNCHANGED vars
  BY <1>11 DEF Advance, vars, AttemptInv
<1> QED
  BY <1>1, <1>6, <1>7, <1>8, <1>9, <1>10, <1>11 DEF Next, Step

\* check_and_remember keeps the history, whether it replays, refuses or inserts.
LEMMA RespondHistory ==
    ASSUME LossInv, NEW s \in Slots, Respond(s)
    PROVE  History(store', ExecutedIn(replies'), now')
<1> DEFINE r == req[s]
           live == prune(store, now)
           reply(status, of) ==
               [attempt |-> r.attempt, key |-> r.key, body |-> r.body, status |-> status,
                of |-> of, at |-> now, registry |-> r.registry]
           E == ExecutedIn(replies)
<1>1. now' = now /\ History(store, E, now) /\ History(live, E, now)
  BY PruneHistory DEF LossInv, Respond
<1>2. \A x \in replies : x.attempt # r.attempt
  <2>1. req[s] # Idle
    BY DEF Respond, Idle
  <2> QED
    BY <2>1 DEF LossInv, AttemptInv
<1>3. ASSUME NEW status, NEW of, answer(s, status, of)
      PROVE  replies' = replies \cup {reply(status, of)}
  BY <1>3 DEF answer
<1>4. ASSUME answer(s, "Ok", r.attempt)
      PROVE  ExecutedIn(replies') = E \cup {reply("Ok", r.attempt)}
  BY <1>3, <1>4 DEF ExecutedIn
<1>5. ASSUME NEW status, NEW of, answer(s, status, of), status # "Ok" \/ of # r.attempt
      PROVE  ExecutedIn(replies') = E
  BY <1>3, <1>5 DEF ExecutedIn
<1>6. CASE r.key = None
  <2>1. answer(s, "Ok", r.attempt) /\ store' = store
    BY <1>6 DEF Respond
  <2>2. PICK x : x.key = None /\ x.at = now /\ ExecutedIn(replies') = E \cup {x}
    BY <1>4, <1>6, <2>1, Zenon
  <2> QED
    BY <1>1, <2>1, <2>2, KeylessHistory
<1>7. CASE r.key # None /\ lookup(live, r.key, r.body) = "Fresh"
  <2>1. answer(s, "Ok", r.attempt)
        /\ store' = remember(live, r.key, r.body, r.attempt, now)
    BY <1>7 DEF Respond, check_and_remember
  <2>2. PICK x : x.key = r.key /\ x.at = now /\ ExecutedIn(replies') = E \cup {x}
    BY <1>4, <2>1, Zenon
  <2>3. r.key \notin DOMAIN live.entries
    BY <1>7 DEF lookup
  <2> HIDE DEF r, live, E
  <2> QED
    BY <1>1, <1>7, <2>1, <2>2, <2>3, FreshHistory
<1>8. CASE r.key # None /\ lookup(live, r.key, r.body) # "Fresh"
  <2>1. store' = live
    BY <1>8 DEF Respond, check_and_remember
  <2>2. CASE lookup(live, r.key, r.body) = "Replay"
    <3>1. answer(s, "Ok", live.entries[r.key].response)
      BY <1>8, <2>2 DEF Respond
    <3>2. r.key \in DOMAIN live.entries
      BY <2>2 DEF lookup
    <3>3. Own(live.entries, replies)
      BY PruneOwn DEF LossInv, ReplayInv
    <3>4. live.entries[r.key].response # r.attempt
      <4> HIDE DEF r, live
      <4> QED
        BY <1>2, <3>2, <3>3 DEF Own, Computed
    <3>5. ExecutedIn(replies') = E
      BY <1>5, <3>1, <3>4
    <3> QED
      BY <1>1, <2>1, <3>5
  <2>3. CASE lookup(live, r.key, r.body) # "Replay"
    <3>1. answer(s, "Conflict", None)
      BY <1>8, <2>3 DEF Respond
    <3>2. ExecutedIn(replies') = E
      BY <1>5, <3>1
    <3> QED
      BY <1>1, <2>1, <3>2
  <2> QED
    BY <2>2, <2>3
<1> QED
  BY <1>6, <1>7, <1>8

\* Every step keeps LossInv; only Respond and the clock touch the history.
LEMMA NextLoss == LossInv /\ [Next]_vars => LossInv'
<1> SUFFICES ASSUME LossInv, [Next]_vars PROVE LossInv'
  OBVIOUS
<1> DEFINE H == History(store', ExecutedIn(replies'), now')
<1>1. AttemptInv' /\ ReplayInv'
  BY NextAttempts, NextReplays DEF LossInv
<1>2. ASSUME store' = store, now' = now, ExecutedIn(replies') = ExecutedIn(replies) PROVE H
  BY <1>2 DEF LossInv
<1>3. ASSUME NEW s, NEW k, NEW b, Send(s, k, b) PROVE H
  BY <1>2, <1>3 DEF Send
<1>4. ASSUME NEW s, Validate(s) \/ Lookup(s) \/ Build(s) PROVE H
  <2>1. store' = store /\ now' = now /\ replies' = replies
    BY <1>4 DEF Validate, Lookup, Build, refuse
  <2> QED
    BY <1>2, <2>1
<1>5. ASSUME NEW s, Evaluate(s) PROVE H
  <2>1. store' = store /\ now' = now
        /\ (replies' = replies \/ answer(s, "Stale", None))
    BY <1>5 DEF Evaluate, refuse
  <2>2. ASSUME answer(s, "Stale", None) PROVE ExecutedIn(replies') = ExecutedIn(replies)
    <3>1. PICK x : x.status = "Stale" /\ replies' = replies \cup {x}
      BY <2>2, Zenon DEF answer
    <3> QED
      BY <3>1 DEF ExecutedIn
  <2> QED
    BY <1>2, <2>1, <2>2
<1>6. ASSUME Advance PROVE H
  <2>1. store' = store /\ now' = now + 1 /\ replies' = replies
    BY <1>6 DEF Advance
  <2> QED
    BY <2>1, LaterHistory DEF LossInv
<1>7. ASSUME UNCHANGED vars PROVE H
  BY <1>2, <1>7, Zenon DEF vars
<1>8. H
  <2> HIDE DEF H
  <2>1. ASSUME NEW s \in Slots, Respond(s) PROVE H
    BY <2>1, RespondHistory DEF H
  <2> QED
    BY <1>3, <1>4, <1>5, <1>6, <1>7, <2>1 DEF Next, Step
<1> QED
  BY <1>1, <1>8 DEF LossInv

\* An empty store has an empty history.
LEMMA InitLoss == Init => LossInv
<1> SUFFICES ASSUME Init PROVE LossInv
  OBVIOUS
<1>1. AttemptInv
  BY DEF Init, AttemptInv
<1>2. ReplayInv
  BY DEF Init, EmptyStore, ReplayInv, Own, Replayed
<1>3. store.entries = <<>> /\ store.order = <<>> /\ now = 0 /\ ExecutedIn(replies) = {}
  BY DEF Init, EmptyStore, ExecutedIn
<1>4. Ordered(store, now)
  BY <1>3, StoreAssumption DEF Ordered, Listed, Timed, Sorted, Range, IsInjective
<1>5. Stamped({}, now) /\ Backed(<<>>, {}) /\ Kept(<<>>, {}, now) /\ Twice({})
  BY FS_EmptySet DEF Stamped, Dated, Backed, Kept, Twice
<1> QED
  BY <1>1, <1>2, <1>3, <1>4, <1>5 DEF LossInv, History

\* The map and the insertion order of the idempotency store hold the same keys, each
\* once, and at most Capacity of them, however remembers, evictions and expiry follow
\* each other (api/idempotency.rs prune and remember).
THEOREM StoreStaysConsistent == Spec => []StoreOK
<1>1. LossInv => StoreOK
  BY OrderedConsistent, Zenon DEF LossInv, History, StoreOK
<1> QED
  BY <1>1, InitLoss, NextLoss, PTL DEF Spec

\* Two requests with one key both keep the response they computed only when the first
\* entry had expired or Capacity newer keys had displaced it, however the handlers
\* interleave (api/idempotency.rs check_and_remember).
THEOREM ExecutedOnceUntilLost == Spec => []ExecutedTwiceOnlyAfterLoss
<1>1. LossInv => ExecutedTwiceOnlyAfterLoss
  BY DEF LossInv, History, Twice, ExecutedIn, Newer, ExecutedTwiceOnlyAfterLoss, Executed
<1> QED
  BY <1>1, InitLoss, NextLoss, PTL DEF Spec
----------------------------------------------------------------------------
(* The registry cache. *)

\* Of the hashed switches, the registry has those of the plan.
Matches(registry, plan) == registry # None => registry \cap Hashed = plan.enabled \cap Hashed

CacheOK(c) == \A k \in DOMAIN c : c[k] \cap Hashed = k.enabled

\* The cache holds for each key a registry of that key, and a handler that has fetched
\* one keeps it until it answers.
RulesInv ==
    /\ CacheOK(cache)
    /\ \A s \in Slots : req[s] # Idle => Matches(req[s].registry, req[s].body.plan)
    /\ HashedRulesMatch

\* What is built for a plan, and what the cache has for it, match the plan.
LEMMA FetchedMatches ==
    ASSUME NEW c, CacheOK(c), NEW plan
    PROVE  /\ Matches(with_default_rules_for_plan(plan), plan)
           /\ cache_hit(c, plan) => Matches(cache_get(c, plan), plan)
           /\ CacheOK(cache_insert(c, plan, with_default_rules_for_plan(plan)))
<1> DEFINE registry == with_default_rules_for_plan(plan)
           key == plan_cache_key(plan)
<1>1. registry \cap Hashed = plan.enabled \cap Hashed
  BY DEF with_default_rules_for_plan, Hashed
<1>2. key.enabled = plan.enabled \cap Hashed
  BY DEF plan_cache_key
<1> HIDE DEF registry, key
<1>3. cache_hit(c, plan) => Matches(cache_get(c, plan), plan)
  BY <1>2 DEF cache_hit, cache_get, key, CacheOK, Matches
<1>4. cache_insert(c, plan, registry) =
        [k \in DOMAIN c \cup {key} |-> IF k = key THEN registry ELSE c[k]]
  BY DEF cache_insert, key
<1>5. CacheOK(cache_insert(c, plan, registry))
  BY <1>1, <1>2, <1>4 DEF CacheOK
<1> QED
  BY <1>1, <1>3, <1>5 DEF registry, Matches

\* The request in slot s becomes r, and no answer is given.
LEMMA StepMatches ==
    ASSUME AttemptInv, RulesInv, NEW s \in Slots, NEW r,
           r # Idle => Matches(r.registry, r.body.plan),
           req' = [req EXCEPT ![s] = r], replies' = replies, CacheOK(cache')
    PROVE  RulesInv'
<1>1. \A u \in Slots : req'[u] = IF u = s THEN r ELSE req[u]
  BY DEF AttemptInv
<1>2. \A u \in Slots : req'[u] # Idle => Matches(req'[u].registry, req'[u].body.plan)
  BY <1>1 DEF RulesInv
<1>3. HashedRulesMatch'
  BY DEF RulesInv, HashedRulesMatch
<1> QED
  BY <1>2, <1>3 DEF RulesInv

\* The request in slot s moves on with the registry it has.
LEMMA GotoMatches ==
    ASSUME AttemptInv, RulesInv, NEW s \in Slots, req[s] # Idle, NEW pc, goto(s, pc),
           UNCHANGED <<cache, replies>>
    PROVE  RulesInv'
<1> DEFINE r == [req[s] EXCEPT !.pc = pc]
<1>1. IsRequest(req[s]) /\ Matches(req[s].registry, req[s].body.plan)
  BY DEF AttemptInv, RulesInv
<1>2. r.registry = req[s].registry /\ r.body = req[s].body
  BY <1>1 DEF IsRequest
<1>3. req' = [req EXCEPT ![s] = r]
  BY Zenon DEF goto
<1> HIDE DEF r
<1> QED
  BY <1>1, <1>2, <1>3, StepMatches DEF RulesInv

\* The request in slot s has fetched a registry of its plan.
LEMMA FetchMatches ==
    ASSUME AttemptInv, RulesInv, NEW s \in Slots, req[s] # Idle, NEW registry,
           Matches(registry, req[s].body.plan),
           req' = [req EXCEPT ![s].pc = "fetched", ![s].registry = registry],
           replies' = replies, CacheOK(cache')
    PROVE  RulesInv'
<1> DEFINE q == [req[s] EXCEPT !.pc = "fetched"]
           r == [q EXCEPT !.registry = registry]
<1>1. IsRequest(req[s])
  BY DEF AttemptInv
<1>2. IsRequest(q) /\ q.body = req[s].body
  BY <1>1 DEF IsRequest
<1>3. req' = [req EXCEPT ![s] = r]
  BY Zenon DEF AttemptInv
<1> HIDE DEF q
<1>4. r.registry = registry /\ r.body = req[s].body
  BY <1>2 DEF IsRequest
<1> HIDE DEF r
<1> QED
  BY <1>3, <1>4, StepMatches

\* An answer reports the registry of its request.
LEMMA AnswerMatches ==
    ASSUME AttemptInv, RulesInv, NEW s \in Slots, req[s] # Idle, NEW status, NEW of,
           answer(s, status, of), cache' = cache
    PROVE  RulesInv'
<1>1. \A u \in Slots : req'[u] = IF u = s THEN Idle ELSE req[u]
  BY DEF answer, AttemptInv
<1>2. Matches(req[s].registry, req[s].body.plan)
  BY DEF RulesInv
<1> DEFINE x == [attempt |-> req[s].attempt, key |-> req[s].key, body |-> req[s].body,
                 status |-> status, of |-> of, at |-> now, registry |-> req[s].registry]
<1>3. /\ replies' = replies \cup {x}
      /\ x.registry = req[s].registry /\ x.body = req[s].body
  BY DEF answer
<1> HIDE DEF x
<1>4. HashedRulesMatch'
  BY <1>2, <1>3 DEF RulesInv, HashedRulesMatch, Matches
<1> QED
  BY <1>1, <1>4 DEF RulesInv

\* Every step of a handler, a client or the clock keeps the registries apart.
LEMMA NextMatches == AttemptInv /\ RulesInv /\ [Next]_vars => RulesInv'
<1> SUFFICES ASSUME AttemptInv, RulesInv, [Next]_vars PROVE RulesInv'
  OBVIOUS
<1>1. ASSUME NEW s \in Slots, NEW k, NEW b, Send(s, k, b) PROVE RulesInv'
  <2> DEFINE r == [pc |-> "received", key |-> k, body |-> b, attempt |-> attempts + 1,
                   registry |-> None]
  <2>1. req' = [req EXCEPT ![s] = r] /\ cache' = cache /\ replies' = replies
    BY <1>1, Zenon DEF Send
  <2>2. Matches(r.registry, r.body.plan)
    BY DEF Matches
  <2> HIDE DEF r
  <2> QED
    BY <2>1, <2>2, StepMatches DEF RulesInv
<1>2. ASSUME NEW s \in Slots, req[s].pc # "idle" PROVE req[s] # Idle
  BY <1>2 DEF Idle
<1>3. ASSUME NEW s \in Slots, refuse(s), cache' = cache PROVE RulesInv'
  <2>1. req' = [req EXCEPT ![s] = Idle] /\ replies' = replies
    BY <1>3 DEF refuse
  <2> QED
    BY <1>3, <2>1, StepMatches DEF RulesInv
<1>4. ASSUME NEW s \in Slots, Validate(s) PROVE RulesInv'
  <2>1. req[s] # Idle /\ cache' = cache
        /\ (refuse(s) \/ (replies' = replies /\ \E pc : goto(s, pc)))
    BY <1>2, <1>4 DEF Validate
  <2> QED
    BY <1>3, <2>1, GotoMatches, Zenon
<1>5. ASSUME NEW s \in Slots, Lookup(s) PROVE RulesInv'
  <2> DEFINE plan == req[s].body.plan
  <2>1. req[s] # Idle /\ UNCHANGED <<cache, replies>>
    BY <1>2, <1>5 DEF Lookup
  <2>2. \/ goto(s, "building")
        \/ /\ cache_hit(cache, plan)
           /\ req' = [req EXCEPT ![s].pc = "fetched", ![s].registry = cache_get(cache, plan)]
    BY <1>5, Zenon DEF Lookup, goto
  <2>3. CASE goto(s, "building")
    BY <2>1, <2>3, GotoMatches
  <2>4. CASE /\ cache_hit(cache, plan)
             /\ req' = [req EXCEPT ![s].pc = "fetched",
                                   ![s].registry = cache_get(cache, plan)]
    <3>1. Matches(cache_get(cache, plan), plan) /\ CacheOK(cache')
      BY <2>1, <2>4, FetchedMatches DEF RulesInv
    <3> QED
      BY <2>1, <2>4, <3>1, FetchMatches, Zenon
  <2> QED
    BY <2>2, <2>3, <2>4
<1>6. ASSUME NEW s \in Slots, Build(s) PROVE RulesInv'
  <2> DEFINE plan == req[s].body.plan
             registry == with_default_rules_for_plan(plan)
  <2>1. /\ req[s] # Idle /\ replies' = replies
        /\ cache' = cache_insert(cache, plan, registry)
    BY <1>2, <1>6 DEF Build
  <2>2. req' = [req EXCEPT ![s].pc = "fetched", ![s].registry = registry]
    BY <1>6, Zenon DEF Build
  <2>3. Matches(registry, plan) /\ CacheOK(cache')
    BY <2>1, FetchedMatches DEF RulesInv
  <2> QED
    BY <2>1, <2>2, <2>3, FetchMatches, Zenon
<1>7. ASSUME NEW s \in Slots, Evaluate(s) PROVE RulesInv'
  <2>1. /\ req[s] # Idle /\ cache' = cache
        /\ \/ refuse(s) \/ answer(s, "Stale", None)
           \/ (goto(s, "evaluated") /\ replies' = replies)
    BY <1>2, <1>7 DEF Evaluate
  <2> QED
    BY <1>3, <2>1, GotoMatches, AnswerMatches, Zenon
<1>8. ASSUME NEW s \in Slots, Respond(s) PROVE RulesInv'
  <2>1. /\ req[s] # Idle /\ cache' = cache
        /\ \E status, of : answer(s, status, of)
    BY <1>2, <1>8 DEF Respond
  <2> QED
    BY <2>1, AnswerMatches, Zenon
<1>9. CASE Advance \/ UNCHANGED vars
  BY <1>9 DEF Advance, vars, RulesInv, HashedRulesMatch
<1> QED
  BY <1>1, <1>4, <1>5, <1>6, <1>7, <1>8, <1>9 DEF Next, Step

\* However handlers of different plans interleave between the two locks, each evaluates
\* with the hashed switches of its own plan (registry_cache.rs get_or_build).
THEOREM HashedRulesAreOwn == Spec => []HashedRulesMatch
<1>1. Init => AttemptInv /\ RulesInv
  <2>1. Init => AttemptInv
    BY InitLoss DEF LossInv
  <2>2. Init => RulesInv
    BY DEF Init, RulesInv, CacheOK, HashedRulesMatch
  <2> QED
    BY <2>1, <2>2
<1>2. RulesInv => HashedRulesMatch
  BY DEF RulesInv
<1> QED
  BY <1>1, <1>2, NextAttempts, NextMatches, PTL DEF Spec
=============================================================================
