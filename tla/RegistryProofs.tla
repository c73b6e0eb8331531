--------------------------- MODULE RegistryProofs ---------------------------
(***************************************************************************)
(* The rule registry for every pack, every library and every outcome of    *)
(* the rules: the index stays exact, an accepted pack is enforced, and the *)
(* decision of an evaluation follows from the set of its reports.          *)
(***************************************************************************)
EXTENDS RuleRegistry, SequenceLemmas, SequenceTheorems

Rule ==
    [id : STRING, priority : Nat, failure_policy : {None} \cup STRING,
     entry : {None} \cup STRING]

\* The index leads to every rule: ids are distinct and by_id is their places.
Indexed(r) ==
    /\ r = [rules |-> r.rules, by_id |-> r.by_id] /\ r.rules \in Seq(Rule)
    /\ DOMAIN r.by_id = {r.rules[i].id : i \in DOMAIN r.rules}
    /\ \A i \in DOMAIN r.rules : r.by_id[r.rules[i].id] = i

\* A rule of the library is filed under its kind.
LEMMA DefaultRuleType ==
    ASSUME NEW kind \in STRING
    PROVE  default_rule(kind) \in Rule /\ default_rule(kind).id = kind
<1>1. DefaultPriority(kind) \in Nat
  BY DEF DefaultPriority
<1> QED
  BY <1>1 DEF default_rule, Rule

\* A rule made from an entry is filed under the entry's kind and remembers its id.
LEMMA EntryRuleType ==
    ASSUME NEW e \in RuleEntry
    PROVE  /\ from_entry(e) \in Rule
           /\ from_entry(e).id = e.kind /\ from_entry(e).entry = e.id
<1>1. DefaultPriority(e.kind) \in Nat
  BY DEF DefaultPriority
<1>2. /\ e.kind \in STRING /\ e.id \in STRING /\ e.priority \in Nat
      /\ e.failure_policy \in {None} \cup STRING
  BY DEF RuleEntry
<1> QED
  BY <1>1, <1>2 DEF from_entry, Rule

\* The empty registry is indexed.
LEMMA EmptyIndexed == Indexed(empty) /\ DOMAIN empty.by_id = {} /\ DOMAIN empty.rules = {}
BY DEF Indexed, empty

\* In an exact index, the place of an id is the place of the rule that has it.
LEMMA IndexLeads ==
    ASSUME NEW r, Indexed(r), NEW id \in DOMAIN r.by_id
    PROVE  r.by_id[id] \in DOMAIN r.rules /\ r.rules[r.by_id[id]].id = id
BY DEF Indexed

\* register keeps the index exact and leaves the rules of other ids.
LEMMA RegisterIndexed ==
    ASSUME NEW r, Indexed(r), NEW rule \in Rule
    PROVE  LET q == register(r, rule)
           IN  /\ Indexed(q) /\ DOMAIN q.by_id = DOMAIN r.by_id \cup {rule.id}
               /\ \A k \in DOMAIN q.rules :
                     \/ q.rules[k] = rule
                     \/ /\ q.rules[k].id # rule.id
                        /\ \E j \in DOMAIN r.rules : q.rules[k] = r.rules[j]
<1> DEFINE q == register(r, rule)
<1>1. r.rules \in Seq(Rule) /\ DOMAIN r.rules = 1 .. Len(r.rules) /\ Len(r.rules) \in Nat
  BY DEF Indexed
<1>2. CASE rule.id \in DOMAIN r.by_id
  <2> DEFINE n == r.by_id[rule.id]
  <2>1. n \in DOMAIN r.rules /\ r.rules[n].id = rule.id
    BY <1>2, IndexLeads
  <2>2. q.rules = [r.rules EXCEPT ![n] = rule] /\ q.by_id = r.by_id
        /\ q = [rules |-> q.rules, by_id |-> q.by_id]
    BY <1>2, Zenon DEF register, Indexed
  <2> HIDE DEF q, n
  <2>3. q.rules \in Seq(Rule) /\ DOMAIN q.rules = DOMAIN r.rules
        /\ \A k \in DOMAIN r.rules : q.rules[k] = IF k = n THEN rule ELSE r.rules[k]
    BY <1>1, <2>1, <2>2
  <2>4. \A k \in DOMAIN r.rules : q.rules[k].id = r.rules[k].id
    BY <2>1, <2>3
  <2>5. Indexed(q)
    BY <2>2, <2>3, <2>4 DEF Indexed
  <2>6. ASSUME NEW k \in DOMAIN r.rules, k # n PROVE r.rules[k].id # rule.id
    BY <2>1, <2>6 DEF Indexed, n
  <2> QED
    BY <1>2, <2>2, <2>3, <2>5, <2>6 DEF q
<1>3. CASE rule.id \notin DOMAIN r.by_id
  <2> DEFINE n == Len(r.rules) + 1
  <2>1. /\ q.rules = Append(r.rules, rule)
        /\ q.by_id = [id \in DOMAIN r.by_id \cup {rule.id} |->
                         IF id = rule.id THEN Len(r.rules) + 1 ELSE r.by_id[id]]
        /\ q = [rules |-> q.rules, by_id |-> q.by_id]
    BY <1>3 DEF register
  <2> HIDE DEF q
  <2>2. q.rules \in Seq(Rule) /\ DOMAIN q.rules = 1 .. n /\ q.rules[n] = rule
        /\ \A k \in DOMAIN r.rules : k \in 1 .. n /\ k # n /\ q.rules[k] = r.rules[k]
    BY <1>1, <2>1
  <2>3. \A k \in 1 .. n : k = n \/ k \in DOMAIN r.rules
    BY <1>1
  <2>4. n \in 1 .. n
    BY <1>1
  <2> HIDE DEF n
  <2>5. \A k \in DOMAIN r.rules : r.rules[k].id # rule.id /\ r.rules[k].id \in DOMAIN r.by_id
    BY <1>3 DEF Indexed
  <2>6. DOMAIN q.by_id = DOMAIN r.by_id \cup {rule.id}
    BY <2>1
  <2>7. DOMAIN q.by_id = {q.rules[k].id : k \in DOMAIN q.rules}
    BY <2>2, <2>3, <2>4, <2>6 DEF Indexed
  <2>8. ASSUME NEW k \in DOMAIN q.rules PROVE q.by_id[q.rules[k].id] = k
    BY <2>1, <2>2, <2>3, <2>5 DEF Indexed, n
  <2>9. Indexed(q)
    BY <2>1, <2>2, <2>7, <2>8, Zenon DEF Indexed
  <2> QED
    BY <2>2, <2>3, <2>5, <2>6, <2>9 DEF q
<1> QED
  BY <1>2, <1>3

\* RemoveAt drops one place and moves up the ones behind it.
LEMMA RemoveAtPlaces ==
    ASSUME NEW X, NEW s \in Seq(X), NEW n \in DOMAIN s
    PROVE  /\ RemoveAt(s, n) \in Seq(X) /\ DOMAIN RemoveAt(s, n) = 1 .. (Len(s) - 1)
           /\ \A k \in 1 .. (Len(s) - 1) :
                 RemoveAt(s, n)[k] = s[IF k < n THEN k ELSE k + 1]
<1> DEFINE a == SubSeq(s, 1, n - 1)
           b == SubSeq(s, n + 1, Len(s))
<1>1. n \in 1 .. Len(s) /\ Len(s) \in Nat /\ n \in Nat
  OBVIOUS
<1>2. a \in Seq(X) /\ Len(a) = n - 1 /\ \A k \in 1 .. (n - 1) : a[k] = s[k]
  BY <1>1
<1>3. b \in Seq(X) /\ Len(b) = Len(s) - n /\ \A k \in 1 .. (Len(s) - n) : b[k] = s[n + k]
  BY <1>1
<1>4. RemoveAt(s, n) = a \o b
  BY DEF RemoveAt
<1> HIDE DEF a, b
<1>5. a \o b \in Seq(X) /\ Len(a \o b) = Len(s) - 1
  BY <1>1, <1>2, <1>3
<1>6. ASSUME NEW k \in 1 .. (Len(s) - 1) PROVE (a \o b)[k] = s[IF k < n THEN k ELSE k + 1]
  <2>1. CASE k < n
    BY <1>1, <1>2, <1>3, <2>1
  <2>2. CASE ~(k < n)
    <3>1. k - (n - 1) \in 1 .. (Len(s) - n) /\ n + (k - (n - 1)) = k + 1
      BY <1>1, <2>2
    <3>2. (a \o b)[k] = b[k - (n - 1)]
      BY <1>1, <1>2, <1>3, <2>2
    <3> QED
      BY <1>3, <2>2, <3>1, <3>2
  <2> QED
    BY <2>1, <2>2, Zenon
<1> QED
  BY <1>4, <1>5, <1>6

\* The index of rules with distinct ids is exact.
LEMMA IndexExact ==
    ASSUME NEW rules \in Seq(Rule),
           \A i, j \in DOMAIN rules : rules[i].id = rules[j].id => i = j
    PROVE  Indexed([rules |-> rules, by_id |-> index(rules)])
<1> DEFINE r == [rules |-> rules, by_id |-> index(rules)]
<1>1. r = [rules |-> r.rules, by_id |-> r.by_id] /\ r.rules = rules /\ r.by_id = index(rules)
  OBVIOUS
<1>2. DOMAIN index(rules) = {rules[i].id : i \in DOMAIN rules}
  BY DEF index
<1>3. ASSUME NEW n \in DOMAIN rules PROVE index(rules)[rules[n].id] = n
  <2>1. index(rules)[rules[n].id] =
           CHOOSE i \in DOMAIN rules :
             rules[i].id = rules[n].id
             /\ \A j \in DOMAIN rules : rules[j].id = rules[n].id => j <= i
    BY <1>3, Zenon DEF index
  <2>2. rules[n].id = rules[n].id
        /\ \A j \in DOMAIN rules : rules[j].id = rules[n].id => j <= n
    <3>1. n <= n
      OBVIOUS
    <3> QED
      BY <3>1
  <2> QED
    BY <2>1, <2>2
<1> HIDE DEF r
<1>4. Indexed(r)
  BY <1>1, <1>2, <1>3 DEF Indexed
<1> QED
  BY <1>4 DEF r

\* A removal, from the middle too, leaves the index exact (registry.rs unregister).
LEMMA UnregisterIndexed ==
    ASSUME NEW r, Indexed(r), NEW id
    PROVE  Indexed(unregister(r, id))
<1>1. CASE id \notin DOMAIN r.by_id
  BY <1>1 DEF unregister
<1>2. CASE id \in DOMAIN r.by_id
  <2> DEFINE n == r.by_id[id]
             left == RemoveAt(r.rules, n)
  <2>1. n \in DOMAIN r.rules /\ r.rules \in Seq(Rule)
    BY <1>2, IndexLeads DEF Indexed
  <2>2. unregister(r, id) = [rules |-> left, by_id |-> index(left)]
    BY <1>2 DEF unregister
  <2> HIDE DEF n, left
  <2>3. left \in Seq(Rule) /\ DOMAIN left = 1 .. (Len(r.rules) - 1)
        /\ \A k \in 1 .. (Len(r.rules) - 1) : left[k] = r.rules[IF k < n THEN k ELSE k + 1]
    BY <2>1, RemoveAtPlaces DEF left
  <2>4. ASSUME NEW i \in DOMAIN left, NEW j \in DOMAIN left, left[i].id = left[j].id
        PROVE  i = j
    <3> DEFINE f(k) == IF k < n THEN k ELSE k + 1
    <3>1. /\ n \in Nat /\ i \in Nat /\ j \in Nat
          /\ f(i) \in DOMAIN r.rules /\ f(j) \in DOMAIN r.rules
      BY <2>1, <2>3, <2>4
    <3>2. r.rules[f(i)].id = r.rules[f(j)].id
      BY <2>3, <2>4
    <3>3. f(i) = f(j)
      <4> HIDE DEF f
      <4> QED
        BY <3>1, <3>2 DEF Indexed
    <3> QED
      BY <3>1, <3>3
  <2> QED
    BY <2>2, <2>3, <2>4, IndexExact
<1> QED
  BY <1>1, <1>2
----------------------------------------------------------------------------
(* Packs. *)

\* built satisfies the equation of build_from_pack's recursive function, up to N.
Builds(built, p, N) ==
    built = [n \in 0 .. N |->
               IF n = 0 THEN empty
               ELSE IF p[n].enabled /\ p[n].kind \in SupportedKinds
               THEN register(built[n - 1], from_entry(p[n])) ELSE built[n - 1]]

\* The recursion of build_from_pack has a solution, by induction on the pack's length.
LEMMA BuildExists ==
    ASSUME NEW p, NEW N \in Nat
    PROVE  \E built : Builds(built, p, N)
<1> DEFINE G == {m \in 0 .. N : \E built : Builds(built, p, m)}
           step(n, r) == IF p[n].enabled /\ p[n].kind \in SupportedKinds
                         THEN register(r, from_entry(p[n])) ELSE r
<1>1. 0 \in G
  <2>1. Builds([n \in 0 .. 0 |-> empty], p, 0)
    BY DEF Builds
  <2> QED
    BY <2>1
<1>2. ASSUME NEW m \in 1 .. N, m - 1 \in G PROVE m \in G
  <2>1. PICK old : Builds(old, p, m - 1)
    BY <1>2
  <2> DEFINE new == [n \in 0 .. m |-> IF n < m THEN old[n] ELSE step(n, old[n - 1])]
  <2>2. ASSUME NEW n \in 0 .. m
        PROVE  new[n] = IF n = 0 THEN empty ELSE step(n, new[n - 1])
    <3>1. CASE n = m
      <4> HIDE DEF step
      <4> QED
        BY <3>1
    <3>2. CASE n < m
      <4>1. n \in 0 .. (m - 1)
        BY <3>2
      <4>2. old[n] = IF n = 0 THEN empty ELSE step(n, old[n - 1])
        BY <4>1, <2>1, Zenon DEF Builds
      <4> HIDE DEF step
      <4>3. new[n] = old[n] /\ (n # 0 => new[n - 1] = old[n - 1])
        BY <3>2
      <4> QED
        BY <4>2, <4>3, Zenon
    <3> QED
      BY <3>1, <3>2
  <2>3. Builds(new, p, m)
    BY <2>2, Zenon DEF Builds
  <2> QED
    BY <2>3
<1>3. N \in G
  <2> HIDE DEF G
  <2> QED
    BY <1>1, <1>2, Induction
<1> QED
  BY <1>3

\* build_from_pack is the end of such a solution.
LEMMA PackBuilds ==
    ASSUME NEW p \in Packs
    PROVE  \E built : Builds(built, p, Len(p)) /\ build_from_pack(p) = built[Len(p)]
<1> DEFINE built == CHOOSE built : Builds(built, p, Len(p))
<1>1. build_from_pack(p) = built[Len(p)]
  BY Zenon DEF build_from_pack, Builds
<1>2. Len(p) \in Nat
  BY PacksAssumption
<1>3. Builds(built, p, Len(p))
  BY <1>2, BuildExists, Zenon
<1> QED
  BY <1>1, <1>3, Zenon

Enabled(p, n) == {i \in 1 .. n : p[i].enabled}

\* Entry i is the last enabled one of its kind among the first n.
LastOf(p, i, n) == \A j \in Enabled(p, n) : j > i => p[j].kind # p[i].kind

\* The registry enforces the first n entries: each rule is of an entry that is the last
\* of its kind.
Enforces(r, p, n) ==
    /\ Indexed(r)
    /\ DOMAIN r.by_id = {p[i].kind : i \in Enabled(p, n)}
    /\ \A k \in DOMAIN r.rules : \E i \in Enabled(p, n) :
          LastOf(p, i, n) /\ p[i].kind = r.rules[k].id /\ p[i].id = r.rules[k].entry

\* Registering an enabled entry enforces one entry more.
LEMMA EntryEnforced ==
    ASSUME NEW p \in Seq(RuleEntry), NEW n \in 1 .. Len(p), NEW r, Enforces(r, p, n - 1),
           p[n].enabled
    PROVE  Enforces(register(r, from_entry(p[n])), p, n)
<1> DEFINE rule == from_entry(p[n])
           q == register(r, rule)
<1>1. rule \in Rule /\ rule.id = p[n].kind /\ rule.entry = p[n].id
  <2>1. p[n] \in RuleEntry
    OBVIOUS
  <2> QED
    BY <2>1, EntryRuleType, Zenon
<1> HIDE DEF rule
<1>2. /\ Indexed(q) /\ DOMAIN q.by_id = DOMAIN r.by_id \cup {rule.id}
      /\ \A k \in DOMAIN q.rules :
            \/ q.rules[k] = rule
            \/ /\ q.rules[k].id # rule.id
               /\ \E j \in DOMAIN r.rules : q.rules[k] = r.rules[j]
  BY <1>1, RegisterIndexed DEF Enforces
<1> HIDE DEF q
<1>3. Enabled(p, n) = Enabled(p, n - 1) \cup {n} /\ n \in Enabled(p, n)
  BY DEF Enabled
<1>4. DOMAIN q.by_id = {p[i].kind : i \in Enabled(p, n)}
  BY <1>1, <1>2, <1>3 DEF Enforces
<1>5. ASSUME NEW k \in DOMAIN q.rules
      PROVE  \E i \in Enabled(p, n) :
                LastOf(p, i, n) /\ p[i].kind = q.rules[k].id /\ p[i].id = q.rules[k].entry
  <2>1. CASE q.rules[k] = rule
    <3>1. LastOf(p, n, n)
      BY DEF LastOf, Enabled
    <3> QED
      BY <1>1, <1>3, <2>1, <3>1
  <2>2. CASE q.rules[k] # rule
    <3>1. PICK j \in DOMAIN r.rules : q.rules[k] = r.rules[j] /\ q.rules[k].id # rule.id
      BY <1>2, <2>2
    <3>2. PICK i \in Enabled(p, n - 1) :
             /\ LastOf(p, i, n - 1)
             /\ p[i].kind = r.rules[j].id /\ p[i].id = r.rules[j].entry
      BY DEF Enforces
    <3>3. LastOf(p, i, n)
      BY <1>1, <1>3, <3>1, <3>2 DEF LastOf
    <3> QED
      BY <1>3, <3>1, <3>2, <3>3
  <2> QED
    BY <2>1, <2>2
<1> QED
  BY <1>2, <1>4, <1>5 DEF Enforces, q, rule

\* A pack that is not refused is enforced, by induction on its length.
LEMMA PackEnforced ==
    ASSUME NEW p \in Packs, ~refuses(p)
    PROVE  Enforces(build_from_pack(p), p, Len(p))
<1>1. PICK built : Builds(built, p, Len(p)) /\ build_from_pack(p) = built[Len(p)]
  BY PackBuilds
<1>2. p \in Seq(RuleEntry) /\ Len(p) \in Nat /\ DOMAIN p = 1 .. Len(p)
  BY PacksAssumption
<1> DEFINE G == {n \in 0 .. Len(p) : Enforces(built[n], p, n)}
<1>3. 0 \in G
  <2>1. 0 \in 0 .. Len(p)
    BY <1>2
  <2>2. built[0] = empty
    BY <1>1, <2>1, Zenon DEF Builds
  <2>3. Enabled(p, 0) = {}
    BY DEF Enabled
  <2>4. Enforces(empty, p, 0)
    BY <2>3, EmptyIndexed DEF Enforces
  <2> QED
    BY <2>1, <2>2, <2>4
<1>4. ASSUME NEW n \in 1 .. Len(p), n - 1 \in G PROVE n \in G
  <2>1. Enforces(built[n - 1], p, n - 1) /\ n \in 0 .. Len(p) /\ n # 0
    BY <1>2, <1>4
  <2>2. built[n] = IF p[n].enabled /\ p[n].kind \in SupportedKinds
                   THEN register(built[n - 1], from_entry(p[n])) ELSE built[n - 1]
    BY <1>1, <2>1, Zenon DEF Builds
  <2>3. CASE p[n].enabled
    <3>1. p[n].kind \in SupportedKinds
      BY <1>2, <2>3 DEF refuses
    <3>2. built[n] = register(built[n - 1], from_entry(p[n]))
      BY <2>2, <2>3, <3>1, Zenon
    <3> QED
      BY <1>2, <2>1, <2>3, <3>2, EntryEnforced
  <2>4. CASE ~p[n].enabled
    <3>1. built[n] = built[n - 1]
      BY <2>2, <2>4, Zenon
    <3>2. Enabled(p, n) = Enabled(p, n - 1)
      BY <2>4 DEF Enabled
    <3> QED
      BY <2>1, <3>1, <3>2 DEF Enforces, LastOf
  <2> QED
    BY <2>3, <2>4
<1>5. Len(p) \in G
  <2> HIDE DEF G
  <2>1. \A n \in 0 .. Len(p) : n \in G
    BY <1>2, <1>3, <1>4, Induction, Zenon
  <2> QED
    BY <1>2, <2>1
<1> QED
  BY <1>1, <1>5
----------------------------------------------------------------------------
(* Decisions. *)

\* The report at i wins over the first n.
Beats(list, i, n) ==
    \A j \in 1 .. n : \/ list[j].priority < list[i].priority
                      \/ list[j].priority = list[i].priority /\ j <= i

\* pick_winner finds a report of the highest priority.
LEMMA WinnerWins ==
    ASSUME NEW X, NEW list \in Seq(X), Len(list) # 0,
           \A x \in Range(list) : x.priority \in Nat
    PROVE  /\ pick_winner(list) \in Range(list)
           /\ \A x \in Range(list) : x.priority <= pick_winner(list).priority
<1>1. DOMAIN list = 1 .. Len(list) /\ Len(list) \in Nat
  OBVIOUS
<1>2. \A i \in 1 .. Len(list) : list[i].priority \in Nat
  BY <1>1 DEF Range
<1> DEFINE G == {n \in 0 .. Len(list) : n = 0 \/ \E i \in 1 .. n : Beats(list, i, n)}
<1>3. 0 \in G
  BY <1>1
<1>4. ASSUME NEW n \in 1 .. Len(list), n - 1 \in G PROVE n \in G
  <2>1. CASE n = 1
    BY <1>2, <2>1 DEF Beats
  <2>2. CASE n # 1
    <3>1. PICK i \in 1 .. (n - 1) : Beats(list, i, n - 1)
      BY <1>4, <2>2
    <3>2. list[i].priority \in Nat /\ list[n].priority \in Nat
          /\ \A j \in 1 .. n : list[j].priority \in Nat
      BY <1>1, <1>2
    <3>3. CASE list[n].priority < list[i].priority
      <4>1. Beats(list, i, n)
        BY <3>1, <3>3 DEF Beats
      <4> QED
        BY <4>1
    <3>4. CASE ~(list[n].priority < list[i].priority)
      <4>1. Beats(list, n, n)
        BY <3>1, <3>2, <3>4 DEF Beats
      <4> QED
        BY <4>1
    <3> QED
      BY <3>3, <3>4
  <2> QED
    BY <2>1, <2>2
<1>5. \A n \in 0 .. Len(list) : n \in G
  <2> HIDE DEF G
  <2> QED
    BY <1>1, <1>3, <1>4, Induction, Zenon
<1>6. \E i \in DOMAIN list : Beats(list, i, Len(list))
  BY <1>1, <1>5
<1> DEFINE w == CHOOSE i \in DOMAIN list : Beats(list, i, Len(list))
<1>7. w \in DOMAIN list /\ Beats(list, w, Len(list))
  BY <1>6, Zenon
<1>8. pick_winner(list) = list[w]
  BY <1>1, Zenon DEF pick_winner, Beats
<1> HIDE DEF w
<1>9. \A j \in DOMAIN list : list[j].priority <= list[w].priority
  BY <1>1, <1>2, <1>7 DEF Beats
<1> QED
  BY <1>7, <1>8, <1>9 DEF Range

\* A decision other than Pass is some report's verdict.
LEMMA KindReported ==
    ASSUME NEW V, KindOf(V) # "Pass"
    PROVE  KindOf(V) \in V
BY DEF KindOf

\* What from_reports makes of a set of reports R, up to the choice of the winner w.
Decides(d, R) ==
    /\ d.kind = KindOf({x.verdict : x \in R})
    /\ d.kind = "Pass" => d.winning_priority = 0 /\ d.named = {}
    /\ d.kind # "Pass" =>
          \E w \in {x \in R : x.verdict = d.kind} :
             /\ d.winning_priority = w.priority
             /\ \A x \in {x \in R : x.verdict = d.kind} : x.priority <= w.priority
             /\ d.named = IF d.kind \in {"EarlyWarning", "Warn"}
                          THEN {x.rule : x \in {x \in R : x.verdict = d.kind}}
                          ELSE {w.rule}

\* from_reports depends on the set of its reports only, except between equals.
LEMMA ReportsDecide ==
    ASSUME NEW X, NEW reports \in Seq(X), \A x \in Range(reports) : x.priority \in Nat
    PROVE  Decides(from_reports(reports), Range(reports))
<1> DEFINE R == Range(reports)
           kind == KindOf({reports[i].verdict : i \in DOMAIN reports})
           C == {x \in R : x.verdict = kind}
           category == retain(reports, C)
           d == from_reports(reports)
<1>1. kind = KindOf({x.verdict : x \in R})
  <2>1. {reports[i].verdict : i \in DOMAIN reports} = {x.verdict : x \in R}
    BY DEF Range
  <2> QED
    BY <2>1, Zenon
<1>2. /\ d.kind = kind
      /\ d.winning_priority = IF kind = "Pass" THEN 0 ELSE pick_winner(category).priority
      /\ d.named = IF kind = "Pass" THEN {}
                   ELSE IF kind \in {"EarlyWarning", "Warn"}
                   THEN {category[i].rule : i \in DOMAIN category}
                   ELSE {pick_winner(category).rule}
  <2>1. d = [kind |-> kind,
             winning_priority |-> IF kind = "Pass" THEN 0 ELSE pick_winner(category).priority,
             named |-> IF kind = "Pass" THEN {}
                       ELSE IF kind \in {"EarlyWarning", "Warn"}
                       THEN {category[i].rule : i \in DOMAIN category}
                       ELSE {pick_winner(category).rule}]
    BY Zenon DEF from_reports
  <2> HIDE DEF kind, category, d
  <2> QED
    BY <2>1
<1>3. category \in Seq(X) /\ Range(category) = C
  BY RetainRange
<1>4. ASSUME kind # "Pass" PROVE C # {}
  <2>1. kind \in {x.verdict : x \in R}
    BY <1>1, <1>4, KindReported, Zenon
  <2> HIDE DEF kind
  <2> QED
    BY <2>1
<1> HIDE DEF R, kind, category, d
<1>5. ASSUME kind # "Pass"
      PROVE  /\ pick_winner(category) \in C
             /\ \A x \in C : x.priority <= pick_winner(category).priority
  <2>1. Len(category) # 0
    BY <1>3, <1>4, <1>5 DEF Range
  <2>2. \A x \in Range(category) : x.priority \in Nat
    BY <1>3 DEF R
  <2> QED
    BY <1>3, <2>1, <2>2, WinnerWins
<1>6. {category[i].rule : i \in DOMAIN category} = {x.rule : x \in C}
  BY <1>3 DEF Range
<1>7. Decides(d, R)
  <2>1. d.kind = KindOf({x.verdict : x \in R})
    BY <1>1, <1>2, Zenon
  <2>2. d.kind = "Pass" => d.winning_priority = 0 /\ d.named = {}
    BY <1>2
  <2>3. ASSUME d.kind # "Pass"
        PROVE  \E w \in {x \in R : x.verdict = d.kind} :
                  /\ d.winning_priority = w.priority
                  /\ \A x \in {x \in R : x.verdict = d.kind} : x.priority <= w.priority
                  /\ d.named = IF d.kind \in {"EarlyWarning", "Warn"}
                               THEN {x.rule : x \in {x \in R : x.verdict = d.kind}}
                               ELSE {w.rule}
    <3>1. kind # "Pass" /\ d.winning_priority = pick_winner(category).priority
          /\ d.named = IF kind \in {"EarlyWarning", "Warn"} THEN {x.rule : x \in C}
                       ELSE {pick_winner(category).rule}
      BY <1>2, <1>6, <2>3, Zenon
    <3> QED
      BY <1>2, <1>5, <3>1, Zenon
  <2> QED
    BY <2>1, <2>2, <2>3, Zenon DEF Decides
<1> QED
  BY <1>7 DEF R, d

\* The reports of an evaluation, of the set of the rules.
Reported(rules, did) ==
    {report(r, did[r.id]) : r \in {r \in rules : did[r.id] # "inapplicable"}}

\* The evaluation loop reports what each rule's outcome makes it report.
LEMMA EvaluateReports ==
    ASSUME NEW rules \in Seq(Rule), NEW did
    PROVE  LET reports == evaluate(rules, did)
           IN  /\ reports \in Seq(Range(reports))
               /\ Range(reports) = Reported(Range(rules), did)
<1> DEFINE S == {r \in Range(rules) : did[r.id] # "inapplicable"}
           run == retain(rules, S)
           reports == evaluate(rules, did)
<1>1. run \in Seq(Rule) /\ Range(run) = S
  BY RetainRange
<1>2. reports = [i \in DOMAIN run |-> report(run[i], did[run[i].id])]
  BY Zenon DEF evaluate
<1> HIDE DEF S, run, reports
<1>3. DOMAIN run = 1 .. Len(run) /\ Len(run) \in Nat
  BY <1>1
<1>4. Range(reports) = {report(r, did[r.id]) : r \in S}
  BY <1>1, <1>2 DEF Range
<1>5. reports \in Seq(Range(reports))
  <2>1. /\ DOMAIN reports = 1 .. Len(run)
        /\ \A i \in 1 .. Len(run) : reports[i] \in Range(reports)
    BY <1>2, <1>3 DEF Range
  <2>2. reports \in [1 .. Len(run) -> Range(reports)]
    BY <1>2, <2>1
  <2> QED
    BY <1>3, <2>2
<1> QED
  BY <1>4, <1>5, Zenon DEF Reported, S, reports

\* The decision of an evaluation is settled by the set of rules and their outcomes.
LEMMA EvaluationDecides ==
    ASSUME NEW rules \in Seq(Rule), NEW did
    PROVE  Decides(from_reports(evaluate(rules, did)), Reported(Range(rules), did))
<1> DEFINE reports == evaluate(rules, did)
<1>1. reports \in Seq(Range(reports)) /\ Range(reports) = Reported(Range(rules), did)
  BY EvaluateReports
<1> HIDE DEF reports
<1>2. \A x \in Range(reports) : x.priority \in Nat
  <2>1. \A i \in DOMAIN rules : rules[i] \in Rule
    OBVIOUS
  <2>2. \A r \in Range(rules) : r.priority \in Nat
    BY <2>1 DEF Range, Rule
  <2> QED
    BY <1>1, <2>2 DEF Reported, report
<1>3. Decides(from_reports(reports), Range(reports))
  BY <1>1, <1>2, ReportsDecide
<1> QED
  BY <1>1, <1>3 DEF reports
----------------------------------------------------------------------------
(* The invariant: the registry is indexed, it is the one its pack builds, and the *)
(* decision is that of the last outcomes.                                          *)
RegistryInv ==
    /\ Indexed(registry)
    /\ pack # None => pack \in Packs /\ ~refuses(pack) /\ registry = build_from_pack(pack)
    /\ decision # None => decision = from_reports(evaluate(registry.rules, outcome))

\* Every edit of the registry drops the decision and keeps the invariant.
LEMMA EditKeeps ==
    ASSUME NEW r, Indexed(r), NEW source, edited(r, source),
           source # None => source \in Packs /\ ~refuses(source) /\ r = build_from_pack(source)
    PROVE  RegistryInv'
BY DEF edited, RegistryInv

\* The invariant holds of the empty registry.
LEMMA InitRegistry == Init => RegistryInv
BY EmptyIndexed DEF Init, RegistryInv

\* Every step keeps the invariant.
LEMMA NextRegistry == RegistryInv /\ [Next]_registryVars => RegistryInv'
<1> SUFFICES ASSUME RegistryInv, [Next]_registryVars PROVE RegistryInv'
  OBVIOUS
<1>1. ASSUME UNCHANGED registryVars PROVE RegistryInv'
  BY <1>1 DEF registryVars, RegistryInv
<1>2. ASSUME NEW p \in Packs, BuildFromPack(p) PROVE RegistryInv'
  <2>1. CASE refuses(p)
    BY <1>1, <1>2, <2>1 DEF BuildFromPack
  <2>2. CASE ~refuses(p)
    <3>1. Indexed(build_from_pack(p))
      BY <2>2, PackEnforced DEF Enforces
    <3>2. edited(build_from_pack(p), p)
      BY <1>2, <2>2 DEF BuildFromPack
    <3> QED
      BY <2>2, <3>1, <3>2, EditKeeps
  <2> QED
    BY <2>1, <2>2
<1>3. ASSUME NEW kind \in Library, Register(kind) PROVE RegistryInv'
  <2>1. default_rule(kind) \in Rule
    BY LibraryAssumption, DefaultRuleType
  <2>2. Indexed(register(registry, default_rule(kind)))
    BY <2>1, RegisterIndexed DEF RegistryInv
  <2> QED
    BY <1>3, <2>2, EditKeeps DEF Register
<1>4. ASSUME NEW kind \in Library, Unregister(kind) PROVE RegistryInv'
  <2>1. Indexed(unregister(registry, kind))
    BY UnregisterIndexed DEF RegistryInv
  <2>2. CASE kind \in DOMAIN registry.by_id
    BY <1>4, <2>1, <2>2, EditKeeps DEF Unregister
  <2>3. CASE kind \notin DOMAIN registry.by_id
    <3>1. unregister(registry, kind) = registry /\ edited(registry, pack)
      BY <1>4, <2>3 DEF Unregister, unregister
    <3> QED
      BY <2>1, <3>1, EditKeeps DEF RegistryInv
  <2> QED
    BY <2>2, <2>3
<1>5. CASE Evaluate
  <2>1. /\ UNCHANGED <<registry, pack>>
        /\ decision' = from_reports(evaluate(registry.rules, outcome'))
    BY <1>5 DEF Evaluate
  <2> QED
    BY <2>1 DEF RegistryInv
<1> QED
  BY <1>1, <1>2, <1>3, <1>4, <1>5 DEF Next

\* The index names every rule and leads to it, after any sequence of builds,
\* registrations and removals (registry.rs register, unregister and get).
THEOREM IndexIsExact == Spec => []RegistryIndexed
<1>1. RegistryInv => RegistryIndexed
  BY IndexLeads DEF RegistryInv, Indexed, RegistryIndexed
<1> QED
  BY <1>1, InitRegistry, NextRegistry, PTL DEF Spec

\* An accepted pack is enforced: every enabled entry's kind has its rule, made from the
\* last entry of the kind, and there is no other rule (registry.rs build_from_pack).
THEOREM AcceptedPackIsEnforced == Spec => []PackIsEnforced
<1>1. RegistryInv => PackIsEnforced
  <2> SUFFICES ASSUME RegistryInv, pack # None PROVE PackIsEnforced
    BY Zenon DEF PackIsEnforced
  <2>1. Enforces(registry, pack, Len(pack)) /\ pack \in Seq(RuleEntry)
    BY PackEnforced, PacksAssumption DEF RegistryInv
  <2>2. DOMAIN pack = 1 .. Len(pack)
    BY <2>1
  <2> DEFINE enabled == {i \in DOMAIN pack : pack[i].enabled}
             last(i) == \A j \in DOMAIN pack :
                           j > i /\ pack[j].enabled => pack[j].kind # pack[i].kind
  <2>3. enabled = Enabled(pack, Len(pack))
    BY <2>2 DEF Enabled
  <2>4. ASSUME NEW i \in enabled PROVE last(i) <=> LastOf(pack, i, Len(pack))
    BY <2>2 DEF LastOf, Enabled
  <2> HIDE DEF enabled, last
  <2>5. {pack[i].kind : i \in enabled} = DOMAIN registry.by_id
    BY <2>1, <2>3 DEF Enforces
  <2>6. ASSUME NEW k \in DOMAIN registry.rules
        PROVE  \E i \in enabled : /\ last(i) /\ pack[i].kind = registry.rules[k].id
                                  /\ pack[i].id = registry.rules[k].entry
    BY <2>1, <2>3, <2>4 DEF Enforces
  <2>7. ASSUME NEW i \in enabled, last(i)
        PROVE  \E k \in DOMAIN registry.rules : pack[i].id = registry.rules[k].entry
    <3>1. PICK k \in DOMAIN registry.rules : registry.rules[k].id = pack[i].kind
      BY <2>5, Zenon DEF RegistryInv, Indexed
    <3>2. PICK j \in enabled : /\ last(j) /\ pack[j].kind = registry.rules[k].id
                               /\ pack[j].id = registry.rules[k].entry
      BY <2>6
    <3>3. i = j
      BY <2>2, <2>7, <3>1, <3>2 DEF enabled, last
    <3> QED
      BY <3>2, <3>3
  <2>8. {pack[i].id : i \in {i \in enabled : last(i)}}
          = {registry.rules[i].entry : i \in DOMAIN registry.rules}
    BY <2>6, <2>7
  <2> QED
    BY <2>5, <2>8, Zenon DEF PackIsEnforced, enabled, last
<1> QED
  BY <1>1, InitRegistry, NextRegistry, PTL DEF Spec

\* A rule that terminates, or errs under the failure policy "fail", ends the account
\* whatever the others report, and nothing else does (engine/decision.rs
\* Decision::from_reports, registry.rs failure_verdict).
THEOREM BreachWins == Spec => []BreachAlwaysWins
<1>1. RegistryInv => BreachAlwaysWins
  <2> SUFFICES ASSUME RegistryInv, decision # None PROVE BreachAlwaysWins
    BY DEF BreachAlwaysWins
  <2> DEFINE Breach == {"Fail", "Liquidate", "Emergency"}
             breaches(r) == \/ outcome[r.id] \in Breach
                            \/ outcome[r.id] = "errs" /\ r.failure_policy = "fail"
             R == Range(registry.rules)
             V == {x.verdict : x \in Reported(R, outcome)}
  <2>1. decision.kind = KindOf(V)
    BY EvaluationDecides DEF RegistryInv, Indexed, Decides
  <2>2. ASSUME NEW r PROVE failure_verdict(r) \in Breach <=> r.failure_policy = "fail"
    BY DEF failure_verdict
  <2>3. ASSUME NEW r, outcome[r.id] # "inapplicable"
        PROVE  verdict(r, outcome[r.id]) \in Breach <=> breaches(r)
    BY <2>2 DEF verdict
  <2>4. V = {verdict(r, outcome[r.id]) : r \in {r \in R : outcome[r.id] # "inapplicable"}}
    <3>1. \A r, did : report(r, did).verdict = verdict(r, did)
      BY DEF report
    <3> QED
      BY <3>1 DEF Reported
  <2>5. (\E v \in V : v \in Breach) <=> \E r \in R : breaches(r)
    <3> HIDE DEF V
    <3> QED
      BY <2>3, <2>4
  <2>6. is_terminating(KindOf(V)) <=> \E v \in V : v \in Breach
    <3> HIDE DEF V
    <3> QED
      BY DEF is_terminating, KindOf
  <2>7. (\E r \in R : breaches(r))
          <=> \E i \in DOMAIN registry.rules : breaches(registry.rules[i])
    BY DEF Range
  <2> QED
    BY <2>1, <2>5, <2>6, <2>7, Zenon DEF BreachAlwaysWins
<1> QED
  BY <1>1, InitRegistry, NextRegistry, PTL DEF Spec

\* A reordering holds the same rules.
LEMMA ReorderingRange ==
    ASSUME NEW rules \in Seq(Rule), NEW f \in [DOMAIN rules -> DOMAIN rules],
           \A i, j \in DOMAIN rules : f[i] = f[j] => i = j
    PROVE  LET other == [i \in DOMAIN rules |-> rules[f[i]]]
           IN  other \in Seq(Rule) /\ Range(other) = Range(rules)
<1> DEFINE other == [i \in DOMAIN rules |-> rules[f[i]]]
           D == DOMAIN rules
<1>1. D = 1 .. Len(rules) /\ Len(rules) \in Nat
  OBVIOUS
<1>2. IsFiniteSet(D)
  BY <1>1, FS_Interval
<1>3. f \in Injection(D, D)
  BY DEF Injection, IsInjective
<1>4. f \in Surjection(D, D)
  BY <1>2, <1>3, FS_Injection
<1>5. \A k \in D : \E i \in D : f[i] = k
  BY <1>4 DEF Surjection
<1>6. \A i \in D : rules[i] \in Rule
  OBVIOUS
<1>7. other \in [1 .. Len(rules) -> Rule]
  BY <1>1, <1>6
<1>8. other \in Seq(Rule)
  BY <1>1, <1>7
<1>9. Range(other) = Range(rules)
  BY <1>5 DEF Range
<1> QED
  BY <1>8, <1>9

\* Two decisions on one set of reports agree but for a tie.
LEMMA DecisionsAgree ==
    ASSUME NEW R, \A x \in R : x.priority \in Nat,
           NEW d, NEW e, Decides(d, R), Decides(e, R)
    PROVE  /\ e.kind = d.kind /\ e.winning_priority = d.winning_priority
           /\ \/ e.named = d.named
              \/ \E v, w \in R : /\ v.rule # w.rule
                                 /\ \A x \in {v, w} : /\ x.priority = d.winning_priority
                                                      /\ x.verdict = d.kind
<1>1. e.kind = d.kind
  BY DEF Decides
<1>2. CASE d.kind = "Pass"
  BY <1>1, <1>2, Zenon DEF Decides
<1>3. CASE d.kind # "Pass"
  <2> DEFINE C == {x \in R : x.verdict = d.kind}
             warns == d.kind \in {"EarlyWarning", "Warn"}
             wins(a, w) == /\ a.winning_priority = w.priority
                           /\ \A x \in C : x.priority <= w.priority
                           /\ a.named = IF warns THEN {x.rule : x \in C} ELSE {w.rule}
  <2>1. PICK v \in C : wins(d, v)
    BY <1>3, Zenon DEF Decides
  <2>2. PICK w \in C : wins(e, w)
    BY <1>1, <1>3, Zenon DEF Decides
  <2>3. v.priority = w.priority
    BY <2>1, <2>2
  <2>4. CASE warns
    BY <1>1, <2>1, <2>2, <2>3, <2>4
  <2>5. CASE ~warns
    BY <1>1, <2>1, <2>2, <2>3, <2>5
  <2> QED
    BY <2>4, <2>5
<1> QED
  BY <1>2, <1>3

\* The decision does not depend on the order of registration: its kind and priority are
\* the same in every order, and so is the rule it names unless two tie
\* (engine/decision.rs Decision::from_reports, pick_winner).
THEOREM DecisionIsOrderFree == Spec => []DecisionIgnoresOrder
<1>1. RegistryInv => DecisionIgnoresOrder
  <2> SUFFICES ASSUME RegistryInv, decision # None, NEW rules \in Reorderings
               PROVE  LET other == from_reports(evaluate(rules, outcome))
                      IN  /\ other.kind = decision.kind
                          /\ other.winning_priority = decision.winning_priority
                          /\ \/ other.named = decision.named
                             \/ \E r, q \in {registry.rules[i] : i \in DOMAIN registry.rules} :
                                  /\ r # q
                                  /\ \A x \in {r, q} :
                                        /\ x.priority = decision.winning_priority
                                        /\ verdict(x, outcome[x.id]) = decision.kind
    BY DEF DecisionIgnoresOrder
  <2> DEFINE other == from_reports(evaluate(rules, outcome))
             R == Reported(Range(registry.rules), outcome)
  <2>1. registry.rules \in Seq(Rule)
    BY DEF RegistryInv, Indexed
  <2>2. PICK f \in [DOMAIN registry.rules -> DOMAIN registry.rules] :
          /\ \A i, j \in DOMAIN registry.rules : f[i] = f[j] => i = j
          /\ rules = [i \in DOMAIN registry.rules |-> registry.rules[f[i]]]
    BY DEF Reorderings
  <2>3. rules \in Seq(Rule) /\ Range(rules) = Range(registry.rules)
    BY <2>1, <2>2, ReorderingRange, Zenon
  <2>4. Decides(decision, R) /\ Decides(other, R)
    BY <2>1, <2>3, EvaluationDecides DEF RegistryInv
  <2>5. \A i \in DOMAIN registry.rules : registry.rules[i] \in Rule
    BY <2>1
  <2>6. \A x \in R : x.priority \in Nat
    BY <2>5 DEF Reported, report, Range, Rule
  <2>7. ASSUME NEW x \in R
        PROVE  \E r \in {registry.rules[i] : i \in DOMAIN registry.rules} :
                  /\ r.id = x.rule /\ r.priority = x.priority
                  /\ verdict(r, outcome[r.id]) = x.verdict
    BY DEF Reported, report, Range
  <2> HIDE DEF R, other
  <2>8. /\ other.kind = decision.kind /\ other.winning_priority = decision.winning_priority
        /\ \/ other.named = decision.named
           \/ \E v, w \in R : /\ v.rule # w.rule
                              /\ \A x \in {v, w} : /\ x.priority = decision.winning_priority
                                                   /\ x.verdict = decision.kind
    BY <2>4, <2>6, DecisionsAgree
  <2> QED
    BY <2>7, <2>8 DEF other
<1> QED
  BY <1>1, InitRegistry, NextRegistry, PTL DEF Spec
=============================================================================
