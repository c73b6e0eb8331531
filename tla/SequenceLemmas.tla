--------------------------- MODULE SequenceLemmas ---------------------------
(***************************************************************************)
(* Facts about sequences that the proofs about the idempotency store and   *)
(* the rule registry share.                                                *)
(*                                                                         *)
(* Induction is stated over a set of naturals instead of a predicate, so   *)
(* that the provers can use it: it follows from the well-foundedness of <  *)
(* on Nat.  A recursive function satisfies its equation because a function *)
(* on 0 .. m - 1 that does can be extended to m.                           *)
(***************************************************************************)
EXTENDS VecOps, FiniteSetTheorems, TLAPS

\* < on the naturals is a well-founded relation.
LEMMA NatOrder ==
    \E R : IsWellFoundedOn(R, Nat) /\ \A x, y \in Nat : <<y, x>> \in R <=> y < x
<1> DEFINE R == OpToRel(<, Nat)
<1>1. IsWellFoundedOn(R, Nat)
  BY NatLessThanWellFounded, Zenon
<1>2. \A x, y \in Nat : <<y, x>> \in R <=> y < x
  BY DEF OpToRel
<1> QED
  BY <1>1, <1>2, Zenon

\* A non-empty set of naturals has a least element.
LEMMA LeastElement ==
    ASSUME NEW T, T \subseteq Nat, T # {}
    PROVE  \E n \in T : \A m \in T : n <= m
<1>1. PICK R : IsWellFoundedOn(R, Nat) /\ \A x, y \in Nat : <<y, x>> \in R <=> y < x
  BY NatOrder
<1>2. PICK n \in T : \A m \in T : ~(<<m, n>> \in R)
  BY <1>1, WFMin, Zenon
<1>3. ASSUME NEW m \in T PROVE n <= m
  <2>1. m \in Nat /\ n \in Nat
    OBVIOUS
  <2>2. ~(m < n)
    BY <2>1, <1>1, <1>2, Zenon
  <2> QED
    BY <2>1, <2>2
<1> QED
  BY <1>3

\* A set that has 0 and, up to N, every successor of its elements has all of 0 .. N.
LEMMA Induction ==
    ASSUME NEW N \in Nat, NEW G,
           0 \in G, \A n \in 1 .. N : n - 1 \in G => n \in G
    PROVE  \A n \in 0 .. N : n \in G
<1> DEFINE T == (0 .. N) \ G
<1> SUFFICES ASSUME T # {} PROVE FALSE
  OBVIOUS
<1>1. T \subseteq Nat
  OBVIOUS
<1>2. \E n \in T : \A m \in T : n <= m
  <2> HIDE DEF T
  <2> QED
    BY <1>1, LeastElement
<1>3. PICK n \in T : \A m \in T : n <= m
  BY <1>2
<1>4. n \in 1 .. N /\ n - 1 \in 0 .. N /\ n - 1 \notin T
  BY <1>3
<1> QED
  BY <1>4

\* scan satisfies the equation of retain's recursive function, up to N.
Scans(scan, s, S, N) ==
    scan = [n \in 0 .. N |->
              IF n = 0 THEN <<>>
              ELSE IF s[n] \in S THEN Append(scan[n - 1], s[n]) ELSE scan[n - 1]]

\* The equation of the scan has a solution, by extending one for m - 1 to m.
LEMMA ScanExists ==
    ASSUME NEW s, NEW S, NEW N \in Nat
    PROVE  \E scan : Scans(scan, s, S, N)
<1> DEFINE G == {m \in 0 .. N : \E scan : Scans(scan, s, S, m)}
<1>1. 0 \in G
  <2>1. Scans([n \in 0 .. 0 |-> <<>>], s, S, 0)
    BY DEF Scans
  <2> QED
    BY <2>1
<1>2. ASSUME NEW m \in 1 .. N, m - 1 \in G PROVE m \in G
  <2>1. PICK old : Scans(old, s, S, m - 1)
    BY <1>2
  <2> DEFINE new == [n \in 0 .. m |->
                       IF n < m THEN old[n]
                       ELSE IF s[n] \in S THEN Append(old[n - 1], s[n]) ELSE old[n - 1]]
  <2>2. ASSUME NEW n \in 0 .. m
        PROVE  new[n] = IF n = 0 THEN <<>>
                        ELSE IF s[n] \in S THEN Append(new[n - 1], s[n]) ELSE new[n - 1]
    <3>1. CASE n = m
      BY <3>1
    <3>2. CASE n < m
      <4>1. n \in 0 .. (m - 1)
        BY <3>2
      <4>2. old[n] = IF n = 0 THEN <<>>
                     ELSE IF s[n] \in S THEN Append(old[n - 1], s[n]) ELSE old[n - 1]
        BY <4>1, <2>1, Zenon DEF Scans
      <4>3. new[n] = old[n] /\ (n # 0 => new[n - 1] = old[n - 1])
        BY <3>2
      <4> QED
        BY <4>2, <4>3, Zenon
    <3> QED
      BY <3>1, <3>2
  <2>3. Scans(new, s, S, m)
    BY <2>2, Zenon DEF Scans
  <2> QED
    BY <2>3
<1>3. N \in G
  <2> HIDE DEF G
  <2> QED
    BY <1>1, <1>2, Induction
<1> QED
  BY <1>3

\* retain runs such a scan to the end.
LEMMA RetainScans ==
    ASSUME NEW X, NEW s \in Seq(X), NEW S
    PROVE  \E scan : Scans(scan, s, S, Len(s)) /\ retain(s, S) = scan[Len(s)]
<1> DEFINE scan == CHOOSE scan : Scans(scan, s, S, Len(s))
<1>1. retain(s, S) = scan[Len(s)]
  BY Zenon DEF retain, Scans
<1>2. Scans(scan, s, S, Len(s))
  <2>1. Len(s) \in Nat
    OBVIOUS
  <2> QED
    BY <2>1, ScanExists, Zenon
<1> QED
  BY <1>1, <1>2, Zenon

\* r holds the elements of s[1 .. n] that are in S: f gives their places in s.
Filtered(r, s, S, n, X) ==
    /\ r \in Seq(X) /\ Len(r) <= n
    /\ \E f \in [1 .. Len(r) -> 1 .. n] :
          /\ \A i, j \in 1 .. Len(r) : i < j => f[i] < f[j]
          /\ \A i \in 1 .. Len(r) : r[i] = s[f[i]] /\ r[i] \in S
          /\ \A j \in 1 .. n : s[j] \in S => \E i \in 1 .. Len(r) : f[i] = j

\* retain keeps the elements of S, each in its place among the others.
LEMMA RetainIsSubsequence ==
    ASSUME NEW X, NEW s \in Seq(X), NEW S
    PROVE  Filtered(retain(s, S), s, S, Len(s), X)
<1>1. PICK scan : Scans(scan, s, S, Len(s)) /\ retain(s, S) = scan[Len(s)]
  BY RetainScans
<1> DEFINE G == {n \in 0 .. Len(s) : Filtered(scan[n], s, S, n, X)}
<1>2. 0 \in G
  <2>1. scan[0] = <<>>
    <3>1. 0 \in 0 .. Len(s)
      OBVIOUS
    <3> QED
      BY <3>1, <1>1, Zenon DEF Scans
  <2>2. Filtered(<<>>, s, S, 0, X)
    <3>1. Len(<<>>) = 0 /\ 0 <= 0 /\ <<>> \in Seq(X) /\ \A i \in 1 .. 0 : FALSE
      OBVIOUS
    <3>2. [i \in 1 .. 0 |-> 0] \in [1 .. Len(<<>>) -> 1 .. 0]
      BY <3>1
    <3> QED
      BY <3>1, <3>2, Zenon DEF Filtered
  <2> QED
    BY <2>1, <2>2
<1>3. ASSUME NEW n \in 1 .. Len(s), n - 1 \in G PROVE n \in G
  <2> DEFINE r == scan[n - 1]
             q == scan[n]
  <2>1. q = IF s[n] \in S THEN Append(r, s[n]) ELSE r
    <3>1. n \in 0 .. Len(s) /\ n # 0
      OBVIOUS
    <3> QED
      BY <3>1, <1>1, Zenon DEF Scans
  <2>2. Filtered(r, s, S, n - 1, X)
    BY <1>3
  <2> HIDE DEF r, q
  <2>3. PICK f \in [1 .. Len(r) -> 1 .. (n - 1)] :
          /\ \A i, j \in 1 .. Len(r) : i < j => f[i] < f[j]
          /\ \A i \in 1 .. Len(r) : r[i] = s[f[i]] /\ r[i] \in S
          /\ \A j \in 1 .. (n - 1) : s[j] \in S => \E i \in 1 .. Len(r) : f[i] = j
    BY <2>2, Zenon DEF Filtered
  <2>4. r \in Seq(X) /\ Len(r) \in Nat /\ Len(r) <= n - 1 /\ s[n] \in X
    BY <2>2 DEF Filtered
  <2>5. CASE s[n] \notin S
    <3>1. f \in [1 .. Len(r) -> 1 .. n] /\ Len(r) <= n
      BY <2>4
    <3>2. \A j \in 1 .. n : s[j] \in S => \E i \in 1 .. Len(r) : f[i] = j
      BY <2>3, <2>5
    <3>3. Filtered(r, s, S, n, X)
      BY <3>1, <3>2, <2>3, <2>4, Zenon DEF Filtered
    <3> QED
      BY <3>3, <2>1, <2>5 DEF q
  <2>6. CASE s[n] \in S
    <3> DEFINE g == [i \in 1 .. (Len(r) + 1) |-> IF i <= Len(r) THEN f[i] ELSE n]
    <3>1. q \in Seq(X) /\ Len(q) = Len(r) + 1 /\ Len(q) <= n /\ q[Len(r) + 1] = s[n]
          /\ \A i \in 1 .. Len(r) : q[i] = r[i]
      BY <2>1, <2>4, <2>6
    <3>2. g \in [1 .. Len(q) -> 1 .. n]
      BY <3>1, <2>4
    <3>3. \A i, j \in 1 .. Len(q) : i < j => g[i] < g[j]
      BY <3>1, <2>3, <2>4
    <3>4. \A i \in 1 .. Len(q) : q[i] = s[g[i]] /\ q[i] \in S
      BY <3>1, <2>3, <2>4, <2>6
    <3>5. ASSUME NEW j \in 1 .. n, s[j] \in S PROVE \E i \in 1 .. Len(q) : g[i] = j
      <4>1. CASE j = n
        BY <4>1, <3>1, <2>4
      <4>2. CASE j # n
        <5>1. PICK i \in 1 .. Len(r) : f[i] = j
          BY <2>3, <3>5, <4>2
        <5> QED
          BY <5>1, <3>1, <2>4
      <4> QED
        BY <4>1, <4>2
    <3> HIDE DEF g
    <3>6. Filtered(q, s, S, n, X)
      BY <3>1, <3>2, <3>3, <3>4, <3>5, Zenon DEF Filtered
    <3> QED
      BY <3>6 DEF q
  <2> QED
    BY <2>5, <2>6
<1>4. Len(s) \in G
  <2>1. Len(s) \in Nat /\ Len(s) \in 0 .. Len(s)
    OBVIOUS
  <2> HIDE DEF G
  <2>2. \A n \in 0 .. Len(s) : n \in G
    BY <2>1, <1>2, <1>3, Induction, Zenon
  <2> QED
    BY <2>1, <2>2
<1> QED
  BY <1>1, <1>4

\* What is left are the elements in S.
LEMMA RetainRange ==
    ASSUME NEW X, NEW s \in Seq(X), NEW S
    PROVE  /\ retain(s, S) \in Seq(X)
           /\ Len(retain(s, S)) <= Len(s)
           /\ Range(retain(s, S)) = Range(s) \cap S
<1> DEFINE r == retain(s, S)
<1>1. Filtered(r, s, S, Len(s), X)
  BY RetainIsSubsequence
<1> HIDE DEF r
<1>2. r \in Seq(X) /\ Len(r) <= Len(s)
  BY <1>1 DEF Filtered
<1>3. PICK f \in [1 .. Len(r) -> 1 .. Len(s)] :
          /\ \A i \in 1 .. Len(r) : r[i] = s[f[i]] /\ r[i] \in S
          /\ \A j \in 1 .. Len(s) : s[j] \in S => \E i \in 1 .. Len(r) : f[i] = j
  BY <1>1, Zenon DEF Filtered
<1>4. DOMAIN r = 1 .. Len(r) /\ DOMAIN s = 1 .. Len(s)
  BY <1>2
<1>5. ASSUME NEW i \in 1 .. Len(r) PROVE r[i] \in Range(s) \cap S
  BY <1>3, <1>4 DEF Range
<1>6. ASSUME NEW j \in 1 .. Len(s), s[j] \in S PROVE s[j] \in Range(r)
  <2>1. PICK i \in 1 .. Len(r) : f[i] = j
    BY <1>3, <1>6
  <2> QED
    BY <2>1, <1>3, <1>4 DEF Range
<1>7. Range(r) = Range(s) \cap S
  BY <1>4, <1>5, <1>6 DEF Range
<1> QED
  BY <1>2, <1>7 DEF r

\* Any two elements of r stand in the same order in s.
InOrder(r, s) ==
    \A i, j \in DOMAIN r :
        i < j => \E k, l \in DOMAIN s : k < l /\ r[i] = s[k] /\ r[j] = s[l]

\* What is left keeps its order.
LEMMA RetainOrder ==
    ASSUME NEW X, NEW s \in Seq(X), NEW S
    PROVE  InOrder(retain(s, S), s)
<1> DEFINE r == retain(s, S)
<1>1. Filtered(r, s, S, Len(s), X)
  BY RetainIsSubsequence
<1> HIDE DEF r
<1>2. DOMAIN r = 1 .. Len(r) /\ DOMAIN s = 1 .. Len(s)
  BY <1>1 DEF Filtered
<1>3. PICK f \in [1 .. Len(r) -> 1 .. Len(s)] :
          /\ \A a, b \in 1 .. Len(r) : a < b => f[a] < f[b]
          /\ \A a \in 1 .. Len(r) : r[a] = s[f[a]] /\ r[a] \in S
  BY <1>1, Zenon DEF Filtered
<1>4. ASSUME NEW i \in DOMAIN r, NEW j \in DOMAIN r, i < j
      PROVE  \E k, l \in DOMAIN s : k < l /\ r[i] = s[k] /\ r[j] = s[l]
  <2>1. f[i] \in DOMAIN s /\ f[j] \in DOMAIN s
    BY <1>2, <1>3
  <2>2. f[i] < f[j] /\ r[i] = s[f[i]] /\ r[j] = s[f[j]]
    BY <1>2, <1>3, <1>4
  <2> QED
    BY <2>1, <2>2
<1> QED
  BY <1>4 DEF InOrder, r

\* No element comes to stand twice.
LEMMA InOrderInjective ==
    ASSUME NEW X, NEW s \in Seq(X), NEW Y, NEW r \in Seq(Y), InOrder(r, s), IsInjective(s)
    PROVE  IsInjective(r)
<1>1. ASSUME NEW i \in DOMAIN r, NEW j \in DOMAIN r, i < j PROVE r[i] # r[j]
  <2>1. PICK k, l \in DOMAIN s : k < l /\ r[i] = s[k] /\ r[j] = s[l]
    BY <1>1 DEF InOrder
  <2> QED
    BY <2>1 DEF IsInjective
<1>2. \A i, j \in DOMAIN r : i < j \/ i = j \/ j < i
  OBVIOUS
<1> QED
  BY <1>1, <1>2, Zenon DEF IsInjective

\* A sequence has as many elements as places exactly when none stands twice.
LEMMA DistinctCardinality ==
    ASSUME NEW X, NEW s \in Seq(X)
    PROVE  /\ IsFiniteSet(Range(s))
           /\ Cardinality(Range(s)) = Len(s) <=> IsInjective(s)
<1>1. DOMAIN s = 1 .. Len(s) /\ Len(s) \in Nat
  OBVIOUS
<1>2. IsFiniteSet(1 .. Len(s)) /\ Cardinality(1 .. Len(s)) = Len(s)
  BY <1>1, FS_Interval
<1>3. s \in Surjection(1 .. Len(s), Range(s))
  BY <1>1 DEF Surjection, Range
<1>4. s \in Injection(1 .. Len(s), Range(s)) <=> IsInjective(s)
  BY <1>1 DEF Injection, Range
<1> QED
  BY <1>2, <1>3, <1>4, FS_Surjection
=============================================================================
