------------------------------- MODULE VecOps -------------------------------
(***************************************************************************)
(* The filtering pass of Rust's collections, as the sources use it: retain *)
(* of a VecDeque and a filter collected into a Vec.  The predicate is      *)
(* given as the set of the elements that satisfy it.                       *)
(***************************************************************************)
EXTENDS Integers, Sequences

\* The elements of s that are in S, in their order.
retain(s, S) ==
    LET scan[n \in 0 .. Len(s)] ==
          IF n = 0 THEN <<>>
          ELSE IF s[n] \in S THEN Append(scan[n - 1], s[n]) ELSE scan[n - 1]
    IN  scan[Len(s)]
=============================================================================
