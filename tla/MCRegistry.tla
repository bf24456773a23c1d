---------------------------- MODULE MCRegistry -----------------------------
(* Registry for TLC: two applications, one of which runs twice, by either  *)
(* of two processes first.                                                 *)
EXTENDS Registry
CONSTANTS p1, p2, p3

MCApp == (p1 :> 1) @@ (p2 :> 2) @@ (p3 :> 1)
MCFilter == ("d1" :> <<[a |-> 1, c |-> Wild, ll |-> 1]>>)
MCSymmetry == Permutations({p1, p3})

B(s, c, q, v, k) ==
  [start |-> s, call |-> c, request |-> q, device |-> v, crash |-> k]
MCBudget == {B(3, 1, 0, 1, 0), B(2, 1, 1, 0, 1), B(2, 2, 0, 0, 1), B(2, 3, 0, 0, 0),
             B(1, 1, 1, 1, 1), B(1, 2, 1, 0, 1), B(1, 1, 2, 0, 0)}
=============================================================================
