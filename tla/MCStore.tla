------------------------------- MODULE MCStore -------------------------------
(* Storing on a small instance: two cohorts with two tasks each; two        *)
(* operators with two checkpoint objects, the second of which repeats a     *)
(* result and adds one; and a visitor and the operator's script that        *)
(* refresh the index of two articles.                                       *)
EXTENDS Storing, TLC

CONSTANTS b1, b2, c1, c2, r1, r2

Overlapping == c1 :> {b1} @@ c2 :> {b1, b2}
Symmetry == Permutations(Article) \cup Permutations(Operator) \cup Permutations(Text)
=============================================================================
