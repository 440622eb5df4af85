------------------------------ MODULE MCReviews ------------------------------
(* Instances of Reviews for TLC. *)
EXTENDS Reviews, TLC

CONSTANTS t1, t2, r1, r2, p1

Alike == Permutations({t1, t2}) \cup Permutations({r1, r2})
=============================================================================
