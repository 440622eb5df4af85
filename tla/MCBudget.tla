------------------------------ MODULE MCBudget ------------------------------
(* Instances of Budget for TLC. *)
EXTENDS Budget, TLC

CONSTANTS t1, t2, k1, k2, c1, c2

\* a policy each of whose limits two bookings of one tenant can meet
Tight == [daily |-> 1, monthly |-> 2, generations |-> 2, runs |-> 2]
Plans == {Tight}

Symmetry == Permutations(Tenants) \cup Permutations(RunKeys) \cup Permutations(Callers)
=============================================================================
