-------------------------- MODULE MCPurchaseOrders --------------------------
(* Instances of PurchaseOrders for TLC. *)
EXTENDS PurchaseOrders, TLC

CONSTANTS l1, l2, c1, c2, p1, t1

Q(s, c, e) == [supplier |-> s, cost |-> c, enough |-> e]

\* a split over two suppliers; everything from supplier 2, decided by the tie
\* and by stock; and a table with a line nobody can deliver
Tables ==
  { [l \in Lines |-> IF l = l1 THEN {Q(1, 1, TRUE), Q(2, 2, TRUE)} ELSE {Q(2, 1, TRUE)}],
    [l \in Lines |-> IF l = l1 THEN {Q(1, 1, FALSE), Q(2, 1, TRUE)} ELSE {Q(2, 2, TRUE)}],
    [l \in Lines |-> IF l = l1 THEN {Q(1, 1, TRUE), Q(2, 1, TRUE)} ELSE {Q(2, 2, FALSE)}] }

\* calls of propose_routing are interchangeable
Symmetry == Permutations(Callers)
=============================================================================
