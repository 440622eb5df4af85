------------------------------ MODULE MCOutbox ------------------------------
(* Instances of Outbox for TLC. *)
EXTENDS Outbox, TLC

CONSTANTS e1, e2, e3, w1, w2, demoWorker

\* e1 and e2 belong to one aggregate, e3 to another
TwoAggregates == [e \in Events |-> IF e = e3 THEN 2 ELSE 1]

SharedId == [w \in Workers |-> demoWorker]

Symmetry == Permutations(Workers)
=============================================================================
