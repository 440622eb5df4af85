---- MODULE MCControlPool ----
(* Instances of ControlPool for TLC. *)
EXTENDS ControlPool

CONSTANTS l1, e1, r1

OneEach == [lane \in Lanes |-> 1]
OperatorFirst == [t \in Ids |-> IF t \in Dictated THEN 100 ELSE 50]
AnyLane == [t \in Ids |-> "any"]
Homes == [w \in Workers |-> IF w = e1 THEN "ext" ELSE "local"]
====
