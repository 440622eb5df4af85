----------------------------- MODULE MCApprovals -----------------------------
(* Instances of Approvals for TLC. *)
EXTENDS Approvals, TLC

CONSTANTS m, u1, u2, s1, s2, k1, k2, p1, p2, t1, t2, n1, r1, r2

\* the two requests are interchangeable, and so are the tool keys
Symmetry == Permutations(Requests) \cup Permutations(Users \ {Master}) \cup Permutations(ToolKeys)
=============================================================================
