------------------------------ MODULE MCInflow ------------------------------
(* Instances of Inflow for TLC. *)
EXTENDS Inflow

CONSTANTS e1, e2

\* the second page repeats the event of the first
TwoPages == <<{e1}, {e1, e2}>>
=============================================================================
