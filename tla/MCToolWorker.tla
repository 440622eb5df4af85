---------------------------- MODULE MCToolWorker ----------------------------
(* Instances of ToolWorker for TLC. *)
EXTENDS ToolWorker, TLC

CONSTANTS a1, w1, w2, demoWorker

SharedId == [w \in Workers |-> demoWorker]
=============================================================================
