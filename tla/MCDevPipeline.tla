---------------------------- MODULE MCDevPipeline ----------------------------
(* Instances of DevPipeline for TLC. *)
EXTENDS DevPipeline

CONSTANTS t1, w1, w2, base, red, green, leak

Plain == [kind |-> "plain", task |-> TriageId, sound |-> TRUE]
Torn == [kind |-> "plain", task |-> TriageId, sound |-> FALSE]

Operators == {Torn, Plain}
=============================================================================
