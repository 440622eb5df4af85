--------------------------- MODULE ExternalEffect ---------------------------
(***************************************************************************)
(* What the execution ledger promises about each logical operation, with   *)
(* no workers, leases, lookups or crashes in sight:                        *)
(*                                                                         *)
(*   - nothing reaches the outside before the operation was authorised;    *)
(*   - the outside is touched at most once;                                *)
(*   - a verified verdict is the outcome the outside really has, and no    *)
(*     verdict is ever revised;                                            *)
(*   - an operation may also be handed to a person; an effect that was     *)
(*     under way may still land after that.                                *)
(***************************************************************************)
CONSTANT Ops

VARIABLES
  authorised,  \* operations whose dispatch was once committed
  effect,      \* outcome recorded outside, or "NONE"
  verdict      \* what the ledger reports: "OPEN", an outcome, or "MANUAL"

Outcome == {"FOUND_SUCCESS", "FOUND_FAILURE"}

abstractVars == <<authorised, effect, verdict>>

Init ==
  /\ authorised = {}
  /\ effect = [o \in Ops |-> "NONE"]
  /\ verdict = [o \in Ops |-> "OPEN"]

Authorise(o) ==
  /\ verdict[o] = "OPEN"
  /\ authorised' = authorised \cup {o}
  /\ UNCHANGED <<effect, verdict>>

Apply(o, k) ==
  /\ o \in authorised
  /\ effect[o] = "NONE"
  /\ effect' = [effect EXCEPT ![o] = k]
  /\ UNCHANGED <<authorised, verdict>>

Verify(o) ==
  /\ verdict[o] = "OPEN"
  /\ effect[o] \in Outcome
  /\ verdict' = [verdict EXCEPT ![o] = effect[o]]
  /\ UNCHANGED <<authorised, effect>>

HandOver(o) ==
  /\ verdict[o] = "OPEN"
  /\ o \in authorised
  /\ verdict' = [verdict EXCEPT ![o] = "MANUAL"]
  /\ UNCHANGED <<authorised, effect>>

Next ==
  \E o \in Ops :
    \/ Authorise(o)
    \/ \E k \in Outcome : Apply(o, k)
    \/ Verify(o)
    \/ HandOver(o)

Spec == Init /\ [][Next]_abstractVars
=============================================================================
