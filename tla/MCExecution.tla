---------------------------- MODULE MCExecution ----------------------------
(* Instances of Execution for TLC. *)
EXTENDS Execution, TLC

CONSTANTS
  a1, w1, w2, demoWorker,
  MaxLate   \* bound: how often the clock overtakes a holder of a live lease

VARIABLE late   \* how often it has

mcVars == <<vars, late>>

\* both processes were started with the same worker_id, the harder case
SharedId == [w \in Workers |-> demoWorker]

\* A process is held up, and its lease runs on; nobody has died before.  The
\* processes are alike, so it may as well be w1.
LateTick ==
  /\ left.crashes = MaxCrashes
  /\ Holding(w1)
  /\ late < MaxLate
  /\ Tick
  /\ late' = late + 1

\* of the changes, the first releases the command: nothing is sent before
Released == left.changes = MaxChanges => \A a \in Attempts : control'[a] = "RUN"

LateInit == Init /\ late = 0

LateNext == ((PromptNext /\ UNCHANGED late) \/ LateTick) /\ Released

\* Processes are late MaxLate times and prompt otherwise; they keep polling, and
\* the clock moves on when no lease is being worked under.
LateFairSpec ==
  /\ LateInit /\ [][LateNext]_mcVars
  /\ \A w \in Workers : WF_mcVars(PromptStep(w) /\ UNCHANGED late)
  /\ SF_mcVars(PromptTick /\ UNCHANGED late)
=============================================================================
