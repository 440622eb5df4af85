----------------------------- MODULE ToolWorker -----------------------------
(***************************************************************************)
(* DemoToolCommandWorker (packages/store_core/tool_worker.py): the polling *)
(* consumer that drives one `tool.command` outbox event through the        *)
(* execution ledger.  It composes Outbox (who may work on an event, how    *)
(* often, when it is dead) with Execution (what may happen to the attempt  *)
(* behind it).                                                             *)
(*                                                                         *)
(* submit_demo_tool accepts one command per approval and appends one event *)
(* per accepted command, so an event, its command and the attempt that     *)
(* prepare_attempt derives from it share one name here.                    *)
(***************************************************************************)
EXTENDS Execution

CONSTANTS
  Processors,                       \* workers called through process, by event id
  RetryBase, RetryCap, MaxAttempts, \* fail_outbox's backoff and limit
  MaxToken,                         \* bound: claims of one event
  MaxCalls,                         \* bound: only the first claims are made by id
  MaxLate                           \* bound: ticks that overtake a busy worker

VARIABLES
  outbox, hold, spent,  \* the outbox and the workers' claims on it
  seen                   \* attempt.state as _drive last saw it; "none" before

EachItsOwn == [e \in Attempts |-> e]

Q == INSTANCE Outbox WITH
  Events <- Attempts, Aggregate <- EachItsOwn, Named <- Attempts, MaxPartial <- MaxToken

ASSUME QueueAssumption == Q!OutboxAssumption

executionVars == vars
queueVars == <<outbox, hold, spent>>
toolVars == <<vars, queueVars, seen>>

ToolInit ==
  /\ Init
  /\ Q!Init
  /\ seen = [w \in Workers |-> "none"]

-----------------------------------------------------------------------------
(* gateway.submit_demo_tool and the operator's RUN come first *)

\* the accepted command and its event are written in one transaction
SubmitDemoTool(a) ==
  /\ Q!AppendOutbox(a)
  /\ UNCHANGED <<executionVars, seen>>

\* process_next: claim_next_outbox, or return None
PollEvent(w) ==
  /\ w \notin Processors
  /\ Q!Poll(w)
  /\ UNCHANGED <<executionVars, seen>>

\* process: claim_outbox for a given event id
ProcessEvent(w) ==
  /\ w \in Processors
  /\ \E e \in Attempts : outbox[e].token < MaxCalls /\ Q!ClaimOutbox(w, e)
  /\ UNCHANGED <<executionVars, seen>>

-----------------------------------------------------------------------------
(* _drive, one transaction per step *)

Driving(w) == hold[w].busy
Fresh(w) == Driving(w) /\ worker[w].pc = "idle" /\ seen[w] = "none"

\* prepare_attempt succeeds and returns the row
Prepare(w) ==
  /\ Fresh(w)
  /\ PrepareAttempt(w, hold[w].event)
  /\ seen' = [seen EXCEPT ![w] = attempt'[hold[w].event].state]
  /\ UNCHANGED queueVars

\* only a PREPARED or an UNKNOWN attempt is claimed
Pursued == {"PREPARED", "UNKNOWN"}

\* claim_attempt, then dispatch_demo or reconcile_attempt up to the answer
Work(w) ==
  /\ Driving(w)
  /\ seen[w] \in Pursued
  /\ \/ ClaimAttempt(w)
     \/ BeginDispatch(w)
     \/ Execute(w)
     \/ BeginReconciliation(w)
     \/ Lookup(w)
  /\ UNCHANGED <<queueVars, seen>>

\* record_observation returns the attempt _drive goes on with
Record(w) ==
  /\ Driving(w)
  /\ RecordObservation(w)
  /\ seen' = [seen EXCEPT ![w] = attempt'[worker[w].att].state]
  /\ UNCHANGED queueVars

\* back to the caller, with nothing kept in memory
Return(w) ==
  /\ worker' = [worker EXCEPT ![w] = IdleJob]
  /\ seen' = [seen EXCEPT ![w] = "none"]
  /\ UNCHANGED <<attempt, ledger, provider, gateVars, left>>

\* the attempt was observed, or was not one to pursue
Ended(w) ==
  /\ Driving(w)
  /\ seen[w] # "none"
  /\ \/ worker[w].pc = "idle"
     \/ worker[w].pc = "loaded" /\ seen[w] \notin Pursued

\* Mutant of Settle: the event is completed after every round.
SettleAlways(w) == Ended(w) /\ Q!CheckpointOutbox(w, TRUE) /\ Return(w)

\* _drive's last call: complete the event when the attempt is decided
Settle(w) == Ended(w) /\ Q!CheckpointOutbox(w, seen[w] \in Terminal) /\ Return(w)

\* checkpoint_outbox raises, and so does fail_outbox after it
SettleStale(w) == Ended(w) /\ Q!Stale(w) /\ Return(w)

\* prepare_attempt, claim_attempt, begin_* or record_observation raises
DriveRaises(w) ==
  \/ Fresh(w) /\ ~(manifest /\ GateOpen(hold[w].event))
  \/ Driving(w) /\ seen[w] \in Pursued /\ Raise(w)

\* process_next reports the failure, unless the event's lease is gone and
\* fail_outbox raises too; process lets the exception through
Fail(w) ==
  /\ DriveRaises(w)
  /\ IF w \in Processors THEN Q!Abandon(w) ELSE Q!FailOutbox(w) \/ Q!Stale(w)
  /\ Return(w)

-----------------------------------------------------------------------------
\* the process dies anywhere in _drive
Die(w) == Q!Crash(w) /\ Return(w)

Operate == Environment /\ UNCHANGED <<queueVars, seen>>

\* one clock for both: each counts down where something is left, and the
\* outbox says how often it may overtake a worker in the middle of an event
Clock ==
  /\ Timed \/ Q!Timed
  /\ Tick \/ (~Timed /\ UNCHANGED executionVars)
  /\ Q!Tick \/ (~Q!Timed /\ UNCHANGED queueVars)
  /\ UNCHANGED seen

Drives(w) == Prepare(w) \/ Work(w) \/ Record(w) \/ Settle(w) \/ SettleStale(w) \/ Fail(w)

ToolNext ==
  \/ \E a \in Attempts : SubmitDemoTool(a)
  \/ \E w \in Workers : PollEvent(w) \/ ProcessEvent(w) \/ Drives(w) \/ Die(w)
  \/ Operate
  \/ Clock

ToolSpec == ToolInit /\ [][ToolNext]_toolVars

(* Polling workers loop; one that lives gets through _drive, a handful of   *)
(* local transactions; the clock advances.                                  *)

-----------------------------------------------------------------------------
(* Properties *)

\* Ledger, queue and what _drive remembers keep their declared shape.
ToolTypeOK ==
  /\ TypeOK
  /\ Q!TypeOK
  /\ seen \in [Workers -> State \cup {"none"}]

\* An event is completed only when the attempt behind it has its verdict, even
\* when the worker that completes it read the attempt several steps earlier.
CompletedIsDecided ==
  \A a \in Attempts : outbox[a].state = "COMPLETED" => attempt[a].state \in Terminal

=============================================================================
