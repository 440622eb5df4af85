------------------------------- MODULE Outbox -------------------------------
(***************************************************************************)
(* The durable outbox of packages/store_core/sqlite_repository.py: events  *)
(* appended in the transaction that causes them, claimed by polling        *)
(* workers under a lease and a fencing token, checkpointed, retried with   *)
(* backoff, and dead after max_attempts failures.                          *)
(*                                                                         *)
(* Each repository method is one BEGIN IMMEDIATE transaction, hence one    *)
(* action.  What the worker does with an event between two calls is left   *)
(* open; ToolWorker fills it in for the one consumer the repository has.   *)
(* As in Execution, `lease` and `wait` are the time left until lease_until *)
(* and available_at.                                                       *)
(***************************************************************************)
EXTENDS Naturals, FiniteSets

CONSTANTS
  Events,       \* outbox rows that may be appended
  Aggregate,    \* aggregate_ref of each event
  Named,        \* events some caller claims by id (process), not by polling
  Workers,      \* worker processes
  WorkerId,     \* their worker_id; two may share one
  NoWorker,     \* lease_owner IS NULL
  LeaseTime,    \* lease_seconds, in clock ticks
  RetryBase,    \* 30 s, in clock ticks
  RetryCap,     \* 3600 s, in clock ticks
  MaxAttempts,  \* max_attempts of fail_outbox (5)
  MaxToken,     \* bound: claims stop once an event has this fencing token
  MaxPartial,   \* bound: only the first holders leave an event unfinished
  MaxCrashes,   \* bound: worker deaths
  MaxLate       \* bound: ticks at which some worker is still busy under its lease

ASSUME OutboxAssumption ==
  /\ DOMAIN WorkerId = Workers
  /\ \A w \in Workers : WorkerId[w] # NoWorker
  /\ Events # {}
  /\ IsFiniteSet(Events)
  /\ Named \subseteq Events
  /\ LeaseTime \in Nat \ {0}
  /\ RetryBase \in Nat
  /\ RetryCap \in 0..(128 * RetryBase)
  /\ MaxAttempts \in Nat \ {0}
  /\ MaxToken \in Nat
  /\ MaxPartial \in Nat
  /\ MaxCrashes \in Nat
  /\ MaxLate \in Nat

VARIABLES
  outbox,   \* the rows
  hold,     \* the event and token each worker keeps in memory
  spent     \* worker deaths and slow ticks so far (model bounds)

outboxVars == <<outbox, hold, spent>>

EventState == {"ABSENT", "PENDING", "LEASED", "RETRY", "COMPLETED", "DEAD"}
Finished == {"COMPLETED", "DEAD"}

Ids == {WorkerId[w] : w \in Workers}

Row == [state : EventState, rowid : Nat, owner : Ids \cup {NoWorker},
        lease : Nat, token : Nat, attempts : Nat, wait : Nat]

Hold == [busy : BOOLEAN, event : Events, token : Nat]

NewRow == [state |-> "ABSENT", rowid |-> 0, owner |-> NoWorker, lease |-> 0,
           token |-> 0, attempts |-> 0, wait |-> 0]
NoHold == [busy |-> FALSE, event |-> CHOOSE e \in Events : TRUE, token |-> 0]

Least(m, n) == IF m <= n THEN m ELSE n

\* min(3600, 30 * 2 ** max(0, attempts - 1)); the seventh doubling is past the cap
RetryDelay(attempts) ==
  LET doublings == IF attempts = 0 THEN 0 ELSE Least(attempts - 1, 7)
  IN  Least(RetryCap, RetryBase * <<1, 2, 4, 8, 16, 32, 64, 128>>[doublings + 1])

Init ==
  /\ outbox = [e \in Events |-> NewRow]
  /\ hold = [w \in Workers |-> NoHold]
  /\ spent = [deaths |-> 0, late |-> 0]

-----------------------------------------------------------------------------
Appended == {e \in Events : outbox[e].state # "ABSENT"}

\* append_outbox; the key is unique, so an event is appended at most once
AppendOutbox(e) ==
  /\ outbox[e].state = "ABSENT"
  /\ outbox' = [outbox EXCEPT ![e].state = "PENDING",
                              ![e].rowid = Cardinality(Appended) + 1]
  /\ UNCHANGED <<hold, spent>>

\* Mutant of ClaimableByName: a finished event can be claimed again.
ClaimableByNameAgain(e) ==
  /\ outbox[e].state # "ABSENT"
  /\ outbox[e].state = "RETRY" => outbox[e].wait = 0
  /\ outbox[e].lease = 0

\* claim_outbox's conditions
ClaimableByName(e) ==
  /\ outbox[e].state \notin Finished \cup {"ABSENT"}
  /\ outbox[e].state = "RETRY" => outbox[e].wait = 0
  /\ outbox[e].lease = 0

Claim(w, e) ==
  LET row == outbox[e]
  IN  /\ ~hold[w].busy
      /\ ClaimableByName(e)
      /\ row.token < MaxToken
      /\ outbox' = [outbox EXCEPT ![e] =
           [row EXCEPT !.state = "LEASED", !.owner = WorkerId[w],
                       !.lease = LeaseTime, !.token = @ + 1, !.attempts = @ + 1]]
      /\ hold' = [hold EXCEPT ![w] =
           [busy |-> TRUE, event |-> e, token |-> row.token + 1]]

ClaimOutbox(w, e) == Claim(w, e) /\ e \in Named /\ UNCHANGED spent

\* Mutant of Ready: an event whose worker died is never taken over.
ReadyUnlessLeased(e) == outbox[e].state \in {"PENDING", "RETRY"} /\ outbox[e].wait = 0

Ready(e) ==
  \/ outbox[e].state \in {"PENDING", "RETRY"} /\ outbox[e].wait = 0
  \/ outbox[e].state = "LEASED" /\ outbox[e].lease = 0

\* Mutant of Unblocked: a waiting retry does not hold back later events.
UnblockedByRetry(e) ==
  \A f \in Appended :
    Aggregate[f] = Aggregate[e] /\ outbox[f].rowid < outbox[e].rowid
      => outbox[f].state \in Finished \cup {"RETRY"}

\* no earlier event of the same aggregate is unfinished
Unblocked(e) ==
  \A f \in Appended :
    Aggregate[f] = Aggregate[e] /\ outbox[f].rowid < outbox[e].rowid
      => outbox[f].state \in Finished

\* what claim_next_outbox selects: the oldest ready event that is not blocked
NextInLine(e) ==
  /\ Ready(e) /\ Unblocked(e)
  /\ \A f \in Appended :
       Ready(f) /\ Unblocked(f) => outbox[e].rowid <= outbox[f].rowid

ClaimNextOutbox(w, e) == NextInLine(e) /\ Claim(w, e) /\ UNCHANGED spent

\* Mutant of LeaseHeld: the fencing token is not compared.
LeaseHeldByName(w) ==
  LET row == outbox[hold[w].event]
  IN  row.state = "LEASED" /\ row.owner = WorkerId[w] /\ row.lease > 0

\* the test both checkpoint_outbox and fail_outbox start with
LeaseHeld(w) ==
  LET row == outbox[hold[w].event]
  IN  /\ row.state = "LEASED"
      /\ row.owner = WorkerId[w]
      /\ row.token = hold[w].token
      /\ row.lease > 0

Release(w) == hold' = [hold EXCEPT ![w] = NoHold]

\* checkpoint_outbox(completed); an unfinished event keeps lease and owner
CheckpointOutbox(w, completed) ==
  LET e == hold[w].event
      row == outbox[e]
  IN  /\ hold[w].busy
      /\ LeaseHeld(w)
      /\ outbox' = IF completed
                     THEN [outbox EXCEPT ![e] =
                            [row EXCEPT !.state = "COMPLETED", !.owner = NoWorker,
                                        !.lease = 0]]
                     ELSE outbox
      /\ Release(w)
      /\ UNCHANGED spent

\* Mutant of FailedRow: a state OutboxState does not have is written.
FailedRowUnknownState(row) ==
  [row EXCEPT !.state = "FAILED", !.owner = NoWorker, !.lease = 0]

FailedRow(row) ==
  LET dead == row.attempts >= MaxAttempts
  IN  [row EXCEPT !.state = IF dead THEN "DEAD" ELSE "RETRY",
                  !.wait = IF dead THEN 0 ELSE RetryDelay(row.attempts),
                  !.owner = NoWorker, !.lease = 0]

FailOutbox(w) ==
  LET e == hold[w].event
  IN  /\ hold[w].busy
      /\ LeaseHeld(w)
      /\ outbox' = [outbox EXCEPT ![e] = FailedRow(outbox[e])]
      /\ Release(w)
      /\ UNCHANGED spent

\* a worker that does not report its failure: the lease just runs out
Abandon(w) ==
  /\ hold[w].busy
  /\ Release(w)
  /\ UNCHANGED <<outbox, spent>>

\* checkpoint_outbox and fail_outbox raise: the event went to somebody else
Stale(w) ==
  /\ hold[w].busy
  /\ ~LeaseHeld(w)
  /\ Release(w)
  /\ UNCHANGED <<outbox, spent>>

Crash(w) ==
  /\ hold[w].busy
  /\ spent.deaths < MaxCrashes
  /\ spent' = [spent EXCEPT !.deaths = @ + 1]
  /\ Release(w)
  /\ UNCHANGED outbox

Timed == \E e \in Events : outbox[e].lease > 0 \/ outbox[e].wait > 0

\* a worker is busy under a lease that still runs
Working == \E w \in Workers : hold[w].busy /\ LeaseHeld(w)

Tick ==
  /\ Timed
  /\ Working => spent.late < MaxLate
  /\ spent' = [spent EXCEPT !.late = IF Working THEN @ + 1 ELSE @]
  /\ outbox' = [e \in Events |->
       [outbox[e] EXCEPT !.lease = IF @ > 0 THEN @ - 1 ELSE 0,
                         !.wait = IF @ > 0 THEN @ - 1 ELSE 0]]
  /\ UNCHANGED hold

-----------------------------------------------------------------------------
Poll(w) == \E e \in Events : ClaimNextOutbox(w, e)

\* the event is not done yet and is left to be claimed again
Postpone(w) == hold[w].token <= MaxPartial /\ CheckpointOutbox(w, FALSE)

Report(w) == CheckpointOutbox(w, TRUE) \/ FailOutbox(w) \/ Stale(w)

WorkerStep(w) ==
  \/ Poll(w)
  \/ \E e \in Events : ClaimOutbox(w, e)
  \/ Postpone(w)
  \/ Report(w)
  \/ Crash(w)

Append == \E e \in Events : AppendOutbox(e)

Next ==
  \/ Append
  \/ \E w \in Workers : WorkerStep(w)
  \/ Tick

Spec == Init /\ [][Next]_outboxVars

(* Workers poll in a loop and a worker that lives reports; the clock         *)
(* advances while anything waits.  A lease is a minute and the work a        *)
(* handful of local transactions, so only finitely often (MaxLate) does the  *)
(* clock overtake a worker.                                                  *)
FairSpec ==
  /\ Spec
  /\ \A w \in Workers : WF_outboxVars(Poll(w)) /\ WF_outboxVars(Report(w))
  /\ WF_outboxVars(Tick)

-----------------------------------------------------------------------------
(* Properties *)

\* The rows and the workers' memory keep their declared shape.
TypeOK ==
  /\ outbox \in [Events -> Row]
  /\ hold \in [Workers -> Hold]
  /\ spent \in [deaths : Nat, late : Nat]

\* At most one process passes the lease test for an event, even when two were
\* started with one worker_id and the first kept working past its lease.
OneHolder ==
  \A v, w \in Workers :
    v # w /\ hold[v].busy /\ hold[w].busy /\ hold[v].event = hold[w].event
      => ~(LeaseHeld(v) /\ LeaseHeld(w))

\* An event of an aggregate is only ever started once every earlier event of
\* that aggregate is finished: retries, reclaims and deaths of workers do not
\* let a later change overtake an earlier one (claim_next_outbox's subquery).
InOrder ==
  \A e, f \in Appended :
    Aggregate[e] = Aggregate[f] /\ outbox[e].rowid < outbox[f].rowid
      /\ f \notin Named /\ outbox[f].token > 0
        => outbox[e].state \in Finished

\* A finished event is never written again, by a late worker or a reclaim.
FinishedForever ==
  [][\A e \in Events : outbox[e].state \in Finished => outbox'[e] = outbox[e]]_outboxVars

\* A poisoned event does not hold its aggregate for ever: every event that is
\* appended gets finished as long as workers keep reporting (fail_outbox's
\* max_attempts, claim_next_outbox's reclaim of expired leases).
EventsFinish ==
  \A e \in Events : outbox[e].state = "PENDING" ~> outbox[e].state \in Finished

=============================================================================
