----------------------------- MODULE Execution -----------------------------
(***************************************************************************)
(* The DEMO execution ledger (packages/store_core/execution.py) driven by  *)
(* several workers against the durable synthetic provider                  *)
(* (packages/store_core/synthetic_provider.py).                            *)
(*                                                                         *)
(* Every control-plane method is one database transaction, hence one       *)
(* action.  A worker runs the methods of one attempt in sequence and keeps *)
(* in memory only what the previous call returned; the provider call sits  *)
(* between two transactions, so other workers, the operator and the clock  *)
(* move between any two of a worker's steps, and a worker may die there.   *)
(*                                                                         *)
(* Time is kept as time left: `lease` is lease_until - now and `wait` is   *)
(* next_check_at - now, both 0 once due or when the column is NULL, which  *)
(* is all that the code's comparisons with now can tell apart.             *)
(***************************************************************************)
EXTENDS Integers

CONSTANTS
  Attempts,     \* logical operations, one attempt row per operation_key
  Workers,      \* worker processes
  WorkerId,     \* worker_id each process was started with; two may share one
  NoWorker,     \* lease_owner IS NULL
  LeaseTime,    \* lease_seconds, in clock ticks
  BackoffBase,  \* 30 s, in clock ticks
  BackoffCap,   \* 300 s, in clock ticks
  ObsLimit,     \* prior observations after which UNKNOWN goes to a person (4)
  MaxVersion,   \* bound: claims stop once a row has this version
  MaxChanges,   \* bound: operator and approval changes
  MaxCrashes,   \* bound: worker deaths
  MaxModes,     \* bound: reconfigurations of the provider object
  Modes         \* provider modes the environment may switch between

AllModes == {"success", "refusal", "timeout_before", "timeout_after",
             "delayed_lookup", "lookup_unavailable", "stale_response"}

ASSUME ConstantsAssumption ==
  /\ DOMAIN WorkerId = Workers
  /\ \A w \in Workers : WorkerId[w] # NoWorker
  /\ Attempts # {}
  /\ LeaseTime \in Nat \ {0}
  /\ BackoffBase \in Nat
  /\ BackoffCap \in Nat
  /\ ObsLimit \in Nat
  /\ MaxVersion \in Nat
  /\ MaxChanges \in Nat
  /\ MaxCrashes \in Nat
  /\ MaxModes \in Nat
  /\ Modes \subseteq AllModes

VARIABLES
  attempt,    \* execution_attempts rows; obs and sends count their
              \* observations and attempt.dispatching outbox events
  ledger,     \* synthetic_effects rows: the provider's own database
  provider,   \* mode and authoritative_absence of the provider object
  stopped,    \* demo_stop_active for the attempts' scope
  control,    \* demo control of each attempt's command
  authority,  \* whether prepare_execution accepts each attempt's command
  manifest,   \* the adapter manifest still matches the attempts' adapter
  worker,     \* what each worker process holds in memory
  left        \* environment changes and crashes still allowed (model bounds)

gateVars == <<stopped, control, authority, manifest>>
vars == <<attempt, ledger, provider, stopped, control, authority, manifest,
          worker, left>>

Ids == {WorkerId[w] : w \in Workers}

State == {"ABSENT", "PREPARED", "DISPATCHING", "UNKNOWN", "RECONCILING",
          "VERIFIED_SUCCESS", "VERIFIED_FAILURE", "MANUAL_REVIEW"}
Terminal == {"VERIFIED_SUCCESS", "VERIFIED_FAILURE", "MANUAL_REVIEW"}
Sent == {"DISPATCHING", "UNKNOWN", "RECONCILING"}

Attempt ==
  [state : State, version : Nat, owner : Ids \cup {NoWorker}, lease : Nat,
   token : Nat, wait : Nat, obs : Nat, sends : Nat]

Kind == {"FOUND_SUCCESS", "FOUND_FAILURE"}
Effect == [kind : Kind \cup {"NONE"}, hidden : Nat]
Answer == Kind \cup {"ABSENT", "ABSENT_AUTHORITATIVE", "INCONCLUSIVE"}
Control == {"MISSING", "RUN", "STOP", "CHANGED"}
Authority == {"executable", "suspended", "ended"}
Phase == {"idle", "loaded", "leased", "executing", "looking", "answered"}

Job ==
  [pc : Phase, att : Attempts, version : Nat, token : Nat, answer : Answer]

NewAttempt == [state |-> "ABSENT", version |-> 0, owner |-> NoWorker,
               lease |-> 0, token |-> 0, wait |-> 0, obs |-> 0,
               sends |-> 0]
IdleJob == [pc |-> "idle", att |-> CHOOSE a \in Attempts : TRUE, version |-> 0,
            token |-> 0, answer |-> "INCONCLUSIVE"]
NoEffect == [kind |-> "NONE", hidden |-> 0]

Least(m, n) == IF m <= n THEN m ELSE n

\* min(300, 30 * 2 ** min(prior_count, 4))
Backoff(n) == Least(BackoffCap, BackoffBase * <<1, 2, 4, 8, 16>>[Least(n, 4) + 1])

Init ==
  /\ attempt = [a \in Attempts |-> NewAttempt]
  /\ ledger = [a \in Attempts |-> NoEffect]
  /\ provider \in [mode : Modes, authoritative : BOOLEAN]
  /\ stopped = FALSE
  /\ control = [a \in Attempts |-> "MISSING"]
  /\ authority = [a \in Attempts |-> "executable"]
  /\ manifest = TRUE
  /\ worker = [w \in Workers |-> IdleJob]
  /\ left = [changes |-> MaxChanges, crashes |-> MaxCrashes, modes |-> MaxModes]

-----------------------------------------------------------------------------
(* Guards shared by the methods *)

\* _gate: the stop controls, the command's demo control, and prepare_execution
GateOpen(a) ==
  /\ ~stopped
  /\ control[a] = "RUN"
  /\ authority[a] = "executable"

\* Mutant of Claimable: a finished attempt can be claimed again.
ClaimableWhenDone(a, v) ==
  /\ attempt[a].state # "ABSENT"
  /\ attempt[a].version = v
  /\ attempt[a].lease = 0
  /\ attempt[a].wait = 0

\* Mutant of Claimable: a row somebody left mid-way is not taken over.
ClaimableUnlessInterrupted(a, v) ==
  /\ attempt[a].state \in {"PREPARED", "UNKNOWN"}
  /\ attempt[a].version = v
  /\ attempt[a].lease = 0
  /\ attempt[a].wait = 0

\* claim_attempt's conditions, for a caller that expects version v
Claimable(a, v) ==
  /\ attempt[a].state # "ABSENT"
  /\ attempt[a].version = v
  /\ attempt[a].state \notin Terminal
  /\ attempt[a].lease = 0
  /\ attempt[a].wait = 0

\* Mutant of Leased: the fencing token is not compared, only the owner.
LeasedByName(w) ==
  /\ attempt[worker[w].att].owner = WorkerId[w]
  /\ attempt[worker[w].att].lease > 0

\* _leased: the caller owns the row, holds its current token and is in time
Leased(w) ==
  LET row == attempt[worker[w].att]
  IN  /\ row.owner = WorkerId[w]
      /\ row.token = worker[w].token
      /\ row.lease > 0

-----------------------------------------------------------------------------
(* The methods of one worker, in the order a worker calls them *)

\* prepare_attempt: re-check everything, then create the row or return it
PrepareAttempt(w, a) ==
  /\ worker[w].pc = "idle"
  /\ manifest /\ GateOpen(a)
  /\ LET row == IF attempt[a].state = "ABSENT"
                  THEN [NewAttempt EXCEPT !.state = "PREPARED", !.version = 1]
                  ELSE attempt[a]
     IN  /\ attempt' = [attempt EXCEPT ![a] = row]
         /\ worker' = [worker EXCEPT ![w] =
              [IdleJob EXCEPT !.pc = "loaded", !.att = a, !.version = row.version]]
  /\ UNCHANGED <<ledger, provider, gateVars, left>>

\* get_attempt: an operator or a restarted worker reads the row, no gate
GetAttempt(w, a) ==
  /\ worker[w].pc = "idle"
  /\ attempt[a].state # "ABSENT"
  /\ worker' = [worker EXCEPT ![w] =
       [IdleJob EXCEPT !.pc = "loaded", !.att = a, !.version = attempt[a].version]]
  /\ UNCHANGED <<attempt, ledger, provider, gateVars, left>>

\* claim_attempt: new token and lease; a row somebody left mid-way is UNKNOWN
ClaimAttempt(w) ==
  LET a == worker[w].att
      row == attempt[a]
  IN  /\ worker[w].pc = "loaded"
      /\ Claimable(a, worker[w].version)
      /\ row.version < MaxVersion
      /\ attempt' = [attempt EXCEPT ![a] =
           [row EXCEPT !.state = IF @ \in {"DISPATCHING", "RECONCILING"}
                                   THEN "UNKNOWN" ELSE @,
                       !.version = @ + 1, !.token = @ + 1,
                       !.owner = WorkerId[w], !.lease = LeaseTime]]
      /\ worker' = [worker EXCEPT ![w].pc = "leased", ![w].token = row.token + 1]
      /\ UNCHANGED <<ledger, provider, gateVars, left>>

\* Mutant of DispatchAllowed: the gate passed at prepare_attempt is trusted.
DispatchOnPreparation(a) == manifest

\* begin_dispatch: the last gate before the provider is called
DispatchAllowed(a) == GateOpen(a) /\ manifest

BeginDispatch(w) ==
  LET a == worker[w].att
      row == attempt[a]
  IN  /\ worker[w].pc = "leased"
      /\ Leased(w)
      /\ row.state = "PREPARED"
      /\ DispatchAllowed(a)
      /\ attempt' = [attempt EXCEPT ![a] =
           [row EXCEPT !.state = "DISPATCHING", !.version = @ + 1, !.sends = @ + 1]]
      /\ worker' = [worker EXCEPT ![w].pc = "executing"]
      /\ UNCHANGED <<ledger, provider, gateVars, left>>

BeginReconciliation(w) ==
  LET a == worker[w].att
      row == attempt[a]
  IN  /\ worker[w].pc = "leased"
      /\ Leased(w)
      /\ row.state = "UNKNOWN"
      /\ attempt' = [attempt EXCEPT ![a] =
           [row EXCEPT !.state = "RECONCILING", !.version = @ + 1]]
      /\ worker' = [worker EXCEPT ![w].pc = "looking"]
      /\ UNCHANGED <<ledger, provider, gateVars, left>>

-----------------------------------------------------------------------------
(* The provider: one immediate transaction in its own database per call *)

Hides == provider.mode \in {"timeout_after", "delayed_lookup", "lookup_unavailable"}

\* Mutant of ExecutedRow: a repeated call overwrites the earlier effect.
ExecutedRowReplaced(a) ==
  IF provider.mode = "timeout_before" THEN ledger[a]
  ELSE [kind |-> IF provider.mode = "refusal" THEN "FOUND_FAILURE" ELSE "FOUND_SUCCESS",
        hidden |-> 0]

\* the row execute leaves behind; NoEffect only when it timed out beforehand
ExecutedRow(a) ==
  IF ledger[a].kind # "NONE" THEN ledger[a]
  ELSE IF provider.mode = "timeout_before" THEN NoEffect
  ELSE [kind |-> IF provider.mode = "refusal" THEN "FOUND_FAILURE" ELSE "FOUND_SUCCESS",
        hidden |-> IF provider.mode = "delayed_lookup" THEN 1 ELSE 0]

\* Mutant of ExecuteAnswer: a timeout is reported as a failure.
ExecuteAnswerTimeoutFails(row) ==
  IF row.kind = "NONE" \/ Hides THEN "FOUND_FAILURE" ELSE row.kind

\* what dispatch_demo makes of the response: TimeoutError becomes INCONCLUSIVE
ExecuteAnswer(row) ==
  IF row.kind = "NONE" \/ Hides \/ provider.mode = "stale_response"
    THEN "INCONCLUSIVE" ELSE row.kind

Execute(w) ==
  LET a == worker[w].att
      row == ExecutedRow(a)
  IN  /\ worker[w].pc = "executing"
      /\ ledger' = [ledger EXCEPT ![a] = row]
      /\ worker' = [worker EXCEPT ![w].pc = "answered",
                                  ![w].answer = ExecuteAnswer(row)]
      /\ UNCHANGED <<attempt, provider, gateVars, left>>

LookupUnavailable == provider.mode \in {"lookup_unavailable", "stale_response"}

LookupAnswer(row) ==
  CASE LookupUnavailable -> "INCONCLUSIVE"
    [] ~LookupUnavailable /\ row.kind = "NONE" ->
         IF provider.authoritative THEN "ABSENT_AUTHORITATIVE" ELSE "ABSENT"
    [] ~LookupUnavailable /\ row.kind # "NONE" ->
         IF row.hidden > 0 THEN "INCONCLUSIVE" ELSE row.kind

\* Mutant of Lookup: the count of hidden lookups runs below zero.
LookupUncounted(w) ==
  LET a == worker[w].att
      row == ledger[a]
  IN  /\ worker[w].pc = "looking"
      /\ ledger' = [ledger EXCEPT ![a].hidden = row.hidden - 1]
      /\ worker' = [worker EXCEPT ![w].pc = "answered",
                                  ![w].answer = LookupAnswer(row)]
      /\ UNCHANGED <<attempt, provider, gateVars, left>>

Lookup(w) ==
  LET a == worker[w].att
      row == ledger[a]
  IN  /\ worker[w].pc = "looking"
      /\ ledger' = [ledger EXCEPT ![a].hidden =
           IF ~LookupUnavailable /\ row.kind # "NONE" /\ row.hidden > 0
             THEN @ - 1 ELSE @]
      /\ worker' = [worker EXCEPT ![w].pc = "answered",
                                  ![w].answer = LookupAnswer(row)]
      /\ UNCHANGED <<attempt, provider, gateVars, left>>

-----------------------------------------------------------------------------
(* record_observation *)

\* Mutant of AnswerState: any absence, authoritative or not, allows a resend.
AnswerStateAnyAbsence(a, answer) ==
  CASE answer = "FOUND_SUCCESS" -> "VERIFIED_SUCCESS"
    [] answer = "FOUND_FAILURE" -> "VERIFIED_FAILURE"
    [] answer = "INCONCLUSIVE" -> "UNKNOWN"
    [] answer \in {"ABSENT", "ABSENT_AUTHORITATIVE"} ->
         IF GateOpen(a) THEN "PREPARED" ELSE "MANUAL_REVIEW"

\* the state an answer leads to, before the limit on inconclusive answers
AnswerState(a, answer) ==
  CASE answer = "FOUND_SUCCESS" -> "VERIFIED_SUCCESS"
    [] answer = "FOUND_FAILURE" -> "VERIFIED_FAILURE"
    [] answer = "INCONCLUSIVE" -> "UNKNOWN"
    [] answer = "ABSENT" -> "MANUAL_REVIEW"
    [] answer = "ABSENT_AUTHORITATIVE" ->
         IF GateOpen(a) THEN "PREPARED" ELSE "MANUAL_REVIEW"

\* four earlier observations make the fifth inconclusive answer the last
ObservedState(a, answer) ==
  IF AnswerState(a, answer) = "UNKNOWN" /\ attempt[a].obs >= ObsLimit
    THEN "MANUAL_REVIEW" ELSE AnswerState(a, answer)

Recordable(w) ==
  LET row == attempt[worker[w].att]
  IN  /\ Leased(w)
      /\ row.state \in {"DISPATCHING", "RECONCILING"}
      /\ worker[w].answer \in {"ABSENT", "ABSENT_AUTHORITATIVE"}
           => row.state = "RECONCILING"

RecordObservation(w) ==
  LET a == worker[w].att
      row == attempt[a]
      state == ObservedState(a, worker[w].answer)
  IN  /\ worker[w].pc = "answered"
      /\ Recordable(w)
      /\ attempt' = [attempt EXCEPT ![a] =
           [row EXCEPT !.state = state, !.version = @ + 1,
                       !.wait = IF state = "UNKNOWN" THEN Backoff(row.obs) ELSE 0,
                       !.owner = NoWorker, !.lease = 0, !.obs = @ + 1]]
      /\ worker' = [worker EXCEPT ![w] = IdleJob]
      /\ UNCHANGED <<ledger, provider, gateVars, left>>

\* a method raised: the worker drops what it was doing
Raise(w) ==
  /\ \/ worker[w].pc = "loaded" /\ ~Claimable(worker[w].att, worker[w].version)
     \/ worker[w].pc = "leased" /\ ~( /\ Leased(w)
                                      /\ \/ attempt[worker[w].att].state = "UNKNOWN"
                                         \/ /\ attempt[worker[w].att].state = "PREPARED"
                                            /\ DispatchAllowed(worker[w].att))
     \/ worker[w].pc = "answered" /\ ~Recordable(w)
  /\ worker' = [worker EXCEPT ![w] = IdleJob]
  /\ UNCHANGED <<attempt, ledger, provider, gateVars, left>>

-----------------------------------------------------------------------------
(* Deaths, the operator, the approval and the clock *)

\* the process dies between two calls and comes back with no memory
Crash(w) ==
  /\ worker[w].pc # "idle"
  /\ left.crashes > 0
  /\ worker' = [worker EXCEPT ![w] = IdleJob]
  /\ left' = [left EXCEPT !.crashes = @ - 1]
  /\ UNCHANGED <<attempt, ledger, provider, gateVars>>

SpendChange == left.changes > 0 /\ left' = [left EXCEPT !.changes = @ - 1]

SetDemoStop ==
  /\ SpendChange
  /\ stopped' = ~stopped
  /\ UNCHANGED <<attempt, ledger, provider, control, authority, manifest, worker>>

SetDemoControl(a, c) ==
  /\ SpendChange
  /\ c # control[a]
  /\ control' = [control EXCEPT ![a] = c]
  /\ UNCHANGED <<attempt, ledger, provider, stopped, authority, manifest, worker>>

\* the approval expires or is superseded; the approver is revoked or restored
ChangeAuthority(a, v) ==
  /\ SpendChange
  /\ authority[a] # "ended"
  /\ v # authority[a]
  /\ authority' = [authority EXCEPT ![a] = v]
  /\ UNCHANGED <<attempt, ledger, provider, stopped, control, manifest, worker>>

RegisterAdapterManifest ==
  /\ SpendChange
  /\ manifest' = ~manifest
  /\ UNCHANGED <<attempt, ledger, provider, stopped, control, authority, worker>>

ConfigureProvider(m, authoritative) ==
  /\ left.modes > 0
  /\ left' = [left EXCEPT !.modes = @ - 1]
  /\ provider' = [mode |-> m, authoritative |-> authoritative]
  /\ UNCHANGED <<attempt, ledger, gateVars, worker>>

Less(n) == IF n > 0 THEN n - 1 ELSE 0

Timed == \E a \in Attempts : attempt[a].lease > 0 \/ attempt[a].wait > 0

Tick ==
  /\ Timed
  /\ attempt' = [a \in Attempts |->
       [attempt[a] EXCEPT !.lease = Less(@), !.wait = Less(@)]]
  /\ UNCHANGED <<ledger, provider, gateVars, worker, left>>

-----------------------------------------------------------------------------
\* from the row a worker has read to the observation it records
Drive(w) ==
  \/ ClaimAttempt(w)
  \/ BeginDispatch(w)
  \/ Execute(w)
  \/ BeginReconciliation(w)
  \/ Lookup(w)
  \/ RecordObservation(w)
  \/ Raise(w)

WorkerStep(w) ==
  \/ \E a \in Attempts : PrepareAttempt(w, a) \/ GetAttempt(w, a)
  \/ Drive(w)

Environment ==
  \/ SetDemoStop
  \/ \E a \in Attempts : \E c \in Control \ {"MISSING"} : SetDemoControl(a, c)
  \/ \E a \in Attempts : \E v \in Authority : ChangeAuthority(a, v)
  \/ RegisterAdapterManifest
  \/ \E m \in Modes : \E b \in BOOLEAN : ConfigureProvider(m, b)

Next ==
  \/ \E w \in Workers : WorkerStep(w) \/ Crash(w)
  \/ Environment
  \/ Tick

Spec == Init /\ [][Next]_vars

(* A worker that holds a live lease gets its next call in before the clock  *)
(* moves: LEASE_SECONDS is a minute and each call is a local transaction.   *)
(* Rows that were sent are picked up by whoever polls; rows still PREPARED  *)
(* are only reached through the gate, as the tool worker reaches them.      *)
Holding(w) == worker[w].pc \notin {"idle", "loaded"} /\ Leased(w)

PromptStep(w) ==
  \/ \E a \in Attempts : \/ PrepareAttempt(w, a)
                         \/ attempt[a].state \in Sent /\ GetAttempt(w, a)
  \/ Drive(w)

PromptTick == Tick /\ \A w \in Workers : ~Holding(w)

PromptNext ==
  \/ \E w \in Workers : PromptStep(w) \/ Crash(w)
  \/ Environment
  \/ PromptTick

-----------------------------------------------------------------------------
(* Properties *)

\* Every variable stays in its declared shape (rows as execution_attempts and
\* synthetic_effects store them).
TypeOK ==
  /\ attempt \in [Attempts -> Attempt]
  /\ ledger \in [Attempts -> Effect]
  /\ provider \in [mode : AllModes, authoritative : BOOLEAN]
  /\ stopped \in BOOLEAN
  /\ control \in [Attempts -> Control]
  /\ authority \in [Attempts -> Authority]
  /\ manifest \in BOOLEAN
  /\ worker \in [Workers -> Job]
  /\ left \in [changes : Nat, crashes : Nat, modes : Nat]

\* A verified verdict is the outcome the provider's own ledger holds, whatever
\* timeouts, stale workers and restarts lie between the call and the record
\* (record_observation against DurableSyntheticProvider).
VerdictIsTrue ==
  \A a \in Attempts :
    /\ attempt[a].state = "VERIFIED_SUCCESS" => ledger[a].kind = "FOUND_SUCCESS"
    /\ attempt[a].state = "VERIFIED_FAILURE" => ledger[a].kind = "FOUND_FAILURE"

\* Two processes never pass _leased for the same attempt, not even when they
\* were started with the same worker_id: the fencing token tells them apart.
PastClaim(w) == worker[w].pc \in {"leased", "executing", "looking", "answered"}

LeaseExclusive ==
  \A v, w \in Workers :
    v # w /\ PastClaim(v) /\ PastClaim(w) /\ worker[v].att = worker[w].att
      => ~(Leased(v) /\ Leased(w))

\* No step touches an attempt that reached a verdict: late workers, reclaims
\* and repeated answers all bounce (claim_attempt and _leased refuse).
TerminalForever ==
  [][\A a \in Attempts : attempt[a].state \in Terminal => attempt'[a] = attempt[a]]_vars

\* After a stop, a changed control, a lapsed approval or a foreign manifest,
\* only calls already under way may still have an effect; no new call starts.
InFlight(a) == \E w \in Workers : worker[w].pc = "executing" /\ worker[w].att = a

ClosedGateDrains ==
  [][\A a \in Attempts : ~GateOpen(a) /\ ~InFlight(a)
       => /\ ledger'[a].kind = ledger[a].kind
          /\ ~InFlight(a)']_vars

\* An attempt whose dispatch was once committed becomes dispatchable again
\* only when the current lease holder was told, authoritatively, that the
\* provider has no effect, and the gate is open (EX-03, EX-06).
NoBlindResend ==
  [][\A a \in Attempts :
       attempt[a].state \in Sent /\ attempt'[a].state = "PREPARED"
         => /\ GateOpen(a)
            /\ \E w \in Workers : /\ worker[w].att = a /\ Leased(w)
                                  /\ worker[w].answer = "ABSENT_AUTHORITATIVE"]_vars

\* The ledger, its workers and the provider together implement the abstract
\* promise: authorised before touched, touched at most once, true verdicts.
Verdict(state) ==
  CASE state = "VERIFIED_SUCCESS" -> "FOUND_SUCCESS"
    [] state = "VERIFIED_FAILURE" -> "FOUND_FAILURE"
    [] state = "MANUAL_REVIEW" -> "MANUAL"
    [] OTHER -> "OPEN"

Promise == INSTANCE ExternalEffect WITH
  Ops <- Attempts,
  authorised <- {a \in Attempts : attempt[a].sends > 0},
  effect <- [a \in Attempts |-> ledger[a].kind],
  verdict <- [a \in Attempts |-> Verdict(attempt[a].state)]

ImplementsExternalEffect == Promise!Spec

\* However a worker was interrupted, an attempt that was sent does not stay
\* undecided: it is verified, handed to a person, or found never to have
\* happened (claim_attempt, reconcile_attempt and the observation limit).
SentIsSettled ==
  \A a \in Attempts :
    attempt[a].state \in Sent ~> attempt[a].state \in Terminal \cup {"PREPARED"}

=============================================================================
