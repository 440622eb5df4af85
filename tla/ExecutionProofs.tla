-------------------------- MODULE ExecutionProofs --------------------------
(***************************************************************************)
(* TLAPS proofs about Execution, for every set of attempts and workers,    *)
(* every assignment of worker ids and every value of the bounds; and about *)
(* ToolWorker, which drives it, with the outbox of OutboxProofs beneath.   *)
(***************************************************************************)
EXTENDS ToolWorker, TLAPS

\* Backoff is a natural number for every observation count.
LEMMA BackoffType == ASSUME NEW n \in Nat PROVE Backoff(n) \in Nat
<1> DEFINE k == Least(n, 4)
<1>1. k \in 0..4
  BY DEF Least
<1>2. <<1, 2, 4, 8, 16>>[k + 1] \in Nat
  <2>1. k = 0 \/ k = 1 \/ k = 2 \/ k = 3 \/ k = 4
    BY <1>1
  <2> HIDE DEF k
  <2> QED BY <2>1
<1> DEFINE m == <<1, 2, 4, 8, 16>>[k + 1]
<1>3. m \in Nat
  BY <1>2
<1>4. Backoff(n) = Least(BackoffCap, BackoffBase * m)
  BY DEF Backoff
<1> HIDE DEF m, k
<1>5. BackoffBase * m \in Nat
  BY <1>3, ConstantsAssumption
<1> QED BY <1>4, <1>5, ConstantsAssumption DEF Least

\* An idle worker's record is a Job.
LEMMA IdleJobType == IdleJob \in Job
<1>1. (CHOOSE a \in Attempts : TRUE) \in Attempts
  BY ConstantsAssumption
<1> QED BY <1>1 DEF IdleJob, Job, Phase, Answer, Kind

\* The states record_observation can choose are attempt states, and UNKNOWN,
\* PREPARED and the verdicts are reached only from the answers that warrant
\* them.
LEMMA ObservedStateFacts ==
  ASSUME NEW a \in Attempts, NEW answer \in Answer
  PROVE  /\ ObservedState(a, answer) \in {"VERIFIED_SUCCESS", "VERIFIED_FAILURE",
                                          "UNKNOWN", "PREPARED", "MANUAL_REVIEW"}
         /\ ObservedState(a, answer) = "VERIFIED_SUCCESS" => answer = "FOUND_SUCCESS"
         /\ ObservedState(a, answer) = "VERIFIED_FAILURE" => answer = "FOUND_FAILURE"
BY DEF ObservedState, AnswerState, Answer, Kind

\* What the two provider calls return and leave behind.
LEMMA ProviderFacts ==
  ASSUME TypeOK, NEW a \in Attempts
  PROVE  /\ ExecutedRow(a) \in Effect
         /\ ledger[a].kind # "NONE" => ExecutedRow(a) = ledger[a]
         /\ ExecuteAnswer(ExecutedRow(a)) \in Answer
         /\ ExecuteAnswer(ExecutedRow(a)) \in Kind
              => ExecutedRow(a).kind = ExecuteAnswer(ExecutedRow(a))
         /\ LookupAnswer(ledger[a]) \in Answer
         /\ LookupAnswer(ledger[a]) \in Kind => ledger[a].kind = LookupAnswer(ledger[a])
<1>1. ledger[a] \in Effect
  BY DEF TypeOK
<1>2. /\ ExecutedRow(a) \in Effect
      /\ ledger[a].kind # "NONE" => ExecutedRow(a) = ledger[a]
  BY <1>1 DEF ExecutedRow, Effect, NoEffect, Kind
<1>3. /\ ExecuteAnswer(ExecutedRow(a)) \in Answer
      /\ ExecuteAnswer(ExecutedRow(a)) \in Kind
              => ExecutedRow(a).kind = ExecuteAnswer(ExecutedRow(a))
  BY <1>2 DEF ExecuteAnswer, Effect, Kind, Answer
<1>4. /\ LookupAnswer(ledger[a]) \in Answer
      /\ LookupAnswer(ledger[a]) \in Kind => ledger[a].kind = LookupAnswer(ledger[a])
  BY <1>1 DEF LookupAnswer, LookupUnavailable, Effect, Kind, Answer
<1> QED BY <1>2, <1>3, <1>4

\* A row stays a row under the update of each method.
LEMMA RowAdvanced ==
  ASSUME NEW r \in Attempt, NEW s \in State, NEW v \in Nat
  PROVE  [r EXCEPT !.state = s, !.version = v] \in Attempt
BY DEF Attempt

LEMMA RowSent ==
  ASSUME NEW r \in Attempt, NEW s \in State, NEW v \in Nat, NEW k \in Nat
  PROVE  [r EXCEPT !.state = s, !.version = v, !.sends = k] \in Attempt
BY DEF Attempt

LEMMA RowClaimed ==
  ASSUME NEW r \in Attempt, NEW s \in State, NEW v \in Nat, NEW t \in Nat,
         NEW o \in Ids, NEW l \in Nat
  PROVE  [r EXCEPT !.state = s, !.version = v, !.token = t, !.owner = o,
                   !.lease = l] \in Attempt
BY DEF Attempt

LEMMA RowObserved ==
  ASSUME NEW r \in Attempt, NEW s \in State, NEW v \in Nat, NEW n \in Nat,
         NEW k \in Nat
  PROVE  [r EXCEPT !.state = s, !.version = v, !.wait = n, !.owner = NoWorker,
                   !.lease = 0, !.obs = k] \in Attempt
BY DEF Attempt

LEMMA RowTicked ==
  ASSUME NEW r \in Attempt, NEW l \in Nat, NEW n \in Nat
  PROVE  [r EXCEPT !.lease = l, !.wait = n] \in Attempt
BY DEF Attempt

-----------------------------------------------------------------------------
(* Type correctness *)

LEMMA InitType == Init => TypeOK
<1> SUFFICES ASSUME Init PROVE TypeOK
  OBVIOUS
<1>1. worker \in [Workers -> Job]
  BY IdleJobType DEF Init
<1>2. attempt \in [Attempts -> Attempt] /\ ledger \in [Attempts -> Effect]
  BY DEF Init, NewAttempt, NoEffect, Attempt, Effect, State
<1>3. left \in [changes : Nat, crashes : Nat, modes : Nat]
  BY ConstantsAssumption DEF Init
<1>4. provider \in [mode : AllModes, authoritative : BOOLEAN]
  BY ConstantsAssumption DEF Init
<1> QED
  BY <1>1, <1>2, <1>3, <1>4 DEF Init, TypeOK, Control, Authority

LEMMA WorkerStepType ==
  ASSUME TypeOK, NEW w \in Workers, WorkerStep(w)
  PROVE  TypeOK'
<1> DEFINE a == worker[w].att
<1>0. /\ a \in Attempts /\ attempt[a] \in Attempt /\ worker[w] \in Job
      /\ ledger[a] \in Effect /\ WorkerId[w] \in Ids /\ LeaseTime \in Nat
  BY ConstantsAssumption DEF TypeOK, Job, Ids
<1>a. /\ attempt[a].version + 1 \in Nat /\ attempt[a].token + 1 \in Nat
      /\ attempt[a].obs + 1 \in Nat /\ attempt[a].sends + 1 \in Nat
      /\ attempt[a].state \in State /\ NoWorker \in Ids \cup {NoWorker}
  BY <1>0 DEF Attempt
<1>1. ASSUME NEW b \in Attempts, PrepareAttempt(w, b) PROVE TypeOK'
  <2> DEFINE row == IF attempt[b].state = "ABSENT"
                      THEN [NewAttempt EXCEPT !.state = "PREPARED", !.version = 1]
                      ELSE attempt[b]
  <2>1. row \in Attempt
    BY DEF TypeOK, NewAttempt, Attempt, State
  <2>2. [IdleJob EXCEPT !.pc = "loaded", !.att = b, !.version = row.version] \in Job
    BY <2>1, IdleJobType DEF Job, Phase, Attempt
  <2>3. /\ attempt' = [attempt EXCEPT ![b] = row]
        /\ worker' = [worker EXCEPT ![w] =
             [IdleJob EXCEPT !.pc = "loaded", !.att = b, !.version = row.version]]
    BY <1>1 DEF PrepareAttempt
  <2> HIDE DEF row
  <2> QED BY <1>1, <2>1, <2>2, <2>3 DEF TypeOK, PrepareAttempt, gateVars
<1>2. ASSUME NEW b \in Attempts, GetAttempt(w, b) PROVE TypeOK'
  <2>1. [IdleJob EXCEPT !.pc = "loaded", !.att = b, !.version = attempt[b].version] \in Job
    BY IdleJobType DEF Job, Phase, Attempt, TypeOK
  <2> QED BY <1>2, <2>1 DEF TypeOK, GetAttempt, gateVars
<1>3. CASE ClaimAttempt(w)
  <2>1. [attempt[a] EXCEPT !.state = IF @ \in {"DISPATCHING", "RECONCILING"}
                                       THEN "UNKNOWN" ELSE @,
                           !.version = @ + 1, !.token = @ + 1,
                           !.owner = WorkerId[w], !.lease = LeaseTime] \in Attempt
    <3>1. (IF attempt[a].state \in {"DISPATCHING", "RECONCILING"}
             THEN "UNKNOWN" ELSE attempt[a].state) \in State
      BY <1>a DEF State
    <3> QED BY <1>0, <1>a, <3>1, RowClaimed
  <2>2. [worker[w] EXCEPT !.pc = "leased", !.token = attempt[a].token + 1] \in Job
    <3>1. "leased" \in Phase
      BY DEF Phase
    <3> QED BY <1>0, <1>a, <3>1 DEF Job
  <2>3. worker' \in [Workers -> Job]
    BY <1>3, <2>2 DEF ClaimAttempt, TypeOK
  <2> QED BY <1>0, <1>3, <2>1, <2>3 DEF TypeOK, ClaimAttempt, gateVars
<1>4. CASE BeginDispatch(w)
  <2>1. [attempt[a] EXCEPT !.state = "DISPATCHING", !.version = @ + 1,
                           !.sends = @ + 1] \in Attempt
    <3>1. "DISPATCHING" \in State
      BY DEF State
    <3> QED BY <1>0, <1>a, <3>1, RowSent
  <2>2. [worker[w] EXCEPT !.pc = "executing"] \in Job
    BY <1>0 DEF Job, Phase
  <2>3. attempt' \in [Attempts -> Attempt]
    <3>1. attempt' = [attempt EXCEPT ![a] =
            [attempt[a] EXCEPT !.state = "DISPATCHING", !.version = @ + 1, !.sends = @ + 1]]
      BY <1>4 DEF BeginDispatch
    <3> QED BY <1>0, <2>1, <3>1 DEF TypeOK
  <2> QED BY <1>0, <1>4, <2>2, <2>3 DEF TypeOK, BeginDispatch, gateVars
<1>5. CASE Execute(w)
  <2>1. ExecutedRow(a) \in Effect /\ ExecuteAnswer(ExecutedRow(a)) \in Answer
    BY <1>0, ProviderFacts
  <2>2. [worker[w] EXCEPT !.pc = "answered",
                          !.answer = ExecuteAnswer(ExecutedRow(a))] \in Job
    BY <1>0, <2>1 DEF Job, Phase
  <2> QED BY <1>0, <1>5, <2>1, <2>2 DEF TypeOK, Execute, gateVars
<1>6. CASE BeginReconciliation(w)
  <2>1. [attempt[a] EXCEPT !.state = "RECONCILING", !.version = @ + 1] \in Attempt
    <3>1. "RECONCILING" \in State
      BY DEF State
    <3> QED BY <1>0, <1>a, <3>1, RowAdvanced
  <2>2. [worker[w] EXCEPT !.pc = "looking"] \in Job
    BY <1>0 DEF Job, Phase
  <2>3. attempt' \in [Attempts -> Attempt]
    <3>1. attempt' = [attempt EXCEPT ![a] =
            [attempt[a] EXCEPT !.state = "RECONCILING", !.version = @ + 1]]
      BY <1>6 DEF BeginReconciliation
    <3> QED BY <1>0, <2>1, <3>1 DEF TypeOK
  <2> QED BY <1>0, <1>6, <2>2, <2>3 DEF TypeOK, BeginReconciliation, gateVars
<1>7. CASE Lookup(w)
  <2>1. LookupAnswer(ledger[a]) \in Answer
    BY <1>0, ProviderFacts
  <2>2. [worker[w] EXCEPT !.pc = "answered", !.answer = LookupAnswer(ledger[a])] \in Job
    BY <1>0, <2>1 DEF Job, Phase
  <2>3. ledger' \in [Attempts -> Effect]
    BY <1>0, <1>7 DEF Lookup, Effect, TypeOK
  <2> QED BY <1>0, <1>7, <2>2, <2>3 DEF TypeOK, Lookup, gateVars
<1>8. CASE RecordObservation(w)
  <2> DEFINE state == ObservedState(a, worker[w].answer)
             wait == IF state = "UNKNOWN" THEN Backoff(attempt[a].obs) ELSE 0
             row == [attempt[a] EXCEPT !.state = state, !.version = @ + 1,
                       !.wait = wait, !.owner = NoWorker, !.lease = 0, !.obs = @ + 1]
  <2>1. state \in State
    BY <1>0, ObservedStateFacts DEF Job, State
  <2>2. wait \in Nat
    BY <1>0, BackoffType DEF Attempt
  <2>3. attempt' = [attempt EXCEPT ![a] = row] /\ worker' = [worker EXCEPT ![w] = IdleJob]
    BY <1>8 DEF RecordObservation
  <2>4. row \in Attempt
    <3> HIDE DEF state, wait
    <3> QED BY <1>0, <1>a, <2>1, <2>2, RowObserved
  <2> HIDE DEF row
  <2> QED BY <1>0, <1>8, <2>3, <2>4, IdleJobType DEF TypeOK, RecordObservation, gateVars
<1>9. CASE Raise(w)
  BY <1>9, IdleJobType DEF TypeOK, Raise, gateVars
<1> QED
  BY <1>1, <1>2, <1>3, <1>4, <1>5, <1>6, <1>7, <1>8, <1>9 DEF WorkerStep, Drive

LEMMA NextType == TypeOK /\ [Next]_vars => TypeOK'
<1> SUFFICES ASSUME TypeOK, [Next]_vars PROVE TypeOK'
  OBVIOUS
<1>1. ASSUME NEW w \in Workers, WorkerStep(w) PROVE TypeOK'
  BY <1>1, WorkerStepType
<1>2. ASSUME NEW w \in Workers, Crash(w) PROVE TypeOK'
  BY <1>2, IdleJobType DEF TypeOK, Crash, gateVars
<1>3. CASE Environment
  <2>1. CASE SetDemoStop
    BY <2>1 DEF TypeOK, SetDemoStop, SpendChange
  <2>2. ASSUME NEW b \in Attempts, NEW c \in Control, SetDemoControl(b, c) PROVE TypeOK'
    BY <2>2 DEF TypeOK, SetDemoControl, SpendChange
  <2>3. ASSUME NEW b \in Attempts, NEW v \in Authority, ChangeAuthority(b, v) PROVE TypeOK'
    BY <2>3 DEF TypeOK, ChangeAuthority, SpendChange
  <2>4. CASE RegisterAdapterManifest
    BY <2>4 DEF TypeOK, RegisterAdapterManifest, SpendChange
  <2>5. ASSUME NEW m \in Modes, NEW b \in BOOLEAN, ConfigureProvider(m, b) PROVE TypeOK'
    BY <2>5, ConstantsAssumption DEF TypeOK, ConfigureProvider, gateVars
  <2> QED BY <1>3, <2>1, <2>2, <2>3, <2>4, <2>5 DEF Environment
<1>4. CASE Tick
  <2>1. \A b \in Attempts : [attempt[b] EXCEPT !.lease = Less(@), !.wait = Less(@)] \in Attempt
    <3> TAKE b \in Attempts
    <3>1. Less(attempt[b].lease) \in Nat /\ Less(attempt[b].wait) \in Nat
      BY DEF TypeOK, Attempt, Less
    <3> QED BY <3>1, RowTicked DEF TypeOK
  <2> QED BY <1>4, <2>1 DEF TypeOK, Tick, gateVars
<1>5. CASE UNCHANGED vars
  BY <1>5 DEF TypeOK, vars
<1> QED
  BY <1>1, <1>2, <1>3, <1>4, <1>5 DEF Next

\* Attempts, the provider's rows, the gate and what the workers remember keep their
\* declared shape, through prepare, claim, dispatch, reconciliation and recording
\* (execution.py).
THEOREM TypeCorrect == Spec => []TypeOK
<1>1. TypeOK /\ [Next]_vars => TypeOK'
  BY NextType
<1> QED
  BY InitType, <1>1, PTL DEF Spec

-----------------------------------------------------------------------------
(* Verdicts are true and leases exclusive.                                 *)
(*                                                                         *)
(* Neither is inductive.  A verdict is copied from an answer a worker has  *)
(* been carrying since its provider call, so AnswersTrue says the carried  *)
(* answer still matches the provider's ledger, which never changes an      *)
(* outcome.  Two lease holders would need equal tokens, so TokensFence     *)
(* says tokens in workers' hands are distinct and never ahead of the row.  *)
(* SendsCommitted is what the refinement needs: whatever was sent, or is   *)
(* about to be, has a committed dispatch.                                  *)

AnswersTrue ==
  \A w \in Workers :
    worker[w].pc = "answered" /\ worker[w].answer \in Kind
      => ledger[worker[w].att].kind = worker[w].answer

TokensFence ==
  /\ \A w \in Workers :
       PastClaim(w) => worker[w].token <= attempt[worker[w].att].token
  /\ \A v, w \in Workers :
       v # w /\ PastClaim(v) /\ PastClaim(w) /\ worker[v].att = worker[w].att
         => worker[v].token # worker[w].token

SendsCommitted ==
  /\ \A a \in Attempts : attempt[a].state \in Sent \cup Terminal => attempt[a].sends > 0
  /\ \A w \in Workers :
       worker[w].pc = "executing" => attempt[worker[w].att].sends > 0

\* A row that does not exist yet was never claimed or sent.
FreshUnclaimed ==
  \A a \in Attempts :
    attempt[a].state = "ABSENT" => attempt[a].token = 0 /\ attempt[a].sends = 0

IInv ==
  /\ TypeOK
  /\ VerdictIsTrue /\ AnswersTrue
  /\ TokensFence /\ SendsCommitted /\ FreshUnclaimed

LEMMA InitIInv == Init => IInv
<1> SUFFICES ASSUME Init PROVE IInv
  OBVIOUS
<1>1. TypeOK
  BY InitType
<1>2. VerdictIsTrue /\ SendsCommitted /\ FreshUnclaimed
  BY DEF Init, VerdictIsTrue, SendsCommitted, FreshUnclaimed, NewAttempt, IdleJob, Sent, Terminal
<1>3. AnswersTrue /\ TokensFence
  BY DEF Init, AnswersTrue, TokensFence, PastClaim, IdleJob
<1> QED BY <1>1, <1>2, <1>3 DEF IInv

LEMMA ReadIInv ==
  ASSUME IInv, NEW w \in Workers, NEW b \in Attempts,
         PrepareAttempt(w, b) \/ GetAttempt(w, b)
  PROVE  (VerdictIsTrue /\ AnswersTrue /\ TokensFence /\ SendsCommitted
           /\ FreshUnclaimed)'
<1>1. /\ ledger' = ledger
      /\ \A v \in Workers \ {w} : worker'[v] = worker[v]
      /\ worker'[w].pc = "loaded"
  <2>1. PICK n : worker' = [worker EXCEPT ![w] =
          [IdleJob EXCEPT !.pc = "loaded", !.att = b, !.version = n]]
    BY DEF PrepareAttempt, GetAttempt
  <2> QED BY <2>1 DEF PrepareAttempt, GetAttempt, IInv, TypeOK, IdleJob
<1>2. /\ \A c \in Attempts \ {b} : attempt'[c] = attempt[c]
      /\ \/ attempt'[b] = attempt[b]
         \/ /\ attempt'[b].state = "PREPARED" /\ attempt[b].state = "ABSENT"
            /\ attempt'[b].token = attempt[b].token
            /\ attempt'[b].sends = attempt[b].sends
  <2>1. CASE GetAttempt(w, b)
    BY <2>1 DEF GetAttempt
  <2>2. CASE PrepareAttempt(w, b) /\ attempt[b].state # "ABSENT"
    BY <2>2 DEF PrepareAttempt, IInv, TypeOK
  <2>3. CASE PrepareAttempt(w, b) /\ attempt[b].state = "ABSENT"
    <3>1. attempt' = [attempt EXCEPT ![b] =
            [NewAttempt EXCEPT !.state = "PREPARED", !.version = 1]]
      BY <2>3 DEF PrepareAttempt
    <3> QED BY <2>3, <3>1 DEF IInv, TypeOK, FreshUnclaimed, NewAttempt
  <2> QED BY <2>1, <2>2, <2>3
<1>3. VerdictIsTrue'
  BY <1>1, <1>2 DEF IInv, VerdictIsTrue
<1>4. AnswersTrue'
  BY <1>1 DEF IInv, AnswersTrue
<1>5. TokensFence'
  BY <1>1, <1>2 DEF IInv, TokensFence, PastClaim, TypeOK, Job
<1>6. SendsCommitted'
  BY <1>1, <1>2 DEF IInv, SendsCommitted, Sent, Terminal, TypeOK, Job
<1>7. FreshUnclaimed'
  BY <1>1, <1>2 DEF IInv, FreshUnclaimed
<1> QED BY <1>3, <1>4, <1>5, <1>6, <1>7

LEMMA ClaimIInv ==
  ASSUME IInv, NEW w \in Workers, ClaimAttempt(w)
  PROVE  (VerdictIsTrue /\ AnswersTrue /\ TokensFence /\ SendsCommitted
           /\ FreshUnclaimed)'
<1> DEFINE a == worker[w].att
<1>0. a \in Attempts
  BY DEF IInv, TypeOK, Job
<1>1. /\ ledger' = ledger
      /\ \A v \in Workers \ {w} : worker'[v] = worker[v]
      /\ worker'[w].pc = "leased" /\ worker'[w].att = a
      /\ worker'[w].token = attempt[a].token + 1
  BY DEF ClaimAttempt, IInv, TypeOK, Job
<1>2. /\ \A c \in Attempts \ {a} : attempt'[c] = attempt[c]
      /\ attempt'[a].state = IF attempt[a].state \in {"DISPATCHING", "RECONCILING"}
                               THEN "UNKNOWN" ELSE attempt[a].state
      /\ attempt'[a].token = attempt[a].token + 1
      /\ attempt'[a].sends = attempt[a].sends
      /\ attempt[a].state # "ABSENT"
  BY <1>0 DEF ClaimAttempt, Claimable, IInv, TypeOK, Attempt
<1> HIDE DEF a
<1>3. VerdictIsTrue'
  BY <1>0, <1>1, <1>2 DEF IInv, VerdictIsTrue
<1>4. AnswersTrue'
  BY <1>1 DEF IInv, AnswersTrue
<1>5. TokensFence'
  <2>0. attempt[a].token \in Nat
    BY <1>0 DEF IInv, TypeOK, Attempt
  <2>1. \A v \in Workers : worker[v].token \in Nat /\ worker[v].att \in Attempts
    BY DEF IInv, TypeOK, Job
  <2>2. \A v \in Workers \ {w} : PastClaim(v)' => PastClaim(v)
    BY <1>1 DEF PastClaim
  <2>3. ASSUME NEW v \in Workers, PastClaim(v)'
        PROVE  (worker[v].token <= attempt[worker[v].att].token)'
    BY <1>0, <1>1, <1>2, <2>0, <2>1, <2>2, <2>3 DEF IInv, TokensFence
  <2>4. ASSUME NEW v \in Workers \ {w}, PastClaim(v)', (worker[v].att = worker[w].att)'
        PROVE  (worker[v].token # worker[w].token)'
    BY <1>0, <1>1, <2>0, <2>1, <2>2, <2>4 DEF IInv, TokensFence
  <2>5. ASSUME NEW u \in Workers \ {w}, NEW v \in Workers \ {w}, u # v,
               PastClaim(u)', PastClaim(v)', (worker[u].att = worker[v].att)'
        PROVE  (worker[u].token # worker[v].token)'
    BY <1>1, <2>2, <2>5 DEF IInv, TokensFence
  <2> QED BY <2>3, <2>4, <2>5 DEF TokensFence
<1>6. SendsCommitted'
  BY <1>0, <1>1, <1>2 DEF IInv, SendsCommitted, Sent, Terminal, TypeOK, Job
<1>7. FreshUnclaimed'
  BY <1>0, <1>2 DEF IInv, FreshUnclaimed
<1> QED BY <1>3, <1>4, <1>5, <1>6, <1>7

\* The steps after a claim keep the worker's token and attempt and, except
\* for the state, what the row says of tokens; only RecordObservation, Raise
\* and Crash end the worker's hold.
LEMMA BeginIInv ==
  ASSUME IInv, NEW w \in Workers, BeginDispatch(w) \/ BeginReconciliation(w)
  PROVE  (VerdictIsTrue /\ AnswersTrue /\ TokensFence /\ SendsCommitted
           /\ FreshUnclaimed)'
<1> DEFINE a == worker[w].att
<1>0. a \in Attempts /\ attempt[a].sends \in Nat
  BY DEF IInv, TypeOK, Job, Attempt
<1>1. /\ ledger' = ledger
      /\ \A v \in Workers : v # w => worker'[v] = worker[v]
      /\ PastClaim(w) /\ worker'[w].pc \in {"executing", "looking"}
      /\ worker'[w].att = a /\ worker'[w].token = worker[w].token
  BY DEF BeginDispatch, BeginReconciliation, PastClaim, IInv, TypeOK, Job
<1>2. /\ \A c \in Attempts : c # a => attempt'[c] = attempt[c]
      /\ attempt'[a].token = attempt[a].token
      /\ attempt'[a].state \in {"DISPATCHING", "RECONCILING"}
      /\ attempt[a].sends <= attempt'[a].sends /\ attempt'[a].sends > 0
  <2>1. CASE BeginDispatch(w)
    BY <1>0, <2>1 DEF BeginDispatch, IInv, TypeOK, Attempt
  <2>2. CASE BeginReconciliation(w)
    BY <1>0, <2>2 DEF BeginReconciliation, IInv, SendsCommitted, Sent, TypeOK, Attempt
  <2> QED BY <2>1, <2>2
<1> HIDE DEF a
<1>3. VerdictIsTrue'
  BY <1>0, <1>1, <1>2 DEF IInv, VerdictIsTrue
<1>4. AnswersTrue'
  BY <1>1 DEF IInv, AnswersTrue
<1>5. TokensFence'
  <2>1. \A v \in Workers : /\ PastClaim(v)' => PastClaim(v)
                           /\ worker'[v].token = worker[v].token
                           /\ worker'[v].att = worker[v].att
    BY <1>1 DEF PastClaim, a
  <2>2. \A c \in Attempts : attempt'[c].token = attempt[c].token
    BY <1>2
  <2>3. \A v \in Workers : worker[v].att \in Attempts
    BY DEF IInv, TypeOK, Job
  <2> QED BY <2>1, <2>2, <2>3 DEF IInv, TokensFence
<1>6. SendsCommitted'
  <2>1. \A c \in Attempts : attempt[c].sends > 0 => attempt'[c].sends > 0
    BY <1>0, <1>2
  <2>2. \A v \in Workers : worker[v].att \in Attempts
    BY DEF IInv, TypeOK, Job
  <2> QED BY <1>0, <1>1, <1>2, <2>1, <2>2 DEF IInv, SendsCommitted
<1>7. FreshUnclaimed'
  BY <1>0, <1>2 DEF IInv, FreshUnclaimed
<1> QED BY <1>3, <1>4, <1>5, <1>6, <1>7

LEMMA CallIInv ==
  ASSUME IInv, NEW w \in Workers, Execute(w) \/ Lookup(w)
  PROVE  (VerdictIsTrue /\ AnswersTrue /\ TokensFence /\ SendsCommitted
           /\ FreshUnclaimed)'
<1> DEFINE a == worker[w].att
<1>0. a \in Attempts /\ ledger[a] \in Effect /\ TypeOK
  BY DEF IInv, TypeOK, Job
<1>1. /\ attempt' = attempt
      /\ \A v \in Workers : v # w => worker'[v] = worker[v]
      /\ PastClaim(w) /\ worker'[w].pc = "answered"
      /\ worker'[w].att = a /\ worker'[w].token = worker[w].token
  BY DEF Execute, Lookup, PastClaim, IInv, TypeOK, Job
<1>2. /\ \A c \in Attempts : ledger[c].kind # "NONE" => ledger'[c].kind = ledger[c].kind
      /\ worker'[w].answer \in Kind => ledger'[a].kind = worker'[w].answer
  <2>1. CASE Execute(w)
    <3>1. /\ ledger' = [ledger EXCEPT ![a] = ExecutedRow(a)]
          /\ worker'[w].answer = ExecuteAnswer(ExecutedRow(a))
      BY <2>1 DEF Execute, IInv, TypeOK, Job
    <3> QED BY <1>0, <3>1, ProviderFacts DEF TypeOK
  <2>2. CASE Lookup(w)
    <3>1. /\ \A c \in Attempts : ledger'[c].kind = ledger[c].kind
          /\ worker'[w].answer = LookupAnswer(ledger[a])
      BY <1>0, <2>2 DEF Lookup, IInv, TypeOK, Job, Effect
    <3> QED BY <1>0, <3>1, ProviderFacts
  <2> QED BY <2>1, <2>2
<1> HIDE DEF a
<1>3. VerdictIsTrue'
  BY <1>1, <1>2 DEF IInv, VerdictIsTrue
<1>4. AnswersTrue'
  BY <1>0, <1>1, <1>2 DEF IInv, AnswersTrue, TypeOK, Job, Kind
<1>5. TokensFence'
  <2>1. \A v \in Workers : /\ PastClaim(v)' => PastClaim(v)
                           /\ worker'[v].token = worker[v].token
                           /\ worker'[v].att = worker[v].att
    BY <1>1 DEF PastClaim, a
  <2> QED BY <1>1, <2>1 DEF IInv, TokensFence
<1>6. SendsCommitted' /\ FreshUnclaimed'
  BY <1>1 DEF IInv, SendsCommitted, FreshUnclaimed
<1> QED BY <1>3, <1>4, <1>5, <1>6

LEMMA RecordIInv ==
  ASSUME IInv, NEW w \in Workers, RecordObservation(w)
  PROVE  (VerdictIsTrue /\ AnswersTrue /\ TokensFence /\ SendsCommitted
           /\ FreshUnclaimed)'
<1> DEFINE a == worker[w].att
<1>0. a \in Attempts /\ worker[w].answer \in Answer
  BY DEF IInv, TypeOK, Job
<1>1. /\ ledger' = ledger
      /\ \A v \in Workers : v # w => worker'[v] = worker[v]
      /\ worker'[w].pc = "idle"
  BY DEF RecordObservation, IInv, TypeOK, IdleJob
<1>2. /\ \A c \in Attempts : c # a => attempt'[c] = attempt[c]
      /\ attempt'[a].state = ObservedState(a, worker[w].answer)
      /\ attempt'[a].token = attempt[a].token
      /\ attempt'[a].sends = attempt[a].sends
  BY <1>0 DEF RecordObservation, IInv, TypeOK, Attempt
<1>3. attempt[a].sends > 0
  BY <1>0 DEF RecordObservation, Recordable, IInv, SendsCommitted, Sent
<1>4. VerdictIsTrue'
  <2>1. worker[w].answer \in Kind => ledger[a].kind = worker[w].answer
    BY DEF RecordObservation, IInv, AnswersTrue
  <2> QED BY <1>0, <1>1, <1>2, <2>1, ObservedStateFacts DEF IInv, VerdictIsTrue, Kind
<1>5. AnswersTrue'
  BY <1>1 DEF IInv, AnswersTrue
<1>6. TokensFence'
  <2>1. \A v \in Workers : PastClaim(v)' => v # w /\ PastClaim(v) /\ worker'[v] = worker[v]
    BY <1>1 DEF PastClaim
  <2>2. \A c \in Attempts : attempt'[c].token = attempt[c].token
    BY <1>2
  <2>3. \A v \in Workers : worker[v].att \in Attempts
    BY DEF IInv, TypeOK, Job
  <2> QED BY <2>1, <2>2, <2>3 DEF IInv, TokensFence
<1>7. SendsCommitted'
  <2>1. \A c \in Attempts : attempt'[c].sends = attempt[c].sends
    BY <1>2
  <2>2. \A v \in Workers : worker[v].att \in Attempts
    BY DEF IInv, TypeOK, Job
  <2> QED BY <1>0, <1>1, <1>2, <1>3, <2>1, <2>2 DEF IInv, SendsCommitted
<1>8. FreshUnclaimed'
  BY <1>0, <1>2, ObservedStateFacts DEF IInv, FreshUnclaimed
<1> QED BY <1>4, <1>5, <1>6, <1>7, <1>8

\* A worker that gives up or dies, the operator and the clock touch neither
\* tokens, nor sends, nor the provider's ledger.
LEMMA DropIInv ==
  ASSUME IInv, NEW w \in Workers, Raise(w) \/ Crash(w)
  PROVE  (VerdictIsTrue /\ AnswersTrue /\ TokensFence /\ SendsCommitted
           /\ FreshUnclaimed)'
<1>1. /\ ledger' = ledger /\ attempt' = attempt
      /\ \A v \in Workers : v # w => worker'[v] = worker[v]
      /\ worker'[w].pc = "idle"
  BY DEF Raise, Crash, IInv, TypeOK, IdleJob
<1>2. \A v \in Workers : PastClaim(v)' => v # w /\ PastClaim(v) /\ worker'[v] = worker[v]
  BY <1>1 DEF PastClaim
<1>3. VerdictIsTrue' /\ AnswersTrue' /\ SendsCommitted' /\ FreshUnclaimed'
  BY <1>1 DEF IInv, VerdictIsTrue, AnswersTrue, SendsCommitted, FreshUnclaimed
<1>4. TokensFence'
  BY <1>1, <1>2 DEF IInv, TokensFence
<1> QED BY <1>3, <1>4

LEMMA OutsideIInv ==
  ASSUME IInv, Environment \/ Tick \/ UNCHANGED vars
  PROVE  (VerdictIsTrue /\ AnswersTrue /\ TokensFence /\ SendsCommitted
           /\ FreshUnclaimed)'
<1>1. worker' = worker /\ ledger' = ledger
  BY DEF Environment, SetDemoStop, SetDemoControl, ChangeAuthority,
         RegisterAdapterManifest, ConfigureProvider, Tick, vars
<1>2. \A c \in Attempts : /\ attempt'[c].state = attempt[c].state
                          /\ attempt'[c].token = attempt[c].token
                          /\ attempt'[c].sends = attempt[c].sends
  <2>1. CASE Tick
    BY <2>1 DEF Tick, IInv, TypeOK, Attempt
  <2>2. CASE Environment \/ UNCHANGED vars
    BY <2>2 DEF Environment, SetDemoStop, SetDemoControl, ChangeAuthority,
                RegisterAdapterManifest, ConfigureProvider, vars
  <2> QED BY <2>1, <2>2
<1>3. \A v \in Workers : worker[v].att \in Attempts /\ (PastClaim(v)' <=> PastClaim(v))
  BY <1>1 DEF IInv, TypeOK, Job, PastClaim
<1>4. VerdictIsTrue' /\ AnswersTrue' /\ SendsCommitted' /\ FreshUnclaimed'
  BY <1>1, <1>2, <1>3 DEF IInv, VerdictIsTrue, AnswersTrue, SendsCommitted, FreshUnclaimed
<1>5. TokensFence'
  BY <1>1, <1>2, <1>3 DEF IInv, TokensFence
<1> QED BY <1>4, <1>5

LEMMA NextIInv == IInv /\ [Next]_vars => IInv'
<1> SUFFICES ASSUME IInv, [Next]_vars PROVE IInv'
  OBVIOUS
<1>1. TypeOK'
  BY NextType DEF IInv
<1>2. (VerdictIsTrue /\ AnswersTrue /\ TokensFence /\ SendsCommitted /\ FreshUnclaimed)'
  <2>1. ASSUME NEW w \in Workers, WorkerStep(w)
        PROVE  (VerdictIsTrue /\ AnswersTrue /\ TokensFence /\ SendsCommitted
                 /\ FreshUnclaimed)'
    BY <2>1, ReadIInv, ClaimIInv, BeginIInv, CallIInv, RecordIInv, DropIInv
    DEF WorkerStep, Drive
  <2>2. ASSUME NEW w \in Workers, Crash(w)
        PROVE  (VerdictIsTrue /\ AnswersTrue /\ TokensFence /\ SendsCommitted
                 /\ FreshUnclaimed)'
    BY <2>2, DropIInv
  <2> QED BY <2>1, <2>2, OutsideIInv DEF Next
<1> QED BY <1>1, <1>2 DEF IInv

LEMMA Invariant == Spec => []IInv
BY InitIInv, NextIInv, PTL DEF Spec

\* A verified verdict always agrees with the provider's own ledger: no
\* timeout, stale worker, restart or reconfiguration can make record_observation
\* write an outcome the provider does not have.
THEOREM VerdictsAreTrue == Spec => []VerdictIsTrue
<1>1. IInv => VerdictIsTrue
  BY DEF IInv
<1> QED BY <1>1, Invariant, PTL

\* The fencing token that claim_attempt hands out makes the lease exclusive between
\* processes, whatever worker_id they were started with (execution.py, _leased).
THEOREM LeasesAreExclusive == Spec => []LeaseExclusive
<1>1. IInv => LeaseExclusive
  BY DEF IInv, TokensFence, LeaseExclusive, Leased
<1> QED BY <1>1, Invariant, PTL

-----------------------------------------------------------------------------
(* The ledger implements the abstract promise *)

LEMMA InitRefines == Init => Promise!Init
BY DEF Init, Promise!Init, NewAttempt, NoEffect, Verdict

\* A step that changes neither verdicts, nor effects, nor whether something
\* was sent is a stutter of the promise.
LEMMA Stutter ==
  ASSUME \A a \in Attempts : /\ Verdict(attempt'[a].state) = Verdict(attempt[a].state)
                             /\ ledger'[a].kind = ledger[a].kind
                             /\ attempt'[a].sends > 0 <=> attempt[a].sends > 0
  PROVE  UNCHANGED Promise!abstractVars
BY DEF Promise!abstractVars

LEMMA DispatchRefines ==
  ASSUME IInv, NEW w \in Workers, BeginDispatch(w)
  PROVE  [Promise!Next]_(Promise!abstractVars)
<1> DEFINE a == worker[w].att
<1>0. a \in Attempts /\ attempt[a].sends \in Nat
  BY DEF IInv, TypeOK, Job, Attempt
<1>1. /\ ledger' = ledger
      /\ \A c \in Attempts : c # a => attempt'[c] = attempt[c]
      /\ attempt[a].state = "PREPARED" /\ attempt'[a].state = "DISPATCHING"
      /\ attempt'[a].sends = attempt[a].sends + 1
  BY <1>0 DEF BeginDispatch, IInv, TypeOK, Attempt
<1> HIDE DEF a
<1>2. \A c \in Attempts : Verdict(attempt'[c].state) = Verdict(attempt[c].state)
  BY <1>0, <1>1 DEF Verdict
<1>3. Promise!Authorise(a)
  <2>1. Verdict(attempt[a].state) = "OPEN"
    BY <1>1 DEF Verdict
  <2>2. {c \in Attempts : attempt'[c].sends > 0}
          = {c \in Attempts : attempt[c].sends > 0} \cup {a}
    BY <1>0, <1>1
  <2> QED BY <1>0, <1>1, <1>2, <2>1, <2>2 DEF Promise!Authorise
<1>4. \E o \in Attempts : Promise!Authorise(o)
  BY <1>0, <1>3 DEF Promise!Authorise
<1>5. Promise!Next
  BY <1>4 DEF Promise!Next
<1> QED BY <1>5

LEMMA ExecuteRefines ==
  ASSUME IInv, NEW w \in Workers, Execute(w)
  PROVE  [Promise!Next]_(Promise!abstractVars)
<1> DEFINE a == worker[w].att
<1>0. a \in Attempts /\ TypeOK /\ attempt[a].sends > 0
  BY DEF IInv, TypeOK, Job, Execute, SendsCommitted
<1>1. attempt' = attempt /\ ledger' = [ledger EXCEPT ![a] = ExecutedRow(a)]
  BY DEF Execute
<1>2. /\ ExecutedRow(a) \in Effect
      /\ ledger[a].kind # "NONE" => ExecutedRow(a) = ledger[a]
      /\ ledger \in [Attempts -> Effect]
  BY <1>0, ProviderFacts DEF TypeOK
<1> HIDE DEF a
<1>3. CASE ExecutedRow(a).kind = ledger[a].kind
  <2>1. \A c \in Attempts : ledger'[c].kind = ledger[c].kind
    BY <1>0, <1>1, <1>2, <1>3
  <2> QED BY <1>1, <2>1, Stutter
<1>4. CASE ExecutedRow(a).kind # ledger[a].kind
  <2>1. ledger[a].kind = "NONE" /\ ExecutedRow(a).kind \in Kind
    BY <1>0, <1>2, <1>4 DEF Effect
  <2>2. [c \in Attempts |-> ledger'[c].kind]
          = [[c \in Attempts |-> ledger[c].kind] EXCEPT ![a] = ExecutedRow(a).kind]
    BY <1>0, <1>1, <1>2
  <2>3. Promise!Apply(a, ExecutedRow(a).kind)
    BY <1>0, <1>1, <2>1, <2>2 DEF Promise!Apply
  <2>4. \E o \in Attempts : \E k \in Promise!Outcome : Promise!Apply(o, k)
    BY <1>0, <2>1, <2>3 DEF Promise!Apply, Promise!Outcome, Kind
  <2>5. Promise!Next
    BY <2>4 DEF Promise!Next
  <2> QED BY <2>5
<1> QED BY <1>3, <1>4

LEMMA RecordRefines ==
  ASSUME IInv, NEW w \in Workers, RecordObservation(w)
  PROVE  [Promise!Next]_(Promise!abstractVars)
<1> DEFINE a == worker[w].att
           state == ObservedState(a, worker[w].answer)
<1>0. a \in Attempts /\ worker[w].answer \in Answer
  BY DEF IInv, TypeOK, Job
<1>1. /\ ledger' = ledger
      /\ \A c \in Attempts : c # a => attempt'[c] = attempt[c]
      /\ attempt'[a].state = state
      /\ attempt'[a].sends = attempt[a].sends
  BY <1>0 DEF RecordObservation, IInv, TypeOK, Attempt
<1>2. attempt[a].state \in {"DISPATCHING", "RECONCILING"} /\ attempt[a].sends > 0
  BY <1>0 DEF RecordObservation, Recordable, IInv, SendsCommitted, Sent
<1>3. Verdict(attempt[a].state) = "OPEN"
  BY <1>2 DEF Verdict
<1>4. /\ state \in {"VERIFIED_SUCCESS", "VERIFIED_FAILURE", "UNKNOWN", "PREPARED",
                    "MANUAL_REVIEW"}
      /\ state = "VERIFIED_SUCCESS" => ledger[a].kind = "FOUND_SUCCESS"
      /\ state = "VERIFIED_FAILURE" => ledger[a].kind = "FOUND_FAILURE"
  BY <1>0, ObservedStateFacts DEF RecordObservation, IInv, AnswersTrue, Kind
<1> HIDE DEF a, state
<1>5. [c \in Attempts |-> Verdict(attempt'[c].state)]
        = [[c \in Attempts |-> Verdict(attempt[c].state)] EXCEPT ![a] = Verdict(state)]
  BY <1>0, <1>1
<1>6. /\ {c \in Attempts : attempt'[c].sends > 0} = {c \in Attempts : attempt[c].sends > 0}
      /\ [c \in Attempts |-> ledger'[c].kind] = [c \in Attempts |-> ledger[c].kind]
  BY <1>1
<1>7. CASE state \in {"VERIFIED_SUCCESS", "VERIFIED_FAILURE"}
  <2>1. Verdict(state) = ledger[a].kind /\ ledger[a].kind \in Promise!Outcome
    BY <1>4, <1>7 DEF Verdict, Promise!Outcome
  <2>2. Promise!Verify(a)
    BY <1>0, <1>3, <1>5, <1>6, <2>1 DEF Promise!Verify
  <2> QED BY <1>0, <2>2 DEF Promise!Next
<1>8. CASE state = "MANUAL_REVIEW"
  <2>1. Verdict(state) = "MANUAL"
    BY <1>8 DEF Verdict
  <2>2. Promise!HandOver(a)
    BY <1>0, <1>2, <1>3, <1>5, <1>6, <2>1 DEF Promise!HandOver
  <2> QED BY <1>0, <2>2 DEF Promise!Next
<1>9. CASE state \in {"UNKNOWN", "PREPARED"}
  <2>1. Verdict(state) = "OPEN"
    BY <1>9 DEF Verdict
  <2>2. \A c \in Attempts : Verdict(attempt'[c].state) = Verdict(attempt[c].state)
    BY <1>0, <1>1, <1>3, <2>1
  <2>3. \A c \in Attempts : attempt'[c].sends = attempt[c].sends
    BY <1>1
  <2> QED BY <1>1, <2>2, <2>3, Stutter
<1> QED BY <1>4, <1>7, <1>8, <1>9

\* Reading, claiming, looking, giving up, the operator and the clock are
\* invisible to the promise.
LEMMA QuietRefines ==
  ASSUME IInv, NEW w \in Workers,
         \/ \E b \in Attempts : PrepareAttempt(w, b) \/ GetAttempt(w, b)
         \/ ClaimAttempt(w) \/ BeginReconciliation(w) \/ Lookup(w)
         \/ Raise(w) \/ Crash(w)
  PROVE  UNCHANGED Promise!abstractVars
<1>1. \A c \in Attempts : ledger'[c].kind = ledger[c].kind
  <2>1. CASE Lookup(w)
    BY <2>1 DEF Lookup, IInv, TypeOK, Job, Effect
  <2>2. CASE ~Lookup(w)
    BY <2>2 DEF PrepareAttempt, GetAttempt, ClaimAttempt, BeginReconciliation, Raise, Crash
  <2> QED BY <2>1, <2>2
<1>2. \A c \in Attempts : /\ Verdict(attempt'[c].state) = Verdict(attempt[c].state)
                          /\ attempt'[c].sends = attempt[c].sends
  <2>1. ASSUME NEW b \in Attempts, PrepareAttempt(w, b)
        PROVE  \A c \in Attempts : /\ Verdict(attempt'[c].state) = Verdict(attempt[c].state)
                                   /\ attempt'[c].sends = attempt[c].sends
    <3>1. CASE attempt[b].state # "ABSENT"
      BY <2>1, <3>1 DEF PrepareAttempt, IInv, TypeOK
    <3>2. CASE attempt[b].state = "ABSENT"
      <4>1. attempt' = [attempt EXCEPT ![b] =
              [NewAttempt EXCEPT !.state = "PREPARED", !.version = 1]]
        BY <2>1, <3>2 DEF PrepareAttempt
      <4>2. /\ \A c \in Attempts : c # b => attempt'[c] = attempt[c]
            /\ attempt'[b].state = "PREPARED" /\ attempt'[b].sends = 0
        BY <4>1 DEF IInv, TypeOK, NewAttempt
      <4>3. attempt[b].sends = 0
        BY <3>2 DEF IInv, FreshUnclaimed
      <4> QED BY <3>2, <4>2, <4>3 DEF Verdict
    <3> QED BY <3>1, <3>2
  <2>2. CASE ClaimAttempt(w) \/ BeginReconciliation(w)
    <3> DEFINE a == worker[w].att
    <3>0. a \in Attempts
      BY DEF IInv, TypeOK, Job
    <3>1. /\ \A c \in Attempts : c # a => attempt'[c] = attempt[c]
          /\ \/ attempt'[a].state = attempt[a].state
             \/ /\ attempt[a].state \in Sent /\ attempt'[a].state \in Sent
          /\ attempt'[a].sends = attempt[a].sends
      <4>1. CASE ClaimAttempt(w)
        BY <3>0, <4>1 DEF ClaimAttempt, IInv, TypeOK, Attempt, Sent
      <4>2. CASE BeginReconciliation(w)
        BY <3>0, <4>2 DEF BeginReconciliation, IInv, TypeOK, Attempt, Sent
      <4> QED BY <2>2, <4>1, <4>2
    <3> HIDE DEF a
    <3> QED BY <3>0, <3>1 DEF Sent, Verdict
  <2>3. CASE Lookup(w) \/ Raise(w) \/ Crash(w) \/ \E b \in Attempts : GetAttempt(w, b)
    BY <2>3 DEF Lookup, Raise, Crash, GetAttempt
  <2> QED BY <2>1, <2>2, <2>3
<1> QED BY <1>1, <1>2, Stutter

LEMMA OutsideRefines ==
  ASSUME IInv, Environment \/ Tick \/ UNCHANGED vars
  PROVE  UNCHANGED Promise!abstractVars
<1>1. ledger' = ledger
  BY DEF Environment, SetDemoStop, SetDemoControl, ChangeAuthority,
         RegisterAdapterManifest, ConfigureProvider, Tick, vars
<1>2. \A c \in Attempts : attempt'[c].state = attempt[c].state
                          /\ attempt'[c].sends = attempt[c].sends
  <2>1. CASE Tick
    BY <2>1 DEF Tick, IInv, TypeOK, Attempt
  <2>2. CASE Environment \/ UNCHANGED vars
    BY <2>2 DEF Environment, SetDemoStop, SetDemoControl, ChangeAuthority,
                RegisterAdapterManifest, ConfigureProvider, vars
  <2> QED BY <2>1, <2>2
<1> QED BY <1>1, <1>2, Stutter

LEMMA NextRefines == IInv /\ [Next]_vars => [Promise!Next]_(Promise!abstractVars)
<1> SUFFICES ASSUME IInv, [Next]_vars PROVE [Promise!Next]_(Promise!abstractVars)
  OBVIOUS
<1>1. ASSUME NEW w \in Workers, WorkerStep(w) \/ Crash(w)
      PROVE  [Promise!Next]_(Promise!abstractVars)
  BY <1>1, DispatchRefines, ExecuteRefines, RecordRefines, QuietRefines DEF WorkerStep, Drive
<1>2. CASE Environment \/ Tick \/ UNCHANGED vars
  BY <1>2, OutsideRefines
<1> QED BY <1>1, <1>2 DEF Next

\* Whatever the interleaving of workers, deaths, operator changes, provider
\* modes and clock, the ledger implements the abstract promise: authorised
\* before touched, touched at most once, verdicts true and final.
THEOREM Implements == Spec => ImplementsExternalEffect
BY InitRefines, NextRefines, Invariant, PTL DEF Spec, ImplementsExternalEffect, Promise!Spec

-----------------------------------------------------------------------------
(* A verdict is final *)

\* No worker step writes the row of an attempt that reached a verdict.
LEMMA TerminalStep ==
  ASSUME TypeOK, [Next]_vars, NEW a \in Attempts, attempt[a].state \in Terminal,
         \* the clock finds nothing to count down on a finished row
         attempt[a].lease = 0, attempt[a].wait = 0
  PROVE  attempt'[a] = attempt[a]
<1>1. ASSUME NEW w \in Workers, WorkerStep(w) \/ Crash(w) PROVE attempt'[a] = attempt[a]
  <2>0. worker[w].att \in Attempts
    BY DEF TypeOK, Job
  <2>1. ASSUME NEW b \in Attempts, PrepareAttempt(w, b) PROVE attempt'[a] = attempt[a]
    BY <2>1 DEF PrepareAttempt, TypeOK, Terminal
  <2>2. CASE ClaimAttempt(w)
    BY <2>0, <2>2 DEF ClaimAttempt, Claimable, TypeOK
  <2>3. CASE BeginDispatch(w)
    BY <2>0, <2>3 DEF BeginDispatch, Terminal, TypeOK
  <2>4. CASE BeginReconciliation(w)
    BY <2>0, <2>4 DEF BeginReconciliation, Terminal, TypeOK
  <2>5. CASE RecordObservation(w)
    BY <2>0, <2>5 DEF RecordObservation, Recordable, Terminal, TypeOK
  <2>6. CASE Execute(w) \/ Lookup(w) \/ Raise(w) \/ Crash(w)
             \/ \E b \in Attempts : GetAttempt(w, b)
    BY <2>6 DEF Execute, Lookup, Raise, Crash, GetAttempt
  <2> QED BY <1>1, <2>1, <2>2, <2>3, <2>4, <2>5, <2>6 DEF WorkerStep, Drive
<1>2. CASE Tick
  <2>1. attempt'[a] = [attempt[a] EXCEPT !.lease = Less(@), !.wait = Less(@)]
    BY <1>2 DEF Tick
  <2>2. Less(attempt[a].lease) = attempt[a].lease /\ Less(attempt[a].wait) = attempt[a].wait
    BY DEF Less
  <2> QED BY <2>1, <2>2 DEF TypeOK, Attempt
<1>3. CASE Environment \/ UNCHANGED vars
  BY <1>3 DEF Environment, SetDemoStop, SetDemoControl, ChangeAuthority,
              RegisterAdapterManifest, ConfigureProvider, vars
<1> QED BY <1>1, <1>2, <1>3 DEF Next

\* A row with a verdict carries no lease and no timer: record_observation
\* clears both in the transaction that writes the verdict.
Released ==
  \A a \in Attempts : attempt[a].state \in Terminal
                        => attempt[a].lease = 0 /\ attempt[a].wait = 0

LEMMA NextReleased == TypeOK /\ Released /\ [Next]_vars => Released'
<1> SUFFICES ASSUME TypeOK, Released, [Next]_vars,
                    NEW a \in Attempts, attempt'[a].state \in Terminal
             PROVE  attempt'[a].lease = 0 /\ attempt'[a].wait = 0
  BY DEF Released
<1>1. CASE attempt[a].state \in Terminal
  BY <1>1, TerminalStep DEF Released
<1>2. CASE attempt[a].state \notin Terminal
  <2>1. PICK w \in Workers : RecordObservation(w) /\ worker[w].att = a
    <3>1. ASSUME NEW w \in Workers, WorkerStep(w) \/ Crash(w), ~RecordObservation(w)
          PROVE  attempt'[a].state \notin Terminal
      <4>0. worker[w].att \in Attempts
        BY DEF TypeOK, Job
      <4>1. ASSUME NEW b \in Attempts, PrepareAttempt(w, b)
            PROVE  attempt'[a].state \notin Terminal
        <5>1. CASE attempt[b].state # "ABSENT"
          BY <1>2, <4>1, <5>1 DEF PrepareAttempt, TypeOK
        <5>2. CASE attempt[b].state = "ABSENT"
          <6>1. attempt' = [attempt EXCEPT ![b] =
                  [NewAttempt EXCEPT !.state = "PREPARED", !.version = 1]]
            BY <4>1, <5>2 DEF PrepareAttempt
          <6> QED BY <1>2, <6>1 DEF TypeOK, NewAttempt, Terminal
        <5> QED BY <5>1, <5>2
      <4>2. CASE ClaimAttempt(w)
        BY <1>2, <4>0, <4>2 DEF ClaimAttempt, TypeOK, Attempt, Terminal
      <4>3. CASE BeginDispatch(w)
        BY <1>2, <4>0, <4>3 DEF BeginDispatch, TypeOK, Attempt, Terminal
      <4>4. CASE BeginReconciliation(w)
        BY <1>2, <4>0, <4>4 DEF BeginReconciliation, TypeOK, Attempt, Terminal
      <4>5. CASE Execute(w) \/ Lookup(w) \/ Raise(w) \/ Crash(w)
                 \/ \E b \in Attempts : GetAttempt(w, b)
        BY <1>2, <4>5 DEF Execute, Lookup, Raise, Crash, GetAttempt
      <4> QED BY <3>1, <4>1, <4>2, <4>3, <4>4, <4>5 DEF WorkerStep, Drive
    <3>2. CASE Tick
      BY <1>2, <3>2 DEF Tick, TypeOK, Attempt
    <3>3. CASE Environment \/ UNCHANGED vars
      BY <1>2, <3>3 DEF Environment, SetDemoStop, SetDemoControl, ChangeAuthority,
                        RegisterAdapterManifest, ConfigureProvider, vars
    <3>4. PICK w \in Workers : RecordObservation(w)
      BY <3>1, <3>2, <3>3 DEF Next
    <3>5. worker[w].att = a
      BY <1>2, <3>4 DEF RecordObservation, TypeOK, Job
    <3> QED BY <3>4, <3>5
  <2>2. attempt[a] \in Attempt
    BY DEF TypeOK
  <2>3. /\ attempt'[a].state = ObservedState(a, worker[w].answer)
        /\ attempt'[a].lease = 0
        /\ attempt'[a].wait = IF ObservedState(a, worker[w].answer) = "UNKNOWN"
                                THEN Backoff(attempt[a].obs) ELSE 0
    BY <2>1, <2>2 DEF RecordObservation, TypeOK, Attempt
  <2> QED BY <2>3 DEF Terminal
<1> QED BY <1>1, <1>2

\* Late answers, reclaims and restarts all bounce off a row with a verdict.
THEOREM VerdictsAreFinal == Spec => TerminalForever
<1>1. Init => Released
  BY DEF Init, Released, NewAttempt
<1>2. TypeOK /\ Released /\ [Next]_vars
        => [\A a \in Attempts : attempt[a].state \in Terminal => attempt'[a] = attempt[a]]_vars
  BY TerminalStep DEF Released
<1> QED BY <1>1, <1>2, NextReleased, TypeCorrect, PTL DEF Spec, TerminalForever

-----------------------------------------------------------------------------
(* What a step may never do *)

\* Only an answer a worker records under its lease takes a row that was sent back to
\* PREPARED, and only an authoritative absence does, under an open gate.
LEMMA ResendStep ==
  ASSUME TypeOK, [Next]_vars, NEW a \in Attempts,
         attempt[a].state \in Sent, attempt'[a].state = "PREPARED"
  PROVE  /\ GateOpen(a)
         /\ \E w \in Workers : /\ worker[w].att = a /\ Leased(w)
                               /\ worker[w].answer = "ABSENT_AUTHORITATIVE"
<1>0. attempt[a] \in Attempt /\ attempt[a].state # "PREPARED" /\ attempt[a].state # "ABSENT"
  BY DEF TypeOK, Sent
<1>1. ASSUME NEW w \in Workers, RecordObservation(w)
      PROVE  /\ worker[w].att = a /\ Leased(w)
             /\ worker[w].answer = "ABSENT_AUTHORITATIVE" /\ GateOpen(a)
  <2> DEFINE b == worker[w].att
  <2>1. b \in Attempts /\ worker[w].answer \in Answer
    BY DEF TypeOK, Job
  <2>2. /\ \A c \in Attempts : c # b => attempt'[c] = attempt[c]
        /\ attempt'[b].state = ObservedState(b, worker[w].answer)
    BY <1>1, <2>1 DEF RecordObservation, TypeOK, Attempt
  <2>3. b = a /\ ObservedState(a, worker[w].answer) = "PREPARED"
    BY <1>0, <2>1, <2>2
  <2>4. worker[w].answer = "ABSENT_AUTHORITATIVE" /\ GateOpen(a)
    BY <2>1, <2>3 DEF ObservedState, AnswerState, Answer, Kind
  <2> QED BY <1>1, <2>3, <2>4 DEF RecordObservation, Recordable
<1>2. ASSUME NEW w \in Workers, ClaimAttempt(w) PROVE FALSE
  <2>1. worker[w].att \in Attempts
    BY DEF TypeOK, Job
  <2> QED BY <1>0, <1>2, <2>1 DEF ClaimAttempt, TypeOK, Attempt
<1>3. ASSUME NEW w \in Workers, BeginDispatch(w) \/ BeginReconciliation(w) PROVE FALSE
  <2>1. worker[w].att \in Attempts
    BY DEF TypeOK, Job
  <2>2. CASE BeginDispatch(w)
    BY <1>0, <2>1, <2>2 DEF BeginDispatch, TypeOK, Attempt
  <2>3. CASE BeginReconciliation(w)
    BY <1>0, <2>1, <2>3 DEF BeginReconciliation, TypeOK, Attempt
  <2> QED BY <1>3, <2>2, <2>3
<1>4. ASSUME NEW w \in Workers, NEW b \in Attempts, PrepareAttempt(w, b) \/ GetAttempt(w, b) PROVE FALSE
  BY <1>0, <1>4 DEF PrepareAttempt, GetAttempt, TypeOK
<1>5. ASSUME NEW w \in Workers, Execute(w) \/ Lookup(w) \/ Raise(w) \/ Crash(w) PROVE FALSE
  BY <1>0, <1>5 DEF Execute, Lookup, Raise, Crash
<1>6. CASE Tick
  BY <1>0, <1>6 DEF Tick, Attempt
<1>7. CASE Environment \/ UNCHANGED vars
  BY <1>0, <1>7 DEF Environment, SetDemoStop, SetDemoControl, ChangeAuthority,
                    RegisterAdapterManifest, ConfigureProvider, vars
<1> QED BY <1>1, <1>2, <1>3, <1>4, <1>5, <1>6, <1>7 DEF Next, WorkerStep, Drive

\* An attempt that was once dispatched becomes dispatchable again for no other
\* reason than an authoritative "no effect" recorded under the current lease and an
\* open gate (record_observation), for any number of workers and any limits.
THEOREM NothingResentBlindly == Spec => NoBlindResend
<1>1. TypeOK /\ [Next]_vars =>
        [\A a \in Attempts :
           attempt[a].state \in Sent /\ attempt'[a].state = "PREPARED"
             => /\ GateOpen(a)
                /\ \E w \in Workers : /\ worker[w].att = a /\ Leased(w)
                                      /\ worker[w].answer = "ABSENT_AUTHORITATIVE"]_vars
  BY ResendStep
<1>2. []TypeOK /\ [][Next]_vars => NoBlindResend
  BY <1>1, PTL DEF NoBlindResend
<1> QED BY <1>2, TypeCorrect, PTL DEF Spec

\* While the gate is closed nobody enters the call, and only one who is in it has
\* an effect.
LEMMA DrainStep ==
  ASSUME TypeOK, [Next]_vars, NEW a \in Attempts, ~GateOpen(a), ~InFlight(a)
  PROVE  ledger'[a].kind = ledger[a].kind /\ ~InFlight(a)'
<1>0. ledger[a] \in Effect
  BY DEF TypeOK
<1>1. ASSUME NEW w \in Workers, Execute(w) \/ Lookup(w)
      PROVE  ledger'[a].kind = ledger[a].kind /\ ~InFlight(a)'
  <2>1. worker[w] \in Job /\ worker[w].att \in Attempts
    BY DEF TypeOK, Job
  <2>2. PICK answer : worker' = [worker EXCEPT ![w].pc = "answered", ![w].answer = answer]
    BY <1>1 DEF Execute, Lookup
  <2>3. ~InFlight(a)'
    BY <2>1, <2>2 DEF InFlight, TypeOK, Job
  <2>4. CASE Execute(w)
    BY <2>1, <2>3, <2>4 DEF Execute, InFlight, TypeOK
  <2>5. CASE Lookup(w)
    BY <1>0, <2>1, <2>3, <2>5 DEF Lookup, TypeOK, Effect
  <2> QED BY <1>1, <2>4, <2>5
<1>2. ASSUME NEW w \in Workers, BeginDispatch(w)
      PROVE  ledger'[a].kind = ledger[a].kind /\ ~InFlight(a)'
  <2>1. worker[w].att # a /\ worker[w] \in Job
    BY <1>2 DEF BeginDispatch, DispatchAllowed, TypeOK
  <2> QED BY <1>2, <2>1 DEF BeginDispatch, InFlight, TypeOK, Job
<1>3. ASSUME NEW w \in Workers, BeginReconciliation(w) \/ ClaimAttempt(w)
      PROVE  ledger'[a].kind = ledger[a].kind /\ ~InFlight(a)'
  BY <1>3 DEF BeginReconciliation, ClaimAttempt, InFlight, TypeOK, Job
<1>4. ASSUME NEW w \in Workers,
             RecordObservation(w) \/ Raise(w) \/ Crash(w)
      PROVE  ledger'[a].kind = ledger[a].kind /\ ~InFlight(a)'
  BY <1>4 DEF RecordObservation, Raise, Crash, InFlight, TypeOK, IdleJob
<1>5. ASSUME NEW w \in Workers, NEW b \in Attempts, PrepareAttempt(w, b) \/ GetAttempt(w, b)
      PROVE  ledger'[a].kind = ledger[a].kind /\ ~InFlight(a)'
  <2>1. PICK n : worker' = [worker EXCEPT ![w] = [IdleJob EXCEPT !.pc = "loaded", !.att = b, !.version = n]]
    BY <1>5 DEF PrepareAttempt, GetAttempt
  <2>2. ledger' = ledger
    BY <1>5 DEF PrepareAttempt, GetAttempt
  <2> QED BY <2>1, <2>2 DEF InFlight, TypeOK, IdleJob
<1>6. CASE Tick \/ Environment \/ UNCHANGED vars
  BY <1>6 DEF Tick, Environment, SetDemoStop, SetDemoControl, ChangeAuthority,
              RegisterAdapterManifest, ConfigureProvider, vars, InFlight
<1> QED BY <1>1, <1>2, <1>3, <1>4, <1>5, <1>6 DEF Next, WorkerStep, Drive

\* Once the gate of an attempt is closed and the calls under way have ended, no
\* step starts another and none has an effect (_gate in begin_dispatch), whichever
\* of stop, control and authority closed it.
THEOREM ClosedGatesDrain == Spec => ClosedGateDrains
<1>1. TypeOK /\ [Next]_vars =>
        [\A a \in Attempts : ~GateOpen(a) /\ ~InFlight(a)
           => /\ ledger'[a].kind = ledger[a].kind
              /\ ~InFlight(a)']_vars
  BY DrainStep
<1>2. []TypeOK /\ [][Next]_vars => ClosedGateDrains
  BY <1>1, PTL DEF ClosedGateDrains
<1> QED BY <1>2, TypeCorrect, PTL DEF Spec

-----------------------------------------------------------------------------
(* The tool worker: the ledger and the outbox under one driver             *)
(*                                                                         *)
(* The composed system keeps the invariants of both parts, because each of *)
(* its steps is a step of the ledger or drops what one worker remembers,   *)
(* and a step of the outbox.  That a completed event has a verdict behind  *)
(* it needs that a busy worker drives the attempt of the event it holds,   *)
(* that an idle one remembers nothing, and that a verdict it has seen is   *)
(* still there: verdicts are final.                                        *)

Queue == INSTANCE OutboxProofs WITH
  Events <- Attempts, Aggregate <- EachItsOwn, Named <- Attempts, MaxPartial <- MaxToken

\* The outbox inside ToolWorker and the one OutboxProofs is about are the same.
LEMMA SameQueue ==
  /\ Q!Init => Queue!Init
  /\ \A e \in Attempts : Q!AppendOutbox(e) => Queue!AppendOutbox(e)
  /\ Q!Tick => Queue!Tick
<1>1. Q!Init => Queue!Init
  BY DEF Q!Init, Queue!Init, Q!NewRow, Queue!NewRow, Q!NoHold, Queue!NoHold
<1>2. \A e \in Attempts : Q!AppendOutbox(e) => Queue!AppendOutbox(e)
  BY DEF Q!AppendOutbox, Queue!AppendOutbox, Q!Appended, Queue!Appended,
         Q!Cardinality, Queue!Cardinality
<1>3. Q!Tick => Queue!Tick
  BY DEF Q!Tick, Queue!Tick, Q!Timed, Queue!Timed, Q!Working, Queue!Working,
         Q!LeaseHeld, Queue!LeaseHeld
<1> QED BY <1>1, <1>2, <1>3

LEMMA SameClaims ==
  ASSUME NEW w \in Workers
  PROVE  /\ Q!Poll(w) => Queue!Poll(w)
         /\ \A e \in Attempts : Q!ClaimOutbox(w, e) => Queue!ClaimOutbox(w, e)
<1>1. ASSUME NEW e \in Attempts
      PROVE  (Q!Claim(w, e) => Queue!Claim(w, e)) /\ (Q!NextInLine(e) => Queue!NextInLine(e))
  <2>1. Q!Claim(w, e) => Queue!Claim(w, e)
    BY DEF Q!Claim, Queue!Claim, Q!ClaimableByName, Queue!ClaimableByName, Q!Finished, Queue!Finished
  <2>2. Q!NextInLine(e) => Queue!NextInLine(e)
    BY DEF Q!NextInLine, Queue!NextInLine, Q!Ready, Queue!Ready, Q!Unblocked, Queue!Unblocked,
           Q!Appended, Queue!Appended, Q!Finished, Queue!Finished
  <2> QED BY <2>1, <2>2
<1> QED BY <1>1 DEF Q!Poll, Queue!Poll, Q!ClaimNextOutbox, Queue!ClaimNextOutbox,
                    Q!ClaimOutbox, Queue!ClaimOutbox

LEMMA SameEnds ==
  ASSUME NEW w \in Workers
  PROVE  /\ \A done \in BOOLEAN : Q!CheckpointOutbox(w, done) => Queue!CheckpointOutbox(w, done)
         /\ Q!FailOutbox(w) => Queue!FailOutbox(w)
         /\ Q!Stale(w) => Queue!Stale(w)
         /\ Q!Crash(w) => Queue!Crash(w)
<1>1. /\ Q!LeaseHeld(w) <=> Queue!LeaseHeld(w)
      /\ Q!Release(w) <=> Queue!Release(w)
  BY DEF Q!LeaseHeld, Queue!LeaseHeld, Q!Release, Queue!Release, Q!NoHold, Queue!NoHold
<1>2. \A done \in BOOLEAN : Q!CheckpointOutbox(w, done) => Queue!CheckpointOutbox(w, done)
  BY <1>1 DEF Q!CheckpointOutbox, Queue!CheckpointOutbox
<1>3. Q!FailOutbox(w) => Queue!FailOutbox(w)
  BY <1>1 DEF Q!FailOutbox, Queue!FailOutbox, Q!FailedRow, Queue!FailedRow,
              Q!RetryDelay, Queue!RetryDelay, Q!Least, Queue!Least
<1>4. Q!Stale(w) => Queue!Stale(w)
  BY <1>1 DEF Q!Stale, Queue!Stale
<1>5. Q!Crash(w) => Queue!Crash(w)
  BY <1>1 DEF Q!Crash, Queue!Crash
<1> QED BY <1>2, <1>3, <1>4, <1>5

LEMMA QueueTypes ==
  /\ Queue!Init => Queue!TypeOK
  /\ Queue!TypeOK /\ [Queue!Next]_Queue!outboxVars => Queue!TypeOK'
<1>1. Queue!OutboxAssumption
  BY QueueAssumption DEF Q!OutboxAssumption, Queue!OutboxAssumption, Q!IsFiniteSet, Queue!IsFiniteSet
<1> QED BY <1>1, Queue!InitType, Queue!NextType

TokensBounded == \A w \in Workers : hold[w].busy => hold[w].token <= MaxToken
RestIsBlank == \A w \in Workers : ~hold[w].busy => worker[w].pc = "idle" /\ seen[w] = "none"
DrivesItsEvent ==
  \A w \in Workers : hold[w].busy /\ worker[w].pc # "idle" => worker[w].att = hold[w].event
SeenIsFinal == \A w \in Workers : seen[w] \in Terminal => attempt[hold[w].event].state \in Terminal

ToolInv ==
  /\ IInv /\ Released
  /\ Queue!TypeOK /\ seen \in [Workers -> State \cup {"none"}]
  /\ TokensBounded
  /\ RestIsBlank /\ DrivesItsEvent /\ SeenIsFinal
  /\ CompletedIsDecided

\* What a worker holds afterwards: what it held, nothing, or a new claim.
HoldMoves(w) ==
  /\ \A v \in Workers : v # w => hold'[v] = hold[v]
  /\ \/ hold'[w] = hold[w]
     \/ ~hold'[w].busy
     \/ ~hold[w].busy /\ hold'[w].token <= MaxToken

LEMMA ReleaseMoves ==
  ASSUME Queue!TypeOK, NEW w \in Workers, Q!Release(w) PROVE HoldMoves(w) /\ ~hold'[w].busy
BY DEF Q!Release, Q!NoHold, HoldMoves, Queue!TypeOK

LEMMA ClaimMoves ==
  ASSUME Queue!TypeOK, NEW w \in Workers, NEW e \in Attempts, Q!Claim(w, e)
  PROVE  /\ HoldMoves(w) /\ ~hold[w].busy
         /\ \A f \in Attempts : outbox'[f].state = "COMPLETED" => outbox[f].state = "COMPLETED"
<1>1. outbox[e] \in Queue!Row /\ outbox[e].token < MaxToken /\ MaxToken \in Nat
  BY QueueAssumption DEF Q!Claim, Q!OutboxAssumption, Queue!TypeOK
<1>2. outbox[e].token + 1 <= MaxToken
  BY <1>1 DEF Queue!Row
<1>3. hold'[w].token = outbox[e].token + 1 /\ \A v \in Workers : v # w => hold'[v] = hold[v]
  BY DEF Q!Claim, Queue!TypeOK
<1>4. outbox'[e].state = "LEASED" /\ \A f \in Attempts : f # e => outbox'[f] = outbox[f]
  BY <1>1 DEF Q!Claim, Queue!TypeOK, Queue!Row
<1> QED BY <1>2, <1>3, <1>4 DEF Q!Claim, HoldMoves

\* An end that leaves the event as it was is a postponement, or the lease was gone.
LEMMA LeftAsItWas ==
  ASSUME Queue!TypeOK, TokensBounded, NEW w \in Workers,
         Q!Abandon(w) \/ Q!CheckpointOutbox(w, FALSE)
  PROVE  Queue!Next
<1>1. Q!Stale(w) \/ Q!CheckpointOutbox(w, FALSE)
  BY DEF Q!Abandon, Q!Stale, Q!CheckpointOutbox
<1>2. CASE Q!Stale(w)
  BY <1>2, SameEnds DEF Queue!Next, Queue!WorkerStep, Queue!Report
<1>3. CASE Q!CheckpointOutbox(w, FALSE)
  <2>1. hold[w].token <= MaxToken
    BY <1>3 DEF Q!CheckpointOutbox, TokensBounded
  <2> QED BY <1>3, <2>1, SameEnds DEF Queue!Next, Queue!WorkerStep, Queue!Postpone
<1> QED BY <1>1, <1>2, <1>3

\* Every step of the composition is a step of the outbox, and completes an event
\* only when the worker has seen a verdict.
LEMMA QueueStep ==
  ASSUME ToolInv, [ToolNext]_toolVars
  PROVE  /\ [Queue!Next]_Queue!outboxVars
         /\ hold' = hold \/ \E w \in Workers : HoldMoves(w)
         /\ \A e \in Attempts : outbox'[e].state = "COMPLETED" =>
              outbox[e].state = "COMPLETED" \/ attempt[e].state \in Terminal
<1> DEFINE Done == \A e \in Attempts : outbox'[e].state = "COMPLETED" =>
                     outbox[e].state = "COMPLETED" \/ attempt[e].state \in Terminal
<1>0. Queue!TypeOK /\ TokensBounded
  BY DEF ToolInv
<1>1. ASSUME NEW a \in Attempts, SubmitDemoTool(a)
      PROVE  Queue!Next /\ hold' = hold /\ Done
  <2>1. Queue!Next
    BY <1>1, SameQueue DEF SubmitDemoTool, Queue!Next, Queue!Append
  <2>2. outbox'[a].state = "PENDING" /\ \A e \in Attempts : e # a => outbox'[e] = outbox[e]
    BY <1>0, <1>1 DEF SubmitDemoTool, Q!AppendOutbox, Queue!TypeOK, Queue!Row
  <2> QED BY <1>1, <2>1, <2>2 DEF SubmitDemoTool, Q!AppendOutbox
<1>2. ASSUME NEW w \in Workers, PollEvent(w) \/ ProcessEvent(w)
      PROVE  Queue!Next /\ HoldMoves(w) /\ Done
  <2>1. Queue!Next
    BY <1>2, SameClaims DEF PollEvent, ProcessEvent, Queue!Next, Queue!WorkerStep
  <2>2. PICK e \in Attempts : Q!Claim(w, e)
    BY <1>2 DEF PollEvent, ProcessEvent, Q!Poll, Q!ClaimNextOutbox, Q!ClaimOutbox
  <2> QED BY <1>0, <2>1, <2>2, ClaimMoves
<1>3. ASSUME NEW w \in Workers, Prepare(w) \/ Work(w) \/ Record(w)
      PROVE  UNCHANGED <<outbox, hold, spent>>
  BY <1>3 DEF Prepare, Work, Record, queueVars
<1>4. ASSUME NEW w \in Workers, Settle(w)
      PROVE  Queue!Next /\ HoldMoves(w) /\ Done
  <2>1. CASE seen[w] \in Terminal
    <3>1. Q!CheckpointOutbox(w, TRUE)
      BY <1>4, <2>1 DEF Settle
    <3>2. Queue!Next
      BY <3>1, SameEnds DEF Queue!Next, Queue!WorkerStep, Queue!Report
    <3>3. \A e \in Attempts : e # hold[w].event => outbox'[e] = outbox[e]
      BY <1>0, <3>1 DEF Q!CheckpointOutbox, Queue!TypeOK
    <3>4. attempt[hold[w].event].state \in Terminal
      BY <2>1 DEF ToolInv, SeenIsFinal
    <3> QED BY <1>0, <3>1, <3>2, <3>3, <3>4, ReleaseMoves DEF Q!CheckpointOutbox
  <2>2. CASE seen[w] \notin Terminal
    <3>1. Q!CheckpointOutbox(w, FALSE)
      BY <1>4, <2>2 DEF Settle, Q!CheckpointOutbox
    <3>2. outbox' = outbox
      BY <3>1 DEF Q!CheckpointOutbox
    <3> QED BY <1>0, <3>1, <3>2, LeftAsItWas, ReleaseMoves DEF Q!CheckpointOutbox
  <2> QED BY <2>1, <2>2
<1>5. ASSUME NEW w \in Workers, Q!Stale(w) \/ Q!Abandon(w) \/ Q!Crash(w)
      PROVE  Queue!Next /\ HoldMoves(w) /\ Done
  <2>1. outbox' = outbox /\ Q!Release(w)
    BY <1>5 DEF Q!Stale, Q!Abandon, Q!Crash
  <2>2. Queue!Next
    BY <1>0, <1>5, SameEnds, LeftAsItWas DEF Queue!Next, Queue!WorkerStep, Queue!Report
  <2> QED BY <1>0, <2>1, <2>2, ReleaseMoves
<1>6. ASSUME NEW w \in Workers, Q!FailOutbox(w)
      PROVE  Queue!Next /\ HoldMoves(w) /\ Done
  <2>1. Queue!Next
    BY <1>6, SameEnds DEF Queue!Next, Queue!WorkerStep, Queue!Report
  <2>2. hold[w].event \in Attempts /\ outbox[hold[w].event] \in Queue!Row
    BY <1>0 DEF Queue!TypeOK, Queue!Hold
  <2>3. /\ outbox'[hold[w].event].state \in {"DEAD", "RETRY"}
        /\ \A e \in Attempts : e # hold[w].event => outbox'[e] = outbox[e]
    BY <1>0, <1>6, <2>2 DEF Q!FailOutbox, Q!FailedRow, Queue!TypeOK, Queue!Row
  <2> QED BY <1>0, <1>6, <2>1, <2>2, <2>3, ReleaseMoves DEF Q!FailOutbox
<1>7. ASSUME NEW w \in Workers, Fail(w) \/ SettleStale(w) \/ Die(w)
      PROVE  Queue!Next /\ HoldMoves(w) /\ Done
  BY <1>5, <1>6, <1>7 DEF Fail, SettleStale, Die
<1>8. ASSUME Operate \/ UNCHANGED toolVars PROVE UNCHANGED <<outbox, hold, spent>>
  BY <1>8 DEF Operate, toolVars, queueVars
<1>9. ASSUME Clock PROVE [Queue!Next]_Queue!outboxVars /\ hold' = hold /\ Done
  <2>1. CASE Q!Tick
    <3>1. Queue!Next
      BY <2>1, SameQueue DEF Queue!Next
    <3>2. \A e \in Attempts : outbox'[e].state = outbox[e].state
      BY <1>0, <2>1 DEF Q!Tick, Queue!TypeOK, Queue!Row
    <3> QED BY <2>1, <3>1, <3>2 DEF Q!Tick
  <2>2. CASE UNCHANGED queueVars
    BY <2>2 DEF queueVars, Queue!outboxVars
  <2> QED BY <1>9, <2>1, <2>2 DEF Clock
<1>10. ASSUME UNCHANGED <<outbox, hold, spent>>
       PROVE  [Queue!Next]_Queue!outboxVars /\ hold' = hold /\ Done
  BY <1>10 DEF Queue!outboxVars
<1> HIDE DEF Done
<1>11. [Queue!Next]_Queue!outboxVars /\ (hold' = hold \/ \E w \in Workers : HoldMoves(w)) /\ Done
  BY <1>1, <1>2, <1>3, <1>4, <1>7, <1>8, <1>9, <1>10 DEF ToolNext, Drives
<1> QED BY <1>11 DEF Done

\* Going back to the caller is a death as far as the ledger is concerned.
LEMMA ReturnKeeps ==
  ASSUME IInv, Released, NEW w \in Workers, Return(w)
  PROVE  IInv' /\ Released' /\ attempt' = attempt
<1>1. /\ ledger' = ledger /\ attempt' = attempt
      /\ \A v \in Workers : v # w => worker'[v] = worker[v]
      /\ worker'[w].pc = "idle" /\ worker' \in [Workers -> Job]
  BY IdleJobType DEF Return, IInv, TypeOK, IdleJob
<1>2. \A v \in Workers : PastClaim(v)' => v # w /\ PastClaim(v) /\ worker'[v] = worker[v]
  BY <1>1 DEF PastClaim
<1>3. VerdictIsTrue' /\ AnswersTrue' /\ SendsCommitted' /\ FreshUnclaimed' /\ Released'
  BY <1>1 DEF IInv, VerdictIsTrue, AnswersTrue, SendsCommitted, FreshUnclaimed, Released
<1>4. TokensFence'
  BY <1>1, <1>2 DEF IInv, TokensFence
<1>5. TypeOK'
  BY <1>1 DEF Return, gateVars, IInv, TypeOK
<1> QED BY <1>1, <1>3, <1>4, <1>5 DEF IInv

LEMMA LedgerStep ==
  ASSUME ToolInv, [ToolNext]_toolVars
  PROVE  /\ [Next]_vars \/ \E w \in Workers : Return(w)
         /\ IInv' /\ Released'
         /\ \A a \in Attempts : attempt[a].state \in Terminal => attempt'[a] = attempt[a]
<1>1. ASSUME NEW w \in Workers, Prepare(w) \/ Work(w) \/ Record(w) PROVE Next
  <2>1. hold[w].event \in Attempts
    BY DEF ToolInv, Queue!TypeOK, Queue!Hold
  <2> QED BY <1>1, <2>1 DEF Prepare, Work, Record, Next, WorkerStep, Drive
<1>2. ASSUME NEW w \in Workers, Settle(w) \/ SettleStale(w) \/ Fail(w) \/ Die(w) PROVE Return(w)
  BY <1>2 DEF Settle, SettleStale, Fail, Die
<1>3. ASSUME \/ \E a \in Attempts : SubmitDemoTool(a)
             \/ \E w \in Workers : PollEvent(w) \/ ProcessEvent(w)
             \/ UNCHANGED toolVars
      PROVE  UNCHANGED vars
  BY <1>3 DEF SubmitDemoTool, PollEvent, ProcessEvent, toolVars, executionVars
<1>4. ASSUME Operate \/ Clock PROVE [Next]_vars
  BY <1>4 DEF Operate, Clock, Next, executionVars
<1>5. [Next]_vars \/ \E w \in Workers : Return(w)
  BY <1>1, <1>2, <1>3, <1>4 DEF ToolNext, Drives
<1>6. CASE [Next]_vars
  BY <1>5, <1>6, NextIInv, NextReleased, TerminalStep DEF ToolInv, IInv, Released
<1>7. CASE \E w \in Workers : Return(w)
  BY <1>5, <1>7, ReturnKeeps DEF ToolInv
<1> QED BY <1>5, <1>6, <1>7

\* What one worker remembers is its own: it is enough to look at who steps.
LEMMA OwnMemory ==
  ASSUME ToolInv, [ToolNext]_toolVars, NEW w \in Workers,
         \A v \in Workers : v # w => hold'[v] = hold[v] /\ worker'[v] = worker[v] /\ seen'[v] = seen[v],
         ~hold'[w].busy => worker'[w].pc = "idle" /\ seen'[w] = "none",
         hold'[w].busy /\ worker'[w].pc # "idle" => worker'[w].att = hold'[w].event,
         seen'[w] \in Terminal => attempt'[hold'[w].event].state \in Terminal
  PROVE  RestIsBlank' /\ DrivesItsEvent' /\ SeenIsFinal'
<1>1. RestIsBlank' /\ DrivesItsEvent'
  BY DEF ToolInv, RestIsBlank, DrivesItsEvent
<1>2. SeenIsFinal'
  <2> SUFFICES ASSUME NEW v \in Workers, v # w, seen[v] \in Terminal
               PROVE  attempt'[hold[v].event].state \in Terminal
    BY DEF SeenIsFinal
  <2>1. hold[v].event \in Attempts /\ attempt[hold[v].event].state \in Terminal
    BY DEF ToolInv, SeenIsFinal, Queue!TypeOK, Queue!Hold
  <2> QED BY <2>1, LedgerStep
<1> QED BY <1>1, <1>2

LEMMA MemoryStep ==
  ASSUME ToolInv, [ToolNext]_toolVars
  PROVE  /\ seen' \in [Workers -> State \cup {"none"}]
         /\ RestIsBlank' /\ DrivesItsEvent' /\ SeenIsFinal'
<1>0. /\ seen \in [Workers -> State \cup {"none"}]
      /\ \A w \in Workers : worker[w] \in Job /\ worker[w].att \in Attempts
                            /\ hold[w].event \in Attempts /\ hold[w].busy \in BOOLEAN
      /\ worker \in [Workers -> Job] /\ hold \in [Workers -> Queue!Hold]
      /\ \A a \in Attempts : attempt'[a].state \in State
  <2>1. TypeOK /\ TypeOK'
    BY LedgerStep DEF ToolInv, IInv
  <2> QED BY <2>1 DEF ToolInv, TypeOK, Job, Attempt, Queue!TypeOK, Queue!Hold
<1>1. ASSUME NEW w \in Workers, PollEvent(w) \/ ProcessEvent(w)
      PROVE  RestIsBlank' /\ DrivesItsEvent' /\ SeenIsFinal' /\ seen' = seen
  <2>1. PICK e \in Attempts : Q!Claim(w, e)
    BY <1>1 DEF PollEvent, ProcessEvent, Q!Poll, Q!ClaimNextOutbox, Q!ClaimOutbox
  <2>2. worker' = worker /\ seen' = seen
    BY <1>1 DEF PollEvent, ProcessEvent, executionVars, vars
  <2>3. ~hold[w].busy /\ hold'[w].busy /\ \A v \in Workers : v # w => hold'[v] = hold[v]
    BY <1>0, <2>1 DEF Q!Claim
  <2>4. worker[w].pc = "idle" /\ seen[w] = "none"
    BY <2>3 DEF ToolInv, RestIsBlank
  <2> QED BY <2>2, <2>3, <2>4, OwnMemory DEF Terminal
<1>2. ASSUME NEW w \in Workers, Settle(w) \/ SettleStale(w) \/ Fail(w) \/ Die(w)
      PROVE  /\ RestIsBlank' /\ DrivesItsEvent' /\ SeenIsFinal'
             /\ seen' \in [Workers -> State \cup {"none"}]
  <2>1. Return(w) /\ Q!Release(w)
    BY <1>2 DEF Settle, SettleStale, Fail, Die, Q!CheckpointOutbox, Q!Stale, Q!Abandon, Q!FailOutbox, Q!Crash
  <2>2. /\ \A v \in Workers : v # w => hold'[v] = hold[v] /\ worker'[v] = worker[v] /\ seen'[v] = seen[v]
        /\ ~hold'[w].busy /\ worker'[w].pc = "idle" /\ seen'[w] = "none"
    BY <1>0, <2>1, ReleaseMoves DEF ToolInv, Return, HoldMoves, IdleJob
  <2>3. seen' \in [Workers -> State \cup {"none"}]
    BY <1>0, <2>1 DEF Return
  <2> QED BY <2>2, <2>3, OwnMemory DEF Terminal
<1>3. ASSUME NEW w \in Workers, Prepare(w)
      PROVE  /\ RestIsBlank' /\ DrivesItsEvent' /\ SeenIsFinal'
             /\ seen' \in [Workers -> State \cup {"none"}]
  <2>1. /\ hold' = hold /\ hold[w].busy
        /\ seen' = [seen EXCEPT ![w] = attempt'[hold[w].event].state]
        /\ PrepareAttempt(w, hold[w].event)
    BY <1>3 DEF Prepare, Fresh, Driving, queueVars
  <2>2. PICK n : worker' = [worker EXCEPT ![w] =
                              [IdleJob EXCEPT !.pc = "loaded", !.att = hold[w].event, !.version = n]]
    BY <2>1 DEF PrepareAttempt
  <2>3. /\ \A v \in Workers : v # w => worker'[v] = worker[v]
        /\ worker'[w].att = hold[w].event
    BY <1>0, <2>2 DEF IdleJob
  <2>4. /\ \A v \in Workers : v # w => seen'[v] = seen[v]
        /\ seen'[w] = attempt'[hold[w].event].state
        /\ seen' \in [Workers -> State \cup {"none"}]
    BY <1>0, <2>1
  <2> QED BY <2>1, <2>3, <2>4, OwnMemory
<1>4. ASSUME NEW w \in Workers, Work(w)
      PROVE  RestIsBlank' /\ DrivesItsEvent' /\ SeenIsFinal' /\ seen' = seen
  <2>1. hold' = hold /\ seen' = seen /\ hold[w].busy /\ seen[w] \notin Terminal
    BY <1>4 DEF Work, Driving, queueVars, Pursued, Terminal
  <2>2. /\ worker[w].pc # "idle" /\ worker'[w].att = worker[w].att
        /\ \A v \in Workers : v # w => worker'[v] = worker[v]
    BY <1>0, <1>4 DEF Work, ClaimAttempt, BeginDispatch, Execute, BeginReconciliation, Lookup, Job
  <2>3. worker[w].att = hold[w].event
    BY <2>1, <2>2 DEF ToolInv, DrivesItsEvent
  <2> QED BY <2>1, <2>2, <2>3, OwnMemory
<1>5. ASSUME NEW w \in Workers, Record(w)
      PROVE  /\ RestIsBlank' /\ DrivesItsEvent' /\ SeenIsFinal'
             /\ seen' \in [Workers -> State \cup {"none"}]
  <2>1. /\ hold' = hold /\ hold[w].busy /\ worker[w].pc = "answered"
        /\ worker' = [worker EXCEPT ![w] = IdleJob]
        /\ seen' = [seen EXCEPT ![w] = attempt'[worker[w].att].state]
    BY <1>5 DEF Record, Driving, queueVars, RecordObservation
  <2>2. worker[w].att = hold[w].event
    BY <2>1 DEF ToolInv, DrivesItsEvent
  <2>3. /\ \A v \in Workers : v # w => worker'[v] = worker[v]
        /\ worker'[w].pc = "idle"
    BY <1>0, <2>1 DEF IdleJob
  <2>4. /\ \A v \in Workers : v # w => seen'[v] = seen[v]
        /\ seen'[w] = attempt'[hold[w].event].state
        /\ seen' \in [Workers -> State \cup {"none"}]
    BY <1>0, <2>1, <2>2
  <2> QED BY <2>1, <2>3, <2>4, OwnMemory
<1>6. ASSUME (\E a \in Attempts : SubmitDemoTool(a)) \/ Operate \/ Clock \/ UNCHANGED toolVars
      PROVE  RestIsBlank' /\ DrivesItsEvent' /\ SeenIsFinal' /\ seen' = seen
  <2>1. hold' = hold /\ seen' = seen
    BY <1>6 DEF SubmitDemoTool, Operate, Clock, toolVars, queueVars, Q!AppendOutbox, Q!Tick
  <2>2. worker' = worker
    BY <1>6 DEF SubmitDemoTool, Operate, Clock, toolVars, executionVars, vars, Tick, Environment,
                SetDemoStop, SetDemoControl, ChangeAuthority, RegisterAdapterManifest, ConfigureProvider
  <2>3. RestIsBlank' /\ DrivesItsEvent'
    BY <2>1, <2>2 DEF ToolInv, RestIsBlank, DrivesItsEvent
  <2>4. SeenIsFinal'
    <3> SUFFICES ASSUME NEW v \in Workers, seen[v] \in Terminal
                 PROVE  attempt'[hold[v].event].state \in Terminal
      BY <2>1 DEF SeenIsFinal
    <3>1. attempt[hold[v].event].state \in Terminal
      BY DEF ToolInv, SeenIsFinal
    <3> QED BY <1>0, <3>1, LedgerStep
  <2> QED BY <2>1, <2>3, <2>4
<1> QED BY <1>0, <1>1, <1>2, <1>3, <1>4, <1>5, <1>6 DEF ToolNext, Drives

LEMMA InitToolInv == ToolInit => ToolInv /\ Queue!Init
<1> SUFFICES ASSUME ToolInit PROVE ToolInv /\ Queue!Init
  OBVIOUS
<1>1. Queue!Init /\ Queue!TypeOK
  BY SameQueue, QueueTypes DEF ToolInit
<1>2. IInv /\ Released
  BY InitIInv DEF ToolInit, Init, Released, NewAttempt, Terminal
<1>3. \A w \in Workers : hold[w].busy = FALSE /\ seen[w] = "none" /\ worker[w].pc = "idle"
  BY DEF ToolInit, Q!Init, Q!NoHold, Init, IdleJob
<1>4. seen \in [Workers -> State \cup {"none"}]
  BY DEF ToolInit
<1>5. CompletedIsDecided
  BY DEF ToolInit, Q!Init, Q!NewRow, CompletedIsDecided
<1> QED BY <1>1, <1>2, <1>3, <1>4, <1>5
    DEF ToolInv, TokensBounded, RestIsBlank, DrivesItsEvent, SeenIsFinal, Terminal

LEMMA ToolStep == ToolInv /\ [ToolNext]_toolVars => ToolInv' /\ [Queue!Next]_Queue!outboxVars
<1> SUFFICES ASSUME ToolInv, [ToolNext]_toolVars
             PROVE  ToolInv' /\ [Queue!Next]_Queue!outboxVars
  OBVIOUS
<1>1. [Queue!Next]_Queue!outboxVars /\ Queue!TypeOK'
  BY QueueStep, QueueTypes DEF ToolInv
<1>2. TokensBounded'
  BY QueueStep DEF ToolInv, TokensBounded, HoldMoves
<1>3. CompletedIsDecided'
  BY QueueStep, LedgerStep DEF ToolInv, CompletedIsDecided
<1> QED BY <1>1, <1>2, <1>3, LedgerStep, MemoryStep DEF ToolInv

LEMMA ToolInvariant == ToolSpec => []ToolInv
BY InitToolInv, ToolStep, PTL DEF ToolSpec

\* An event is completed only when the attempt behind it has its verdict: what the
\* worker saw several transactions ago is still so when it completes the event
\* (_drive's last call), for any number of workers, events and bounds, whatever
\* dies, lapses or is taken over in between.
THEOREM CompletedAreDecided == ToolSpec => []CompletedIsDecided
<1>1. ToolInv => CompletedIsDecided
  BY DEF ToolInv
<1> QED BY <1>1, ToolInvariant, PTL

\* Ledger, outbox and what the tool worker remembers between its transactions keep
\* their declared shape (tool_worker.py, _drive).
THEOREM ToolTypeCorrect == ToolSpec => []ToolTypeOK
<1>1. IInv => TypeOK
  BY DEF IInv
<1>2. Queue!TypeOK => Q!TypeOK
  <2>1. Queue!Row = Q!Row /\ Queue!Hold = Q!Hold
    BY DEF Queue!Row, Q!Row, Queue!Hold, Q!Hold, Queue!EventState, Q!EventState, Queue!Ids, Q!Ids
  <2> QED BY <2>1 DEF Queue!TypeOK, Q!TypeOK
<1>3. ToolInv => ToolTypeOK
  BY <1>1, <1>2 DEF ToolInv, ToolTypeOK
<1> QED BY <1>3, ToolInvariant, PTL

\* Driven by the tool worker, which drops what it knows whenever a call raises, the
\* ledger's verdicts are true and its leases exclusive as they are on their own.
THEOREM DrivenLedgerIsSound == ToolSpec => [](VerdictIsTrue /\ LeaseExclusive)
<1>1. IInv => VerdictIsTrue /\ LeaseExclusive
  BY DEF IInv, LeaseExclusive, TokensFence, Leased
<1>2. ToolInv => VerdictIsTrue /\ LeaseExclusive
  BY <1>1 DEF ToolInv
<1> QED BY <1>2, ToolInvariant, PTL

\* The composition implements the outbox: every step of the tool worker is one of
\* the outbox or leaves it alone (claim, checkpoint, fail, abandon).
THEOREM DrivesTheOutbox == ToolSpec => Queue!Spec
BY InitToolInv, ToolStep, ToolInvariant, PTL DEF ToolSpec, Queue!Spec

\* Hence what the outbox promises on its own it promises under the tool worker: one
\* process per event passes the lease test, events of an aggregate start in order,
\* and completed or dead events stay so (claim_outbox, checkpoint_outbox, fail_outbox).
THEOREM DrivenOutboxIsSound ==
  ToolSpec => [](Queue!OneHolder /\ Queue!InOrder) /\ Queue!FinishedForever
<1>1. Queue!OutboxAssumption
  BY QueueAssumption DEF Q!OutboxAssumption, Queue!OutboxAssumption, Q!IsFiniteSet, Queue!IsFiniteSet
<1>2. Queue!Spec => []Queue!OneHolder
  BY <1>1, Queue!LeasesAreExclusive
<1>3. Queue!Spec => []Queue!InOrder
  BY <1>1, Queue!AggregatesInOrder
<1>4. Queue!Spec => Queue!FinishedForever
  BY <1>1, Queue!FinishedIsFinal
<1> QED BY <1>2, <1>3, <1>4, DrivesTheOutbox, PTL

=============================================================================
