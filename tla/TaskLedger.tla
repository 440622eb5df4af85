----------------------------- MODULE TaskLedger -----------------------------
(***************************************************************************)
(* The control plane's task file (smart_store_control/pm.py), what its      *)
(* loop guard says of a task (loopguard.py), what triage does about it      *)
(* (triage.py, escalation.py) and the capacity of the lanes (state.py).     *)
(*                                                                         *)
(* A note stands for the failure it reports: its signature and its cause.   *)
(* Of the list of attempts a row keeps what the loop guard asks of it: how   *)
(* many there are, the last failure, and how often it came in a row.  Each   *)
(* attempt takes one unit of worker time.  The prompts, instructions and     *)
(* reports built from a task are left out.                                   *)
(***************************************************************************)
EXTENDS Naturals, FiniteSets

CONSTANTS
  Ids,            \* task ids
  Priority,       \* [Ids -> Nat]
  Lanes,          \* implementer lanes; "local" shares the model with AIOS
  ForLane,        \* [Ids -> Lanes \cup {"any"}], preferred_lane
  Slots,          \* [Lanes -> Nat], pool sizes
  Floor,          \* operator_floor
  CodexEnabled,   \* codex_enabled()
  MaxAttempts,    \* 6
  RepeatLimit,    \* 3
  AfterRemedy,    \* AFTER_REMEDY_ATTEMPTS, 3
  TimeBudget,     \* TIME_BUDGET_SECONDS, in attempts
  MaxRetries,     \* 3
  Nobody

ASSUME LedgerAssumption ==
  /\ Ids \subseteq Nat /\ IsFiniteSet(Ids)
  /\ "local" \in Lanes
  /\ Slots \in [Lanes -> Nat] /\ Priority \in [Ids -> Nat]
  /\ ForLane \in [Ids -> Lanes \cup {"any"}]
  /\ {MaxAttempts, AfterRemedy, MaxRetries, TimeBudget} \subseteq Nat \ {0}
  /\ RepeatLimit \in Nat \ {0, 1}

VARIABLES
  tasks,    \* tasks.json
  runtime   \* runtime.json, and the slots AIOS leaves free

ledger == <<tasks, runtime>>

Active == {"in_progress", "reviewing"}
Status == Active \cup {"ABSENT", "ready", "needs_review", "reviewed", "needs_decision", "blocked",
                       "escalated", "done", "planned", "superseded"}

\* what snapshot joins of runtime.json and the probe of AIOS
Runtime == [granted : BOOLEAN, refused : BOOLEAN, free : Nat, paused : SUBSET Lanes]

NewTask == [status |-> "ready", holder |-> Nobody, claude |-> FALSE, artifact |-> FALSE, retry |-> 0,
            tries |-> 0, last |-> "", streak |-> 0, guard |-> 0, note |-> "", job |-> "none"]
Absent == [NewTask EXCEPT !.status = "ABSENT"]

With(s) == {t \in Ids : tasks[t].status \in s}

\* the first n in order of priority and id
Take(S, n) ==
  LET Before(t, u) == Priority[t] > Priority[u] \/ (Priority[t] = Priority[u] /\ t < u)
  IN  {t \in S : Cardinality({u \in S : Before(u, t)}) < n}

Smaller(a, b) == IF a < b THEN a ELSE b
Larger(a, b) == IF a > b THEN a ELSE b

\* effective_capacity
Effective(lane) ==
  IF lane # "local" THEN IF lane \in runtime.paused THEN 0 ELSE Slots[lane]
  ELSE IF runtime.granted THEN Larger(Smaller(Slots["local"], runtime.free), Smaller(Slots["local"], Floor))
  ELSE 0

\* grant_handoff
Granted == [runtime EXCEPT !.granted = runtime.free > 0, !.refused = @ /\ runtime.free = 0]

\* revoke_handoff
Revoked == [runtime EXCEPT !.granted = FALSE, !.refused = TRUE]

\* pause_lane
Paused(lane) == [runtime EXCEPT !.paused = @ \cup {lane}]

(***************************************************************************)
(* The loop guard.                                                         *)
(***************************************************************************)
\* record; past the time budget the number of attempts decides nothing more
Recorded(row, note) ==
  [row EXCEPT !.tries = Smaller(@ + 1, TimeBudget + 1), !.last = note,
              !.streak = IF row.last # note THEN 1 ELSE Smaller(@ + 1, RepeatLimit)]

Unfixable == {"infra", "paused", "orphaned"}

\* causes with an instruction for the next attempt
Instructed == {"gate", "red", "apply", "turns", "slow", "stray", "no_plan", "refused"}

\* baseline_red: the same tests fail in another task's gate
BaselineRed(t) == tasks[t].note = "red" /\ \E u \in Ids \ {t} : tasks[u].note = "red"

\* verdict
Verdict(t) ==
  LET row == tasks[t]
      recent == row.tries - row.guard
      again == recent >= 2 /\ row.streak >= 2
      repeated == row.streak >= RepeatLimit
      fixable == row.last \in Instructed \ Unfixable /\ ~BaselineRed(t)
  IN  IF row.tries = 0 THEN "none"
      ELSE IF row.tries > TimeBudget THEN "escalate"
      ELSE IF row.guard > 0
        THEN IF again \/ recent >= AfterRemedy THEN "escalate" ELSE "none"
      ELSE IF repeated \/ row.tries >= MaxAttempts
        THEN IF fixable THEN "remediate" ELSE "escalate"
      ELSE "none"

(***************************************************************************)
(* Triage.                                                                 *)
(***************************************************************************)
ToQueue(row, note) == [row EXCEPT !.status = "ready", !.holder = Nobody, !.claude = FALSE, !.note = note]

\* classify: causes with a remedy that costs no retry
Remedied == {"infra", "paused", "slow", "landing", "missing"}

\* hand_to_codex joins a job of this task that has not ended
Escalate(row, codex) ==
  IF codex /\ CodexEnabled
  THEN [row EXCEPT !.status = "escalated", !.holder = Nobody, !.claude = FALSE, !.job = "waiting", !.note = "codex"]
  ELSE [row EXCEPT !.status = "blocked", !.holder = Nobody, !.claude = TRUE]

Guarded(t) == tasks[t].status \in {"blocked", "ready", "needs_review"} /\ ~tasks[t].claude /\ Verdict(t) # "none"

\* _loop_guard
LoopGuard(t) ==
  LET row == [tasks[t] EXCEPT !.guard = tasks[t].tries, !.note = "guard"]
  IN  IF Verdict(t) = "remediate"
      THEN [ToQueue(row, "guard") EXCEPT !.retry = 0]
      ELSE Escalate(row, row.last \notin Unfixable /\ ~BaselineRed(t))

\* Mutant of Classified: a decision nobody took for six hours is a rejection.
ClassifiedImpatient(t) ==
  LET row == tasks[t]
  IN  IF row.status = "blocked" /\ row.note \in Remedied THEN ToQueue(row, "triage")
      ELSE IF row.status = "needs_decision" THEN [row EXCEPT !.status = "blocked", !.note = "rejected"]
      ELSE row

Classified(t) ==
  LET row == tasks[t]
  IN  IF row.status = "blocked" /\ row.note \in Remedied THEN ToQueue(row, "triage")
      ELSE IF row.status = "blocked" /\ row.retry >= MaxRetries /\ ~row.claude /\ row.job = "none"
        THEN Escalate(row, TRUE)
      ELSE IF row.status = "escalated" /\ row.job = "landed" THEN [row EXCEPT !.status = "done"]
      ELSE IF row.status = "escalated" /\ row.job \in {"dead", "late"}
        THEN [row EXCEPT !.status = "blocked", !.claude = TRUE, !.note = "codex"]
      ELSE row

\* Mutant of Triaged: the loop guard is not asked.
TriagedUnguarded(t) == Classified(t)

Triaged(t) == IF Guarded(t) THEN LoopGuard(t) ELSE Classified(t)

(***************************************************************************)
(* Rows as the operations of pm.py leave them.                             *)
(***************************************************************************)
Candidates(lane) == {t \in With({"ready"}) : ForLane[t] \in {"any", lane}}

Held(row, status, w) == [row EXCEPT !.status = status, !.holder = w, !.claude = FALSE]

\* finish and finish_review
Finished(row, status, note) ==
  [IF status = "blocked" THEN Recorded(row, note) ELSE row EXCEPT
     !.status = status, !.claude = FALSE, !.note = note]

\* requeue_stale
Orphaned(row) ==
  [Recorded(row, "orphaned") EXCEPT
     !.status = IF @ = "reviewing" THEN "needs_review" ELSE "ready",
     !.holder = Nobody, !.claude = FALSE, !.note = "orphaned"]

Reopenable == {t \in With({"blocked"}) : tasks[t].retry < MaxRetries /\ Verdict(t) = "none"}

\* requeue_blocked
Reopened(row) == [ToQueue(row, "retry") EXCEPT !.retry = @ + 1]

Actions == {"retry", "approve", "reject", "rereview", "park", "supersede"}

\* Mutant of MayAct: a task somebody works on is not spared.
MayActAnytime(row, action) ==
  /\ action \in {"approve", "reject"} => row.status = "needs_decision"
  /\ action = "rereview" => row.artifact

\* operator_action: what it refuses
MayAct(row, action) ==
  /\ row.status \notin Active
  /\ action \in {"approve", "reject"} => row.status = "needs_decision"
  /\ action = "rereview" => row.artifact

Acted(row, action) ==
  CASE action = "retry"     -> [ToQueue(row, "retry") EXCEPT !.retry = 0]
    [] action = "approve"   -> [row EXCEPT !.status = "reviewed", !.claude = FALSE]
    [] action = "reject"    -> [row EXCEPT !.status = "blocked", !.claude = FALSE, !.retry = 99, !.note = "rejected"]
    [] action = "rereview"  -> [row EXCEPT !.status = "needs_review", !.claude = FALSE]
    [] action = "park"      -> [row EXCEPT !.status = "planned", !.holder = Nobody, !.claude = FALSE]
    [] action = "supersede" -> [row EXCEPT !.status = "superseded", !.holder = Nobody, !.claude = FALSE]
=============================================================================
