---------------------------- MODULE ControlPool ----------------------------
(***************************************************************************)
(* The control plane at work: the autopilot's tick (autopilot.py), the      *)
(* recovery it starts (recovery.py), implementers (worker.py), reviewers    *)
(* (review.py), landing (land.py), the operator's requests (server.py), a   *)
(* worker started from the command line, and restarts of the server.        *)
(*                                                                         *)
(* Every step is one hold of the ledger's lock, or one stretch between two. *)
(* A worker is its name; a task's patch file is one per task, as in         *)
(* artifacts/task-<id>.patch.  Patches are told apart by whether the gate's *)
(* tests pass on them.                                                     *)
(***************************************************************************)
EXTENDS TaskLedger, FiniteSetsExt

CONSTANTS
  Milestones,      \* tasks the milestone graph asks for
  Dictated,        \* tasks the operator may dictate
  Workers,         \* implementer names
  LaneOf,          \* [Workers -> Lanes]
  Reviewers,
  CommandLine,     \* workers run as a process of their own
  Failures,        \* notes an implementer's run may end with
  GateNotes,       \* and the gate's
  Sound, Unsound,  \* patches
  Operations,      \* what the operator does, at most MaxOps times
  MaxOps,
  MaxTrouble,      \* restarts, deaths, landing failures, seizures of slots
  RestartOverWork, \* the server is restarted while a command-line worker runs
  EnqueueAlone     \* nobody writes the ledger between enqueue's read and its write

VARIABLES
  patch,   \* the task's patch file
  at,      \* what each worker and reviewer does
  pilot,   \* where the autopilot's tick stands
  copy,    \* the ledger as enqueue read it
  rescue,  \* where the recovery thread stands
  landed,  \* <<task, patch>> committed on a branch
  left     \* what the operator and the environment may still do

vars == <<tasks, runtime, patch, at, pilot, copy, rescue, landed, left>>

Patches == {Sound, Unsound}
NoPatch == "none"
Crew == Workers \cup Reviewers

ASSUME PoolAssumption ==
  /\ Workers \cap Reviewers = {} /\ Nobody \notin Crew
  /\ CommandLine \subseteq Workers /\ LaneOf \in [Workers -> Lanes]
  /\ Milestones \cup Dictated \subseteq Ids
  /\ NoPatch \notin Patches
  /\ "passed" \notin GateNotes
  /\ {MaxOps, MaxTrouble} \subseteq Nat

Off == [step |-> "off", task |-> 0, out |-> "none"]

TypeOK ==
  /\ \A t \in Ids :
       /\ tasks[t].status \in Status
       /\ tasks[t].holder \in Crew \cup {Nobody}
       /\ tasks[t].job \in {"none", "waiting", "landed", "dead", "late"}
       /\ tasks[t].guard \in 0..tasks[t].tries
       /\ tasks[t].retry \in 0..MaxRetries \cup {99}
  /\ runtime \in Runtime
  /\ patch \in [Ids -> Patches \cup {NoPatch}]
  /\ \A w \in Crew : at[w].step \in {"off", "started", "run", "ran", "gated"} /\ at[w].task \in Ids \cup {0}
  /\ pilot.step \in {"handoff", "land", "triage", "reopen", "topup", "write", "start"}
  /\ rescue \in {"off", "requeue", "dispatch", "wait"}

Init ==
  /\ tasks = [t \in Ids |-> Absent]
  /\ runtime = [granted |-> FALSE, refused |-> FALSE, free |-> Slots["local"], paused |-> {}]
  /\ patch = [t \in Ids |-> NoPatch]
  /\ at = [w \in Crew |-> Off]
  /\ pilot = [step |-> "handoff", idle |-> TRUE]
  /\ copy = [t \in Ids |-> Absent]
  /\ rescue = "off"
  /\ landed = {}
  /\ left = [ops |-> MaxOps, trouble |-> MaxTrouble]

Quiet == EnqueueAlone => pilot.step # "write"
Trouble == left.trouble > 0 /\ left' = [left EXCEPT !.trouble = @ - 1]
Put(t, row) == tasks' = [tasks EXCEPT ![t] = row]
To(w, step) == at' = [at EXCEPT ![w].step = step]
Next1(step) == pilot' = [pilot EXCEPT !.step = step]

Lives(t) == \E w \in Crew : at[w].step \notin {"off", "started"} /\ at[w].task = t /\ tasks[t].holder = w

(***************************************************************************)
(* Implementers.                                                           *)
(***************************************************************************)
Busy(lane) ==
  Cardinality({t \in With({"in_progress"}) : LaneOf[tasks[t].holder] = lane})
    + IF lane = "local" THEN Cardinality(With({"reviewing"})) ELSE 0

\* claim; the patch of an earlier attempt is removed before the agent runs
Claim(w) ==
  LET lane == LaneOf[w]
      free == Effective(lane) > Busy(lane) /\ Candidates(lane) # {}
  IN  /\ at[w].step = "started"
      /\ IF free
         THEN \E t \in Take(Candidates(lane), 1) :
                /\ Put(t, Held(tasks[t], "in_progress", w))
                /\ at' = [at EXCEPT ![w] = [step |-> "run", task |-> t, out |-> "none"]]
                /\ patch' = [patch EXCEPT ![t] = NoPatch]
         ELSE at' = [at EXCEPT ![w] = Off] /\ UNCHANGED <<tasks, patch>>
      /\ UNCHANGED <<runtime, pilot, copy, rescue, landed, left>>

\* run_agent: a diff, or none because the agent strayed outside its worktree,
\* its provider or the wall clock failed it, or it changed nothing
AgentOutcomes == Patches \cup {"stray", "paused", "slow", "turns"}

\* the plan-and-write engine: no plan, a refusal, a diff that cannot be built
PlanOutcomes == Patches \cup {"no_plan", "refused", "apply"}

\* the diff is written to the task's patch file
RunAgent(w) ==
  /\ at[w].step = "run"
  /\ \E out \in Patches \cup (Failures \cap (AgentOutcomes \cup PlanOutcomes \cup {"infra"})) :
       /\ at' = [at EXCEPT ![w].step = "ran", ![w].out = out]
       /\ patch' = IF out \in Patches THEN [patch EXCEPT ![at[w].task] = out] ELSE patch
  /\ UNCHANGED <<tasks, runtime, pilot, copy, rescue, landed, left>>

\* rewrite_violation, check_patch
CheckPatch == {"needs_review", "blocked"}

\* a patch goes to review unless it does not apply; it is the artifact in any case
FinishPatch(w) ==
  LET t == at[w].task
  IN  /\ at[w].step = "ran" /\ at[w].out \in Patches
      /\ \E status \in CheckPatch :
           Put(t, [Finished(tasks[t], status, IF status = "blocked" THEN "apply" ELSE "review")
                     EXCEPT !.artifact = TRUE])
      /\ at' = [at EXCEPT ![w] = Off]
      /\ UNCHANGED <<runtime, patch, pilot, copy, rescue, landed, left>>

\* no diff; when the lane is at fault it rests
FinishFailed(w) ==
  LET t == at[w].task
      out == at[w].out
  IN  /\ at[w].step = "ran" /\ out \notin Patches
      /\ Put(t, [Finished(tasks[t], "blocked", out) EXCEPT !.artifact = FALSE])
      /\ runtime' = IF out \in {"paused", "slow"} THEN Paused(LaneOf[w]) ELSE runtime
      /\ at' = [at EXCEPT ![w] = Off]
      /\ UNCHANGED <<patch, pilot, copy, rescue, landed, left>>

\* paused_until has passed
Unpause(lane) ==
  /\ lane \in runtime.paused
  /\ runtime' = [runtime EXCEPT !.paused = @ \ {lane}]
  /\ UNCHANGED <<tasks, patch, at, pilot, copy, rescue, landed, left>>

(***************************************************************************)
(* Reviewers.                                                              *)
(***************************************************************************)
ClaimReview(r) ==
  /\ at[r].step = "started"
  /\ IF Effective("local") > Cardinality(With(Active)) /\ With({"needs_review"}) # {}
     THEN \E t \in Take(With({"needs_review"}), 1) :
            /\ Put(t, Held(tasks[t], "reviewing", r))
            /\ at' = [at EXCEPT ![r] = [step |-> "run", task |-> t, out |-> "none"]]
     ELSE at' = [at EXCEPT ![r] = Off] /\ UNCHANGED tasks
  /\ UNCHANGED <<runtime, patch, pilot, copy, rescue, landed, left>>

\* Mutant of GateOf: a gate that cannot run does not object.
GateOfAnything(p) == IF p = NoPatch THEN {"missing"} ELSE {"passed"}

\* run_gate: it can fail on a sound patch, for the base or the machine is at fault
GateOf(p) ==
  IF p = NoPatch THEN {"missing"} ELSE GateNotes \cup IF p = Sound THEN {"passed"} ELSE {}

Gate(r) ==
  /\ at[r].step = "run"
  /\ \E out \in GateOf(patch[at[r].task]) :
       at' = [at EXCEPT ![r].step = "gated", ![r].out = out]
  /\ UNCHANGED <<tasks, runtime, patch, pilot, copy, rescue, landed, left>>

\* the model's read is advisory, and a pass when the model is unavailable
FinishReview(r) ==
  LET t == at[r].task
      out == at[r].out
  IN  /\ at[r].step = "gated"
      /\ IF out = "passed"
         THEN \/ Put(t, Finished(tasks[t], "reviewed", "passed"))
              \/ Put(t, Finished(tasks[t], "needs_decision", "objected"))
         ELSE Put(t, Finished(tasks[t], "blocked", out))
      /\ at' = [at EXCEPT ![r] = Off]
      /\ UNCHANGED <<runtime, patch, pilot, copy, rescue, landed, left>>

(***************************************************************************)
(* The autopilot's tick.  What it saw of the ledger when it read the status *)
(* decides whether it reopens blocked tasks.                               *)
(***************************************************************************)
Idle == With(Active \cup {"ready", "needs_review"}) = {}

TickHandoff ==
  /\ pilot.step = "handoff"
  /\ runtime' = IF ~runtime.granted /\ ~runtime.refused /\ runtime.free > 0 THEN Granted ELSE runtime
  /\ pilot' = [step |-> "land", idle |-> Idle]
  /\ UNCHANGED <<tasks, patch, at, copy, rescue, landed, left>>

Landing(t, out) ==
  CASE out = "landed" -> [tasks[t] EXCEPT !.status = "done", !.claude = FALSE, !.note = "landed"]
    [] out = "moved"  -> ToQueue(tasks[t], "landing")
    [] out = "failed" -> [tasks[t] EXCEPT !.status = "blocked", !.claude = FALSE, !.note = "landing"]

\* land_reviewed
Land ==
  LET due == Take(With({"reviewed"}), 2)
  IN  /\ pilot.step = "land"
      /\ \E out \in [due -> {"landed", "moved", "failed"}] :
           /\ \A t \in due : patch[t] = NoPatch => out[t] = "failed"
           /\ tasks' = [t \in Ids |-> IF t \in due THEN Landing(t, out[t]) ELSE tasks[t]]
           /\ landed' = landed \cup {<<t, patch[t]>> : t \in {u \in due : out[u] = "landed"}}
           /\ IF \E t \in due : out[t] # "landed" THEN Trouble ELSE UNCHANGED left
      /\ pilot' = [step |-> "triage", idle |-> IF due = {} THEN pilot.idle ELSE Idle']
      /\ UNCHANGED <<runtime, patch, at, copy, rescue>>

\* run_triage
Triage ==
  /\ pilot.step = "triage"
  /\ tasks' = [t \in Ids |-> Triaged(t)]
  /\ pilot' = [step |-> "reopen", idle |-> IF tasks' = tasks THEN pilot.idle ELSE Idle']
  /\ UNCHANGED <<runtime, patch, at, copy, rescue, landed, left>>

\* its ten minutes are not over
SkipTriage ==
  /\ pilot.step = "triage"
  /\ Next1("reopen")
  /\ UNCHANGED <<tasks, runtime, patch, at, copy, rescue, landed, left>>

Reopen ==
  /\ pilot.step = "reopen"
  /\ tasks' = [t \in Ids |-> IF pilot.idle /\ t \in Take(Reopenable, 2) THEN Reopened(tasks[t]) ELSE tasks[t]]
  /\ pilot' = [step |-> "topup", idle |-> TRUE]
  /\ UNCHANGED <<runtime, patch, at, copy, rescue, landed, left>>

Wanted == {t \in Milestones : tasks[t].status = "ABSENT"}

\* ensure_workflow_tasks and enqueue read the ledger without the lock
TopUp ==
  /\ pilot.step = "topup"
  /\ IF Cardinality(With({"ready"})) < Larger(1, MapThenSumSet(Effective, Lanes)) /\ Wanted # {}
     THEN Next1("write") /\ copy' = tasks
     ELSE Next1("start") /\ UNCHANGED copy
  /\ UNCHANGED <<tasks, runtime, patch, at, rescue, landed, left>>

\* ... and write what they read, with one task more
Enqueue ==
  /\ pilot.step = "write"
  /\ \E t \in Take({u \in Milestones : copy[u].status = "ABSENT"}, 1) :
       tasks' = [copy EXCEPT ![t] = NewTask]
  /\ copy' = [t \in Ids |-> Absent]
  /\ Next1("topup")
  /\ UNCHANGED <<runtime, patch, at, rescue, landed, left>>

Stale(t) == tasks[t].status \in Active /\ ~Lives(t)

\* the rest of tick: nothing is started while somebody works and is not stale
StartRecovery ==
  LET running == With(Active)
      wanted == IF running # {} THEN \E t \in running : Stale(t) ELSE With({"ready", "needs_review"}) # {}
  IN  /\ pilot.step = "start"
      /\ rescue' = IF wanted /\ rescue = "off" THEN "requeue" ELSE rescue
      /\ Next1("handoff")
      /\ UNCHANGED <<tasks, runtime, patch, at, copy, landed, left>>

(***************************************************************************)
(* The recovery thread.                                                    *)
(***************************************************************************)
RequeueStale ==
  /\ rescue = "requeue"
  /\ tasks' = [t \in Ids |-> IF Stale(t) THEN Orphaned(tasks[t]) ELSE tasks[t]]
  /\ rescue' = IF Effective("local") < 1 THEN "off" ELSE "dispatch"
  /\ UNCHANGED <<runtime, patch, at, pilot, copy, landed, left>>

\* reviewers when something waits for review, else implementers of every lane
Dispatch ==
  LET Threads(S, n) == {T \in SUBSET S : Cardinality(T) = Smaller(n, Cardinality(S))}
      Of(lane) == {w \in Workers \ CommandLine : LaneOf[w] = lane}
      crews == IF With({"needs_review"}) # {} THEN Threads(Reviewers, Larger(1, Effective("local")))
               ELSE IF With(Active) # {} THEN {{}}
               ELSE {UNION {c[lane] : lane \in Lanes} :
                       c \in {f \in [Lanes -> SUBSET Workers] : \A lane \in Lanes :
                                f[lane] \in Threads(Of(lane), Effective(lane))}}
  IN  /\ rescue = "dispatch"
      /\ \E crew \in crews : at' = [w \in Crew |-> IF w \in crew THEN [Off EXCEPT !.step = "started"] ELSE at[w]]
      /\ rescue' = "wait"
      /\ UNCHANGED <<tasks, runtime, patch, pilot, copy, landed, left>>

\* the futures are done
RecoveryEnds ==
  /\ rescue = "wait"
  /\ \A w \in Crew \ CommandLine : at[w].step = "off"
  /\ rescue' = "off"
  /\ UNCHANGED <<tasks, runtime, patch, at, pilot, copy, landed, left>>

(***************************************************************************)
(* The operator, the command line, Codex, AIOS, and deaths of processes.    *)
(***************************************************************************)
MayOperate == left.ops > 0 /\ left' = [left EXCEPT !.ops = @ - 1]

OperatorAction(t, action) ==
  /\ MayOperate
  /\ tasks[t].status # "ABSENT"
  /\ MayAct(tasks[t], action)
  /\ Put(t, Acted(tasks[t], action))
  /\ UNCHANGED <<runtime, patch, at, pilot, copy, rescue, landed>>

\* dictated, and run now
CreateOperatorTask(t) ==
  /\ tasks[t].status = "ABSENT"
  /\ Put(t, NewTask)
  /\ rescue' = IF rescue = "off" THEN "requeue" ELSE rescue
  /\ UNCHANGED <<runtime, patch, at, pilot, copy, landed, left>>

\* the dashboard's other requests: hand over or back, recover, triage now
Request ==
  /\ MayOperate
  /\ \/ runtime' \in {Granted, Revoked} /\ UNCHANGED <<tasks, rescue>>
     \/ rescue = "off" /\ rescue' = "requeue" /\ UNCHANGED <<tasks, runtime>>
     \/ tasks' = [t \in Ids |-> Triaged(t)] /\ UNCHANGED <<runtime, rescue>>
  /\ UNCHANGED <<patch, at, pilot, copy, landed>>

\* python -m smart_store_control.worker
StartCommandLine(w) ==
  /\ MayOperate
  /\ at[w].step = "off"
  /\ To(w, "started")
  /\ UNCHANGED <<tasks, runtime, patch, pilot, copy, rescue, landed>>

KillCommandLine(w) ==
  /\ Trouble
  /\ at[w].step # "off"
  /\ at' = [at EXCEPT ![w] = Off]
  /\ UNCHANGED <<tasks, runtime, patch, pilot, copy, rescue, landed>>

\* the server dies and starts: every held task is released (requeue_stale(0))
Restart ==
  /\ Trouble
  /\ RestartOverWork \/ \A w \in CommandLine : at[w].step = "off"
  /\ tasks' = [t \in Ids |-> IF tasks[t].status \in Active THEN Orphaned(tasks[t]) ELSE tasks[t]]
  /\ at' = [w \in Crew |-> IF w \in CommandLine THEN at[w] ELSE Off]
  /\ pilot' = [step |-> "handoff", idle |-> TRUE]
  /\ rescue' = "off"
  /\ copy' = [t \in Ids |-> Absent]
  /\ UNCHANGED <<runtime, patch, landed>>

\* AIOS takes the slots, or gives them back
Seize ==
  /\ Trouble
  /\ runtime.free > 0
  /\ runtime' = [runtime EXCEPT !.free = 0]
  /\ UNCHANGED <<tasks, patch, at, pilot, copy, rescue, landed>>

Free ==
  /\ runtime.free = 0
  /\ runtime' = [runtime EXCEPT !.free = Slots["local"]]
  /\ UNCHANGED <<tasks, patch, at, pilot, copy, rescue, landed, left>>

\* codex_outcome: the job's end, or a day without one
CodexEnds(t) ==
  /\ tasks[t].job = "waiting"
  /\ \E end \in {"landed", "dead", "late"} : Put(t, [tasks[t] EXCEPT !.job = end])
  /\ UNCHANGED <<runtime, patch, at, pilot, copy, rescue, landed, left>>

Tick == TickHandoff \/ Land \/ Triage \/ SkipTriage \/ Reopen \/ TopUp \/ Enqueue \/ StartRecovery
Recover == RequeueStale \/ Dispatch \/ RecoveryEnds
Implement(w) == Claim(w) \/ RunAgent(w) \/ FinishPatch(w) \/ FinishFailed(w)
Review(r) == ClaimReview(r) \/ Gate(r) \/ FinishReview(r)

Next ==
  \/ Tick
  \/ /\ Quiet
     /\ \/ Recover
        \/ \E w \in Workers : Implement(w)
        \/ \E r \in Reviewers : Review(r)
        \/ \E lane \in Lanes : Unpause(lane)
        \/ \E t \in Ids, action \in Operations \cap Actions : OperatorAction(t, action)
        \/ \E t \in Dictated : CreateOperatorTask(t)
        \/ "request" \in Operations /\ Request
        \/ \E w \in CommandLine : StartCommandLine(w) \/ KillCommandLine(w)
        \/ Restart
        \/ Seize
        \/ Free
        \/ \E t \in Ids : CodexEnds(t)

Spec == Init /\ [][Next]_vars

FairSpec ==
  /\ Spec
  /\ WF_vars(Tick) /\ SF_vars(Triage) /\ WF_vars(Recover)
  /\ \A w \in Workers : WF_vars(Implement(w))
  /\ \A r \in Reviewers : WF_vars(Review(r))
  /\ \A lane \in Lanes : WF_vars(Unpause(lane))
  /\ \A t \in Ids : WF_vars(CodexEnds(t))
  /\ WF_vars(Free)

(***************************************************************************)
(* Properties.                                                             *)
(***************************************************************************)
\* What is committed on a task's branch passed the gate, whoever removed or
\* rewrote the patch file between the gate and the landing (land.py, land_patch).
GatedLands == \A l \in landed : l[2] = Sound

\* Whoever works on a task is the one the ledger names as its holder, so that
\* finish, which does not ask, ends the work of nobody else (pm.py, finish).
HolderHolds ==
  \A w \in Crew : at[w].step \notin {"off", "started"} =>
    /\ tasks[at[w].task].holder = w
    /\ tasks[at[w].task].status = IF w \in Workers THEN "in_progress" ELSE "reviewing"

\* A task that waits for a decision, is parked or superseded is taken up again
\* by nobody but the operator (pm.py, operator_action; triage.py, run_triage).
SetAside ==
  [][\A t \in Ids : /\ tasks[t].status \in {"needs_decision", "planned", "superseded"}
                    /\ tasks'[t].status # tasks[t].status
                    => left'.ops < left.ops]_vars

Resting(t) ==
  tasks[t].status \in {"ABSENT", "done", "needs_decision", "planned", "superseded"} \/ tasks[t].claude

\* What no rule of triage or of the pool moves again: the retries are spent, and
\* an earlier hand-off to Codex keeps the task from being escalated.
Stranded(t) ==
  /\ tasks[t].status = "blocked"
  /\ tasks[t].retry >= MaxRetries
  /\ tasks[t].job # "none"

\* No task fails for ever: it lands, comes to rest with a person or with Claude
\* Code, or is stranded (triage.py says that a spent task is escalated), unless
\* the operator has withdrawn the handoff (loopguard.py).
TasksRest == \A t \in Ids : <>[](Resting(t) \/ Stranded(t) \/ runtime.refused)

=============================================================================
