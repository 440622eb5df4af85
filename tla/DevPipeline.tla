---------------------------- MODULE DevPipeline ----------------------------
(***************************************************************************)
(* Worker processes that take jobs from the queue and run them             *)
(* (smart_store_aios/worker.py, dev_pipeline.py, blocked_triage.py): the   *)
(* staged pipeline of a dev.task over its git worktree, and the triage     *)
(* that enqueues preparation tasks for blocked progress items.             *)
(*                                                                         *)
(* Every action is what a worker does up to the next transaction on the    *)
(* job row, or one step in the worktree.  Two tasks share no files, so a   *)
(* worktree is named by its task.  `Code` stands for the contents of the   *)
(* worktree apart from the spec document; what the tests, the diff guard   *)
(* and the scanner say of it are its members' properties, and its failure  *)
(* digest is itself.                                                       *)
(***************************************************************************)
EXTENDS JobQueue

CONSTANTS
  Tasks,      \* task_id of dev.task jobs
  Blocked,    \* tasks that prepare a blocked progress item
  Requests,   \* [kind, task, sound] that operators may enqueue
  Code,       \* contents of a worktree
  Base,       \* what the branch starts from
  Passing,    \* the tests pass and refer to every acceptance id
  Allowed,    \* _guard_diff accepts: acceptance table, file list, no rewrite
  Scanned,    \* the security scan is clean
  MaxFix,     \* max_fix_rounds
  MaxTrouble  \* bound: worker deaths, ticks that take the lease of a worker at
              \* work, and throttled or unprepared model calls, together

ASSUME PipelineAssumption ==
  /\ Blocked \subseteq Tasks
  /\ Base \in Code
  /\ Passing \subseteq Code /\ Allowed \subseteq Code /\ Scanned \subseteq Code
  /\ MaxFix \in Nat

Kinds == {"dev.task", "blocked.triage", "plain"}
TriageId == "blocked-triage"

ASSUME RequestAssumption ==
  /\ Requests \subseteq [kind : Kinds, task : Tasks \cup {TriageId}, sound : BOOLEAN]
  /\ \A r \in Requests : r.kind = "dev.task" => r.task \in Tasks

VARIABLES
  worker,  \* what a worker holds in memory; `stale` (history): its job was
           \* claimed again since
  tree,    \* worktree and branch of each task
  shared,  \* history: worktrees that two jobs or two claims worked in
  fixes,   \* history: model calls for fixes, per job
  trouble  \* deaths, late ticks and deferrals so far (model bound)

devVars == <<jobs, worker, tree, shared, fixes, trouble>>
ghosts == <<shared, fixes, trouble>>

Stages == {"spec", "implement", "verify", "publish", "done"}
Checkpoint == [stage : Stages, rounds : 0..MaxFix, completed : 0..MaxFix, failure : Code]
NoProgress == [stage |-> "spec", rounds |-> 0, completed |-> 0, failure |-> Base]

Idle == [pc |-> "idle", job |-> 0, stale |-> FALSE, ckpt |-> NoProgress, seen |-> Base, todo |-> {}]
NoTree == [spec |-> "none", code |-> Base, head |-> Base, notes |-> FALSE]

DevInit ==
  /\ jobs = [j \in Jobs |-> NewRow("plain", TriageId, TRUE, NoProgress, "ABSENT")]
  /\ worker = [w \in Workers |-> Idle]
  /\ tree = [t \in Tasks |-> NoTree]
  /\ shared = {}
  /\ fixes = [j \in Jobs |-> 0]
  /\ trouble = 0

Row(w) == jobs[worker[w].job]
Task(w) == Row(w).task
Owns(w) == OwnedRunning(Row(w), w)
Ckpt(w) == worker[w].ckpt
At(w, pc) == worker[w].pc = pc

\* git status --porcelain is not empty
DirtyWith(t, code) == code # tree[t].head \/ tree[t].notes \/ tree[t].spec = "draft"
Dirty(t) == DirtyWith(t, tree[t].code)

InWorktree(w, t) == worker[w].pc \notin {"idle", "enqueue", "triage", "prep", "finish"} /\ Task(w) = t

-----------------------------------------------------------------------------
(* How a step ends: every write to the row asks first who owns it, and a   *)
(* worker that does not (LeaseError) drops the job                         *)

GiveUp(w) ==
  /\ worker' = [worker EXCEPT ![w] = Idle]
  /\ UNCHANGED jobs

Release(w, row) ==
  IF Owns(w)
  THEN /\ jobs' = [jobs EXCEPT ![worker[w].job] = row]
       /\ worker' = [worker EXCEPT ![w] = Idle]
  ELSE GiveUp(w)

\* an exception: permanent for PermanentFailure, ValueError, KeyError and TypeError
Raise(w, permanent) == Release(w, Failed(Row(w), permanent))

\* _save, and what the worker does next
Save(w, ckpt, pc) ==
  IF Owns(w)
  THEN /\ jobs' = [jobs EXCEPT ![worker[w].job].ckpt = ckpt]
       /\ worker' = [worker EXCEPT ![w].ckpt = ckpt, ![w].pc = pc]
  ELSE GiveUp(w)

SaveStage(w, stage) == Save(w, [Ckpt(w) EXCEPT !.stage = stage], "ready")

\* UsageLimited
Throttled(w) ==
  /\ trouble < MaxTrouble
  /\ trouble' = trouble + 1
  /\ Release(w, Deferred(Row(w)))

\* everything a model call or a subprocess may do besides succeeding: time out,
\* exit with an error, be throttled, or touch the main checkout
Fails(w) ==
  \/ Raise(w, FALSE) /\ UNCHANGED trouble
  \/ Raise(w, TRUE) /\ UNCHANGED trouble
  \/ Throttled(w)

-----------------------------------------------------------------------------
(* worker.py *)

\* the command line; bound: an operator enqueues one job of a kind and task
EnqueueJob(r) ==
  /\ Free # {} /\ Found(r.kind, r.task) = {}
  /\ jobs' = Enqueued(r.kind, r.task, r.sound, NoProgress)
  /\ UNCHANGED <<worker, tree, ghosts>>

\* somebody else is in the worktree, or another job for it is not finished
Crowded(j, w) ==
  \/ \E v \in Workers \ {w} : InWorktree(v, jobs[j].task)
  \/ \E k \in Jobs \ {j} : /\ jobs[k].kind = "dev.task" /\ jobs[k].task = jobs[j].task
                           /\ jobs[k].status \notin Ended
                           /\ jobs[k].status = "running" \/ jobs[k].ckpt # NoProgress

FirstStep(kind) ==
  CASE kind = "dev.task" -> "ready"
    [] kind = "blocked.triage" -> "triage"
    [] OTHER -> "plain"

\* run_once: claim; _dispatch; _ensure_worktree
ClaimJob(w) ==
  /\ At(w, "idle")
  /\ \E j \in Jobs :
       /\ Oldest(j)
       /\ IF jobs[j].sound
          THEN /\ jobs' = [jobs EXCEPT ![j] = Claimed(@, w)]
               /\ worker' = [v \in Workers |->
                    IF v = w
                    THEN [Idle EXCEPT !.pc = FirstStep(jobs[j].kind), !.job = j, !.ckpt = jobs[j].ckpt,
                                      !.todo = IF jobs[j].kind = "blocked.triage" THEN Blocked ELSE {}]
                    ELSE [worker[v] EXCEPT !.stale = @ \/ worker[v].job = j]]
               /\ shared' = IF jobs[j].kind = "dev.task" /\ Crowded(j, w)
                            THEN shared \cup {jobs[j].task} ELSE shared
          ELSE /\ jobs' = [jobs EXCEPT ![j] = Buried(@, w)]
               /\ UNCHANGED <<worker, shared>>
  /\ UNCHANGED <<tree, fixes, trouble>>

\* dry runs are accepted; _run_codex makes one call without checkpoints
RunPlain(w) ==
  /\ At(w, "plain")
  /\ \/ worker' = [worker EXCEPT ![w].pc = "finish"] /\ UNCHANGED jobs
     \/ Raise(w, FALSE)
  /\ UNCHANGED <<tree, ghosts>>

\* an unsupported kind, or a payload that validate_payload refuses
RefusePayload(w) ==
  /\ At(w, "plain")
  /\ Raise(w, TRUE)
  /\ UNCHANGED <<tree, ghosts>>

Finish(w) ==
  /\ At(w, "finish")
  /\ Release(w, Completed(Row(w)))
  /\ UNCHANGED <<tree, ghosts>>

\* run_forever on an idle queue: find_job and, in another transaction, enqueue
LookForTriage(w) ==
  /\ At(w, "idle")
  /\ Blocked # {} /\ Free # {}
  /\ \A j \in Jobs : ~Claimable(jobs[j])
  /\ \A j \in Found("blocked.triage", TriageId) : jobs[j].status \in Ended
  /\ worker' = [worker EXCEPT ![w].pc = "enqueue"]
  /\ UNCHANGED <<jobs, tree, ghosts>>

EnqueueTriage(w) ==
  /\ At(w, "enqueue")
  /\ jobs' = IF Free = {} THEN jobs ELSE Enqueued("blocked.triage", TriageId, TRUE, NoProgress)
  /\ worker' = [worker EXCEPT ![w] = Idle]
  /\ UNCHANGED <<tree, ghosts>>

-----------------------------------------------------------------------------
(* blocked_triage.py: for each blocked item, look and then enqueue *)

Item(w) == CHOOSE t \in worker[w].todo : TRUE

LookForPrep(w) ==
  /\ At(w, "triage")
  /\ LET live == \E j \in Found("dev.task", Item(w)) : jobs[j].status # "dead"
     IN  worker' = [worker EXCEPT ![w] =
           IF @.todo = {} THEN [@ EXCEPT !.pc = "finish"]
           ELSE IF live THEN [@ EXCEPT !.todo = worker[w].todo \ {Item(w)}]
           ELSE [@ EXCEPT !.pc = "prep"]]
  /\ UNCHANGED <<jobs, tree, ghosts>>

EnqueuePrep(w) ==
  /\ At(w, "prep")
  /\ jobs' = IF Free = {} THEN jobs ELSE Enqueued("dev.task", Item(w), TRUE, NoProgress)
  /\ worker' = [worker EXCEPT ![w].todo = @ \ {Item(w)}, ![w].pc = "triage"]
  /\ UNCHANGED <<tree, ghosts>>

-----------------------------------------------------------------------------
(* dev_pipeline.py: the loop over stages *)

\* heartbeat, then the stage the checkpoint names; the spec stage calls the
\* model only when the worktree has no document yet
NextStep(w) ==
  LET stage == Ckpt(w).stage
  IN  IF stage = "done" THEN "finish"
      ELSE IF stage = "spec" /\ tree[Task(w)].spec # "none" THEN "commit_spec"
      ELSE stage

BeginStage(w) ==
  /\ At(w, "ready")
  /\ IF Owns(w)
     THEN /\ jobs' = [jobs EXCEPT ![worker[w].job] = Extended(@)]
          /\ worker' = [worker EXCEPT ![w].pc = NextStep(w)]
     ELSE Raise(w, FALSE)
  /\ UNCHANGED <<tree, ghosts>>

\* the model writes the spec document, with the acceptance ids or without
WriteSpec(w) ==
  /\ At(w, "spec")
  /\ \/ \E doc \in {"draft", "unusable"} :
          /\ tree' = [tree EXCEPT ![Task(w)].spec = doc]
          /\ Save(w, Ckpt(w), "commit_spec")
          /\ UNCHANGED trouble
     \/ Fails(w) /\ UNCHANGED tree
  /\ UNCHANGED <<shared, fixes>>

\* git commit of the document alone: an error when it is committed already
CommitSpec(w) ==
  /\ At(w, "commit_spec")
  /\ IF tree[Task(w)].spec = "draft"
     THEN /\ tree' = [tree EXCEPT ![Task(w)].spec = "committed"]
          /\ worker' = [worker EXCEPT ![w].pc = "record_spec"]
          /\ UNCHANGED jobs
     ELSE Raise(w, FALSE) /\ UNCHANGED tree
  /\ UNCHANGED ghosts

RecordSpec(w) ==
  /\ At(w, "record_spec")
  /\ SaveStage(w, "implement")
  /\ UNCHANGED <<tree, ghosts>>

\* the model edits the worktree; no diff at all is an error
Implement(w) ==
  /\ At(w, "implement")
  /\ \E c \in Code :
       /\ tree' = [tree EXCEPT ![Task(w)].code = c]
       /\ \/ /\ IF DirtyWith(Task(w), c) THEN SaveStage(w, "verify") ELSE Raise(w, FALSE)
             /\ UNCHANGED trouble
          \/ Fails(w)
  /\ UNCHANGED <<shared, fixes>>

\* _guard_diff and _run_tests look at the worktree as it is now
RunTests(w) ==
  /\ At(w, "verify")
  /\ LET code == tree[Task(w)].code
     IN  \/ /\ code \in Allowed
            /\ worker' = [worker EXCEPT ![w].seen = code, ![w].pc = "judge"]
            /\ UNCHANGED jobs
         \/ code \notin Allowed /\ Raise(w, TRUE)
         \/ Raise(w, FALSE)
  /\ UNCHANGED <<tree, ghosts>>

\* the same failure as before the last completed fix
Stalled(w) ==
  /\ Ckpt(w).rounds > 0
  /\ Ckpt(w).completed = Ckpt(w).rounds
  /\ Ckpt(w).failure = worker[w].seen

\* Mutant of RoundSpent: the round is written down when the fix is done.
RoundSpentLater(w) == [Ckpt(w) EXCEPT !.failure = worker[w].seen]

\* the round is written down before the model is called
RoundSpent(w) == [Ckpt(w) EXCEPT !.rounds = @ + 1, !.failure = worker[w].seen]

\* Mutant of Accepts: the model's word is taken once a fix was made.
AcceptsAfterFix(w) == worker[w].seen \in Passing \/ Ckpt(w).completed > 0

Accepts(w) == worker[w].seen \in Passing

JudgeTests(w) ==
  /\ At(w, "judge")
  /\ IF Accepts(w) THEN SaveStage(w, "publish")
     ELSE IF Ckpt(w).rounds >= MaxFix \/ Stalled(w) THEN Raise(w, TRUE)
     ELSE Save(w, RoundSpent(w), "fix")
  /\ UNCHANGED <<tree, ghosts>>

Fix(w) ==
  /\ At(w, "fix")
  /\ fixes' = [fixes EXCEPT ![worker[w].job] = @ + 1]
  /\ \E c \in Code :
       /\ tree' = [tree EXCEPT ![Task(w)].code = c]
       /\ \/ /\ IF DirtyWith(Task(w), c)
                THEN Save(w, [Ckpt(w) EXCEPT !.completed = Ckpt(w).rounds, !.stage = "verify"], "ready")
                ELSE Raise(w, FALSE)
             /\ UNCHANGED trouble
          \/ Fails(w)
  /\ UNCHANGED shared

\* guard and scan, then git commit: an error when there is nothing to commit
CommitFeature(w) ==
  /\ At(w, "publish")
  /\ LET t == Task(w)
         fit == tree[t].code \in Allowed \cap Scanned
     IN  IF fit /\ Dirty(t)
         THEN /\ tree' = [tree EXCEPT ![t].head = tree[t].code, ![t].notes = FALSE]
              /\ worker' = [worker EXCEPT ![w].pc = "evidence"]
              /\ UNCHANGED jobs
         ELSE Raise(w, ~fit) /\ UNCHANGED tree
  /\ UNCHANGED ghosts

\* the evidence section is appended to the spec document ...
AppendEvidence(w) ==
  /\ At(w, "evidence")
  /\ tree' = [tree EXCEPT ![Task(w)].notes = TRUE]
  /\ worker' = [worker EXCEPT ![w].pc = "commit_evidence"]
  /\ UNCHANGED <<jobs, ghosts>>

\* ... and committed with whatever else changed
CommitEvidence(w) ==
  /\ At(w, "commit_evidence")
  /\ IF Dirty(Task(w))
     THEN /\ tree' = [tree EXCEPT ![Task(w)].notes = FALSE, ![Task(w)].head = tree[Task(w)].code]
          /\ worker' = [worker EXCEPT ![w].pc = "record"]
          /\ UNCHANGED jobs
     ELSE Raise(w, FALSE) /\ UNCHANGED tree
  /\ UNCHANGED ghosts

RecordPublished(w) ==
  /\ At(w, "record")
  /\ SaveStage(w, "done")
  /\ UNCHANGED <<tree, ghosts>>

Stage(w) ==
  \/ BeginStage(w) \/ WriteSpec(w) \/ CommitSpec(w) \/ RecordSpec(w)
  \/ Implement(w) \/ RunTests(w) \/ JudgeTests(w) \/ Fix(w)
  \/ CommitFeature(w) \/ AppendEvidence(w) \/ CommitEvidence(w) \/ RecordPublished(w)

Work(w) ==
  \/ ClaimJob(w) \/ RunPlain(w) \/ RefusePayload(w) \/ Finish(w)
  \/ EnqueueTriage(w) \/ LookForPrep(w) \/ EnqueuePrep(w)
  \/ Stage(w)

-----------------------------------------------------------------------------
(* The environment *)

\* the process dies; a new one, with a new worker_id, takes its place
Die(w) ==
  /\ ~At(w, "idle")
  /\ trouble < MaxTrouble
  /\ worker' = [worker EXCEPT ![w] = Idle]
  /\ trouble' = trouble + 1
  /\ UNCHANGED <<jobs, tree, shared, fixes>>

\* nothing but the stage's own timeout, longer than the lease by default,
\* keeps a worker from outstaying its lease
Late == \E w \in Workers : worker[w].job \in Jobs /\ Owns(w) /\ Row(w).lease = 1

Tick ==
  /\ \E j \in Jobs : Waiting(jobs[j])
  /\ Late => trouble < MaxTrouble
  /\ jobs' = [j \in Jobs |-> Elapsed(jobs[j])]
  /\ trouble' = IF Late THEN trouble + 1 ELSE trouble
  /\ UNCHANGED <<worker, tree, shared, fixes>>

DevNext ==
  \/ \E r \in Requests : EnqueueJob(r)
  \/ \E w \in Workers : Work(w) \/ LookForTriage(w) \/ Die(w)
  \/ Tick

DevSpec == DevInit /\ [][DevNext]_devVars

\* workers loop and every model call has a timeout; the clock advances
DevFairness == WF_devVars(Tick) /\ \A w \in Workers : WF_devVars(Work(w))

DevFairSpec == DevSpec /\ DevFairness

-----------------------------------------------------------------------------
(* Properties *)

\* Every state has its declared shape; attempts never fall below zero,
\* although deferring a job takes one back (db.py, defer).
TypeOK ==
  /\ \A j \in Jobs :
       /\ jobs[j].kind \in Kinds /\ jobs[j].status \in Status /\ jobs[j].ckpt \in Checkpoint
       /\ jobs[j].attempts \in Nat
       /\ jobs[j].holder \in Workers \cup {NoWorker}
       /\ jobs[j].lease \in 0..LeaseTime
  /\ \A w \in Workers :
       /\ worker[w].job \in Jobs \cup {0} /\ worker[w].ckpt \in Checkpoint
       /\ worker[w].seen \in Code /\ worker[w].todo \subseteq Blocked
  /\ tree \in [Tasks -> [spec : {"none", "unusable", "draft", "committed"},
                         code : Code, head : Code, notes : BOOLEAN]]
  /\ shared \subseteq Tasks

\* The checkpoint and the outcome of a job are only ever written under the
\* latest claim of it, although the lease carries no fencing token: the
\* worker_id is enough because a worker has one job at a time
\* (db.py, _owned_running; worker.py, run_once).
WriterIsCurrent ==
  [][\A j \in Jobs :
       /\ jobs[j].status = "running" /\ jobs'[j].attempts <= jobs[j].attempts
       /\ jobs'[j].ckpt # jobs[j].ckpt \/ jobs'[j].status # jobs[j].status
       => \E w \in Workers : /\ worker[w].job = j /\ ~worker[w].stale
                             /\ worker'[w] # worker[w]]_devVars

\* What a finished dev.task leaves at the head of its branch passed the tests,
\* the diff guard and the scan, across fixes, restarts, retries and throttling,
\* as long as no two claims worked in the worktree at once
\* (dev_pipeline.py, _stage_publish).
PublishedIsVerified ==
  \A j \in Jobs :
    /\ jobs[j].kind = "dev.task" /\ jobs[j].ckpt.stage = "done"
    /\ jobs[j].task \notin shared
    => tree[jobs[j].task].head \in Passing \cap Allowed \cap Scanned

\* However often a job is interrupted, deferred, retried and taken over, the
\* model is called for at most max_fix_rounds fixes of it
\* (dev_pipeline.py, _stage_verify).
FixesBounded == \A j \in Jobs : fixes[j] <= MaxFix

\* Every job that is enqueued is done or dead in the end, if workers die, are
\* late and are throttled finitely often (worker.py, run_once).
JobsEnd == \A j \in Jobs : jobs[j].status = "queued" ~> jobs[j].status \in Ended

=============================================================================
