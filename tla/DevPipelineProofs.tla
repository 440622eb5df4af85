------------------------- MODULE DevPipelineProofs -------------------------
(***************************************************************************)
(* TLAPS proofs about DevPipeline, for every set of jobs, workers, tasks   *)
(* and requests, whatever the code, the tests, the guard and the scan say, *)
(* and every value of the limits.                                          *)
(***************************************************************************)
EXTENDS DevPipeline, Integers, FiniteSetTheorems, WellFoundedInduction, TLAPS

-----------------------------------------------------------------------------
(* The inductive invariant *)

StagePcs == {"ready", "spec", "commit_spec", "record_spec", "implement", "verify", "judge", "fix",
             "publish", "evidence", "commit_evidence", "record"}
Pcs == StagePcs \cup {"idle", "enqueue", "plain", "triage", "prep", "finish"}

JobRow == [kind : Kinds, task : Tasks \cup {TriageId}, sound : BOOLEAN, ckpt : Checkpoint,
           status : Status, attempts : Nat, holder : Workers \cup {NoWorker},
           lease : 0..LeaseTime, wait : Int]
WorkerRow == [pc : Pcs, job : Jobs \cup {0}, stale : BOOLEAN, ckpt : Checkpoint,
              seen : Code, todo : SUBSET Blocked]
TreeRow == [spec : {"none", "unusable", "draft", "committed"}, code : Code, head : Code,
            notes : BOOLEAN]

\* The rows are whole; TypeOK says it of their fields.
Shapes ==
  /\ jobs \in [Jobs -> JobRow]
  /\ worker \in [Workers -> WorkerRow]
  /\ tree \in [Tasks -> TreeRow]
  /\ shared \subseteq Tasks
  /\ fixes \in [Jobs -> Nat]

\* What a row of the table never is.
RowFits(row) ==
  /\ row.kind = "dev.task" => row.task \in Tasks
  /\ row.status = "running" => row.attempts > 0
  /\ row.status = "ABSENT" => row.ckpt = NoProgress /\ row.kind = "plain"

\* Where a worker stands goes with its checkpoint and with the kind of its job.
PcFits(x) ==
  /\ x.pc = "idle" => x = Idle
  /\ x.job = 0 <=> x.pc \in {"idle", "enqueue"}
  /\ x.pc = "prep" => x.todo # {}
  /\ x.pc \in {"spec", "commit_spec", "record_spec"} => x.ckpt.stage = "spec"
  /\ x.pc = "implement" => x.ckpt.stage = "implement"
  /\ x.pc \in {"verify", "judge", "fix"} => x.ckpt.stage = "verify"
  /\ x.pc \in {"publish", "evidence", "commit_evidence", "record"} => x.ckpt.stage = "publish"

\* A worker's job is one that was claimed.
JobFits(x) ==
  x.job # 0 =>
    /\ jobs[x.job].status # "ABSENT" /\ jobs[x.job].sound
    /\ x.pc \in StagePcs => jobs[x.job].kind = "dev.task"

\* The worker the row names, and no other, knows the checkpoint of the row.
HolderKnows ==
  \A w \in Workers :
    (worker[w].job # 0 /\ Row(w).status = "running" /\ Row(w).holder = w) =>
      ~worker[w].stale /\ Ckpt(w) = Row(w).ckpt

Fixing(j) == {w \in Workers : worker[w].pc = "fix" /\ worker[w].job = j}

\* Every fix that was made or is being made has its round in the row.
RoundsPaid == \A j \in Jobs : fixes[j] + Cardinality(Fixing(j)) <= jobs[j].ckpt.rounds

\* A dev.task whose worktree may hold its work.
Begun(row) ==
  row.kind = "dev.task" /\ row.status \notin Ended /\ (row.status = "running" \/ row.ckpt # NoProgress)

\* A worktree that was never shared has one job under way,
OneBegun ==
  \A j, k \in Jobs :
    (Begun(jobs[j]) /\ Begun(jobs[k]) /\ jobs[j].task = jobs[k].task /\ jobs[j].task \notin shared) => j = k

\* and whoever works in it holds that job.
InTree(w) == worker[w].pc \in StagePcs /\ Task(w) \notin shared
HolderInTree == \A w \in Workers : InTree(w) => Row(w).status = "running" /\ Row(w).holder = w

\* Its code was verified when the job is to be published,
PublishesVerified ==
  \A j \in Jobs :
    (jobs[j].kind = "dev.task" /\ jobs[j].status \notin Ended /\ jobs[j].ckpt.stage = "publish"
      /\ jobs[j].task \notin shared) => tree[jobs[j].task].code \in Passing \cap Allowed

\* is what was tested when the test is judged,
JudgesCode ==
  \A w \in Workers : InTree(w) /\ worker[w].pc = "judge" =>
    tree[Task(w)].code = worker[w].seen /\ worker[w].seen \in Allowed

\* and is what was committed when the evidence is.
CommittedCode ==
  \A w \in Workers : InTree(w) /\ worker[w].pc \in {"evidence", "commit_evidence", "record"} =>
    tree[Task(w)].head = tree[Task(w)].code /\ tree[Task(w)].code \in Scanned

IInv ==
  /\ Shapes
  /\ \A j \in Jobs : RowFits(jobs[j])
  /\ \A w \in Workers : PcFits(worker[w]) /\ JobFits(worker[w])
  /\ HolderKnows
  /\ RoundsPaid
  /\ OneBegun
  /\ HolderInTree
  /\ PublishesVerified
  /\ JudgesCode
  /\ CommittedCode
  /\ PublishedIsVerified

-----------------------------------------------------------------------------
(* Rows *)

\* What IInv says of one worker and its job.
LEMMA WorkerFacts ==
  ASSUME IInv, NEW w \in Workers
  PROVE  /\ worker[w] \in WorkerRow /\ PcFits(worker[w]) /\ JobFits(worker[w])
         /\ worker[w].job # 0 =>
              /\ worker[w].job \in Jobs /\ Row(w) \in JobRow /\ RowFits(Row(w))
              /\ Row(w).status # "ABSENT" /\ Row(w).sound
         /\ worker[w].pc \in StagePcs =>
              /\ worker[w].job # 0 /\ Row(w).kind = "dev.task" /\ Task(w) \in Tasks
              /\ tree[Task(w)] \in TreeRow
<1>1. worker[w] \in WorkerRow /\ PcFits(worker[w]) /\ JobFits(worker[w])
  BY DEF IInv, Shapes
<1>2. worker[w].job # 0 =>
        /\ worker[w].job \in Jobs /\ Row(w) \in JobRow /\ RowFits(Row(w))
        /\ Row(w).status # "ABSENT" /\ Row(w).sound
  BY <1>1 DEF IInv, Shapes, WorkerRow, JobFits, Row
<1>3. worker[w].pc \in StagePcs => worker[w].job # 0
  BY <1>1 DEF PcFits, StagePcs
<1>4. worker[w].pc \in StagePcs => Row(w).kind = "dev.task"
  BY <1>1, <1>3 DEF JobFits, Row
<1>5. worker[w].pc \in StagePcs => Task(w) \in Tasks
  BY <1>2, <1>3, <1>4 DEF RowFits, Task
<1>6. worker[w].pc \in StagePcs => tree[Task(w)] \in TreeRow
  BY <1>5 DEF IInv, Shapes
<1> QED BY <1>1, <1>2, <1>3, <1>4, <1>5, <1>6

\* A worker that owns its job is the one the row names, and not stale.
LEMMA OwnerKnows ==
  ASSUME IInv, NEW w \in Workers, worker[w].job # 0, Owns(w)
  PROVE  /\ Row(w).status = "running" /\ Row(w).holder = w
         /\ ~worker[w].stale /\ Ckpt(w) = Row(w).ckpt
BY DEF IInv, HolderKnows, Owns, OwnedRunning

\* How an owner gives its job back.
Dropped(row, new) ==
  /\ new \in JobRow
  /\ new.kind = row.kind /\ new.task = row.task /\ new.sound = row.sound /\ new.ckpt = row.ckpt
  /\ new.attempts <= row.attempts
  /\ new.status \in {"queued", "done", "dead"}

LEMMA FailedDrops ==
  ASSUME NEW row \in JobRow, NEW permanent \in BOOLEAN PROVE Dropped(row, Failed(row, permanent))
<1> DEFINE dead == permanent \/ row.attempts >= MaxAttempts
           status == IF dead THEN "dead" ELSE "queued"
           wait == IF dead THEN 0 ELSE RetryDelay(row.attempts)
<1>1. RetryDelay(row.attempts) \in Int
  <2>1. row.attempts \in Nat
    BY DEF JobRow
  <2>2. 2 ^ row.attempts \in Int
    BY <2>1, SMT
  <2> QED BY <2>2, QueueAssumption DEF RetryDelay
<1>2. wait \in Int /\ status \in {"dead", "queued"}
  BY <1>1
<1>3. Failed(row, permanent) = [row EXCEPT !.status = status, !.lease = 0, !.wait = wait]
  BY DEF Failed
<1>4. 0 \in 0..LeaseTime /\ {"dead", "queued"} \subseteq Status
  BY QueueAssumption DEF Status
<1> HIDE DEF dead, status, wait
<1>5. status \in Status /\ row.attempts <= row.attempts
  BY <1>2, <1>4 DEF JobRow
<1>6. Failed(row, permanent) \in JobRow
  BY <1>2, <1>3, <1>4, <1>5 DEF JobRow
<1>7. LET new == Failed(row, permanent)
      IN  /\ new.kind = row.kind /\ new.task = row.task /\ new.sound = row.sound
          /\ new.ckpt = row.ckpt /\ new.attempts = row.attempts /\ new.status = status
  BY <1>3 DEF JobRow
<1> QED BY <1>2, <1>5, <1>6, <1>7 DEF Dropped

LEMMA DeferredDrops ==
  ASSUME NEW row \in JobRow, row.attempts > 0 PROVE Dropped(row, Deferred(row))
<1>1. 0 \in 0..LeaseTime /\ DeferTime \in Int /\ row.attempts - 1 \in Nat
      /\ row.attempts \in Nat /\ row.attempts - 1 <= row.attempts
  BY QueueAssumption DEF JobRow
<1> QED BY <1>1 DEF Dropped, Deferred, JobRow, Status

LEMMA CompletedDrops ==
  ASSUME NEW row \in JobRow PROVE Dropped(row, Completed(row))
<1>1. 0 \in 0..LeaseTime /\ row.attempts \in Nat
  BY QueueAssumption DEF JobRow
<1>2. Completed(row) \in JobRow
  BY <1>1 DEF Completed, JobRow, Status
<1>3. LET new == Completed(row)
      IN  /\ new.kind = row.kind /\ new.task = row.task /\ new.sound = row.sound
          /\ new.ckpt = row.ckpt /\ new.attempts = row.attempts /\ new.status = "done"
  BY DEF Completed, JobRow
<1> QED BY <1>1, <1>2, <1>3 DEF Dropped

-----------------------------------------------------------------------------
(* What one worker's step makes of its memory and of the row of its job *)

OwnStep(w, new, row) ==
  /\ worker[w].job # 0
  /\ worker' = [worker EXCEPT ![w] = new]
  /\ jobs' = [jobs EXCEPT ![worker[w].job] = row]
  /\ new \in WorkerRow /\ row \in JobRow /\ PcFits(new)
  /\ row = Row(w) \/ Owns(w)
  /\ row.kind = Row(w).kind /\ row.task = Row(w).task /\ row.sound = Row(w).sound
  /\ row.attempts <= Row(w).attempts
  /\ \/ /\ new = Idle
        /\ \/ row = Row(w)
           \/ Dropped(Row(w), row)
     \/ /\ new.job = worker[w].job /\ new.stale = worker[w].stale
        /\ row.status = Row(w).status /\ row.holder = Row(w).holder
        /\ row.attempts = Row(w).attempts
        /\ new.pc \in StagePcs => worker[w].pc \in StagePcs
        /\ \/ new.ckpt = worker[w].ckpt /\ row.ckpt = Row(w).ckpt
           \/ new.ckpt = row.ckpt

\* A worker lets go of its job, in whatever way.
LEMMA LeavingIsOwn ==
  ASSUME IInv, NEW w \in Workers, worker[w].job # 0,
         \/ GiveUp(w)
         \/ \E permanent \in BOOLEAN : Raise(w, permanent)
         \/ Throttled(w)
         \/ Release(w, Completed(Row(w)))
  PROVE  \E row \in JobRow : OwnStep(w, Idle, row) /\ (row = Row(w) \/ Dropped(Row(w), row))
<1>0. /\ worker[w].job \in Jobs /\ Row(w) \in JobRow /\ RowFits(Row(w))
      /\ Idle \in WorkerRow /\ PcFits(Idle)
  <2>1. Idle \in WorkerRow
    BY PipelineAssumption DEF Idle, WorkerRow, Pcs, NoProgress, Checkpoint, Stages
  <2>2. PcFits(Idle)
    BY DEF Idle, PcFits
  <2> QED BY <2>1, <2>2, WorkerFacts
<1>1. ASSUME GiveUp(w) PROVE OwnStep(w, Idle, Row(w))
  <2>1. jobs' = [jobs EXCEPT ![worker[w].job] = Row(w)]
    BY <1>1 DEF GiveUp, Row, IInv, Shapes
  <2>2. Row(w).attempts <= Row(w).attempts
    BY <1>0 DEF JobRow
  <2> QED BY <1>0, <1>1, <2>1, <2>2 DEF GiveUp, OwnStep
<1>2. ASSUME NEW row, Dropped(Row(w), row), Owns(w),
             jobs' = [jobs EXCEPT ![worker[w].job] = row], worker' = [worker EXCEPT ![w] = Idle]
      PROVE  OwnStep(w, Idle, row)
  BY <1>0, <1>2 DEF OwnStep, Dropped
<1>3. ASSUME NEW row, Release(w, row), Dropped(Row(w), row)
      PROVE  OwnStep(w, Idle, row) \/ OwnStep(w, Idle, Row(w))
  BY <1>1, <1>2, <1>3 DEF Release
<1>4. ASSUME NEW permanent \in BOOLEAN, Raise(w, permanent)
      PROVE  \E row \in JobRow : OwnStep(w, Idle, row) /\ (row = Row(w) \/ Dropped(Row(w), row))
  BY <1>0, <1>3, <1>4, FailedDrops DEF Raise, Dropped
<1>5. ASSUME Throttled(w)
      PROVE  \E row \in JobRow : OwnStep(w, Idle, row) /\ (row = Row(w) \/ Dropped(Row(w), row))
  <2>1. Release(w, Deferred(Row(w)))
    BY <1>5 DEF Throttled
  <2>2. CASE Owns(w)
    <3>1. Row(w).attempts > 0
      BY <1>0, <2>2 DEF RowFits, Owns, OwnedRunning
    <3> QED BY <1>0, <1>3, <2>1, <3>1, DeferredDrops DEF Dropped
  <2>3. CASE ~Owns(w)
    BY <1>0, <1>1, <2>1, <2>3 DEF Release
  <2> QED BY <2>2, <2>3
<1>6. ASSUME Release(w, Completed(Row(w)))
      PROVE  \E row \in JobRow : OwnStep(w, Idle, row) /\ (row = Row(w) \/ Dropped(Row(w), row))
  BY <1>0, <1>3, <1>6, CompletedDrops DEF Dropped
<1> QED BY <1>0, <1>1, <1>4, <1>5, <1>6

\* What of the invariant is about the table and the workers alone.
PoolFits ==
  /\ jobs \in [Jobs -> JobRow] /\ worker \in [Workers -> WorkerRow]
  /\ \A j \in Jobs : RowFits(jobs[j])
  /\ \A w \in Workers : PcFits(worker[w]) /\ JobFits(worker[w])
  /\ HolderKnows
  /\ OneBegun
  /\ HolderInTree

\* What a step of w leaves as it was.
LEMMA OwnStepLeaves ==
  ASSUME IInv, NEW w \in Workers, NEW new, NEW row, OwnStep(w, new, row)
  PROVE  /\ worker[w].job \in Jobs
         /\ jobs'[worker[w].job] = row /\ worker'[w] = new
         /\ \A j \in Jobs : j # worker[w].job => jobs'[j] = jobs[j]
         /\ \A v \in Workers : v # w => worker'[v] = worker[v]
         /\ jobs' \in [Jobs -> JobRow] /\ worker' \in [Workers -> WorkerRow]
         /\ new = Idle \/ new.job = worker[w].job
         /\ row.status # "ABSENT"
         /\ Begun(row) => Begun(Row(w))
<1>1. worker[w].job \in Jobs /\ Row(w).status # "ABSENT"
  BY WorkerFacts DEF OwnStep
<1>2. /\ jobs' = [jobs EXCEPT ![worker[w].job] = row] /\ worker' = [worker EXCEPT ![w] = new]
      /\ new \in WorkerRow /\ row \in JobRow
  BY DEF OwnStep
<1>3. /\ jobs'[worker[w].job] = row /\ worker'[w] = new
      /\ \A j \in Jobs : j # worker[w].job => jobs'[j] = jobs[j]
      /\ \A v \in Workers : v # w => worker'[v] = worker[v]
      /\ jobs' \in [Jobs -> JobRow] /\ worker' \in [Workers -> WorkerRow]
  BY <1>1, <1>2 DEF IInv, Shapes
<1>4. row.status # "ABSENT"
  BY <1>1 DEF OwnStep, Dropped
<1>5. Begun(row) => Begun(Row(w))
  <2>1. Owns(w) => Row(w).status = "running"
    BY DEF Owns, OwnedRunning
  <2> QED BY <2>1 DEF OwnStep, Begun, Ended
<1>6. new = Idle \/ new.job = worker[w].job
  BY DEF OwnStep
<1> QED BY <1>1, <1>3, <1>4, <1>5, <1>6

LEMMA OwnStepKeepsPool ==
  ASSUME IInv, NEW w \in Workers, NEW new, NEW row, OwnStep(w, new, row), shared' = shared
  PROVE  PoolFits'
<1> DEFINE j == worker[w].job
<1>0. /\ j \in Jobs /\ jobs'[j] = row /\ worker'[w] = new
      /\ \A k \in Jobs : k # j => jobs'[k] = jobs[k]
      /\ \A v \in Workers : v # w => worker'[v] = worker[v]
      /\ jobs' \in [Jobs -> JobRow] /\ worker' \in [Workers -> WorkerRow]
      /\ new = Idle \/ new.job = j
      /\ row.status # "ABSENT"
      /\ Begun(row) => Begun(jobs[j])
  BY OwnStepLeaves DEF Row
<1>1. /\ Row(w) = jobs[j] /\ jobs[j] \in JobRow /\ RowFits(jobs[j])
      /\ row.kind = jobs[j].kind /\ row.task = jobs[j].task /\ row.sound = jobs[j].sound
      /\ j # 0 /\ jobs[j].sound
  BY WorkerFacts DEF OwnStep, Row
<1>2. Idle.job = 0 /\ Idle.pc = "idle" /\ "idle" \notin StagePcs
  BY DEF Idle, StagePcs
<1>3. \A k \in Jobs : RowFits(jobs'[k])
  <2>1. RowFits(row)
    <3>1. row.status = "running" => row.attempts = jobs[j].attempts /\ jobs[j].status = "running"
      BY <1>1 DEF OwnStep, Dropped
    <3> QED BY <1>0, <1>1, <3>1 DEF RowFits
  <2> QED BY <1>0, <2>1 DEF IInv
<1>4. \A v \in Workers : PcFits(worker'[v])
  BY <1>0 DEF IInv, OwnStep
<1>5. ASSUME NEW v \in Workers, worker'[v].job # 0
      PROVE  /\ worker'[v].job \in Jobs /\ worker'[v].job = worker[v].job
             /\ jobs'[worker'[v].job].status # "ABSENT" /\ jobs'[worker'[v].job].sound
             /\ worker'[v].pc \in StagePcs =>
                  worker[v].pc \in StagePcs /\ jobs'[worker'[v].job].kind = "dev.task"
  <2>1. worker'[v].job \in Jobs /\ worker'[v].job = worker[v].job
    BY <1>0, <1>2, <1>5 DEF WorkerRow
  <2>2. worker'[v].pc \in StagePcs => worker[v].pc \in StagePcs
    BY <1>0, <1>2 DEF OwnStep
  <2>3. JobFits(worker[v])
    BY WorkerFacts
  <2>4. /\ jobs[worker[v].job].status # "ABSENT" /\ jobs[worker[v].job].sound
        /\ worker[v].pc \in StagePcs => jobs[worker[v].job].kind = "dev.task"
    BY <1>5, <2>1, <2>3 DEF JobFits
  <2> QED BY <1>0, <1>1, <2>1, <2>2, <2>4
<1>6. HolderKnows'
  <2> SUFFICES ASSUME NEW v \in Workers, worker'[v].job # 0,
                      jobs'[worker'[v].job].status = "running", jobs'[worker'[v].job].holder = v
               PROVE  ~worker'[v].stale /\ worker'[v].ckpt = jobs'[worker'[v].job].ckpt
    BY DEF HolderKnows, Row, Ckpt
  <2>1. worker'[v].job \in Jobs /\ worker'[v].job = worker[v].job
    BY <1>5
  <2>2. CASE v = w
    <3>1. new.job = j /\ row.status = "running" /\ row.holder = w
      BY <1>0, <2>1, <2>2
    <3>2. new # Idle
      BY <1>1, <1>2, <3>1
    <3>3. Row(w).status = "running" /\ Row(w).holder = w /\ new.stale = worker[w].stale
      BY <3>1, <3>2 DEF OwnStep
    <3>4. ~worker[w].stale /\ worker[w].ckpt = Row(w).ckpt
      BY <1>1, <3>3 DEF IInv, HolderKnows, Ckpt
    <3>5. new.ckpt = row.ckpt
      BY <3>2, <3>4 DEF OwnStep
    <3> QED BY <1>0, <2>2, <3>1, <3>3, <3>4, <3>5
  <2>3. CASE v # w
    <3>1. worker'[v] = worker[v]
      BY <1>0, <2>3
    <3>2. jobs'[worker[v].job] = jobs[worker[v].job]
      <4>1. CASE worker[v].job # j
        BY <1>0, <2>1, <4>1
      <4>2. CASE worker[v].job = j /\ row = jobs[j]
        BY <1>0, <4>2
      <4>3. CASE worker[v].job = j /\ row # jobs[j]
        <5>1. Owns(w) /\ row.holder = v
          BY <1>0, <1>1, <2>1, <4>3 DEF OwnStep
        <5>2. row.status = "running"
          BY <1>0, <2>1, <4>3
        <5>3. row.holder = Row(w).holder /\ Row(w).holder = w
          BY <5>1, <5>2, <1>1, <4>3 DEF OwnStep, Dropped, Owns, OwnedRunning
        <5> QED BY <2>3, <5>1, <5>3
      <4> QED BY <4>1, <4>2, <4>3
    <3> QED BY <2>1, <3>1, <3>2 DEF IInv, HolderKnows, Row, Ckpt
  <2> QED BY <2>2, <2>3
<1>7. OneBegun'
  <2>1. \A k \in Jobs : /\ Begun(jobs'[k]) => Begun(jobs[k])
                        /\ jobs'[k].task = jobs[k].task
    BY <1>0, <1>1
  <2>2. \A k, l \in Jobs :
          (Begun(jobs'[k]) /\ Begun(jobs'[l]) /\ jobs'[k].task = jobs'[l].task
            /\ jobs'[k].task \notin shared') => k = l
    BY <2>1 DEF IInv, OneBegun
  <2> QED BY <2>2 DEF OneBegun, Begun
<1>8. HolderInTree'
  <2> SUFFICES ASSUME NEW v \in Workers, worker'[v].pc \in StagePcs,
                      jobs'[worker'[v].job].task \notin shared
               PROVE  jobs'[worker'[v].job].status = "running" /\ jobs'[worker'[v].job].holder = v
    BY DEF HolderInTree, InTree, Task, Row, StagePcs
  <2>1. worker'[v].job # 0
    BY <1>4 DEF PcFits, StagePcs
  <2>2. worker[v].pc \in StagePcs /\ worker'[v].job = worker[v].job /\ worker'[v].job \in Jobs
    BY <1>5, <2>1
  <2>3. Task(v) = jobs'[worker'[v].job].task
    BY <1>0, <1>1, <2>2 DEF Task, Row
  <2>4. Row(v).status = "running" /\ Row(v).holder = v
    BY <2>2, <2>3 DEF IInv, HolderInTree, InTree
  <2>5. CASE v = w
    <3>1. new # Idle
      BY <1>0, <1>2, <2>1, <2>5
    <3>2. row.status = Row(w).status /\ row.holder = Row(w).holder
      BY <3>1 DEF OwnStep
    <3> QED BY <1>0, <2>2, <2>4, <2>5, <3>2
  <2>6. CASE v # w
    <3>1. jobs'[worker[v].job] = jobs[worker[v].job]
      <4>1. CASE worker[v].job # j
        BY <1>0, <2>2, <4>1
      <4>2. CASE worker[v].job = j
        <5>1. ~Owns(w)
          BY <1>1, <2>4, <2>6, <4>2 DEF Owns, OwnedRunning, Row
        <5> QED BY <1>0, <1>1, <4>2, <5>1 DEF OwnStep
      <4> QED BY <4>1, <4>2
    <3> QED BY <2>2, <2>4, <3>1 DEF Row
  <2> QED BY <2>5, <2>6
<1>9. \A v \in Workers : JobFits(worker[v])'
  <2> SUFFICES ASSUME NEW v \in Workers PROVE JobFits(worker[v])'
    OBVIOUS
  <2> QED BY <1>5 DEF JobFits, StagePcs
<1>10. (\A k \in Jobs : RowFits(jobs[k]))' /\ (\A v \in Workers : PcFits(worker[v]))'
  BY <1>3, <1>4 DEF RowFits, PcFits, NoProgress, Idle
<1> QED BY <1>0, <1>6, <1>7, <1>8, <1>9, <1>10 DEF PoolFits, JobRow, WorkerRow, Kinds, Checkpoint, Status, Stages, Pcs, StagePcs

-----------------------------------------------------------------------------
(* The worktrees *)

Good == Passing \cap Allowed \cap Scanned

\* Nobody else is in a worktree that was never shared.
LEMMA AloneInTree ==
  ASSUME IInv, NEW v \in Workers, NEW w \in Workers, InTree(v), InTree(w), Task(v) = Task(w)
  PROVE  v = w
<1>1. /\ worker[v].job \in Jobs /\ worker[w].job \in Jobs
      /\ Row(v).kind = "dev.task" /\ Row(w).kind = "dev.task"
  BY WorkerFacts DEF InTree
<1>2. Row(v).status = "running" /\ Row(v).holder = v /\ Row(w).status = "running" /\ Row(w).holder = w
  BY DEF IInv, HolderInTree
<1>3. Begun(Row(v)) /\ Begun(Row(w))
  BY <1>1, <1>2 DEF Begun, Ended
<1>4. worker[v].job = worker[w].job
  BY <1>1, <1>3 DEF IInv, OneBegun, InTree, Task, Row
<1> QED BY <1>2, <1>4 DEF Row

\* The worktree `after` a step bears out what the worker and the row now say.
OwnTree(new, row, after) ==
  row.task \notin shared =>
    /\ (row.kind = "dev.task" /\ row.status \notin Ended /\ row.ckpt.stage = "publish") =>
         after.code \in Passing \cap Allowed
    /\ new.pc = "judge" => after.code = new.seen /\ new.seen \in Allowed
    /\ new.pc \in {"evidence", "commit_evidence", "record"} =>
         after.head = after.code /\ after.code \in Scanned
    /\ (row.kind = "dev.task" /\ row.ckpt.stage = "done") => after.head \in Good

\* Only the code and the head count.
SameCode(before, after) == after.code = before.code /\ after.head = before.head

\* A step that commits nothing and reaches no new stage bears out what it says.
LEMMA OwnTreeKept ==
  ASSUME IInv, NEW w \in Workers, NEW new, NEW row, OwnStep(w, new, row),
         NEW after, SameCode(tree[Task(w)], after),
         row.ckpt.stage = Row(w).ckpt.stage \/ row.ckpt.stage \notin {"publish", "done"},
         new.pc \notin {"judge", "evidence", "commit_evidence", "record"}
  PROVE  OwnTree(new, row, after)
<1>1. worker[w].job \in Jobs /\ row.kind = Row(w).kind /\ row.task = Task(w)
  BY WorkerFacts DEF OwnStep, Task
<1>2. row.status \notin Ended => Row(w).status \notin Ended
  BY DEF OwnStep, Owns, OwnedRunning, Ended
<1>3. (Row(w).kind = "dev.task" /\ Row(w).status \notin Ended /\ Row(w).ckpt.stage = "publish"
        /\ Task(w) \notin shared) => tree[Task(w)].code \in Passing \cap Allowed
  BY <1>1 DEF IInv, PublishesVerified, Row, Task
<1>4. (Row(w).kind = "dev.task" /\ Row(w).ckpt.stage = "done" /\ Task(w) \notin shared) =>
        tree[Task(w)].head \in Good
  BY <1>1 DEF IInv, PublishedIsVerified, Row, Task, Good
<1> QED BY <1>1, <1>2, <1>3, <1>4 DEF OwnTree, SameCode

\* A step of w in a worktree touches no other worktree, and in its own it spoils
\* nothing that another job or another worker rests on.
LEMMA OwnStepKeeps ==
  ASSUME IInv, NEW w \in Workers, NEW new, NEW row, OwnStep(w, new, row), shared' = shared,
         fixes' \in [Jobs -> Nat], RoundsPaid',
         tree' \in [Tasks -> TreeRow],
         \A t \in Tasks : t # Task(w) => SameCode(tree[t], tree'[t]),
         \/ Task(w) \in Tasks => SameCode(tree[Task(w)], tree'[Task(w)])
         \/ /\ worker[w].pc \in StagePcs
            /\ \/ tree'[Task(w)].head = tree[Task(w)].head
               \/ Task(w) \notin shared => tree'[Task(w)].head \in Good,
         OwnTree(new, row, tree'[Task(w)])
  PROVE  IInv'
<1> DEFINE j == worker[w].job
           T == Task(w)
<1>0. /\ j \in Jobs /\ jobs'[j] = row /\ worker'[w] = new /\ j # 0
      /\ \A k \in Jobs : k # j => jobs'[k] = jobs[k]
      /\ \A v \in Workers : v # w => worker'[v] = worker[v]
      /\ new = Idle \/ new.job = j
      /\ row.kind = jobs[j].kind /\ row.task = jobs[j].task /\ T = jobs[j].task
  BY OwnStepLeaves DEF OwnStep, Row, Task
<1>1. PoolFits'
  BY OwnStepKeepsPool
<1>2. ASSUME NEW t \in Tasks, t # T PROVE SameCode(tree[t], tree'[t])
  BY <1>2
<1>3. PublishesVerified'
  <2> SUFFICES ASSUME NEW k \in Jobs, jobs'[k].kind = "dev.task", jobs'[k].status \notin Ended,
                      jobs'[k].ckpt.stage = "publish", jobs'[k].task \notin shared
               PROVE  tree'[jobs'[k].task].code \in Passing \cap Allowed
    BY DEF PublishesVerified, Ended
  <2>1. CASE k = j
    BY <1>0, <2>1 DEF OwnTree
  <2>2. CASE k # j
    <3>1. /\ jobs[k].kind = "dev.task" /\ jobs[k].status \notin Ended /\ jobs'[k] = jobs[k]
          /\ jobs[k].ckpt.stage = "publish" /\ jobs[k].task \notin shared
      BY <1>0, <2>2
    <3>2. jobs[k].task \in Tasks /\ tree[jobs[k].task].code \in Passing \cap Allowed
      BY <3>1 DEF IInv, PublishesVerified, RowFits
    <3>3. CASE SameCode(tree[jobs[k].task], tree'[jobs[k].task])
      BY <3>1, <3>2, <3>3 DEF SameCode
    <3>4. CASE ~SameCode(tree[jobs[k].task], tree'[jobs[k].task])
      <4>1. jobs[k].task = T /\ worker[w].pc \in StagePcs
        BY <1>2, <3>2, <3>4
      <4>2. Begun(jobs[k])
        BY <3>1 DEF Begun, NoProgress
      <4>3. InTree(w) /\ Row(w).status = "running" /\ Row(w).kind = "dev.task"
        BY <3>1, <4>1, WorkerFacts DEF IInv, HolderInTree, InTree
      <4>4. Begun(jobs[j])
        BY <4>3 DEF Begun, Row, Ended
      <4> QED BY <1>0, <2>2, <3>1, <4>1, <4>2, <4>4 DEF IInv, OneBegun
    <3> QED BY <3>3, <3>4
  <2> QED BY <2>1, <2>2
<1>4. ASSUME NEW v \in Workers, worker'[v].pc \in StagePcs,
             jobs'[worker'[v].job].task \notin shared, v # w
      PROVE  /\ InTree(v) /\ worker'[v] = worker[v] /\ Task(v) \in Tasks
             /\ jobs'[worker'[v].job].task = Task(v)
             /\ SameCode(tree[Task(v)], tree'[Task(v)])
  <2>1. worker'[v] = worker[v] /\ worker[v].pc \in StagePcs
    BY <1>0, <1>4
  <2>2. worker[v].job \in Jobs /\ Task(v) \in Tasks
    BY <2>1, WorkerFacts
  <2>3. jobs'[worker'[v].job].task = Task(v)
    BY <1>0, <2>1, <2>2 DEF Task, Row
  <2>4. InTree(v)
    BY <1>4, <2>1, <2>3 DEF InTree
  <2>5. Task(v) # T => SameCode(tree[Task(v)], tree'[Task(v)])
    BY <1>2, <2>2
  <2>6. ASSUME Task(v) = T PROVE worker[w].pc \notin StagePcs
    <3>1. ~InTree(w)
      BY <1>4, <2>4, <2>6, AloneInTree
    <3>2. T \notin shared
      BY <2>4, <2>6 DEF InTree
    <3> QED BY <3>1, <3>2 DEF InTree
  <2>7. Task(v) = T => SameCode(tree[Task(v)], tree'[Task(v)])
    BY <2>2, <2>6
  <2> QED BY <2>1, <2>2, <2>3, <2>4, <2>5, <2>7
<1>5. new.pc \in StagePcs => new.job = j
  BY <1>0 DEF Idle, StagePcs
<1>6. JudgesCode'
  <2> SUFFICES ASSUME NEW v \in Workers, worker'[v].pc = "judge", jobs'[worker'[v].job].task \notin shared
               PROVE  /\ tree'[jobs'[worker'[v].job].task].code = worker'[v].seen
                      /\ worker'[v].seen \in Allowed
    BY DEF JudgesCode, InTree, Task, Row
  <2>0. worker'[v].pc \in StagePcs
    BY DEF StagePcs
  <2>1. CASE v = w
    BY <1>0, <1>5, <2>0, <2>1 DEF OwnTree
  <2>2. CASE v # w
    <3>1. worker[v].pc = "judge" /\ InTree(v)
      BY <1>4, <2>0, <2>2
    <3> QED BY <1>4, <2>0, <2>2, <3>1 DEF IInv, JudgesCode, SameCode
  <2> QED BY <2>1, <2>2
<1>7. CommittedCode'
  <2> SUFFICES ASSUME NEW v \in Workers, worker'[v].pc \in {"evidence", "commit_evidence", "record"},
                      jobs'[worker'[v].job].task \notin shared
               PROVE  LET after == tree'[jobs'[worker'[v].job].task]
                      IN  after.head = after.code /\ after.code \in Scanned
    BY DEF CommittedCode, InTree, Task, Row
  <2>0. worker'[v].pc \in StagePcs
    BY DEF StagePcs
  <2>1. CASE v = w
    BY <1>0, <1>5, <2>0, <2>1 DEF OwnTree
  <2>2. CASE v # w
    <3>1. worker[v].pc \in {"evidence", "commit_evidence", "record"} /\ InTree(v)
      BY <1>4, <2>0, <2>2
    <3> QED BY <1>4, <2>0, <2>2, <3>1 DEF IInv, CommittedCode, SameCode
  <2> QED BY <2>1, <2>2
<1>8. PublishedIsVerified'
  <2> SUFFICES ASSUME NEW k \in Jobs, jobs'[k].kind = "dev.task", jobs'[k].ckpt.stage = "done",
                      jobs'[k].task \notin shared
               PROVE  tree'[jobs'[k].task].head \in Good
    BY DEF PublishedIsVerified, Good
  <2>1. CASE k = j
    BY <1>0, <2>1 DEF OwnTree
  <2>2. CASE k # j
    <3>1. /\ jobs'[k] = jobs[k] /\ jobs[k].task \in Tasks
          /\ tree[jobs[k].task].head \in Good
      BY <1>0, <2>2 DEF IInv, PublishedIsVerified, Good, RowFits
    <3>2. CASE jobs[k].task # T
      BY <1>2, <3>1, <3>2 DEF SameCode
    <3>3. CASE jobs[k].task = T
      BY <3>1, <3>3 DEF SameCode
    <3> QED BY <3>2, <3>3
  <2> QED BY <2>1, <2>2
<1>9. Shapes'
  BY <1>1 DEF PoolFits, Shapes, IInv
<1> QED BY <1>1, <1>3, <1>6, <1>7, <1>8, <1>9 DEF PoolFits, IInv

-----------------------------------------------------------------------------
(* The rounds *)

\* Who is fixing a job before and after a step of w.
LEMMA FixingMoves ==
  ASSUME IInv, NEW w \in Workers, NEW new, NEW row, OwnStep(w, new, row)
  PROVE  /\ \A k \in Jobs : IsFiniteSet(Fixing(k)) /\ Cardinality(Fixing(k)) \in Nat
         /\ \A k \in Jobs : IsFiniteSet(Fixing(k)') /\ Cardinality(Fixing(k)') \in Nat
         /\ \A k \in Jobs : Fixing(k)' \subseteq Fixing(k) \cup {w}
         /\ \A k \in Jobs : k # worker[w].job => Fixing(k)' \subseteq Fixing(k)
         /\ new.pc # "fix" => \A k \in Jobs : Fixing(k)' \subseteq Fixing(k) \ {w}
<1>1. \A k \in Jobs : Fixing(k) \subseteq Workers /\ Fixing(k)' \subseteq Workers
  BY DEF Fixing
<1>2. IsFiniteSet(Workers)
  BY QueueAssumption
<1>3. ASSUME NEW S \in SUBSET Workers PROVE IsFiniteSet(S) /\ Cardinality(S) \in Nat
  BY <1>2, FS_Subset, FS_CardinalityType
<1>4. \A v \in Workers : v # w => worker'[v] = worker[v]
  BY OwnStepLeaves
<1>5. worker'[w] = new /\ (new = Idle \/ new.job = worker[w].job) /\ Idle.pc # "fix"
  BY OwnStepLeaves DEF Idle
<1>6. ASSUME NEW k \in Jobs
      PROVE  /\ Fixing(k)' \subseteq Fixing(k) \cup {w}
             /\ k # worker[w].job => Fixing(k)' \subseteq Fixing(k)
             /\ new.pc # "fix" => Fixing(k)' \subseteq Fixing(k) \ {w}
  BY <1>4, <1>5 DEF Fixing
<1> QED BY <1>1, <1>3, <1>6

\* No fix is begun or made.
LEMMA RoundsStayPaid ==
  ASSUME IInv, NEW w \in Workers, NEW new, NEW row, OwnStep(w, new, row), fixes' = fixes,
         new.pc # "fix", row.ckpt.rounds >= Row(w).ckpt.rounds
  PROVE  RoundsPaid'
<1> SUFFICES ASSUME NEW k \in Jobs
             PROVE  fixes[k] + Cardinality(Fixing(k)') <= jobs'[k].ckpt.rounds
  BY DEF RoundsPaid
<1>1. Cardinality(Fixing(k)') <= Cardinality(Fixing(k))
  <2>1. IsFiniteSet(Fixing(k)) /\ Fixing(k)' \subseteq Fixing(k)
    BY FixingMoves
  <2> QED BY <2>1, FS_Subset
<1>2. fixes[k] + Cardinality(Fixing(k)) <= jobs[k].ckpt.rounds
  BY DEF IInv, RoundsPaid
<1>3. /\ fixes[k] \in Nat /\ Cardinality(Fixing(k)) \in Nat /\ Cardinality(Fixing(k)') \in Nat
      /\ jobs[k].ckpt.rounds \in Nat /\ jobs'[k].ckpt.rounds \in Nat
  <2>1. jobs[k] \in JobRow /\ jobs'[k] \in JobRow /\ fixes[k] \in Nat
    BY OwnStepLeaves DEF IInv, Shapes
  <2> QED BY <2>1, FixingMoves DEF JobRow, Checkpoint
<1>4. jobs'[k].ckpt.rounds >= jobs[k].ckpt.rounds
  BY <1>3, OwnStepLeaves DEF Row
<1> QED BY <1>1, <1>2, <1>3, <1>4

\* A round is written down and its fix begun.
LEMMA RoundIsPaid ==
  ASSUME IInv, NEW w \in Workers, NEW new, NEW row, OwnStep(w, new, row), fixes' = fixes,
         row.ckpt.rounds = Row(w).ckpt.rounds + 1
  PROVE  RoundsPaid'
<1> SUFFICES ASSUME NEW k \in Jobs
             PROVE  fixes[k] + Cardinality(Fixing(k)') <= jobs'[k].ckpt.rounds
  BY DEF RoundsPaid
<1>1. IsFiniteSet(Fixing(k))
  BY FixingMoves
<1>2. fixes[k] + Cardinality(Fixing(k)) <= jobs[k].ckpt.rounds
  BY DEF IInv, RoundsPaid
<1>3. /\ fixes[k] \in Nat /\ Cardinality(Fixing(k)) \in Nat /\ Cardinality(Fixing(k)') \in Nat
      /\ jobs[k].ckpt.rounds \in Nat
  <2>1. jobs[k] \in JobRow /\ fixes[k] \in Nat
    BY DEF IInv, Shapes
  <2> QED BY <2>1, FixingMoves DEF JobRow, Checkpoint
<1>4. CASE k = worker[w].job
  <2>1. jobs'[k].ckpt.rounds = jobs[k].ckpt.rounds + 1
    BY <1>4, OwnStepLeaves DEF Row
  <2>2. /\ IsFiniteSet(Fixing(k) \cup {w})
        /\ Cardinality(Fixing(k) \cup {w}) <= Cardinality(Fixing(k)) + 1
        /\ Cardinality(Fixing(k) \cup {w}) \in Nat
    <3> DEFINE S == Fixing(k)
    <3> HIDE DEF S
    <3>1. IsFiniteSet(S) /\ Cardinality(S) \in Nat
      BY <1>1, <1>3 DEF S
    <3>2. /\ IsFiniteSet(S \cup {w})
          /\ Cardinality(S \cup {w}) = IF w \in S THEN Cardinality(S) ELSE Cardinality(S) + 1
      BY <3>1, FS_AddElement
    <3>3. Cardinality(S \cup {w}) <= Cardinality(S) + 1 /\ Cardinality(S \cup {w}) \in Nat
      BY <3>1, <3>2
    <3> QED BY <3>2, <3>3 DEF S
  <2>3. Cardinality(Fixing(k)') <= Cardinality(Fixing(k) \cup {w})
    BY <2>2, FixingMoves, FS_Subset
  <2> QED BY <1>2, <1>3, <2>1, <2>2, <2>3
<1>5. CASE k # worker[w].job
  <2>1. jobs'[k] = jobs[k]
    BY <1>5, OwnStepLeaves
  <2>2. Cardinality(Fixing(k)') <= Cardinality(Fixing(k))
    BY <1>1, <1>5, FixingMoves, FS_Subset
  <2> QED BY <1>2, <1>3, <2>1, <2>2
<1> QED BY <1>4, <1>5

\* A fix is made.
LEMMA FixWasPaid ==
  ASSUME IInv, NEW w \in Workers, NEW new, NEW row, OwnStep(w, new, row), worker[w].pc = "fix",
         fixes' = [fixes EXCEPT ![worker[w].job] = @ + 1],
         new.pc # "fix", row.ckpt.rounds = Row(w).ckpt.rounds
  PROVE  RoundsPaid'
<1> SUFFICES ASSUME NEW k \in Jobs
             PROVE  fixes'[k] + Cardinality(Fixing(k)') <= jobs'[k].ckpt.rounds
  BY DEF RoundsPaid
<1>1. IsFiniteSet(Fixing(k)) /\ Fixing(k)' \subseteq Fixing(k) \ {w}
  BY FixingMoves
<1>2. fixes[k] + Cardinality(Fixing(k)) <= jobs[k].ckpt.rounds
  BY DEF IInv, RoundsPaid
<1>3. /\ fixes[k] \in Nat /\ Cardinality(Fixing(k)) \in Nat /\ Cardinality(Fixing(k)') \in Nat
      /\ jobs[k].ckpt.rounds \in Nat
  <2>1. jobs[k] \in JobRow /\ fixes[k] \in Nat
    BY DEF IInv, Shapes
  <2> QED BY <2>1, FixingMoves DEF JobRow, Checkpoint
<1>4. jobs'[k].ckpt.rounds = jobs[k].ckpt.rounds
  BY OwnStepLeaves DEF Row
<1>5. CASE k = worker[w].job
  <2>1. fixes'[k] = fixes[k] + 1
    BY <1>5 DEF IInv, Shapes
  <2>2. w \in Fixing(k)
    BY <1>5 DEF Fixing
  <2>3. /\ IsFiniteSet(Fixing(k) \ {w})
        /\ Cardinality(Fixing(k) \ {w}) = Cardinality(Fixing(k)) - 1
    BY <1>1, <2>2, FS_RemoveElement
  <2>4. Cardinality(Fixing(k)') <= Cardinality(Fixing(k) \ {w})
    BY <1>1, <2>3, FS_Subset
  <2> QED BY <1>2, <1>3, <1>4, <2>1, <2>3, <2>4
<1>6. CASE k # worker[w].job
  <2>1. fixes'[k] = fixes[k]
    BY <1>6 DEF IInv, Shapes
  <2>2. Cardinality(Fixing(k)') <= Cardinality(Fixing(k))
    BY <1>1, FS_Subset
  <2> QED BY <1>2, <1>3, <1>4, <2>1, <2>2
<1> QED BY <1>5, <1>6

-----------------------------------------------------------------------------
(* The ways a step of a worker ends *)

\* In a worktree that was never shared the worker holds the job and knows its checkpoint.
LEMMA InTreeKnows ==
  ASSUME IInv, NEW w \in Workers, worker[w].pc \in StagePcs, Task(w) \notin shared
  PROVE  /\ worker[w].job \in Jobs /\ Task(w) \in Tasks /\ Row(w).kind = "dev.task"
         /\ Row(w).status = "running" /\ Row(w).holder = w /\ Ckpt(w) = Row(w).ckpt
<1>1. worker[w].job # 0 /\ worker[w].job \in Jobs /\ Task(w) \in Tasks /\ Row(w).kind = "dev.task"
  BY WorkerFacts
<1>2. Row(w).status = "running" /\ Row(w).holder = w
  BY DEF IInv, HolderInTree, InTree
<1> QED BY <1>1, <1>2 DEF IInv, HolderKnows

\* A worker lets go of its job and of what it did in the worktree.
LEMMA LeavingKeeps ==
  ASSUME IInv, NEW w \in Workers, worker[w].job # 0, shared' = shared,
         \/ GiveUp(w)
         \/ \E permanent \in BOOLEAN : Raise(w, permanent)
         \/ Throttled(w)
         \/ Release(w, Completed(Row(w))),
         \/ tree' = tree
         \/ \E c \in Code : /\ worker[w].pc \in {"implement", "fix"}
                            /\ tree' = [tree EXCEPT ![Task(w)].code = c]
         \/ \E doc \in {"draft", "unusable"} : /\ worker[w].pc = "spec"
                                               /\ tree' = [tree EXCEPT ![Task(w)].spec = doc],
         \/ fixes' = fixes
         \/ worker[w].pc = "fix" /\ fixes' = [fixes EXCEPT ![worker[w].job] = @ + 1]
  PROVE  IInv'
<1>1. PICK row \in JobRow : OwnStep(w, Idle, row) /\ (row = Row(w) \/ Dropped(Row(w), row))
  BY LeavingIsOwn
<1>2. /\ worker[w].job \in Jobs /\ Row(w) \in JobRow
      /\ worker[w].pc \in StagePcs => Task(w) \in Tasks /\ tree[Task(w)] \in TreeRow
  BY WorkerFacts
<1>3. row.ckpt = Row(w).ckpt /\ row.kind = Row(w).kind /\ row.task = Task(w) /\ Idle.pc = "idle"
  BY <1>1 DEF Dropped, Task, Idle
<1>4. RoundsPaid'
  <2>1. Row(w).ckpt.rounds \in Nat
    BY <1>2 DEF JobRow, Checkpoint
  <2> QED BY <1>1, <1>3, <2>1, RoundsStayPaid, FixWasPaid
<1>5. fixes' \in [Jobs -> Nat]
  BY <1>2 DEF IInv, Shapes
<1>6. /\ tree' \in [Tasks -> TreeRow]
      /\ \A t \in Tasks : t # Task(w) => SameCode(tree[t], tree'[t])
      /\ tree'[Task(w)].head = tree[Task(w)].head \/ Task(w) \notin Tasks
      /\ SameCode(tree[Task(w)], tree'[Task(w)]) \/ worker[w].pc \in {"implement", "fix"}
  <2>0. tree \in [Tasks -> TreeRow]
    BY DEF IInv, Shapes
  <2>1. CASE tree' = tree
    BY <2>0, <2>1 DEF SameCode
  <2>2. CASE \E c \in Code : /\ worker[w].pc \in {"implement", "fix"}
                             /\ tree' = [tree EXCEPT ![Task(w)].code = c]
    BY <1>2, <2>0, <2>2 DEF SameCode, TreeRow, StagePcs
  <2>3. CASE \E doc \in {"draft", "unusable"} : /\ worker[w].pc = "spec"
                                                /\ tree' = [tree EXCEPT ![Task(w)].spec = doc]
    BY <1>2, <2>0, <2>3 DEF SameCode, TreeRow, StagePcs
  <2> QED BY <2>1, <2>2, <2>3
<1>7. OwnTree(Idle, row, tree'[Task(w)])
  <2>1. CASE SameCode(tree[Task(w)], tree'[Task(w)])
    BY <1>1, <1>3, <2>1, OwnTreeKept
  <2>2. ASSUME worker[w].pc \in {"implement", "fix"}, Task(w) \notin shared
        PROVE  row.ckpt.stage \notin {"publish", "done"}
    <3>1. worker[w].ckpt = Row(w).ckpt
      BY <2>2, InTreeKnows DEF StagePcs, Ckpt
    <3>2. PcFits(worker[w])
      BY DEF IInv
    <3> QED BY <1>3, <2>2, <3>1, <3>2 DEF PcFits
  <2>3. CASE worker[w].pc \in {"implement", "fix"}
    BY <1>3, <2>2, <2>3 DEF OwnTree
  <2> QED BY <1>6, <2>1, <2>3
<1>8. worker[w].pc \in {"implement", "fix"} => worker[w].pc \in StagePcs /\ Task(w) \in Tasks
  BY <1>2 DEF StagePcs
<1> QED BY <1>1, <1>4, <1>5, <1>6, <1>7, <1>8, OwnStepKeeps

\* A worker moves on without a word to the table.
LEMMA MoveIsOwn ==
  ASSUME IInv, NEW w \in Workers, worker[w].job # 0, NEW new \in WorkerRow, PcFits(new),
         worker' = [worker EXCEPT ![w] = new], UNCHANGED jobs,
         new.job = worker[w].job, new.stale = worker[w].stale, new.ckpt = worker[w].ckpt,
         new.pc \in StagePcs => worker[w].pc \in StagePcs
  PROVE  OwnStep(w, new, Row(w))
<1>1. worker[w].job \in Jobs /\ Row(w) \in JobRow
  BY WorkerFacts
<1>2. jobs' = [jobs EXCEPT ![worker[w].job] = Row(w)]
  BY <1>1 DEF Row, IInv, Shapes
<1>3. Row(w).attempts <= Row(w).attempts
  BY <1>1 DEF JobRow
<1> QED BY <1>1, <1>2, <1>3 DEF OwnStep

\* An owner saves its checkpoint.
LEMMA SaveIsOwn ==
  ASSUME IInv, NEW w \in Workers, worker[w].pc \in StagePcs, NEW ckpt \in Checkpoint,
         NEW pc \in StagePcs, Save(w, ckpt, pc), Owns(w),
         PcFits([worker[w] EXCEPT !.ckpt = ckpt, !.pc = pc])
  PROVE  OwnStep(w, [worker[w] EXCEPT !.ckpt = ckpt, !.pc = pc], [Row(w) EXCEPT !.ckpt = ckpt])
<1> DEFINE new == [worker[w] EXCEPT !.ckpt = ckpt, !.pc = pc]
           row == [Row(w) EXCEPT !.ckpt = ckpt]
<1>1. /\ worker[w].job # 0 /\ worker[w].job \in Jobs /\ Row(w) \in JobRow
      /\ worker[w] \in WorkerRow
  BY WorkerFacts
<1>2. jobs' = [jobs EXCEPT ![worker[w].job] = row]
  BY DEF Save, Row
<1>3. worker' = [worker EXCEPT ![w] = new]
  BY DEF Save, IInv, Shapes
<1>4. new \in WorkerRow /\ new.job = worker[w].job /\ new.stale = worker[w].stale
      /\ new.ckpt = ckpt /\ new.pc = pc
  BY <1>1 DEF WorkerRow, Pcs
<1>5. row \in JobRow /\ row.ckpt = ckpt
  BY <1>1 DEF JobRow
<1>6. /\ row.kind = Row(w).kind /\ row.task = Row(w).task /\ row.sound = Row(w).sound
      /\ row.attempts = Row(w).attempts /\ row.status = Row(w).status
      /\ row.holder = Row(w).holder /\ row.attempts <= Row(w).attempts
  BY <1>1 DEF JobRow
<1>7. PcFits(new)
  OBVIOUS
<1> HIDE DEF new, row
<1>8. OwnStep(w, new, row)
  BY <1>1, <1>2, <1>3, <1>4, <1>5, <1>6, <1>7 DEF OwnStep
<1> QED BY <1>8 DEF new, row

\* What a step may do in the worktree without committing: model calls and notes.
Edited(w) ==
  \/ tree' = tree
  \/ \E c \in Code : /\ worker[w].pc \in {"implement", "fix"}
                     /\ tree' = [tree EXCEPT ![Task(w)].code = c]
  \/ \E doc \in {"draft", "unusable"} : /\ worker[w].pc = "spec"
                                        /\ tree' = [tree EXCEPT ![Task(w)].spec = doc]

LEMMA EditsTouchCode ==
  ASSUME IInv, NEW w \in Workers, worker[w].pc \in StagePcs, Edited(w)
  PROVE  /\ tree' \in [Tasks -> TreeRow]
         /\ \A t \in Tasks : t # Task(w) => SameCode(tree[t], tree'[t])
         /\ tree'[Task(w)].head = tree[Task(w)].head
<1>1. Task(w) \in Tasks /\ tree[Task(w)] \in TreeRow /\ tree \in [Tasks -> TreeRow]
  BY WorkerFacts DEF IInv, Shapes
<1>2. CASE tree' = tree
  BY <1>1, <1>2 DEF SameCode
<1>3. CASE \E c \in Code : tree' = [tree EXCEPT ![Task(w)].code = c]
  BY <1>1, <1>3 DEF SameCode, TreeRow
<1>4. CASE \E doc \in {"draft", "unusable"} : tree' = [tree EXCEPT ![Task(w)].spec = doc]
  BY <1>1, <1>4 DEF SameCode, TreeRow
<1> QED BY <1>2, <1>3, <1>4 DEF Edited

\* A worker saves its checkpoint, or learns that the job is no longer its own.
LEMMA SaveKeeps ==
  ASSUME IInv, NEW w \in Workers, worker[w].pc \in StagePcs, NEW ckpt \in Checkpoint,
         NEW pc \in {"ready", "commit_spec", "fix"}, Save(w, ckpt, pc), shared' = shared,
         PcFits([worker[w] EXCEPT !.ckpt = ckpt, !.pc = pc]),
         Edited(w),
         \/ /\ fixes' = fixes
            /\ \/ pc # "fix" /\ ckpt.rounds = Ckpt(w).rounds
               \/ ckpt.rounds = Ckpt(w).rounds + 1
         \/ /\ worker[w].pc = "fix" /\ fixes' = [fixes EXCEPT ![worker[w].job] = @ + 1]
            /\ pc # "fix" /\ ckpt.rounds = Ckpt(w).rounds,
         Task(w) \notin shared =>
           /\ ckpt.stage = "publish" => tree'[Task(w)].code \in Passing \cap Allowed
           /\ ckpt.stage = "done" => tree'[Task(w)].head \in Good
  PROVE  IInv'
<1> DEFINE new == [worker[w] EXCEPT !.ckpt = ckpt, !.pc = pc]
           row == [Row(w) EXCEPT !.ckpt = ckpt]
<1>0. /\ worker[w].job # 0 /\ worker[w].job \in Jobs /\ Row(w) \in JobRow
      /\ worker[w] \in WorkerRow /\ Row(w).ckpt.rounds \in Nat
  BY WorkerFacts DEF JobRow, Checkpoint
<1>1. CASE ~Owns(w)
  <2>1. GiveUp(w)
    BY <1>1 DEF Save
  <2> QED BY <1>0, <2>1, LeavingKeeps DEF Edited
<1>2. CASE Owns(w)
  <2>1. OwnStep(w, new, row)
    BY <1>2, SaveIsOwn DEF StagePcs
  <2>2. new.pc = pc /\ row.ckpt = ckpt /\ row.task = Task(w)
    BY <1>0 DEF JobRow, WorkerRow, Task
  <2>3. Ckpt(w) = Row(w).ckpt
    BY <1>0, <1>2, OwnerKnows
  <2> HIDE DEF new, row
  <2>4. RoundsPaid'
    BY <1>0, <2>1, <2>2, <2>3, RoundsStayPaid, RoundIsPaid, FixWasPaid
  <2>5. fixes' \in [Jobs -> Nat]
    BY <1>0 DEF IInv, Shapes
  <2>6. OwnTree(new, row, tree'[Task(w)])
    BY <2>2 DEF OwnTree
  <2> QED BY <2>1, <2>4, <2>5, <2>6, EditsTouchCode, OwnStepKeeps
<1> QED BY <1>1, <1>2

\* A worker moves on.
LEMMA MoveKeeps ==
  ASSUME IInv, NEW w \in Workers, worker[w].job # 0, NEW new \in WorkerRow, PcFits(new),
         worker' = [worker EXCEPT ![w] = new], UNCHANGED <<jobs, shared, fixes>>,
         new.job = worker[w].job, new.stale = worker[w].stale, new.ckpt = worker[w].ckpt,
         new.pc \in StagePcs => worker[w].pc \in StagePcs, new.pc # "fix",
         \/ tree' = tree
         \/ /\ worker[w].pc \in StagePcs
            /\ \E after \in TreeRow :
                 /\ tree' = [tree EXCEPT ![Task(w)] = after]
                 /\ after.code = tree[Task(w)].code
                 /\ \/ after.head = tree[Task(w)].head
                    \/ Task(w) \notin shared => after.head \in Good,
         OwnTree(new, Row(w), tree'[Task(w)])
  PROVE  IInv'
<1>0. worker[w].job \in Jobs /\ Row(w) \in JobRow /\ tree \in [Tasks -> TreeRow]
  BY WorkerFacts DEF IInv, Shapes
<1>1. OwnStep(w, new, Row(w))
  BY MoveIsOwn
<1>2. RoundsPaid'
  <2>1. Row(w).ckpt.rounds >= Row(w).ckpt.rounds
    BY <1>0 DEF JobRow, Checkpoint
  <2> QED BY <1>1, <2>1, RoundsStayPaid
<1>3. fixes' \in [Jobs -> Nat]
  BY DEF IInv, Shapes
<1>4. CASE tree' = tree
  <2>1. \A t \in Tasks : SameCode(tree[t], tree'[t])
    BY <1>4 DEF SameCode
  <2> QED BY <1>0, <1>1, <1>2, <1>3, <1>4, <2>1, OwnStepKeeps
<1>5. ASSUME NEW after \in TreeRow, tree' = [tree EXCEPT ![Task(w)] = after],
             worker[w].pc \in StagePcs,
             after.head = tree[Task(w)].head \/ (Task(w) \notin shared => after.head \in Good)
      PROVE  IInv'
  <2>1. /\ Task(w) \in Tasks /\ tree' \in [Tasks -> TreeRow] /\ tree'[Task(w)] = after
        /\ \A t \in Tasks : t # Task(w) => tree'[t] = tree[t]
    BY <1>0, <1>5, WorkerFacts
  <2>2. \A t \in Tasks : t # Task(w) => SameCode(tree[t], tree'[t])
    BY <2>1 DEF SameCode
  <2> QED BY <1>1, <1>2, <1>3, <1>5, <2>1, <2>2, OwnStepKeeps
<1> QED BY <1>4, <1>5

\* What is known of a worktree that was never shared.
LEMMA TreeKnown ==
  ASSUME IInv, NEW w \in Workers, worker[w].pc \in StagePcs, Task(w) \notin shared
  PROVE  /\ Row(w).ckpt = Ckpt(w)
         /\ Ckpt(w).stage = "publish" => tree[Task(w)].code \in Passing \cap Allowed
         /\ worker[w].pc = "judge" =>
              tree[Task(w)].code = worker[w].seen /\ worker[w].seen \in Allowed
         /\ worker[w].pc \in {"evidence", "commit_evidence", "record"} =>
              tree[Task(w)].head = tree[Task(w)].code /\ tree[Task(w)].code \in Scanned
<1>1. /\ worker[w].job \in Jobs /\ Row(w).kind = "dev.task" /\ Row(w).status = "running"
      /\ Ckpt(w) = Row(w).ckpt /\ InTree(w)
  BY InTreeKnows DEF InTree
<1>2. Ckpt(w).stage = "publish" => tree[Task(w)].code \in Passing \cap Allowed
  BY <1>1 DEF IInv, PublishesVerified, Row, Task, Ended
<1>3. /\ worker[w].pc = "judge" =>
           tree[Task(w)].code = worker[w].seen /\ worker[w].seen \in Allowed
      /\ worker[w].pc \in {"evidence", "commit_evidence", "record"} =>
           tree[Task(w)].head = tree[Task(w)].code /\ tree[Task(w)].code \in Scanned
  BY <1>1 DEF IInv, JudgesCode, CommittedCode
<1> QED BY <1>1, <1>2, <1>3

-----------------------------------------------------------------------------
(* The stages *)

LEMMA FailsLeaves ==
  ASSUME NEW w, Fails(w)
  PROVE  (\E permanent \in BOOLEAN : Raise(w, permanent)) \/ Throttled(w)
BY DEF Fails

\* What a worker in a stage has.
LEMMA StageFacts ==
  ASSUME IInv, NEW w \in Workers, worker[w].pc \in StagePcs
  PROVE  /\ worker[w] \in WorkerRow /\ PcFits(worker[w]) /\ worker[w].job # 0
         /\ worker[w].job \in Jobs /\ Ckpt(w) \in Checkpoint
         /\ Ckpt(w) = worker[w].ckpt
         /\ Task(w) \in Tasks /\ tree[Task(w)] \in TreeRow
         /\ tree \in [Tasks -> TreeRow] /\ worker \in [Workers -> WorkerRow]
<1>1. /\ worker[w] \in WorkerRow /\ PcFits(worker[w]) /\ worker[w].job # 0
      /\ worker[w].job \in Jobs
      /\ Task(w) \in Tasks /\ tree[Task(w)] \in TreeRow
  BY WorkerFacts
<1>2. tree \in [Tasks -> TreeRow] /\ worker \in [Workers -> WorkerRow]
  BY DEF IInv, Shapes
<1>3. Ckpt(w) = worker[w].ckpt /\ worker[w].ckpt \in Checkpoint
  BY <1>1 DEF Ckpt, WorkerRow
<1> QED BY <1>1, <1>2, <1>3

LEMMA ReadyFits ==
  ASSUME NEW x \in WorkerRow, x.job # 0, NEW ckpt
  PROVE  PcFits([x EXCEPT !.ckpt = ckpt, !.pc = "ready"])
BY DEF WorkerRow, PcFits

\* The loop saves a new stage.
LEMMA SaveStageKeeps ==
  ASSUME IInv, NEW w \in Workers, worker[w].pc \in StagePcs,
         NEW stage \in {"implement", "verify", "publish", "done"},
         SaveStage(w, stage), shared' = shared, fixes' = fixes, Edited(w),
         Task(w) \notin shared =>
           /\ stage = "publish" => tree'[Task(w)].code \in Passing \cap Allowed
           /\ stage = "done" => tree'[Task(w)].head \in Good
  PROVE  IInv'
<1> DEFINE ckpt == [Ckpt(w) EXCEPT !.stage = stage]
<1>1. Ckpt(w) \in Checkpoint /\ worker[w] \in WorkerRow /\ worker[w].job # 0
  BY StageFacts
<1>2. ckpt \in Checkpoint /\ ckpt.stage = stage /\ ckpt.rounds = Ckpt(w).rounds
  BY <1>1 DEF Checkpoint, Stages
<1>3. Save(w, ckpt, "ready")
  BY DEF SaveStage
<1> HIDE DEF ckpt
<1>4. PcFits([worker[w] EXCEPT !.ckpt = ckpt, !.pc = "ready"])
  BY <1>1, ReadyFits
<1> QED BY <1>2, <1>3, <1>4, SaveKeeps

LEMMA BeginStageKeeps ==
  ASSUME IInv, NEW w \in Workers, BeginStage(w) PROVE IInv'
<1>0. worker[w].pc = "ready" /\ UNCHANGED <<tree, shared, fixes>>
  BY DEF BeginStage, At, ghosts
<1>1. worker[w].pc \in StagePcs
  BY <1>0 DEF StagePcs
<1>2. /\ worker[w] \in WorkerRow /\ worker[w].job # 0 /\ worker[w].job \in Jobs
      /\ Row(w) \in JobRow /\ worker[w].ckpt \in Checkpoint /\ worker \in [Workers -> WorkerRow]
  BY <1>1, StageFacts, WorkerFacts
<1>3. CASE ~Owns(w)
  <2>1. Raise(w, FALSE)
    BY <1>3 DEF BeginStage
  <2> QED BY <1>0, <1>2, <2>1, LeavingKeeps
<1>4. CASE Owns(w)
  <2> DEFINE pc == NextStep(w)
             new == [worker[w] EXCEPT !.pc = pc]
             row == Extended(Row(w))
  <2>1. /\ pc \in {"finish", "commit_spec", "spec", "implement", "verify", "publish"}
        /\ pc \in {"spec", "commit_spec"} => worker[w].ckpt.stage = "spec"
        /\ pc \in {"implement", "verify", "publish"} => worker[w].ckpt.stage = pc
    BY <1>2 DEF NextStep, Ckpt, Checkpoint, Stages
  <2> HIDE DEF pc
  <2>2. new \in WorkerRow /\ PcFits(new) /\ new.pc = pc /\ new.job = worker[w].job
        /\ new.stale = worker[w].stale /\ new.ckpt = worker[w].ckpt
    BY <1>2, <2>1 DEF WorkerRow, Pcs, StagePcs, PcFits
  <2>3. row \in JobRow /\ row.kind = Row(w).kind /\ row.task = Row(w).task
        /\ row.sound = Row(w).sound /\ row.attempts = Row(w).attempts
        /\ row.status = Row(w).status /\ row.holder = Row(w).holder /\ row.ckpt = Row(w).ckpt
        /\ row.attempts <= Row(w).attempts /\ row.ckpt.rounds >= Row(w).ckpt.rounds
    BY <1>2, QueueAssumption DEF JobRow, Extended, Checkpoint
  <2>4. worker' = [worker EXCEPT ![w] = new] /\ jobs' = [jobs EXCEPT ![worker[w].job] = row]
    <3>1. worker' = [worker EXCEPT ![w].pc = pc]
      BY <1>4 DEF BeginStage, pc
    <3>2. jobs' = [jobs EXCEPT ![worker[w].job] = Extended(@)]
      BY <1>4 DEF BeginStage
    <3> QED BY <1>2, <3>1, <3>2 DEF Row
  <2> HIDE DEF new, row
  <2>5. OwnStep(w, new, row)
    BY <1>1, <1>2, <1>4, <2>2, <2>3, <2>4 DEF OwnStep
  <2>6. RoundsPaid'
    BY <1>0, <2>1, <2>2, <2>3, <2>5, RoundsStayPaid
  <2>7. \A t : SameCode(tree[t], tree'[t])
    BY <1>0 DEF SameCode
  <2>8. OwnTree(new, row, tree'[Task(w)])
    BY <2>1, <2>2, <2>3, <2>5, <2>7, OwnTreeKept
  <2>9. fixes' \in [Jobs -> Nat] /\ tree' \in [Tasks -> TreeRow]
    BY <1>0 DEF IInv, Shapes
  <2> QED BY <1>0, <2>5, <2>6, <2>7, <2>8, <2>9, OwnStepKeeps
<1> QED BY <1>3, <1>4

LEMMA WriteSpecKeeps ==
  ASSUME IInv, NEW w \in Workers, WriteSpec(w) PROVE IInv'
<1>0. worker[w].pc = "spec" /\ UNCHANGED <<shared, fixes>>
  BY DEF WriteSpec, At
<1>1. worker[w].pc \in StagePcs
  BY <1>0 DEF StagePcs
<1>2. /\ worker[w] \in WorkerRow /\ PcFits(worker[w]) /\ worker[w].job # 0 /\ Ckpt(w) \in Checkpoint
      /\ Ckpt(w) = worker[w].ckpt
  BY <1>1, StageFacts
<1>3. ASSUME NEW doc \in {"draft", "unusable"}, tree' = [tree EXCEPT ![Task(w)].spec = doc],
             Save(w, Ckpt(w), "commit_spec")
      PROVE  IInv'
  <2>1. Edited(w)
    BY <1>0, <1>3 DEF Edited
  <2>2. Ckpt(w).stage = "spec"
    BY <1>0, <1>2 DEF PcFits
  <2>3. PcFits([worker[w] EXCEPT !.ckpt = Ckpt(w), !.pc = "commit_spec"])
    BY <1>2, <2>2 DEF PcFits, WorkerRow
  <2> QED BY <1>0, <1>1, <1>2, <1>3, <2>1, <2>2, <2>3, SaveKeeps
<1>4. ASSUME Fails(w), tree' = tree PROVE IInv'
  BY <1>0, <1>2, <1>4, FailsLeaves, LeavingKeeps
<1> QED BY <1>3, <1>4 DEF WriteSpec

LEMMA CommitSpecKeeps ==
  ASSUME IInv, NEW w \in Workers, CommitSpec(w) PROVE IInv'
<1>0. worker[w].pc = "commit_spec" /\ UNCHANGED <<shared, fixes>>
  BY DEF CommitSpec, At, ghosts
<1>1. worker[w].pc \in StagePcs
  BY <1>0 DEF StagePcs
<1>2. /\ worker[w] \in WorkerRow /\ PcFits(worker[w]) /\ worker[w].job # 0
      /\ Task(w) \in Tasks /\ tree[Task(w)] \in TreeRow
      /\ tree \in [Tasks -> TreeRow] /\ worker \in [Workers -> WorkerRow]
  BY <1>1, StageFacts
<1>3. ASSUME Raise(w, FALSE), tree' = tree PROVE IInv'
  BY <1>0, <1>2, <1>3, LeavingKeeps
<1>4. ASSUME tree' = [tree EXCEPT ![Task(w)].spec = "committed"],
             worker' = [worker EXCEPT ![w].pc = "record_spec"], UNCHANGED jobs
      PROVE  IInv'
  <2> DEFINE new == [worker[w] EXCEPT !.pc = "record_spec"]
             after == [tree[Task(w)] EXCEPT !.spec = "committed"]
  <2>1. /\ worker' = [worker EXCEPT ![w] = new] /\ new \in WorkerRow /\ PcFits(new)
        /\ new.job = worker[w].job /\ new.stale = worker[w].stale /\ new.ckpt = worker[w].ckpt
        /\ new.pc = "record_spec"
    BY <1>0, <1>2, <1>4 DEF WorkerRow, Pcs, StagePcs, PcFits
  <2>2. /\ tree' = [tree EXCEPT ![Task(w)] = after] /\ after \in TreeRow
        /\ SameCode(tree[Task(w)], after) /\ tree'[Task(w)] = after
    BY <1>2, <1>4 DEF TreeRow, SameCode
  <2> HIDE DEF new, after
  <2>3. OwnStep(w, new, Row(w))
    BY <1>0, <1>1, <1>2, <1>4, <2>1, MoveIsOwn
  <2>4. OwnTree(new, Row(w), after)
    BY <2>1, <2>2, <2>3, OwnTreeKept
  <2> QED BY <1>0, <1>1, <1>2, <1>4, <2>1, <2>2, <2>4, MoveKeeps DEF SameCode
<1> QED BY <1>3, <1>4 DEF CommitSpec

LEMMA RecordSpecKeeps ==
  ASSUME IInv, NEW w \in Workers, RecordSpec(w) PROVE IInv'
<1>1. worker[w].pc \in StagePcs /\ UNCHANGED <<tree, shared, fixes>>
  BY DEF RecordSpec, At, StagePcs, ghosts
<1>2. SaveStage(w, "implement") /\ Edited(w)
  BY <1>1 DEF RecordSpec, Edited
<1> QED BY <1>1, <1>2, SaveStageKeeps

LEMMA ImplementKeeps ==
  ASSUME IInv, NEW w \in Workers, Implement(w) PROVE IInv'
<1>0. worker[w].pc = "implement" /\ UNCHANGED <<shared, fixes>>
  BY DEF Implement, At
<1>1. worker[w].pc \in StagePcs /\ worker[w].job # 0
  BY <1>0, StageFacts DEF StagePcs
<1>2. PICK c \in Code :
        /\ tree' = [tree EXCEPT ![Task(w)].code = c]
        /\ SaveStage(w, "verify") \/ Raise(w, FALSE) \/ Fails(w)
  BY DEF Implement
<1>3. Edited(w)
  BY <1>0, <1>2 DEF Edited
<1>4. CASE SaveStage(w, "verify")
  BY <1>0, <1>1, <1>3, <1>4, SaveStageKeeps
<1>5. CASE Raise(w, FALSE) \/ Fails(w)
  BY <1>0, <1>1, <1>2, <1>5, FailsLeaves, LeavingKeeps
<1> QED BY <1>2, <1>4, <1>5

LEMMA RunTestsKeeps ==
  ASSUME IInv, NEW w \in Workers, RunTests(w) PROVE IInv'
<1>0. worker[w].pc = "verify" /\ UNCHANGED <<tree, shared, fixes>>
  BY DEF RunTests, At, ghosts
<1>1. worker[w].pc \in StagePcs
  BY <1>0 DEF StagePcs
<1>2. /\ worker[w] \in WorkerRow /\ PcFits(worker[w]) /\ worker[w].job # 0
      /\ Task(w) \in Tasks /\ tree[Task(w)] \in TreeRow /\ worker \in [Workers -> WorkerRow]
      /\ Ckpt(w) = worker[w].ckpt
  BY <1>1, StageFacts
<1>3. ASSUME NEW permanent \in BOOLEAN, Raise(w, permanent) PROVE IInv'
  BY <1>0, <1>2, <1>3, LeavingKeeps
<1>4. ASSUME tree[Task(w)].code \in Allowed, UNCHANGED jobs,
             worker' = [worker EXCEPT ![w].seen = tree[Task(w)].code, ![w].pc = "judge"]
      PROVE  IInv'
  <2> DEFINE new == [worker[w] EXCEPT !.seen = tree[Task(w)].code, !.pc = "judge"]
  <2>1. tree[Task(w)].code \in Code
    BY <1>2 DEF TreeRow
  <2>2. worker' = [worker EXCEPT ![w] = new]
    BY <1>2, <1>4
  <2>3. /\ new \in WorkerRow /\ PcFits(new)
        /\ new.job = worker[w].job /\ new.stale = worker[w].stale /\ new.ckpt = worker[w].ckpt
        /\ new.pc = "judge" /\ new.seen = tree[Task(w)].code
    BY <1>0, <1>2, <2>1 DEF WorkerRow, Pcs, StagePcs, PcFits
  <2> HIDE DEF new
  <2>4. Ckpt(w).stage = "verify"
    BY <1>0, <1>2 DEF PcFits
  <2>5. Task(w) \notin shared => Row(w).ckpt.stage = "verify"
    BY <1>1, <2>4, TreeKnown
  <2>6. OwnTree(new, Row(w), tree'[Task(w)])
    BY <1>0, <1>4, <2>3, <2>5 DEF OwnTree, Task
  <2> QED BY <1>0, <1>1, <1>2, <1>4, <2>2, <2>3, <2>6, MoveKeeps
<1> QED BY <1>3, <1>4 DEF RunTests

LEMMA JudgeTestsKeeps ==
  ASSUME IInv, NEW w \in Workers, JudgeTests(w) PROVE IInv'
<1>0. worker[w].pc = "judge" /\ UNCHANGED <<tree, shared, fixes>>
  BY DEF JudgeTests, At, ghosts
<1>1. worker[w].pc \in StagePcs /\ Edited(w)
  BY <1>0 DEF StagePcs, Edited
<1>2. /\ worker[w] \in WorkerRow /\ PcFits(worker[w]) /\ worker[w].job # 0
      /\ Ckpt(w) = worker[w].ckpt /\ Ckpt(w) \in Checkpoint
  BY <1>1, StageFacts
<1>3. CASE Accepts(w) /\ SaveStage(w, "publish")
  <2>1. Task(w) \notin shared => tree'[Task(w)].code \in Passing \cap Allowed
    BY <1>0, <1>1, <1>3, TreeKnown DEF Accepts
  <2> QED BY <1>0, <1>1, <1>3, <2>1, SaveStageKeeps
<1>4. CASE Raise(w, TRUE)
  BY <1>0, <1>2, <1>4, LeavingKeeps
<1>5. CASE ~(Ckpt(w).rounds >= MaxFix) /\ Save(w, RoundSpent(w), "fix")
  <2> DEFINE ckpt == RoundSpent(w)
  <2>1. Ckpt(w).stage = "verify"
    BY <1>0, <1>2 DEF PcFits
  <2>2. Ckpt(w).rounds + 1 \in 0..MaxFix /\ worker[w].seen \in Code
    BY <1>2, <1>5, PipelineAssumption DEF Checkpoint, WorkerRow
  <2>3. ckpt \in Checkpoint /\ ckpt.stage = "verify" /\ ckpt.rounds = Ckpt(w).rounds + 1
    BY <1>2, <2>1, <2>2 DEF RoundSpent, Checkpoint
  <2>4. Save(w, ckpt, "fix")
    BY <1>5
  <2> HIDE DEF ckpt
  <2>5. PcFits([worker[w] EXCEPT !.ckpt = ckpt, !.pc = "fix"])
    BY <1>2, <2>3 DEF PcFits, WorkerRow
  <2> QED BY <1>0, <1>1, <2>3, <2>4, <2>5, SaveKeeps
<1> QED BY <1>3, <1>4, <1>5 DEF JudgeTests

LEMMA FixKeeps ==
  ASSUME IInv, NEW w \in Workers, Fix(w) PROVE IInv'
<1>0. /\ worker[w].pc = "fix" /\ shared' = shared
      /\ fixes' = [fixes EXCEPT ![worker[w].job] = @ + 1]
  BY DEF Fix, At
<1>1. worker[w].pc \in StagePcs
  BY <1>0 DEF StagePcs
<1>2. /\ worker[w] \in WorkerRow /\ worker[w].job # 0 /\ Ckpt(w) \in Checkpoint
  BY <1>1, StageFacts
<1> DEFINE ckpt == [Ckpt(w) EXCEPT !.completed = Ckpt(w).rounds, !.stage = "verify"]
<1>3. PICK c \in Code :
        /\ tree' = [tree EXCEPT ![Task(w)].code = c]
        /\ Save(w, ckpt, "ready") \/ Raise(w, FALSE) \/ Fails(w)
  BY DEF Fix
<1>4. Edited(w)
  BY <1>0, <1>3 DEF Edited
<1>5. CASE Save(w, ckpt, "ready")
  <2>1. ckpt \in Checkpoint /\ ckpt.stage = "verify" /\ ckpt.rounds = Ckpt(w).rounds
    BY <1>2 DEF Checkpoint, Stages
  <2>2. Save(w, ckpt, "ready")
    BY <1>5
  <2> HIDE DEF ckpt
  <2>3. PcFits([worker[w] EXCEPT !.ckpt = ckpt, !.pc = "ready"])
    BY <1>2, ReadyFits
  <2> QED BY <1>0, <1>1, <1>4, <2>1, <2>2, <2>3, SaveKeeps
<1>6. CASE Raise(w, FALSE) \/ Fails(w)
  BY <1>0, <1>2, <1>3, <1>6, FailsLeaves, LeavingKeeps
<1> QED BY <1>3, <1>5, <1>6

\* What is committed at the publish stage was tested, guarded and scanned.
LEMMA CommitFeatureKeeps ==
  ASSUME IInv, NEW w \in Workers, CommitFeature(w) PROVE IInv'
<1>0. worker[w].pc = "publish" /\ UNCHANGED <<shared, fixes>>
  BY DEF CommitFeature, At, ghosts
<1>1. worker[w].pc \in StagePcs
  BY <1>0 DEF StagePcs
<1>2. /\ worker[w] \in WorkerRow /\ PcFits(worker[w]) /\ worker[w].job # 0
      /\ Task(w) \in Tasks /\ tree[Task(w)] \in TreeRow
      /\ tree \in [Tasks -> TreeRow] /\ worker \in [Workers -> WorkerRow]
      /\ Ckpt(w) = worker[w].ckpt
  BY <1>1, StageFacts
<1> DEFINE code == tree[Task(w)].code
<1>3. ASSUME NEW permanent \in BOOLEAN, Raise(w, permanent), tree' = tree PROVE IInv'
  BY <1>0, <1>2, <1>3, LeavingKeeps
<1>4. ASSUME code \in Allowed \cap Scanned, UNCHANGED jobs,
             tree' = [tree EXCEPT ![Task(w)].head = code, ![Task(w)].notes = FALSE],
             worker' = [worker EXCEPT ![w].pc = "evidence"]
      PROVE  IInv'
  <2> DEFINE new == [worker[w] EXCEPT !.pc = "evidence"]
             after == [tree[Task(w)] EXCEPT !.head = code, !.notes = FALSE]
  <2>1. /\ worker' = [worker EXCEPT ![w] = new] /\ new \in WorkerRow /\ PcFits(new)
        /\ new.job = worker[w].job /\ new.stale = worker[w].stale /\ new.ckpt = worker[w].ckpt
        /\ new.pc = "evidence"
    BY <1>0, <1>2, <1>4 DEF WorkerRow, Pcs, StagePcs, PcFits
  <2>2. /\ tree' = [tree EXCEPT ![Task(w)] = after] /\ after \in TreeRow
        /\ tree'[Task(w)] = after /\ after.code = code /\ after.head = code
    BY <1>2, <1>4 DEF TreeRow
  <2> HIDE DEF new, after
  <2>3. Ckpt(w).stage = "publish"
    BY <1>0, <1>2 DEF PcFits
  <2>4. Task(w) \notin shared => Row(w).ckpt.stage = "publish" /\ code \in Passing \cap Allowed
    BY <1>1, <2>3, TreeKnown
  <2>5. OwnTree(new, Row(w), after)
    BY <1>4, <2>1, <2>2, <2>4 DEF OwnTree, Task, Good
  <2>6. Task(w) \notin shared => after.head \in Good
    BY <1>4, <2>2, <2>4 DEF Good
  <2> QED BY <1>0, <1>1, <1>2, <1>4, <2>1, <2>2, <2>5, <2>6, MoveKeeps
<1>5. \/ /\ code \in Allowed \cap Scanned /\ UNCHANGED jobs
         /\ tree' = [tree EXCEPT ![Task(w)].head = code, ![Task(w)].notes = FALSE]
         /\ worker' = [worker EXCEPT ![w].pc = "evidence"]
      \/ (\E permanent \in BOOLEAN : Raise(w, permanent)) /\ tree' = tree
  BY DEF CommitFeature
<1> QED BY <1>3, <1>4, <1>5

LEMMA AppendEvidenceKeeps ==
  ASSUME IInv, NEW w \in Workers, AppendEvidence(w) PROVE IInv'
<1>0. worker[w].pc = "evidence" /\ UNCHANGED <<jobs, shared, fixes>>
  BY DEF AppendEvidence, At, ghosts
<1>1. worker[w].pc \in StagePcs
  BY <1>0 DEF StagePcs
<1>2. /\ worker[w] \in WorkerRow /\ PcFits(worker[w]) /\ worker[w].job # 0
      /\ Task(w) \in Tasks /\ tree[Task(w)] \in TreeRow
      /\ tree \in [Tasks -> TreeRow] /\ worker \in [Workers -> WorkerRow]
      /\ Ckpt(w) = worker[w].ckpt
  BY <1>1, StageFacts
<1> DEFINE new == [worker[w] EXCEPT !.pc = "commit_evidence"]
           after == [tree[Task(w)] EXCEPT !.notes = TRUE]
<1>3. /\ worker' = [worker EXCEPT ![w] = new] /\ new \in WorkerRow /\ PcFits(new)
      /\ new.job = worker[w].job /\ new.stale = worker[w].stale /\ new.ckpt = worker[w].ckpt
      /\ new.pc = "commit_evidence"
  BY <1>0, <1>2 DEF AppendEvidence, WorkerRow, Pcs, StagePcs, PcFits
<1>4. /\ tree' = [tree EXCEPT ![Task(w)] = after] /\ after \in TreeRow
      /\ tree'[Task(w)] = after
      /\ after.code = tree[Task(w)].code /\ after.head = tree[Task(w)].head
  BY <1>2 DEF AppendEvidence, TreeRow
<1> HIDE DEF new, after
<1>5. Ckpt(w).stage = "publish"
  BY <1>0, <1>2 DEF PcFits
<1>6. Task(w) \notin shared =>
        /\ Row(w).ckpt.stage = "publish"
        /\ tree[Task(w)].code \in Passing \cap Allowed
        /\ tree[Task(w)].head = tree[Task(w)].code /\ tree[Task(w)].code \in Scanned
  BY <1>0, <1>1, <1>5, TreeKnown
<1>7. OwnTree(new, Row(w), after)
  BY <1>3, <1>4, <1>6 DEF OwnTree, Task
<1> QED BY <1>0, <1>1, <1>2, <1>3, <1>4, <1>7, MoveKeeps

LEMMA CommitEvidenceKeeps ==
  ASSUME IInv, NEW w \in Workers, CommitEvidence(w) PROVE IInv'
<1>0. worker[w].pc = "commit_evidence" /\ UNCHANGED <<shared, fixes>>
  BY DEF CommitEvidence, At, ghosts
<1>1. worker[w].pc \in StagePcs
  BY <1>0 DEF StagePcs
<1>2. /\ worker[w] \in WorkerRow /\ PcFits(worker[w]) /\ worker[w].job # 0
      /\ Task(w) \in Tasks /\ tree[Task(w)] \in TreeRow
      /\ tree \in [Tasks -> TreeRow] /\ worker \in [Workers -> WorkerRow]
      /\ Ckpt(w) = worker[w].ckpt
  BY <1>1, StageFacts
<1> DEFINE code == tree[Task(w)].code
<1>3. ASSUME Raise(w, FALSE), tree' = tree PROVE IInv'
  BY <1>0, <1>2, <1>3, LeavingKeeps
<1>4. ASSUME UNCHANGED jobs,
             tree' = [tree EXCEPT ![Task(w)].notes = FALSE, ![Task(w)].head = code],
             worker' = [worker EXCEPT ![w].pc = "record"]
      PROVE  IInv'
  <2> DEFINE new == [worker[w] EXCEPT !.pc = "record"]
             after == [tree[Task(w)] EXCEPT !.notes = FALSE, !.head = code]
  <2>1. /\ worker' = [worker EXCEPT ![w] = new] /\ new \in WorkerRow /\ PcFits(new)
        /\ new.job = worker[w].job /\ new.stale = worker[w].stale /\ new.ckpt = worker[w].ckpt
        /\ new.pc = "record"
    BY <1>0, <1>2, <1>4 DEF WorkerRow, Pcs, StagePcs, PcFits
  <2>2. /\ tree' = [tree EXCEPT ![Task(w)] = after] /\ after \in TreeRow
        /\ tree'[Task(w)] = after /\ after.code = code /\ after.head = code
    BY <1>2, <1>4 DEF TreeRow
  <2> HIDE DEF new, after
  <2>3. Ckpt(w).stage = "publish"
    BY <1>0, <1>2 DEF PcFits
  <2>4. Task(w) \notin shared => /\ Row(w).ckpt.stage = "publish"
                                 /\ code \in Passing \cap Allowed /\ code \in Scanned
    BY <1>0, <1>1, <2>3, TreeKnown
  <2>5. OwnTree(new, Row(w), after)
    BY <2>1, <2>2, <2>4 DEF OwnTree, Task, Good
  <2>6. Task(w) \notin shared => after.head \in Good
    BY <2>2, <2>4 DEF Good
  <2> QED BY <1>0, <1>1, <1>2, <1>4, <2>1, <2>2, <2>5, <2>6, MoveKeeps
<1> QED BY <1>3, <1>4 DEF CommitEvidence

LEMMA RecordPublishedKeeps ==
  ASSUME IInv, NEW w \in Workers, RecordPublished(w) PROVE IInv'
<1>0. worker[w].pc = "record" /\ UNCHANGED <<tree, shared, fixes>>
  BY DEF RecordPublished, At, ghosts
<1>1. worker[w].pc \in StagePcs /\ Edited(w) /\ SaveStage(w, "done")
  BY <1>0 DEF StagePcs, Edited, RecordPublished
<1>2. Ckpt(w).stage = "publish"
  BY <1>0, <1>1, StageFacts DEF PcFits
<1>3. Task(w) \notin shared => tree'[Task(w)].head \in Good
  BY <1>0, <1>1, <1>2, TreeKnown DEF Good
<1> QED BY <1>0, <1>1, <1>3, SaveStageKeeps

LEMMA StageKeeps ==
  ASSUME IInv, NEW w \in Workers, Stage(w) PROVE IInv'
BY BeginStageKeeps, WriteSpecKeeps, CommitSpecKeeps, RecordSpecKeeps, ImplementKeeps,
   RunTestsKeeps, JudgeTestsKeeps, FixKeeps, CommitFeatureKeeps, AppendEvidenceKeeps,
   CommitEvidenceKeeps, RecordPublishedKeeps DEF Stage

-----------------------------------------------------------------------------
(* Steps that leave the worktrees and the stages alone *)

\* Every row keeps its checkpoint, and its kind and task unless it is new; whoever
\* is in a stage was there before or is at its beginning.
LEMMA RestKeeps ==
  ASSUME IInv, tree' = tree, fixes' = fixes, shared \subseteq shared', shared' \subseteq Tasks,
         jobs' \in [Jobs -> JobRow], worker' \in [Workers -> WorkerRow],
         \A k \in Jobs :
           /\ jobs'[k].ckpt = jobs[k].ckpt
           /\ \/ jobs'[k].kind = jobs[k].kind /\ jobs'[k].task = jobs[k].task
              \/ jobs'[k].ckpt = NoProgress
           /\ jobs'[k].status \notin Ended => jobs[k].status \notin Ended,
         \A v \in Workers : worker'[v].pc \in StagePcs =>
           \/ worker'[v].pc = "ready"
           \/ /\ worker'[v].pc = worker[v].pc /\ worker'[v].seen = worker[v].seen
              /\ worker'[v].job = worker[v].job
              /\ jobs'[worker[v].job].task = Task(v)
  PROVE  /\ Shapes' /\ RoundsPaid' /\ PublishesVerified' /\ JudgesCode' /\ CommittedCode'
         /\ PublishedIsVerified'
<1>1. Shapes'
  BY DEF IInv, Shapes
<1>2. RoundsPaid'
  <2> SUFFICES ASSUME NEW k \in Jobs
               PROVE  fixes[k] + Cardinality(Fixing(k)') <= jobs[k].ckpt.rounds
    BY DEF RoundsPaid
  <2>1. Fixing(k)' \subseteq Fixing(k)
    BY DEF Fixing, StagePcs
  <2>2. IsFiniteSet(Fixing(k)) /\ Fixing(k) \subseteq Workers
    BY QueueAssumption, FS_Subset DEF Fixing
  <2>3. /\ IsFiniteSet(Fixing(k)') /\ Cardinality(Fixing(k)') <= Cardinality(Fixing(k))
    BY <2>1, <2>2, FS_Subset
  <2>4. Cardinality(Fixing(k)') \in Nat /\ Cardinality(Fixing(k)) \in Nat
    BY <2>2, <2>3, FS_CardinalityType
  <2>5. jobs[k].ckpt.rounds \in Nat /\ fixes[k] \in Nat
    BY DEF IInv, Shapes, JobRow, Checkpoint
  <2>6. fixes[k] + Cardinality(Fixing(k)) <= jobs[k].ckpt.rounds
    BY DEF IInv, RoundsPaid
  <2> QED BY <2>3, <2>4, <2>5, <2>6
<1>3. NoProgress.stage = "spec"
  BY DEF NoProgress
<1>4. PublishesVerified'
  <2> SUFFICES ASSUME NEW k \in Jobs, jobs'[k].kind = "dev.task", jobs'[k].status \notin Ended,
                      jobs'[k].ckpt.stage = "publish", jobs'[k].task \notin shared'
               PROVE  tree[jobs'[k].task].code \in Passing \cap Allowed
    BY DEF PublishesVerified, Ended
  <2>1. /\ jobs[k].kind = "dev.task" /\ jobs[k].status \notin Ended
        /\ jobs[k].ckpt.stage = "publish" /\ jobs[k].task \notin shared
        /\ jobs'[k].task = jobs[k].task
    BY <1>3
  <2> QED BY <2>1 DEF IInv, PublishesVerified
<1>5. PublishedIsVerified'
  <2> SUFFICES ASSUME NEW k \in Jobs, jobs'[k].kind = "dev.task",
                      jobs'[k].ckpt.stage = "done", jobs'[k].task \notin shared'
               PROVE  tree[jobs'[k].task].head \in Passing \cap Allowed \cap Scanned
    BY DEF PublishedIsVerified
  <2>1. /\ jobs[k].kind = "dev.task" /\ jobs[k].ckpt.stage = "done"
        /\ jobs[k].task \notin shared /\ jobs'[k].task = jobs[k].task
    BY <1>3
  <2> QED BY <2>1 DEF IInv, PublishedIsVerified
<1>6. ASSUME NEW v \in Workers, worker'[v].pc \in StagePcs, worker'[v].pc # "ready",
             jobs'[worker'[v].job].task \notin shared'
      PROVE  /\ InTree(v) /\ worker'[v].pc = worker[v].pc /\ worker'[v].seen = worker[v].seen
             /\ jobs'[worker'[v].job].task = Task(v)
  BY <1>6 DEF InTree
<1>7. JudgesCode'
  <2> SUFFICES ASSUME NEW v \in Workers, worker'[v].pc = "judge",
                      jobs'[worker'[v].job].task \notin shared'
               PROVE  /\ tree[jobs'[worker'[v].job].task].code = worker'[v].seen
                      /\ worker'[v].seen \in Allowed
    BY DEF JudgesCode, InTree, Task, Row
  <2>1. InTree(v) /\ worker[v].pc = "judge" /\ worker'[v].seen = worker[v].seen
        /\ jobs'[worker'[v].job].task = Task(v)
    BY <1>6 DEF StagePcs
  <2> QED BY <2>1 DEF IInv, JudgesCode
<1>8. CommittedCode'
  <2> SUFFICES ASSUME NEW v \in Workers, worker'[v].pc \in {"evidence", "commit_evidence", "record"},
                      jobs'[worker'[v].job].task \notin shared'
               PROVE  LET after == tree[jobs'[worker'[v].job].task]
                      IN  after.head = after.code /\ after.code \in Scanned
    BY DEF CommittedCode, InTree, Task, Row
  <2>1. /\ InTree(v) /\ worker[v].pc \in {"evidence", "commit_evidence", "record"}
        /\ jobs'[worker'[v].job].task = Task(v)
    BY <1>6 DEF StagePcs
  <2> QED BY <2>1 DEF IInv, CommittedCode
<1> QED BY <1>1, <1>2, <1>4, <1>5, <1>7, <1>8

\* A row as it was, its times apart.
SameRow(before, after) ==
  /\ after.kind = before.kind /\ after.task = before.task /\ after.sound = before.sound
  /\ after.ckpt = before.ckpt /\ after.status = before.status
  /\ after.attempts = before.attempts /\ after.holder = before.holder

FreshRow(row) ==
  /\ row.status = "queued" /\ row.ckpt = NoProgress
  /\ row.kind = "dev.task" => row.task \in Tasks

\* A worker outside the stages stays outside, with the same job or none.
Aside(before, after) ==
  /\ before.pc \notin StagePcs /\ after.pc \notin StagePcs /\ PcFits(after)
  /\ \/ after.job = 0
     \/ after.job = before.job /\ after.stale = before.stale /\ after.ckpt = before.ckpt

\* Jobs are enqueued, time passes, and workers go about what is no stage.
LEMMA QuietKeeps ==
  ASSUME IInv, UNCHANGED <<tree, shared, fixes>>,
         jobs' \in [Jobs -> JobRow], worker' \in [Workers -> WorkerRow],
         \A k \in Jobs : \/ SameRow(jobs[k], jobs'[k])
                         \/ jobs[k].status = "ABSENT" /\ FreshRow(jobs'[k]),
         \A v \in Workers : worker'[v] = worker[v] \/ Aside(worker[v], worker'[v])
  PROVE  IInv'
<1>1. \A k \in Jobs : RowFits(jobs[k]) /\ (jobs[k].status = "ABSENT" => jobs[k].ckpt = NoProgress)
  BY DEF IInv, RowFits
<1>2. \A k \in Jobs :
        /\ jobs'[k].ckpt = jobs[k].ckpt
        /\ \/ jobs'[k].kind = jobs[k].kind /\ jobs'[k].task = jobs[k].task
           \/ jobs'[k].ckpt = NoProgress
        /\ jobs'[k].status \notin Ended => jobs[k].status \notin Ended
  BY <1>1 DEF SameRow, FreshRow, Ended
<1>3. ASSUME NEW v \in Workers, worker'[v].job # 0
      PROVE  /\ worker'[v].job = worker[v].job /\ worker'[v].job \in Jobs
             /\ worker'[v].stale = worker[v].stale /\ worker'[v].ckpt = worker[v].ckpt
             /\ SameRow(jobs[worker[v].job], jobs'[worker[v].job])
             /\ worker'[v].pc \in StagePcs => worker'[v] = worker[v]
  <2>1. /\ worker'[v].job = worker[v].job /\ worker'[v].stale = worker[v].stale
        /\ worker'[v].ckpt = worker[v].ckpt
        /\ worker'[v].pc \in StagePcs => worker'[v] = worker[v]
    BY <1>3 DEF Aside
  <2>2. worker[v].job \in Jobs /\ jobs[worker[v].job].status # "ABSENT"
    BY <1>3, <2>1, WorkerFacts DEF Row
  <2> QED BY <2>1, <2>2
<1>4. \A v \in Workers : PcFits(worker'[v])
  BY DEF IInv, Aside
<1>5. ASSUME NEW v \in Workers, worker'[v].pc \in StagePcs
      PROVE  worker'[v] = worker[v] /\ worker'[v].job # 0 /\ jobs'[worker[v].job].task = Task(v)
  <2>1. worker'[v].job # 0
    BY <1>4, <1>5 DEF PcFits, StagePcs
  <2> QED BY <1>3, <1>5, <2>1 DEF SameRow, Task, Row
<1>6. /\ Shapes' /\ RoundsPaid' /\ PublishesVerified' /\ JudgesCode' /\ CommittedCode'
      /\ PublishedIsVerified'
  <2>1. \A v \in Workers : worker'[v].pc \in StagePcs =>
          /\ worker'[v].pc = worker[v].pc /\ worker'[v].seen = worker[v].seen
          /\ worker'[v].job = worker[v].job
          /\ jobs'[worker[v].job].task = Task(v)
    BY <1>5
  <2>2. shared' \subseteq Tasks
    BY DEF IInv, Shapes
  <2> QED BY <1>2, <2>1, <2>2, RestKeeps
<1>7. (\A k \in Jobs : RowFits(jobs[k]))'
  <2> SUFFICES ASSUME NEW k \in Jobs PROVE RowFits(jobs[k])'
    OBVIOUS
  <2>1. CASE SameRow(jobs[k], jobs'[k])
    BY <1>1, <2>1 DEF SameRow, RowFits
  <2>2. CASE FreshRow(jobs'[k])
    BY <2>2 DEF FreshRow, RowFits
  <2> QED BY <2>1, <2>2
<1>8. (\A v \in Workers : PcFits(worker[v]) /\ JobFits(worker[v]))'
  <2> SUFFICES ASSUME NEW v \in Workers PROVE PcFits(worker[v])' /\ JobFits(worker[v])'
    OBVIOUS
  <2>1. PcFits(worker[v])'
    BY <1>4 DEF PcFits, NoProgress, Idle
  <2>2. JobFits(worker[v])'
    <3> SUFFICES ASSUME worker'[v].job # 0
                 PROVE  /\ jobs'[worker'[v].job].status # "ABSENT" /\ jobs'[worker'[v].job].sound
                        /\ worker'[v].pc \in StagePcs => jobs'[worker'[v].job].kind = "dev.task"
      BY DEF JobFits, StagePcs
    <3>1. JobFits(worker[v])
      BY DEF IInv
    <3> QED BY <1>3, <3>1 DEF JobFits, SameRow
  <2> QED BY <2>1, <2>2
<1>9. HolderKnows'
  <2> SUFFICES ASSUME NEW v \in Workers, worker'[v].job # 0,
                      jobs'[worker'[v].job].status = "running", jobs'[worker'[v].job].holder = v
               PROVE  ~worker'[v].stale /\ worker'[v].ckpt = jobs'[worker'[v].job].ckpt
    BY DEF HolderKnows, Row, Ckpt
  <2> QED BY <1>3 DEF IInv, HolderKnows, Row, Ckpt, SameRow
<1>10. OneBegun'
  <2>1. \A k \in Jobs : Begun(jobs'[k]) => Begun(jobs[k]) /\ jobs'[k].task = jobs[k].task
    BY DEF Begun, SameRow, FreshRow
  <2>2. \A k, l \in Jobs :
          (Begun(jobs'[k]) /\ Begun(jobs'[l]) /\ jobs'[k].task = jobs'[l].task
            /\ jobs'[k].task \notin shared') => k = l
    BY <2>1 DEF IInv, OneBegun
  <2> QED BY <2>2 DEF OneBegun, Begun
<1>11. HolderInTree'
  <2> SUFFICES ASSUME NEW v \in Workers, worker'[v].pc \in StagePcs,
                      jobs'[worker'[v].job].task \notin shared
               PROVE  jobs'[worker'[v].job].status = "running" /\ jobs'[worker'[v].job].holder = v
    BY DEF HolderInTree, InTree, Task, Row, StagePcs
  <2>1. worker'[v] = worker[v] /\ worker'[v].job # 0 /\ InTree(v)
    BY <1>5 DEF InTree
  <2>2. SameRow(jobs[worker[v].job], jobs'[worker[v].job])
    BY <1>3, <2>1
  <2> QED BY <2>1, <2>2 DEF IInv, HolderInTree, Row, SameRow
<1> QED BY <1>6, <1>7, <1>8, <1>9, <1>10, <1>11 DEF IInv

-----------------------------------------------------------------------------
(* Enqueueing, claiming and the clock *)

\* A set of ids has a least one.
LEMMA LeastId ==
  ASSUME NEW S, S \subseteq Nat, S # {}
  PROVE  \E m \in S : \A n \in S : m <= n
<1> DEFINE Below == {pair \in Nat \X Nat : pair[1] < pair[2]}
<1>1. IsWellFoundedOn(Below, Nat)
  BY NatLessThanWellFounded DEF OpToRel
<1> HIDE DEF Below
<1>2. PICK m \in S : \A n \in S : ~(<<n, m>> \in Below)
  BY <1>1, WFMin
<1>3. ASSUME NEW n \in S PROVE m <= n
  <2>1. m \in Nat /\ n \in Nat /\ <<n, m>> \notin Below
    BY <1>2
  <2>2. <<n, m>> \in Nat \X Nat /\ <<n, m>>[1] = n /\ <<n, m>>[2] = m
    BY <2>1
  <2>3. ~(n < m)
    BY <2>1, <2>2 DEF Below
  <2> QED BY <2>1, <2>3
<1> QED BY <1>3

\* AUTOINCREMENT hands out a row that is free.
LEMMA NextIdIsFree ==
  ASSUME Free # {} PROVE NextId \in Free
<1>1. Free \subseteq Nat
  BY QueueAssumption DEF Free
<1>2. \E j \in Free : \A k \in Free : j <= k
  BY <1>1, LeastId
<1> QED BY <1>2 DEF NextId

LEMMA EnqueuedIsFresh ==
  ASSUME IInv, Free # {}, NEW kind \in Kinds, NEW task \in Tasks \cup {TriageId},
         NEW sound \in BOOLEAN, kind = "dev.task" => task \in Tasks,
         jobs' = Enqueued(kind, task, sound, NoProgress)
  PROVE  /\ jobs' \in [Jobs -> JobRow]
         /\ \A k \in Jobs : \/ SameRow(jobs[k], jobs'[k])
                            \/ jobs[k].status = "ABSENT" /\ FreshRow(jobs'[k])
<1> DEFINE row == NewRow(kind, task, sound, NoProgress, "queued")
           id == NextId
<1>1. id \in Jobs /\ jobs[id].status = "ABSENT"
  BY NextIdIsFree DEF Free
<1>2. row \in JobRow
  <2>1. NoProgress \in Checkpoint
    BY PipelineAssumption DEF NoProgress, Checkpoint, Stages
  <2> QED BY <2>1, QueueAssumption DEF NewRow, JobRow, Status
<1>3. FreshRow(row)
  BY DEF FreshRow, NewRow
<1>4. jobs' = [jobs EXCEPT ![id] = row]
  BY DEF Enqueued
<1>5. jobs \in [Jobs -> JobRow]
  BY DEF IInv, Shapes
<1> HIDE DEF row, id
<1>6. /\ jobs' \in [Jobs -> JobRow] /\ jobs'[id] = row
      /\ \A k \in Jobs : k # id => jobs'[k] = jobs[k]
  BY <1>1, <1>2, <1>4, <1>5
<1> QED BY <1>1, <1>3, <1>6 DEF SameRow

LEMMA NobodyMoves ==
  ASSUME IInv, UNCHANGED worker
  PROVE  /\ worker' \in [Workers -> WorkerRow]
         /\ \A v \in Workers : worker'[v] = worker[v] \/ Aside(worker[v], worker'[v])
BY DEF IInv, Shapes

LEMMA OneMoves ==
  ASSUME IInv, NEW w \in Workers, NEW new \in WorkerRow, worker' = [worker EXCEPT ![w] = new],
         Aside(worker[w], new)
  PROVE  /\ worker' \in [Workers -> WorkerRow]
         /\ \A v \in Workers : worker'[v] = worker[v] \/ Aside(worker[v], worker'[v])
<1>1. worker \in [Workers -> WorkerRow]
  BY DEF IInv, Shapes
<1> QED BY <1>1

LEMMA RowsStay ==
  ASSUME IInv, UNCHANGED jobs
  PROVE  jobs' \in [Jobs -> JobRow] /\ \A k \in Jobs : SameRow(jobs[k], jobs'[k])
BY DEF IInv, Shapes, SameRow

LEMMA IdleFits == Idle \in WorkerRow /\ PcFits(Idle) /\ Idle.pc = "idle" /\ Idle.job = 0
<1>1. Idle \in WorkerRow
  BY PipelineAssumption DEF Idle, WorkerRow, Pcs, NoProgress, Checkpoint, Stages
<1> QED BY <1>1 DEF Idle, PcFits

LEMMA EnqueueJobKeeps ==
  ASSUME IInv, NEW r \in Requests, EnqueueJob(r) PROVE IInv'
<1>1. /\ r.kind \in Kinds /\ r.task \in Tasks \cup {TriageId} /\ r.sound \in BOOLEAN
      /\ r.kind = "dev.task" => r.task \in Tasks
  BY RequestAssumption
<1>2. /\ Free # {} /\ jobs' = Enqueued(r.kind, r.task, r.sound, NoProgress)
      /\ UNCHANGED worker /\ UNCHANGED <<tree, shared, fixes>>
  BY DEF EnqueueJob, ghosts
<1> QED BY <1>1, <1>2, EnqueuedIsFresh, NobodyMoves, QuietKeeps

LEMMA EnqueueTriageKeeps ==
  ASSUME IInv, NEW w \in Workers, EnqueueTriage(w) PROVE IInv'
<1>1. /\ worker[w].pc = "enqueue" /\ worker' = [worker EXCEPT ![w] = Idle]
      /\ UNCHANGED <<tree, shared, fixes>>
  BY DEF EnqueueTriage, At, ghosts
<1>2. Aside(worker[w], Idle)
  BY <1>1, IdleFits DEF Aside, StagePcs
<1>3. /\ jobs' \in [Jobs -> JobRow]
      /\ \A k \in Jobs : \/ SameRow(jobs[k], jobs'[k])
                         \/ jobs[k].status = "ABSENT" /\ FreshRow(jobs'[k])
  <2>1. CASE Free = {}
    BY <2>1, RowsStay DEF EnqueueTriage
  <2>2. CASE Free # {}
    <3>1. jobs' = Enqueued("blocked.triage", TriageId, TRUE, NoProgress)
      BY <2>2 DEF EnqueueTriage
    <3>2. "blocked.triage" \in Kinds
      BY DEF Kinds
    <3> QED BY <2>2, <3>1, <3>2, EnqueuedIsFresh
  <2> QED BY <2>1, <2>2
<1> QED BY <1>1, <1>2, <1>3, IdleFits, OneMoves, QuietKeeps

LEMMA LookForTriageKeeps ==
  ASSUME IInv, NEW w \in Workers, LookForTriage(w) PROVE IInv'
<1> DEFINE new == [worker[w] EXCEPT !.pc = "enqueue"]
<1>1. /\ worker[w].pc = "idle" /\ worker' = [worker EXCEPT ![w].pc = "enqueue"]
      /\ UNCHANGED <<jobs, tree, shared, fixes>>
  BY DEF LookForTriage, At, ghosts
<1>2. worker[w] \in WorkerRow /\ PcFits(worker[w]) /\ worker \in [Workers -> WorkerRow]
  BY DEF IInv, Shapes
<1>3. worker[w].job = 0
  BY <1>1, <1>2 DEF PcFits
<1>4. new \in WorkerRow /\ Aside(worker[w], new)
  BY <1>1, <1>2, <1>3 DEF WorkerRow, Pcs, Aside, StagePcs, PcFits
<1>5. worker' = [worker EXCEPT ![w] = new]
  BY <1>1, <1>2
<1> HIDE DEF new
<1> QED BY <1>1, <1>4, <1>5, RowsStay, OneMoves, QuietKeeps

LEMMA ItemIsBlocked ==
  ASSUME IInv, NEW w \in Workers, worker[w].todo # {}
  PROVE  Item(w) \in Blocked /\ Item(w) \in Tasks
BY PipelineAssumption DEF IInv, Shapes, WorkerRow, Item

LEMMA LookForPrepKeeps ==
  ASSUME IInv, NEW w \in Workers, LookForPrep(w) PROVE IInv'
<1>1. worker[w].pc = "triage" /\ UNCHANGED <<jobs, tree, shared, fixes>>
  BY DEF LookForPrep, At, ghosts
<1>2. /\ worker[w] \in WorkerRow /\ PcFits(worker[w]) /\ worker \in [Workers -> WorkerRow]
      /\ worker[w].job # 0
  BY <1>1 DEF IInv, Shapes, PcFits
<1>3. PICK new : /\ worker' = [worker EXCEPT ![w] = new]
                 /\ \/ new = [worker[w] EXCEPT !.pc = "finish"]
                    \/ new = [worker[w] EXCEPT !.todo = @ \ {Item(w)}]
                    \/ worker[w].todo # {} /\ new = [worker[w] EXCEPT !.pc = "prep"]
  <2> DEFINE live == \E j \in Found("dev.task", Item(w)) : jobs[j].status # "dead"
  <2>1. worker' = [worker EXCEPT ![w] =
          IF worker[w].todo = {} THEN [worker[w] EXCEPT !.pc = "finish"]
          ELSE IF live THEN [worker[w] EXCEPT !.todo = worker[w].todo \ {Item(w)}]
          ELSE [worker[w] EXCEPT !.pc = "prep"]]
    BY <1>2 DEF LookForPrep
  <2> HIDE DEF live
  <2>2. CASE worker[w].todo = {}
    BY <2>1, <2>2
  <2>3. CASE worker[w].todo # {} /\ live
    BY <2>1, <2>3
  <2>4. CASE worker[w].todo # {} /\ ~live
    BY <2>1, <2>4
  <2> QED BY <2>2, <2>3, <2>4
<1>4. new \in WorkerRow /\ Aside(worker[w], new)
  <2>1. CASE new = [worker[w] EXCEPT !.pc = "finish"]
    BY <1>1, <1>2, <2>1 DEF WorkerRow, Pcs, Aside, StagePcs, PcFits
  <2>2. CASE new = [worker[w] EXCEPT !.todo = @ \ {Item(w)}]
    BY <1>1, <1>2, <2>2 DEF WorkerRow, Pcs, Aside, StagePcs, PcFits
  <2>3. CASE worker[w].todo # {} /\ new = [worker[w] EXCEPT !.pc = "prep"]
    BY <1>1, <1>2, <2>3 DEF WorkerRow, Pcs, Aside, StagePcs, PcFits
  <2> QED BY <1>3, <2>1, <2>2, <2>3
<1> QED BY <1>1, <1>3, <1>4, RowsStay, OneMoves, QuietKeeps

LEMMA EnqueuePrepKeeps ==
  ASSUME IInv, NEW w \in Workers, EnqueuePrep(w) PROVE IInv'
<1> DEFINE new == [worker[w] EXCEPT !.todo = @ \ {Item(w)}, !.pc = "triage"]
<1>1. /\ worker[w].pc = "prep" /\ UNCHANGED <<tree, shared, fixes>>
      /\ worker' = [worker EXCEPT ![w].todo = @ \ {Item(w)}, ![w].pc = "triage"]
  BY DEF EnqueuePrep, At, ghosts
<1>2. /\ worker[w] \in WorkerRow /\ PcFits(worker[w]) /\ worker \in [Workers -> WorkerRow]
      /\ worker[w].job # 0 /\ worker[w].todo # {}
  BY <1>1 DEF IInv, Shapes, PcFits
<1>3. worker' = [worker EXCEPT ![w] = new] /\ new \in WorkerRow /\ Aside(worker[w], new)
  BY <1>1, <1>2 DEF WorkerRow, Pcs, Aside, StagePcs, PcFits
<1>4. /\ jobs' \in [Jobs -> JobRow]
      /\ \A k \in Jobs : \/ SameRow(jobs[k], jobs'[k])
                         \/ jobs[k].status = "ABSENT" /\ FreshRow(jobs'[k])
  <2>1. CASE Free = {}
    BY <2>1, RowsStay DEF EnqueuePrep
  <2>2. CASE Free # {}
    <3>1. jobs' = Enqueued("dev.task", Item(w), TRUE, NoProgress)
      BY <2>2 DEF EnqueuePrep
    <3>2. "dev.task" \in Kinds /\ Item(w) \in Tasks
      BY <1>2, ItemIsBlocked DEF Kinds
    <3> QED BY <2>2, <3>1, <3>2, EnqueuedIsFresh
  <2> QED BY <2>1, <2>2
<1> HIDE DEF new
<1> QED BY <1>1, <1>3, <1>4, OneMoves, QuietKeeps

LEMMA TickKeeps ==
  ASSUME IInv, Tick PROVE IInv'
<1>1. UNCHANGED <<worker, tree, shared, fixes>> /\ jobs' = [j \in Jobs |-> Elapsed(jobs[j])]
  BY DEF Tick
<1>2. ASSUME NEW j \in Jobs PROVE Elapsed(jobs[j]) \in JobRow /\ SameRow(jobs[j], Elapsed(jobs[j]))
  <2> DEFINE row == jobs[j]
             lease == IF row.lease = 0 THEN 0 ELSE row.lease - 1
             wait == IF row.wait = 0 THEN 0 ELSE row.wait - 1
  <2>1. row \in JobRow /\ row.lease \in 0..LeaseTime /\ row.wait \in Int
    BY DEF IInv, Shapes, JobRow
  <2>2. lease \in 0..LeaseTime /\ wait \in Int
    BY <2>1, QueueAssumption
  <2>3. Elapsed(row) = [row EXCEPT !.lease = lease, !.wait = wait]
    BY DEF Elapsed
  <2> HIDE DEF row, lease, wait
  <2>4. Elapsed(row) \in JobRow /\ SameRow(row, Elapsed(row))
    BY <2>1, <2>2, <2>3 DEF JobRow, SameRow
  <2> QED BY <2>4 DEF row
<1>3. jobs' \in [Jobs -> JobRow] /\ \A k \in Jobs : SameRow(jobs[k], jobs'[k])
  BY <1>1, <1>2
<1> QED BY <1>1, <1>3, NobodyMoves, QuietKeeps

LEMMA DieKeeps ==
  ASSUME IInv, NEW w \in Workers, Die(w) PROVE IInv'
<1>1. /\ worker[w].pc # "idle" /\ worker' = [worker EXCEPT ![w] = Idle]
      /\ UNCHANGED <<jobs, tree, shared, fixes>>
  BY DEF Die, At
<1>2. CASE worker[w].job # 0
  BY <1>1, <1>2, LeavingKeeps DEF GiveUp
<1>3. CASE worker[w].job = 0
  <2>1. Aside(worker[w], Idle)
    <3>1. worker[w].pc \notin StagePcs
      BY <1>3 DEF IInv, PcFits, StagePcs
    <3> QED BY <3>1, IdleFits DEF Aside, StagePcs
  <2> QED BY <1>1, <2>1, IdleFits, RowsStay, OneMoves, QuietKeeps
<1> QED BY <1>2, <1>3

\* A job that needs no stages is run and completed.
LEMMA RunPlainKeeps ==
  ASSUME IInv, NEW w \in Workers, RunPlain(w) \/ RefusePayload(w) \/ Finish(w) PROVE IInv'
<1>1. worker[w].pc \in {"plain", "finish"} /\ UNCHANGED <<tree, shared, fixes>>
  BY DEF RunPlain, RefusePayload, Finish, At, ghosts
<1>2. /\ worker[w] \in WorkerRow /\ PcFits(worker[w]) /\ worker \in [Workers -> WorkerRow]
      /\ worker[w].job # 0
  BY <1>1 DEF IInv, Shapes, PcFits
<1>3. CASE \/ \E permanent \in BOOLEAN : Raise(w, permanent)
           \/ Release(w, Completed(Row(w)))
  BY <1>1, <1>2, <1>3, LeavingKeeps
<1>4. CASE worker[w].pc = "plain" /\ worker' = [worker EXCEPT ![w].pc = "finish"] /\ UNCHANGED jobs
  <2> DEFINE new == [worker[w] EXCEPT !.pc = "finish"]
  <2>1. worker' = [worker EXCEPT ![w] = new] /\ new \in WorkerRow /\ Aside(worker[w], new)
    BY <1>2, <1>4 DEF WorkerRow, Pcs, Aside, StagePcs, PcFits
  <2> HIDE DEF new
  <2> QED BY <1>1, <1>4, <2>1, RowsStay, OneMoves, QuietKeeps
<1> QED BY <1>3, <1>4 DEF RunPlain, RefusePayload, Finish, At

\* What a claim makes of a row.
LEMMA ClaimedRow ==
  ASSUME NEW row \in JobRow, NEW w \in Workers, Claimable(row)
  PROVE  /\ Claimed(row, w) \in JobRow /\ Buried(row, w) \in JobRow
         /\ row.status \in {"queued", "running"}
         /\ LET new == Claimed(row, w)
            IN  /\ new.kind = row.kind /\ new.task = row.task /\ new.sound = row.sound
                /\ new.ckpt = row.ckpt /\ new.status = "running" /\ new.holder = w
                /\ new.attempts > 0 /\ new.attempts > row.attempts
         /\ LET new == Buried(row, w)
            IN  /\ new.kind = row.kind /\ new.task = row.task /\ new.sound = row.sound
                /\ new.ckpt = row.ckpt /\ new.status = "dead" /\ new.attempts > row.attempts
<1>1. row.attempts \in Nat /\ row.attempts + 1 \in Nat /\ row.attempts + 1 > row.attempts
      /\ row.attempts + 1 > 0
  BY DEF JobRow
<1>2. LeaseTime \in 0..LeaseTime /\ 0 \in 0..LeaseTime
  BY QueueAssumption
<1>3. row.status \in {"queued", "running"}
  BY DEF Claimable
<1>4. Claimed(row, w) \in JobRow /\ Buried(row, w) \in JobRow
  BY <1>1, <1>2 DEF Claimed, Buried, JobRow, Status
<1>5. LET new == Claimed(row, w)
      IN  /\ new.kind = row.kind /\ new.task = row.task /\ new.sound = row.sound
          /\ new.ckpt = row.ckpt /\ new.status = "running" /\ new.holder = w
          /\ new.attempts = row.attempts + 1
  BY DEF Claimed, JobRow
<1>6. LET new == Buried(row, w)
      IN  /\ new.kind = row.kind /\ new.task = row.task /\ new.sound = row.sound
          /\ new.ckpt = row.ckpt /\ new.status = "dead" /\ new.attempts = row.attempts + 1
  BY DEF Claimed, Buried, JobRow
<1> QED BY <1>1, <1>3, <1>4, <1>5, <1>6

\* A row that does not parse is nobody's, before and after it is dead-lettered.
LEMMA BuryKeeps ==
  ASSUME IInv, NEW w \in Workers, NEW j \in Jobs, Claimable(jobs[j]), ~jobs[j].sound,
         jobs' = [jobs EXCEPT ![j] = Buried(@, w)], UNCHANGED <<worker, tree, shared, fixes>>
  PROVE  IInv'
<1> DEFINE new == Buried(jobs[j], w)
<1>1. /\ new \in JobRow /\ new.kind = jobs[j].kind /\ new.task = jobs[j].task
      /\ new.sound = jobs[j].sound /\ new.ckpt = jobs[j].ckpt /\ new.status = "dead"
      /\ jobs[j] \in JobRow
  <2>1. jobs[j] \in JobRow
    BY DEF IInv, Shapes
  <2> QED BY <2>1, ClaimedRow
<1> HIDE DEF new
<1>2. /\ jobs' \in [Jobs -> JobRow] /\ jobs'[j] = new
      /\ \A k \in Jobs : k # j => jobs'[k] = jobs[k]
  <2>1. jobs' = [jobs EXCEPT ![j] = new]
    BY DEF new
  <2> QED BY <1>1, <2>1 DEF IInv, Shapes
<1>3. ASSUME NEW v \in Workers, worker[v].job # 0
      PROVE  worker[v].job \in Jobs /\ worker[v].job # j /\ jobs'[worker[v].job] = jobs[worker[v].job]
  <2>1. worker[v].job \in Jobs /\ worker[v].job # j
    BY <1>3, WorkerFacts DEF Row
  <2> QED BY <1>2, <2>1
<1>4. /\ Shapes' /\ RoundsPaid' /\ PublishesVerified' /\ JudgesCode' /\ CommittedCode'
      /\ PublishedIsVerified'
  <2>1. \A k \in Jobs :
          /\ jobs'[k].ckpt = jobs[k].ckpt
          /\ jobs'[k].kind = jobs[k].kind /\ jobs'[k].task = jobs[k].task
          /\ jobs'[k].status \notin Ended => jobs[k].status \notin Ended
    BY <1>1, <1>2 DEF Ended
  <2>2. \A v \in Workers : worker'[v].pc \in StagePcs =>
           /\ worker'[v].pc = worker[v].pc /\ worker'[v].seen = worker[v].seen
           /\ worker'[v].job = worker[v].job
           /\ jobs'[worker[v].job].task = Task(v)
    BY <1>3, WorkerFacts DEF Task, Row
  <2>3. shared' \subseteq Tasks /\ worker' \in [Workers -> WorkerRow]
    BY DEF IInv, Shapes
  <2> QED BY <1>2, <2>1, <2>2, <2>3, RestKeeps
<1>5. (\A k \in Jobs : RowFits(jobs[k]))'
  <2> SUFFICES ASSUME NEW k \in Jobs PROVE RowFits(jobs[k])'
    OBVIOUS
  <2>1. RowFits(jobs[k])
    BY DEF IInv
  <2> QED BY <1>1, <1>2, <2>1 DEF RowFits
<1>6. (\A v \in Workers : PcFits(worker[v]) /\ JobFits(worker[v]))'
  <2> SUFFICES ASSUME NEW v \in Workers PROVE PcFits(worker[v])' /\ JobFits(worker[v])'
    OBVIOUS
  <2>1. PcFits(worker[v]) /\ JobFits(worker[v])
    BY DEF IInv
  <2>2. PcFits(worker[v])'
    BY <2>1 DEF PcFits, NoProgress, Idle
  <2>3. JobFits(worker[v])'
    BY <1>3, <2>1 DEF JobFits, StagePcs
  <2> QED BY <2>2, <2>3
<1>7. HolderKnows'
  <2> SUFFICES ASSUME NEW v \in Workers, worker[v].job # 0,
                      jobs'[worker[v].job].status = "running", jobs'[worker[v].job].holder = v
               PROVE  ~worker[v].stale /\ worker[v].ckpt = jobs'[worker[v].job].ckpt
    BY DEF HolderKnows, Row, Ckpt
  <2> QED BY <1>3 DEF IInv, HolderKnows, Row, Ckpt
<1>8. OneBegun'
  <2>1. \A k \in Jobs : Begun(jobs'[k]) => Begun(jobs[k]) /\ jobs'[k].task = jobs[k].task
    BY <1>1, <1>2 DEF Begun, Ended
  <2>2. \A k, l \in Jobs :
          (Begun(jobs'[k]) /\ Begun(jobs'[l]) /\ jobs'[k].task = jobs'[l].task
            /\ jobs'[k].task \notin shared') => k = l
    BY <2>1 DEF IInv, OneBegun
  <2> QED BY <2>2 DEF OneBegun, Begun
<1>9. HolderInTree'
  <2> SUFFICES ASSUME NEW v \in Workers, worker[v].pc \in StagePcs,
                      jobs'[worker[v].job].task \notin shared
               PROVE  jobs'[worker[v].job].status = "running" /\ jobs'[worker[v].job].holder = v
    BY DEF HolderInTree, InTree, Task, Row, StagePcs
  <2>1. worker[v].job # 0
    BY WorkerFacts
  <2>2. InTree(v) /\ jobs'[worker[v].job] = Row(v)
    BY <1>3, <2>1 DEF InTree, Task, Row
  <2> QED BY <2>2 DEF IInv, HolderInTree
<1> QED BY <1>4, <1>5, <1>6, <1>7, <1>8, <1>9 DEF IInv

\* The job a claim takes, and what the worker knows of it.
LEMMA TakeKeeps ==
  ASSUME IInv, NEW w \in Workers, NEW j \in Jobs, NEW new, Claimable(jobs[j]), jobs[j].sound,
         At(w, "idle"),
         jobs' = [jobs EXCEPT ![j] = Claimed(@, w)],
         new = [Idle EXCEPT !.pc = FirstStep(jobs[j].kind), !.job = j, !.ckpt = jobs[j].ckpt,
                            !.todo = IF jobs[j].kind = "blocked.triage" THEN Blocked ELSE {}],
         worker' = [v \in Workers |->
                      IF v = w THEN new ELSE [worker[v] EXCEPT !.stale = @ \/ worker[v].job = j]],
         shared' = IF jobs[j].kind = "dev.task" /\ Crowded(j, w)
                   THEN shared \cup {jobs[j].task} ELSE shared,
         UNCHANGED <<tree, fixes>>
  PROVE  IInv'
<1> DEFINE row == Claimed(jobs[j], w)
<1>1. /\ row \in JobRow /\ row.kind = jobs[j].kind /\ row.task = jobs[j].task
      /\ row.sound = jobs[j].sound /\ row.ckpt = jobs[j].ckpt /\ row.status = "running"
      /\ row.holder = w /\ row.attempts > 0
      /\ jobs[j] \in JobRow /\ jobs[j].status \in {"queued", "running"} /\ RowFits(jobs[j])
  <2>1. jobs[j] \in JobRow /\ RowFits(jobs[j])
    BY DEF IInv, Shapes
  <2> QED BY <2>1, ClaimedRow
<1> HIDE DEF row
<1>2. /\ jobs' \in [Jobs -> JobRow] /\ jobs'[j] = row
      /\ \A k \in Jobs : k # j => jobs'[k] = jobs[k]
  <2>1. jobs' = [jobs EXCEPT ![j] = row]
    BY DEF row
  <2> QED BY <1>1, <2>1 DEF IInv, Shapes
<1>3. /\ new \in WorkerRow /\ new.job = j /\ new.stale = FALSE /\ new.ckpt = jobs[j].ckpt
      /\ new.pc \in {"ready", "triage", "plain"}
      /\ new.pc = "ready" => jobs[j].kind = "dev.task"
  <2> DEFINE pc == FirstStep(jobs[j].kind)
             todo == IF jobs[j].kind = "blocked.triage" THEN Blocked ELSE {}
  <2>1. pc \in {"ready", "triage", "plain"} /\ (pc = "ready" => jobs[j].kind = "dev.task")
    <3>1. jobs[j].kind \in {"dev.task", "blocked.triage", "plain"}
      BY <1>1 DEF JobRow, Kinds
    <3> QED BY <3>1 DEF FirstStep
  <2>2. todo \in SUBSET Blocked /\ jobs[j].ckpt \in Checkpoint
    BY <1>1 DEF JobRow
  <2>3. new = [Idle EXCEPT !.pc = pc, !.job = j, !.ckpt = jobs[j].ckpt, !.todo = todo]
    OBVIOUS
  <2> HIDE DEF pc, todo
  <2> QED BY <2>1, <2>2, <2>3, PipelineAssumption DEF Idle, WorkerRow, Pcs, StagePcs
<1>4. PcFits(new)
  <2>1. j # 0
    BY QueueAssumption
  <2> QED BY <1>3, <2>1 DEF PcFits
<1>5. ASSUME NEW v \in Workers, v # w
      PROVE  /\ worker[v] \in WorkerRow /\ PcFits(worker[v]) /\ JobFits(worker[v])
             /\ worker'[v] = [worker[v] EXCEPT !.stale = worker[v].stale \/ worker[v].job = j]
             /\ worker'[v] \in WorkerRow
             /\ worker'[v].pc = worker[v].pc /\ worker'[v].job = worker[v].job
             /\ worker'[v].ckpt = worker[v].ckpt /\ worker'[v].seen = worker[v].seen
             /\ worker'[v].todo = worker[v].todo
             /\ worker[v].job # j => worker'[v].stale = worker[v].stale
  <2>1. worker[v] \in WorkerRow /\ PcFits(worker[v]) /\ JobFits(worker[v])
    BY WorkerFacts
  <2>2. worker'[v] = [worker[v] EXCEPT !.stale = worker[v].stale \/ worker[v].job = j]
    BY <1>5
  <2> DEFINE stale == worker[v].stale \/ worker[v].job = j
  <2>3. stale \in BOOLEAN /\ (worker[v].job # j => stale = worker[v].stale)
    BY <2>1 DEF WorkerRow
  <2>4. worker'[v] = [worker[v] EXCEPT !.stale = stale]
    BY <2>2
  <2> HIDE DEF stale
  <2>5. /\ worker'[v] \in WorkerRow
        /\ worker'[v].pc = worker[v].pc /\ worker'[v].job = worker[v].job
        /\ worker'[v].ckpt = worker[v].ckpt /\ worker'[v].seen = worker[v].seen
        /\ worker'[v].todo = worker[v].todo /\ worker'[v].stale = stale
    BY <2>1, <2>3, <2>4 DEF WorkerRow
  <2> QED BY <2>1, <2>2, <2>3, <2>5
<1>6. worker' \in [Workers -> WorkerRow] /\ worker'[w] = new
  <2>1. worker'[w] = new
    OBVIOUS
  <2>2. \A v \in Workers : worker'[v] \in WorkerRow
    BY <1>3, <1>5, <2>1
  <2>3. worker' = [v \in Workers |-> worker'[v]]
    OBVIOUS
  <2> QED BY <2>1, <2>2, <2>3
<1>7. shared \subseteq shared' /\ shared' \subseteq Tasks
  BY <1>1 DEF IInv, Shapes, RowFits
<1>8. ASSUME NEW v \in Workers, v # w, worker[v].job # 0
      PROVE  /\ worker[v].job \in Jobs
             /\ worker[v].job # j => jobs'[worker[v].job] = jobs[worker[v].job]
             /\ jobs'[worker[v].job].kind = jobs[worker[v].job].kind
             /\ jobs'[worker[v].job].task = jobs[worker[v].job].task
             /\ jobs'[worker[v].job].sound = jobs[worker[v].job].sound
             /\ jobs'[worker[v].job].status # "ABSENT"
  <2>1. worker[v].job \in Jobs /\ Row(v).status # "ABSENT"
    BY <1>8, WorkerFacts
  <2> QED BY <1>1, <1>2, <2>1 DEF Row
<1>9. /\ Shapes' /\ RoundsPaid' /\ PublishesVerified' /\ JudgesCode' /\ CommittedCode'
      /\ PublishedIsVerified'
  <2>1. \A k \in Jobs :
          /\ jobs'[k].ckpt = jobs[k].ckpt
          /\ jobs'[k].kind = jobs[k].kind /\ jobs'[k].task = jobs[k].task
          /\ jobs'[k].status \notin Ended => jobs[k].status \notin Ended
    BY <1>1, <1>2 DEF Ended
  <2>2. ASSUME NEW v \in Workers, worker'[v].pc \in StagePcs
        PROVE  \/ worker'[v].pc = "ready"
               \/ /\ worker'[v].pc = worker[v].pc /\ worker'[v].seen = worker[v].seen
                  /\ worker'[v].job = worker[v].job
                  /\ jobs'[worker[v].job].task = Task(v)
    <3>1. CASE v = w
      BY <1>3, <1>6, <2>2, <3>1 DEF StagePcs
    <3>2. CASE v # w
      <4>1. worker[v].job # 0
        BY <1>5, <2>2, <3>2, WorkerFacts
      <4> QED BY <1>5, <1>8, <3>2, <4>1 DEF Task, Row
    <3> QED BY <3>1, <3>2
  <2> QED BY <1>2, <1>6, <1>7, <2>1, <2>2, RestKeeps
<1>10. (\A k \in Jobs : RowFits(jobs[k]))'
  <2> SUFFICES ASSUME NEW k \in Jobs PROVE RowFits(jobs[k])'
    OBVIOUS
  <2>1. RowFits(jobs[k])
    BY DEF IInv
  <2> QED BY <1>1, <1>2, <2>1 DEF RowFits
<1>11. (\A v \in Workers : PcFits(worker[v]) /\ JobFits(worker[v]))'
  <2> SUFFICES ASSUME NEW v \in Workers PROVE PcFits(worker[v])' /\ JobFits(worker[v])'
    OBVIOUS
  <2>1. CASE v = w
    <3>1. PcFits(worker[v])'
      BY <1>4, <1>6, <2>1 DEF PcFits, NoProgress, Idle
    <3>2. JobFits(worker[v])'
      BY <1>1, <1>2, <1>3, <1>6, <2>1 DEF JobFits, StagePcs
    <3> QED BY <3>1, <3>2
  <2>2. CASE v # w
    <3>1. CASE worker[v].pc = "idle"
      <4>1. worker[v] = Idle /\ worker[v].job = 0
        BY <1>5, <2>2, <3>1 DEF PcFits
      <4>2. worker'[v] = Idle
        <5>1. worker[v].job # j
          BY <4>1, QueueAssumption
        <5>2. worker[v].stale \in BOOLEAN /\ Idle.stale = FALSE
          BY <1>5, <2>2, <4>1 DEF Idle, WorkerRow
        <5>3. worker'[v] = [Idle EXCEPT !.stale = FALSE]
          <6>1. (worker[v].stale \/ worker[v].job = j) = FALSE
            BY <4>1, <5>1, <5>2
          <6> QED BY <1>5, <2>2, <4>1, <6>1
        <5> QED BY <5>3 DEF Idle
      <4> QED BY <4>2, IdleFits DEF PcFits, JobFits, NoProgress, Idle, StagePcs
    <3>2. CASE worker[v].pc # "idle"
      <4>1. PcFits(worker[v])'
        BY <1>5, <2>2, <3>2 DEF PcFits
      <4>2. JobFits(worker[v])'
        BY <1>5, <1>8, <2>2 DEF JobFits, StagePcs
      <4> QED BY <4>1, <4>2
    <3> QED BY <3>1, <3>2
  <2> QED BY <2>1, <2>2
<1>12. HolderKnows'
  <2> SUFFICES ASSUME NEW v \in Workers, worker'[v].job # 0,
                      jobs'[worker'[v].job].status = "running", jobs'[worker'[v].job].holder = v
               PROVE  ~worker'[v].stale /\ worker'[v].ckpt = jobs'[worker'[v].job].ckpt
    BY DEF HolderKnows, Row, Ckpt
  <2>1. CASE v = w
    BY <1>1, <1>2, <1>3, <1>6, <2>1
  <2>2. CASE v # w
    <3>1. worker'[v].job = worker[v].job /\ worker[v].job \in Jobs
      BY <1>5, <1>8, <2>2
    <3>2. worker[v].job # j
      BY <1>1, <1>2, <2>2, <3>1
    <3> QED BY <1>5, <1>8, <2>2, <3>1, <3>2 DEF IInv, HolderKnows, Row, Ckpt
  <2> QED BY <2>1, <2>2
<1>13. OneBegun'
  <2>1. ASSUME NEW k \in Jobs, Begun(jobs'[k]), k # j, jobs[k].task = jobs[j].task,
               jobs[j].kind = "dev.task"
        PROVE  jobs[j].task \in shared'
    <3>1. Begun(jobs[k])
      BY <1>2, <2>1
    <3>2. Crowded(j, w)
      BY <2>1, <3>1 DEF Crowded, Begun
    <3> QED BY <2>1, <3>2
  <2>2. \A k \in Jobs : /\ jobs'[k].task = jobs[k].task /\ jobs'[k].kind = jobs[k].kind
                        /\ k # j => jobs'[k] = jobs[k]
    BY <1>1, <1>2
  <2>3. ASSUME NEW k \in Jobs, NEW l \in Jobs, Begun(jobs'[k]), Begun(jobs'[l]),
               jobs'[k].task = jobs'[l].task, jobs'[k].task \notin shared'
        PROVE  k = l
    <3>1. jobs[k].task = jobs[l].task /\ jobs[k].kind = "dev.task" /\ jobs[l].kind = "dev.task"
      BY <2>2, <2>3 DEF Begun
    <3>2. CASE k = j
      BY <2>1, <2>2, <2>3, <3>1, <3>2
    <3>3. CASE l = j
      BY <2>1, <2>2, <2>3, <3>1, <3>3
    <3>4. CASE k # j /\ l # j
      BY <1>7, <2>2, <2>3, <3>4 DEF IInv, OneBegun
    <3> QED BY <3>2, <3>3, <3>4
  <2> QED BY <2>3 DEF OneBegun, Begun
<1>14. HolderInTree'
  <2> SUFFICES ASSUME NEW v \in Workers, worker'[v].pc \in StagePcs,
                      jobs'[worker'[v].job].task \notin shared'
               PROVE  jobs'[worker'[v].job].status = "running" /\ jobs'[worker'[v].job].holder = v
    BY DEF HolderInTree, InTree, Task, Row, StagePcs
  <2>1. CASE v = w
    BY <1>1, <1>2, <1>3, <1>6, <2>1
  <2>2. CASE v # w
    <3>1. /\ worker[v].pc \in StagePcs /\ worker'[v].job = worker[v].job
          /\ worker[v].job # 0 /\ worker[v].job \in Jobs /\ Row(v).kind = "dev.task"
      BY <1>5, <2>2, WorkerFacts
    <3>2. InTree(v) /\ Task(v) \notin shared'
      BY <1>7, <1>8, <2>2, <3>1 DEF InTree, Task, Row
    <3>3. worker[v].job # j
      <4>1. SUFFICES ASSUME worker[v].job = j PROVE FALSE
        OBVIOUS
      <4>2. InWorktree(v, jobs[j].task)
        BY <3>1, <4>1 DEF InWorktree, StagePcs, Task, Row
      <4>3. Crowded(j, w)
        BY <2>2, <4>2 DEF Crowded
      <4> QED BY <3>1, <3>2, <4>1, <4>3 DEF Task, Row
    <3> QED BY <1>8, <2>2, <3>1, <3>2, <3>3 DEF IInv, HolderInTree, Row
  <2> QED BY <2>1, <2>2
<1> QED BY <1>9, <1>10, <1>11, <1>12, <1>13, <1>14 DEF IInv

LEMMA ClaimJobKeeps ==
  ASSUME IInv, NEW w \in Workers, ClaimJob(w) PROVE IInv'
<1>1. PICK j \in Jobs : ClaimJob(w)!2!(j)
  BY DEF ClaimJob
<1>2. At(w, "idle") /\ UNCHANGED <<tree, fixes>> /\ Claimable(jobs[j])
  BY <1>1 DEF ClaimJob, Oldest
<1>3. CASE jobs[j].sound
  BY <1>1, <1>2, <1>3, TakeKeeps
<1>4. CASE ~jobs[j].sound
  BY <1>1, <1>2, <1>4, BuryKeeps
<1> QED BY <1>3, <1>4

-----------------------------------------------------------------------------
(* The theorems *)

LEMMA InitIInv == DevInit => IInv
<1> SUFFICES ASSUME DevInit PROVE IInv
  OBVIOUS
<1> DEFINE row == NewRow("plain", TriageId, TRUE, NoProgress, "ABSENT")
<1>1. /\ jobs = [j \in Jobs |-> row] /\ worker = [w \in Workers |-> Idle]
      /\ tree = [t \in Tasks |-> NoTree] /\ shared = {} /\ fixes = [j \in Jobs |-> 0]
  BY DEF DevInit
<1>2. /\ row \in JobRow /\ RowFits(row) /\ row.status = "ABSENT" /\ row.kind = "plain"
      /\ row.ckpt.rounds = 0
  <2>1. NoProgress \in Checkpoint
    BY PipelineAssumption DEF NoProgress, Checkpoint, Stages
  <2> QED BY <2>1, QueueAssumption DEF NewRow, JobRow, Status, Kinds, RowFits, NoProgress
<1> HIDE DEF row
<1>3. NoTree \in TreeRow
  BY PipelineAssumption DEF NoTree, TreeRow
<1>4. Shapes
  BY <1>1, <1>2, <1>3, IdleFits DEF Shapes
<1>5. \A w \in Workers : worker[w].pc = "idle" /\ worker[w].job = 0 /\ PcFits(worker[w])
  BY <1>1, IdleFits
<1>6. RoundsPaid
  <2> SUFFICES ASSUME NEW j \in Jobs
               PROVE  fixes[j] + Cardinality(Fixing(j)) <= jobs[j].ckpt.rounds
    BY DEF RoundsPaid
  <2>1. Fixing(j) = {}
    BY <1>5 DEF Fixing
  <2>2. Cardinality(Fixing(j)) = 0
    BY <2>1, FS_EmptySet
  <2> QED BY <1>1, <1>2, <2>2
<1>7. HolderKnows /\ HolderInTree /\ JudgesCode /\ CommittedCode
  BY <1>5 DEF HolderKnows, HolderInTree, JudgesCode, CommittedCode, InTree, StagePcs
<1>8. OneBegun /\ PublishesVerified /\ PublishedIsVerified
  BY <1>1, <1>2 DEF OneBegun, Begun, PublishesVerified, PublishedIsVerified
<1>9. \A w \in Workers : JobFits(worker[w])
  BY <1>5 DEF JobFits
<1> QED BY <1>1, <1>2, <1>4, <1>5, <1>6, <1>7, <1>8, <1>9 DEF IInv

LEMMA NextIInv == IInv /\ [DevNext]_devVars => IInv'
<1> SUFFICES ASSUME IInv, [DevNext]_devVars PROVE IInv'
  OBVIOUS
<1>1. ASSUME NEW r \in Requests, EnqueueJob(r) PROVE IInv'
  BY <1>1, EnqueueJobKeeps
<1>2. ASSUME NEW w \in Workers, Work(w) PROVE IInv'
  BY <1>2, ClaimJobKeeps, RunPlainKeeps, EnqueueTriageKeeps, LookForPrepKeeps, EnqueuePrepKeeps,
     StageKeeps DEF Work
<1>3. ASSUME NEW w \in Workers, LookForTriage(w) PROVE IInv'
  BY <1>3, LookForTriageKeeps
<1>4. ASSUME NEW w \in Workers, Die(w) PROVE IInv'
  BY <1>4, DieKeeps
<1>5. ASSUME Tick PROVE IInv'
  BY <1>5, TickKeeps
<1>6. ASSUME UNCHANGED devVars PROVE IInv'
  <2>1. UNCHANGED <<jobs, worker>> /\ UNCHANGED <<tree, shared, fixes>>
    BY <1>6 DEF devVars
  <2> QED BY <2>1, RowsStay, NobodyMoves, QuietKeeps
<1> QED BY <1>1, <1>2, <1>3, <1>4, <1>5, <1>6 DEF DevNext

LEMMA SpecIInv == DevSpec => []IInv
BY InitIInv, NextIInv, PTL DEF DevSpec

\* Every row, worker and worktree keeps its declared shape; in particular a job's
\* attempts never fall below zero, although deferring a job takes one back
\* (db.py, defer).
THEOREM TypeCorrect == DevSpec => []TypeOK
<1>1. IInv => TypeOK
  <2> SUFFICES ASSUME IInv PROVE TypeOK
    OBVIOUS
  <2>1. ASSUME NEW j \in Jobs
        PROVE  /\ jobs[j].kind \in Kinds /\ jobs[j].status \in Status /\ jobs[j].ckpt \in Checkpoint
               /\ jobs[j].attempts \in Nat
               /\ jobs[j].holder \in Workers \cup {NoWorker}
               /\ jobs[j].lease \in 0..LeaseTime
    BY DEF IInv, Shapes, JobRow
  <2>2. ASSUME NEW w \in Workers
        PROVE  /\ worker[w].job \in Jobs \cup {0} /\ worker[w].ckpt \in Checkpoint
               /\ worker[w].seen \in Code /\ worker[w].todo \subseteq Blocked
    BY DEF IInv, Shapes, WorkerRow
  <2>3. shared \subseteq Tasks
    BY DEF IInv, Shapes
  <2>4. tree \in [Tasks -> [spec : {"none", "unusable", "draft", "committed"},
                            code : Code, head : Code, notes : BOOLEAN]]
    BY DEF IInv, Shapes, TreeRow
  <2> QED BY <2>1, <2>2, <2>3, <2>4 DEF TypeOK
<1> QED BY <1>1, SpecIInv, PTL

\* What a finished dev.task leaves at the head of its branch passed the tests, the
\* diff guard and the scan, however often it was retried, deferred and taken over,
\* unless two claims worked in the worktree at once (dev_pipeline.py, _stage_publish).
THEOREM PublishedWasVerified == DevSpec => []PublishedIsVerified
<1>1. IInv => PublishedIsVerified
  BY DEF IInv
<1> QED BY <1>1, SpecIInv, PTL

\* The model is called for at most max_fix_rounds fixes of a job, whoever works on
\* it and however many workers still believe they do (dev_pipeline.py, _stage_verify).
THEOREM FixesAreBounded == DevSpec => []FixesBounded
<1>1. IInv => FixesBounded
  <2> SUFFICES ASSUME IInv, NEW j \in Jobs PROVE fixes[j] <= MaxFix
    BY DEF FixesBounded
  <2>1. fixes[j] + Cardinality(Fixing(j)) <= jobs[j].ckpt.rounds
    BY DEF IInv, RoundsPaid
  <2>2. fixes[j] \in Nat /\ jobs[j].ckpt.rounds \in 0..MaxFix
    BY DEF IInv, Shapes, JobRow, Checkpoint
  <2>3. Cardinality(Fixing(j)) \in Nat
    <3>1. Fixing(j) \subseteq Workers
      BY DEF Fixing
    <3> QED BY <3>1, QueueAssumption, FS_Subset, FS_CardinalityType
  <2> QED BY <2>1, <2>2, <2>3, PipelineAssumption
<1> QED BY <1>1, SpecIInv, PTL

-----------------------------------------------------------------------------
(* Who writes a row *)

Rewritten(j) == jobs'[j].ckpt # jobs[j].ckpt \/ jobs'[j].status # jobs[j].status

\* Whatever of a row w rewrites, it owns, and it has moved on.
OwnWrite(w) ==
  \A j \in Jobs : Rewritten(j) => j = worker[w].job /\ Owns(w) /\ worker'[w] # worker[w]

LEMMA NoWrite ==
  ASSUME NEW w, UNCHANGED jobs PROVE OwnWrite(w)
BY DEF OwnWrite, Rewritten

LEMMA ReleaseWrites ==
  ASSUME IInv, NEW w \in Workers, worker[w].job # 0, NEW row, Release(w, row)
  PROVE  OwnWrite(w)
<1>1. CASE ~Owns(w)
  BY <1>1, NoWrite DEF Release, GiveUp
<1>2. CASE Owns(w)
  <2>1. /\ jobs' = [jobs EXCEPT ![worker[w].job] = row] /\ worker' = [worker EXCEPT ![w] = Idle]
    BY <1>2 DEF Release
  <2>2. worker'[w] # worker[w]
    BY <2>1, IdleFits DEF IInv, Shapes
  <2>3. \A j \in Jobs : j # worker[w].job => jobs'[j] = jobs[j]
    BY <2>1 DEF IInv, Shapes
  <2> QED BY <1>2, <2>2, <2>3 DEF OwnWrite, Rewritten
<1> QED BY <1>1, <1>2

LEMMA RaiseWrites ==
  ASSUME IInv, NEW w \in Workers, worker[w].job # 0, NEW permanent,
         Raise(w, permanent)
  PROVE  OwnWrite(w)
BY ReleaseWrites DEF Raise

LEMMA FailsWrites ==
  ASSUME IInv, NEW w \in Workers, worker[w].job # 0, Fails(w) PROVE OwnWrite(w)
BY ReleaseWrites, RaiseWrites DEF Fails, Throttled

LEMMA SaveWrites ==
  ASSUME IInv, NEW w \in Workers, worker[w].job # 0, NEW ckpt, NEW pc, Save(w, ckpt, pc)
  PROVE  OwnWrite(w)
<1>1. CASE ~Owns(w)
  BY <1>1, NoWrite DEF Save, GiveUp
<1>2. CASE Owns(w)
  <2>1. /\ jobs' = [jobs EXCEPT ![worker[w].job] = [jobs[worker[w].job] EXCEPT !.ckpt = ckpt]]
        /\ worker'[w] = [worker[w] EXCEPT !.ckpt = ckpt, !.pc = pc]
    BY <1>2 DEF Save, IInv, Shapes
  <2>2. worker[w].job \in Jobs /\ Row(w) \in JobRow /\ worker[w] \in WorkerRow
    BY WorkerFacts
  <2>3. \A j \in Jobs : j # worker[w].job => jobs'[j] = jobs[j]
    BY <2>1 DEF IInv, Shapes
  <2>4. jobs'[worker[w].job].ckpt = ckpt /\ jobs'[worker[w].job].status = Row(w).status
    BY <2>1, <2>2 DEF IInv, Shapes, JobRow, Row
  <2>5. worker'[w].ckpt = ckpt
    BY <2>1, <2>2 DEF WorkerRow
  <2>6. worker[w].ckpt = Row(w).ckpt
    BY <1>2, OwnerKnows DEF Ckpt
  <2>7. ASSUME Rewritten(worker[w].job) PROVE worker'[w] # worker[w]
    BY <2>4, <2>5, <2>6, <2>7 DEF Rewritten, Row
  <2> QED BY <1>2, <2>3, <2>7 DEF OwnWrite, Rewritten
<1> QED BY <1>1, <1>2

LEMMA StageWrites ==
  ASSUME IInv, NEW w \in Workers, Stage(w) PROVE OwnWrite(w)
<1>1. worker[w].pc \in StagePcs
  BY DEF Stage, BeginStage, WriteSpec, CommitSpec, RecordSpec, Implement, RunTests, JudgeTests, Fix,
         CommitFeature, AppendEvidence, CommitEvidence, RecordPublished, At, StagePcs
<1>2. worker[w].job # 0 /\ worker[w].job \in Jobs /\ Row(w) \in JobRow
  BY <1>1, WorkerFacts
<1>3. ASSUME BeginStage(w) PROVE OwnWrite(w)
  <2>1. CASE ~Owns(w)
    BY <1>2, <1>3, <2>1, RaiseWrites DEF BeginStage
  <2>2. CASE Owns(w)
    <3>1. jobs' = [jobs EXCEPT ![worker[w].job] = Extended(@)]
      BY <1>3, <2>2 DEF BeginStage
    <3>2. Extended(Row(w)).ckpt = Row(w).ckpt /\ Extended(Row(w)).status = Row(w).status
      BY <1>2 DEF Extended, JobRow
    <3>3. \A j \in Jobs : ~Rewritten(j)
      BY <1>2, <3>1, <3>2 DEF IInv, Shapes, Row, Rewritten
    <3> QED BY <3>3 DEF OwnWrite
  <2> QED BY <2>1, <2>2
<1>4. ASSUME WriteSpec(w) PROVE OwnWrite(w)
  BY <1>2, <1>4, SaveWrites, FailsWrites DEF WriteSpec
<1>5. ASSUME CommitSpec(w) PROVE OwnWrite(w)
  BY <1>2, <1>5, NoWrite, RaiseWrites DEF CommitSpec
<1>6. ASSUME RecordSpec(w) PROVE OwnWrite(w)
  BY <1>2, <1>6, SaveWrites DEF RecordSpec, SaveStage
<1>7. ASSUME Implement(w) PROVE OwnWrite(w)
  <2>1. SaveStage(w, "verify") \/ Raise(w, FALSE) \/ Fails(w)
    BY <1>7 DEF Implement
  <2> QED BY <1>2, <2>1, SaveWrites, RaiseWrites, FailsWrites DEF SaveStage
<1>8. ASSUME RunTests(w) PROVE OwnWrite(w)
  BY <1>2, <1>8, NoWrite, RaiseWrites DEF RunTests
<1>9. ASSUME JudgeTests(w) PROVE OwnWrite(w)
  BY <1>2, <1>9, SaveWrites, RaiseWrites DEF JudgeTests, SaveStage
<1>10. ASSUME Fix(w) PROVE OwnWrite(w)
  <2>1. \/ Save(w, [Ckpt(w) EXCEPT !.completed = Ckpt(w).rounds, !.stage = "verify"], "ready")
        \/ Raise(w, FALSE) \/ Fails(w)
    BY <1>10 DEF Fix
  <2> QED BY <1>2, <2>1, SaveWrites, RaiseWrites, FailsWrites
<1>11. ASSUME CommitFeature(w) PROVE OwnWrite(w)
  <2>1. UNCHANGED jobs \/ \E permanent \in BOOLEAN : Raise(w, permanent)
    BY <1>11 DEF CommitFeature
  <2> QED BY <1>2, <2>1, NoWrite, RaiseWrites
<1>12. ASSUME AppendEvidence(w) PROVE OwnWrite(w)
  BY <1>12, NoWrite DEF AppendEvidence
<1>13. ASSUME CommitEvidence(w) PROVE OwnWrite(w)
  BY <1>2, <1>13, NoWrite, RaiseWrites DEF CommitEvidence
<1>14. ASSUME RecordPublished(w) PROVE OwnWrite(w)
  BY <1>2, <1>14, SaveWrites DEF RecordPublished, SaveStage
<1> QED BY <1>3, <1>4, <1>5, <1>6, <1>7, <1>8, <1>9, <1>10, <1>11, <1>12, <1>13, <1>14 DEF Stage

\* A row that is new, and one whose time passes, are not rewritten while they run.
LEMMA SameIsNotRewritten ==
  ASSUME NEW j \in Jobs, jobs[j].status = "running",
         \/ SameRow(jobs[j], jobs'[j])
         \/ jobs[j].status = "ABSENT" /\ FreshRow(jobs'[j])
  PROVE  ~Rewritten(j)
BY DEF SameRow, Rewritten

\* The checkpoint and the outcome of a job are only written by the worker that made
\* the latest claim of it: the worker_id is enough where a lease has no fencing
\* token, because a worker has one job at a time (db.py, _owned_running).
THEOREM WritersAreCurrent == DevSpec => WriterIsCurrent
<1> DEFINE Changed(j) == /\ jobs[j].status = "running" /\ jobs'[j].attempts <= jobs[j].attempts
                         /\ jobs'[j].ckpt # jobs[j].ckpt \/ jobs'[j].status # jobs[j].status
           Current(j) == \E w \in Workers : /\ worker[w].job = j /\ ~worker[w].stale
                                            /\ worker'[w] # worker[w]
<1>1. ASSUME IInv, NEW w \in Workers, OwnWrite(w), NEW j \in Jobs, Changed(j) PROVE Current(j)
  <2>1. j = worker[w].job /\ Owns(w) /\ worker'[w] # worker[w]
    BY <1>1 DEF OwnWrite, Rewritten
  <2>2. j # 0
    BY QueueAssumption
  <2>3. ~worker[w].stale
    BY <1>1, <2>1, <2>2, OwnerKnows
  <2> QED BY <2>1, <2>3
<1>2. ASSUME IInv, NEW j \in Jobs, Changed(j),
             \/ SameRow(jobs[j], jobs'[j])
             \/ jobs[j].status = "ABSENT" /\ FreshRow(jobs'[j])
      PROVE  FALSE
  BY <1>2, SameIsNotRewritten DEF Rewritten
<1>3. ASSUME IInv, DevNext, NEW j \in Jobs, Changed(j) PROVE Current(j)
  <2>1. ASSUME NEW r \in Requests, EnqueueJob(r) PROVE Current(j)
    <3>1. /\ r.kind \in Kinds /\ r.task \in Tasks \cup {TriageId} /\ r.sound \in BOOLEAN
          /\ r.kind = "dev.task" => r.task \in Tasks
      BY RequestAssumption
    <3>2. Free # {} /\ jobs' = Enqueued(r.kind, r.task, r.sound, NoProgress)
      BY <2>1 DEF EnqueueJob
    <3> QED BY <1>2, <1>3, <3>1, <3>2, EnqueuedIsFresh
  <2>2. ASSUME NEW w \in Workers, UNCHANGED jobs \/ OwnWrite(w) PROVE Current(j)
    BY <1>1, <1>3, <2>2, NoWrite
  <2>3. ASSUME NEW w \in Workers, RunPlain(w) \/ RefusePayload(w) \/ Finish(w) PROVE Current(j)
    <3>1. worker[w].job # 0
      BY <1>3, <2>3 DEF RunPlain, RefusePayload, Finish, At, IInv, PcFits
    <3>2. \/ UNCHANGED jobs
          \/ \E permanent \in BOOLEAN : Raise(w, permanent)
          \/ Release(w, Completed(Row(w)))
      BY <2>3 DEF RunPlain, RefusePayload, Finish
    <3> QED BY <1>3, <2>2, <3>1, <3>2, RaiseWrites, ReleaseWrites
  <2>4. ASSUME NEW w \in Workers, EnqueueTriage(w) \/ EnqueuePrep(w) PROVE Current(j)
    <3>1. CASE UNCHANGED jobs
      BY <2>2, <3>1
    <3>2. CASE Free # {} /\ jobs' = Enqueued("blocked.triage", TriageId, TRUE, NoProgress)
      <4>1. "blocked.triage" \in Kinds
        BY DEF Kinds
      <4> QED BY <1>2, <1>3, <3>2, <4>1, EnqueuedIsFresh
    <3>3. CASE Free # {} /\ EnqueuePrep(w)
      <4>1. "dev.task" \in Kinds /\ jobs' = Enqueued("dev.task", Item(w), TRUE, NoProgress)
        BY <3>3 DEF EnqueuePrep, Kinds
      <4>2. Item(w) \in Tasks
        BY <1>3, <3>3, ItemIsBlocked DEF EnqueuePrep, At, IInv, PcFits
      <4> QED BY <1>2, <1>3, <3>3, <4>1, <4>2, EnqueuedIsFresh
    <3> QED BY <2>4, <3>1, <3>2, <3>3 DEF EnqueueTriage, EnqueuePrep
  <2>5. ASSUME NEW w \in Workers, ClaimJob(w) PROVE Current(j)
    <3>1. PICK k \in Jobs : ClaimJob(w)!2!(k)
      BY <2>5 DEF ClaimJob
    <3>2. Claimable(jobs[k]) /\ jobs[k] \in JobRow /\ jobs[j] \in JobRow
      BY <1>3, <3>1 DEF Oldest, IInv, Shapes
    <3>3. \/ jobs' = [jobs EXCEPT ![k] = Claimed(@, w)]
          \/ jobs' = [jobs EXCEPT ![k] = Buried(@, w)]
      BY <3>1
    <3>4. jobs'[k].attempts > jobs[k].attempts
      BY <1>3, <3>2, <3>3, ClaimedRow DEF IInv, Shapes
    <3>5. CASE j = k
      <4>1. jobs'[k].attempts \in Nat /\ jobs[k].attempts \in Nat
        <5>1. jobs'[k] \in JobRow
          BY <1>3, <3>2, <3>3, ClaimedRow DEF IInv, Shapes
        <5> QED BY <3>2, <5>1 DEF JobRow
      <4> QED BY <1>3, <3>4, <3>5, <4>1
    <3>6. CASE j # k
      <4>1. jobs'[j] = jobs[j]
        BY <1>3, <3>3, <3>6 DEF IInv, Shapes
      <4> QED BY <1>3, <4>1
    <3> QED BY <3>5, <3>6
  <2>6. ASSUME NEW w \in Workers, LookForTriage(w) \/ Die(w) \/ LookForPrep(w) PROVE Current(j)
    <3>1. UNCHANGED jobs
      BY <2>6 DEF LookForTriage, Die, LookForPrep
    <3> QED BY <2>2, <3>1
  <2>7. ASSUME NEW w \in Workers, Stage(w) PROVE Current(j)
    BY <1>3, <2>2, <2>7, StageWrites
  <2>8. ASSUME Tick PROVE Current(j)
    <3>1. jobs'[j] = Elapsed(jobs[j]) /\ jobs[j] \in JobRow
      BY <1>3, <2>8 DEF Tick, IInv, Shapes
    <3>2. SameRow(jobs[j], jobs'[j])
      BY <3>1 DEF Elapsed, SameRow, JobRow
    <3> QED BY <1>2, <1>3, <3>2
  <2> HIDE DEF Changed, Current
  <2> QED BY <1>3, <2>1, <2>3, <2>4, <2>5, <2>6, <2>7, <2>8 DEF DevNext, Work
<1>4. IInv /\ [DevNext]_devVars => [\A j \in Jobs : Changed(j) => Current(j)]_devVars
  <2> HIDE DEF Changed, Current
  <2> QED BY <1>3
<1>5. []IInv /\ [][DevNext]_devVars => WriterIsCurrent
  BY <1>4, PTL DEF WriterIsCurrent
<1> QED BY <1>5, SpecIInv, PTL DEF DevSpec

=============================================================================
