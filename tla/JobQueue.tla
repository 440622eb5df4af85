------------------------------ MODULE JobQueue ------------------------------
(***************************************************************************)
(* The prototype's job table (smart_store_aios/db.py): leases without a    *)
(* fencing token, attempts, retry delays, deferral and dead jobs.          *)
(*                                                                         *)
(* A job's checkpoint is the business of whoever works on it (DevPipeline) *)
(* and only stored here.  `lease` and `wait` are the time left to          *)
(* leased_until and available_at; the instant leased_until = now, at which *)
(* a job is neither owned nor claimable, is not told apart from after it.  *)
(***************************************************************************)
EXTENDS Naturals, FiniteSets

CONSTANTS
  Jobs,         \* ids, in the order AUTOINCREMENT hands them out
  Workers,      \* worker processes; each has a worker_id of its own
  NoWorker,     \* worker_id IS NULL
  LeaseTime,    \* lease_seconds, in clock ticks
  MaxAttempts,  \* max_attempts
  RetryCap,     \* the 60 of min(2 ** attempts, 60)
  DeferTime     \* dev_usage_limit_delay_seconds

ASSUME QueueAssumption ==
  /\ Jobs \subseteq Nat \ {0}
  /\ IsFiniteSet(Jobs) /\ IsFiniteSet(Workers)
  /\ NoWorker \notin Workers
  /\ {LeaseTime, RetryCap, DeferTime, MaxAttempts} \subseteq Nat \ {0}

VARIABLE jobs  \* rows of the table jobs

Status == {"ABSENT", "queued", "running", "done", "dead"}
Ended == {"done", "dead"}

NewRow(kind, task, sound, ckpt, status) ==
  [kind |-> kind, task |-> task, sound |-> sound, ckpt |-> ckpt, status |-> status,
   attempts |-> 0, holder |-> NoWorker, lease |-> 0, wait |-> 0]

Free == {j \in Jobs : jobs[j].status = "ABSENT"}
NextId == CHOOSE j \in Free : \A k \in Free : j <= k

\* enqueue
Enqueued(kind, task, sound, ckpt) ==
  [jobs EXCEPT ![NextId] = NewRow(kind, task, sound, ckpt, "queued")]

\* Mutant of Claimable: jobs of workers that died are left alone.
ClaimableIfQueued(row) == row.wait = 0 /\ row.status = "queued"

Claimable(row) ==
  /\ row.wait = 0
  /\ \/ row.status = "queued"
     \/ row.status = "running" /\ row.lease = 0

\* ORDER BY id LIMIT 1
Oldest(j) == Claimable(jobs[j]) /\ \A k \in Jobs : k < j => ~Claimable(jobs[k])

Claimed(row, w) ==
  [row EXCEPT !.status = "running", !.attempts = @ + 1, !.lease = LeaseTime, !.holder = w]

\* a row that does not parse is claimed and dead-lettered, and the next is tried
Buried(row, w) == [Claimed(row, w) EXCEPT !.status = "dead", !.lease = 0]

\* Mutant of OwnedRunning: whose lease it is, is not asked.
OwnedByAnyone(row, w) == row.status = "running" /\ row.lease > 0

\* _owned_running
OwnedRunning(row, w) == row.status = "running" /\ row.holder = w /\ row.lease > 0

Extended(row) == [row EXCEPT !.lease = LeaseTime]

Deferred(row) ==
  [row EXCEPT !.status = "queued", !.attempts = @ - 1, !.lease = 0, !.wait = DeferTime]

Completed(row) == [row EXCEPT !.status = "done", !.lease = 0]

RetryDelay(attempts) == IF 2 ^ attempts < RetryCap THEN 2 ^ attempts ELSE RetryCap

Failed(row, permanent) ==
  LET dead == permanent \/ row.attempts >= MaxAttempts
  IN  [row EXCEPT !.status = IF dead THEN "dead" ELSE "queued", !.lease = 0,
                  !.wait = IF dead THEN 0 ELSE RetryDelay(row.attempts)]

\* find_job: the most recent job of that kind for that task
Found(kind, task) ==
  LET match == {j \in Jobs : jobs[j].status # "ABSENT" /\ jobs[j].kind = kind /\ jobs[j].task = task}
  IN  {j \in match : \A k \in match : k <= j}

Elapsed(row) ==
  [row EXCEPT !.lease = IF @ = 0 THEN 0 ELSE @ - 1, !.wait = IF @ = 0 THEN 0 ELSE @ - 1]

Waiting(row) == row.lease > 0 \/ row.wait > 0
=============================================================================
