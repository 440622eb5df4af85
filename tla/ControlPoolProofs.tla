------------------------- MODULE ControlPoolProofs -------------------------
(***************************************************************************)
(* TLAPS proofs about ControlPool, for every set of tasks, lanes, workers  *)
(* and reviewers, whatever the runs, the gate and the operator do, and     *)
(* every limit.  The types hold as they are; what the ledger says of who   *)
(* works on what needs the two hypotheses of Undisturbed, without which    *)
(* the code does not keep it.                                              *)
(***************************************************************************)
EXTENDS ControlPool, Integers, TLAPS

-----------------------------------------------------------------------------
(* Types *)

Codex == {"none", "waiting", "landed", "dead", "late"}
Notes == {"", "none", "review", "apply", "passed", "objected", "landed", "landing", "retry", "rejected",
          "orphaned", "codex", "guard", "triage", "missing", "stray", "paused", "slow", "turns",
          "no_plan", "refused", "infra"} \cup Failures \cup GateNotes \cup Patches

Retries == 0..MaxRetries \cup {99}
Tries == 0..TimeBudget + 1

Row == [status : Status, holder : Crew \cup {Nobody}, claude : BOOLEAN, artifact : BOOLEAN,
        retry : Retries, tries : Tries, last : Notes, streak : Nat,
        guard : Nat, note : Notes, job : Codex]
TaskRow == {row \in Row : row.guard <= row.tries}

Seat == [step : {"off", "started", "run", "ran", "gated"}, task : Ids \cup {0}, out : Notes]

PilotSteps == {"handoff", "land", "triage", "reopen", "topup", "write", "start"}

AtWork(seat) == seat.step \notin {"off", "started"}

Typed ==
  /\ tasks \in [Ids -> TaskRow] /\ copy \in [Ids -> TaskRow]
  /\ runtime \in Runtime
  /\ patch \in [Ids -> Patches \cup {NoPatch}]
  /\ at \in [Crew -> Seat]
  /\ \A w \in Crew : AtWork(at[w]) => at[w].task \in Ids
  /\ pilot \in [step : PilotSteps, idle : BOOLEAN]
  /\ rescue \in {"off", "requeue", "dispatch", "wait"}
  /\ left \in [ops : Nat, trouble : Nat]

-----------------------------------------------------------------------------
(* Rows as the operations leave them *)

LEMMA NewRows ==
  /\ NewTask \in TaskRow /\ NewTask.status = "ready"
  /\ Absent \in TaskRow /\ Absent.status = "ABSENT"
<1>1. /\ 0 \in Retries /\ 0 \in Tries /\ 0 \in Nat /\ 0 <= 0
      /\ {"ready", "ABSENT"} \subseteq Status /\ "" \in Notes /\ "none" \in Codex
  BY LedgerAssumption DEF Status, Notes, Codex, Retries, Tries
<1>2. NewTask \in Row /\ NewTask.status = "ready" /\ NewTask.guard = 0 /\ NewTask.tries = 0
  BY <1>1 DEF NewTask, Row
<1>3. Absent \in Row /\ Absent.status = "ABSENT" /\ Absent.guard = 0 /\ Absent.tries = 0
  BY <1>1, <1>2 DEF Absent, Row
<1> QED BY <1>1, <1>2, <1>3 DEF TaskRow, Row

LEMMA RecordedRow ==
  ASSUME NEW row \in TaskRow, NEW note \in Notes
  PROVE  /\ Recorded(row, note) \in TaskRow
         /\ Recorded(row, note).status = row.status /\ Recorded(row, note).holder = row.holder
<1> DEFINE tries == Smaller(row.tries + 1, TimeBudget + 1)
           streak == IF row.last # note THEN 1 ELSE Smaller(row.streak + 1, RepeatLimit)
<1>1. row.tries \in Tries /\ row.guard \in Nat /\ row.guard <= row.tries
      /\ row.streak \in Nat /\ TimeBudget \in Nat /\ RepeatLimit \in Nat
  BY LedgerAssumption DEF TaskRow, Row
<1>2. tries \in Tries /\ row.guard <= tries
  BY <1>1 DEF Smaller, Tries
<1>3. streak \in Nat
  BY <1>1 DEF Smaller
<1>4. Recorded(row, note) = [row EXCEPT !.tries = tries, !.last = note, !.streak = streak]
  BY DEF Recorded
<1> HIDE DEF tries, streak
<1>5. LET new == Recorded(row, note)
      IN  /\ new \in Row /\ new.status = row.status /\ new.holder = row.holder
          /\ new.guard = row.guard /\ new.tries = tries
  <2>1. row \in Row
    BY DEF TaskRow
  <2>2. Recorded(row, note) \in Row
    BY <1>2, <1>3, <1>4, <2>1 DEF Row
  <2>3. /\ Recorded(row, note).status = row.status /\ Recorded(row, note).holder = row.holder
        /\ Recorded(row, note).guard = row.guard /\ Recorded(row, note).tries = tries
    BY <1>4, <2>1 DEF Row
  <2> QED BY <2>2, <2>3
<1> QED BY <1>2, <1>5 DEF TaskRow

LEMMA QueuedRow ==
  ASSUME NEW row \in TaskRow, NEW note \in Notes
  PROVE  ToQueue(row, note) \in TaskRow /\ ToQueue(row, note).status = "ready"
         /\ ToQueue(row, note).retry = row.retry
BY DEF ToQueue, TaskRow, Row, Status, Active

LEMMA EscalatedRow ==
  ASSUME NEW row \in TaskRow, NEW codex \in BOOLEAN
  PROVE  /\ Escalate(row, codex) \in TaskRow
         /\ Escalate(row, codex).status \in {"escalated", "blocked"}
<1>1. "codex" \in Notes /\ "waiting" \in Codex /\ {"escalated", "blocked"} \subseteq Status
  BY DEF Notes, Codex, Status, Active
<1>2. [row EXCEPT !.status = "escalated", !.holder = Nobody, !.claude = FALSE, !.job = "waiting",
                  !.note = "codex"] \in TaskRow
  BY <1>1 DEF TaskRow, Row
<1>3. [row EXCEPT !.status = "blocked", !.holder = Nobody, !.claude = TRUE] \in TaskRow
  BY <1>1 DEF TaskRow, Row
<1> QED BY <1>1, <1>2, <1>3 DEF Escalate, TaskRow, Row

\* Triage moves what is blocked, waits or is escalated, to the queue, to Codex, to
\* Claude Code or to its end.
LEMMA TriagedRow ==
  ASSUME tasks \in [Ids -> TaskRow], NEW t \in Ids
  PROVE  /\ Triaged(t) \in TaskRow
         /\ \/ Triaged(t) = tasks[t]
            \/ /\ tasks[t].status \in {"blocked", "ready", "needs_review", "escalated"}
               /\ Triaged(t).status \in {"ready", "escalated", "blocked", "done"}
<1> DEFINE row == tasks[t]
<1>0. row \in TaskRow /\ "triage" \in Notes /\ "guard" \in Notes /\ "codex" \in Notes
  BY DEF Notes
<1>1. CASE Guarded(t)
  <2> DEFINE seen == [row EXCEPT !.guard = row.tries, !.note = "guard"]
  <2>1. seen \in TaskRow
    <3>1. row \in Row /\ row.tries \in Nat /\ row.tries <= row.tries
      BY <1>0, LedgerAssumption DEF TaskRow, Row, Tries
    <3>2. seen \in Row /\ seen.guard = row.tries /\ seen.tries = row.tries
      BY <1>0, <3>1 DEF Row
    <3> HIDE DEF seen
    <3> QED BY <3>1, <3>2 DEF TaskRow, Row
  <2>2. row.status \in {"blocked", "ready", "needs_review"}
    BY <1>1 DEF Guarded
  <2>3. LoopGuard(t) = IF Verdict(t) = "remediate" THEN [ToQueue(seen, "guard") EXCEPT !.retry = 0]
                       ELSE Escalate(seen, seen.last \notin Unfixable /\ ~BaselineRed(t))
    BY DEF LoopGuard
  <2> HIDE DEF seen
  <2>4. [ToQueue(seen, "guard") EXCEPT !.retry = 0] \in TaskRow
        /\ [ToQueue(seen, "guard") EXCEPT !.retry = 0].status = "ready"
    <3>1. ToQueue(seen, "guard") \in TaskRow /\ ToQueue(seen, "guard").status = "ready"
      BY <1>0, <2>1, QueuedRow
    <3>2. 0 \in Retries
      BY LedgerAssumption DEF Retries
    <3> QED BY <3>1, <3>2 DEF TaskRow, Row
  <2>5. LoopGuard(t) \in TaskRow /\ LoopGuard(t).status \in {"ready", "escalated", "blocked"}
    BY <2>1, <2>3, <2>4, EscalatedRow
  <2> QED BY <1>1, <2>2, <2>5 DEF Triaged
<1>2. CASE ~Guarded(t)
  <2>1. ToQueue(row, "triage") \in TaskRow /\ ToQueue(row, "triage").status = "ready"
    BY <1>0, QueuedRow
  <2>2. Escalate(row, TRUE) \in TaskRow /\ Escalate(row, TRUE).status \in {"escalated", "blocked"}
    BY <1>0, EscalatedRow
  <2>3. [row EXCEPT !.status = "done"] \in TaskRow /\ [row EXCEPT !.status = "done"].status = "done"
    BY <1>0 DEF TaskRow, Row, Status
  <2>4. LET new == [row EXCEPT !.status = "blocked", !.claude = TRUE, !.note = "codex"]
        IN  new \in TaskRow /\ new.status = "blocked"
    BY <1>0 DEF TaskRow, Row, Status
  <2>5. Triaged(t) = Classified(t)
    BY <1>2 DEF Triaged
  <2> QED BY <1>0, <2>1, <2>2, <2>3, <2>4, <2>5 DEF Classified
<1> QED BY <1>1, <1>2

LEMMA FinishedRow ==
  ASSUME NEW row \in TaskRow, NEW status \in Status, NEW note \in Notes
  PROVE  /\ Finished(row, status, note) \in TaskRow
         /\ Finished(row, status, note).status = status
         /\ \A artifact \in BOOLEAN :
              LET new == [Finished(row, status, note) EXCEPT !.artifact = artifact]
              IN  new \in TaskRow /\ new.status = status
<1> DEFINE base == IF status = "blocked" THEN Recorded(row, note) ELSE row
<1>1. base \in TaskRow
  BY RecordedRow
<1>2. Finished(row, status, note) = [base EXCEPT !.status = status, !.claude = FALSE, !.note = note]
  BY DEF Finished
<1> HIDE DEF base
<1>3. base \in Row /\ base.guard <= base.tries
  BY <1>1 DEF TaskRow
<1>4. /\ Finished(row, status, note) \in Row
      /\ Finished(row, status, note).status = status
      /\ Finished(row, status, note).guard = base.guard
      /\ Finished(row, status, note).tries = base.tries
  BY <1>2, <1>3 DEF Row
<1>5. Finished(row, status, note) \in TaskRow
  BY <1>3, <1>4 DEF TaskRow
<1>6. ASSUME NEW new \in TaskRow, NEW artifact \in BOOLEAN, new.status = status
      PROVE  [new EXCEPT !.artifact = artifact] \in TaskRow
             /\ [new EXCEPT !.artifact = artifact].status = status
  BY <1>6 DEF TaskRow, Row
<1> QED BY <1>4, <1>5, <1>6

LEMMA OrphanedRow ==
  ASSUME NEW row \in TaskRow
  PROVE  Orphaned(row) \in TaskRow /\ Orphaned(row).status \in {"needs_review", "ready"}
<1> DEFINE base == Recorded(row, "orphaned")
           status == IF base.status = "reviewing" THEN "needs_review" ELSE "ready"
<1>1. base \in TaskRow /\ "orphaned" \in Notes
  BY RecordedRow DEF Notes
<1>2. status \in {"needs_review", "ready"} /\ status \in Status
  BY DEF Status
<1>3. Orphaned(row) = [base EXCEPT !.status = status, !.holder = Nobody, !.claude = FALSE,
                                   !.note = "orphaned"]
  BY DEF Orphaned
<1> HIDE DEF base, status
<1>4. base \in Row /\ base.guard <= base.tries
  BY <1>1 DEF TaskRow
<1>5. /\ Orphaned(row) \in Row /\ Orphaned(row).status = status
      /\ Orphaned(row).guard = base.guard /\ Orphaned(row).tries = base.tries
  BY <1>1, <1>2, <1>3, <1>4 DEF Row
<1> QED BY <1>2, <1>4, <1>5 DEF TaskRow

LEMMA ReopenedRow ==
  ASSUME NEW row \in TaskRow, row.retry < MaxRetries
  PROVE  Reopened(row) \in TaskRow /\ Reopened(row).status = "ready"
<1>1. ToQueue(row, "retry") \in TaskRow /\ ToQueue(row, "retry").status = "ready"
      /\ ToQueue(row, "retry").retry = row.retry
  BY QueuedRow DEF Notes
<1>2. row.retry + 1 \in Retries
  BY LedgerAssumption DEF TaskRow, Row, Retries
<1> QED BY <1>1, <1>2 DEF Reopened, TaskRow, Row

LEMMA HeldRow ==
  ASSUME NEW row \in TaskRow, NEW status \in Status, NEW w \in Crew
  PROVE  Held(row, status, w) \in TaskRow /\ Held(row, status, w).status = status
         /\ Held(row, status, w).holder = w
BY DEF Held, TaskRow, Row

LEMMA ActedRow ==
  ASSUME NEW row \in TaskRow, NEW action \in Actions
  PROVE  /\ Acted(row, action) \in TaskRow
         /\ \/ Acted(row, action).status \in {"ready", "blocked", "needs_review", "planned", "superseded"}
            \/ (action = "approve" /\ Acted(row, action).status = "reviewed")
<1>1. {"ready", "blocked", "needs_review", "planned", "superseded", "reviewed"} \subseteq Status
      /\ {0, 99} \subseteq Retries /\ {"retry", "rejected"} \subseteq Notes
  BY LedgerAssumption DEF Status, Notes, Retries
<1>2. LET new == [ToQueue(row, "retry") EXCEPT !.retry = 0]
      IN  new \in TaskRow /\ new.status = "ready"
  <2>1. ToQueue(row, "retry") \in TaskRow /\ ToQueue(row, "retry").status = "ready"
    BY <1>1, QueuedRow
  <2> QED BY <1>1, <2>1 DEF TaskRow, Row
<1>3. LET new == [row EXCEPT !.status = "reviewed", !.claude = FALSE]
      IN  new \in TaskRow /\ new.status = "reviewed"
  BY <1>1 DEF TaskRow, Row
<1>4. LET new == [row EXCEPT !.status = "blocked", !.claude = FALSE, !.retry = 99, !.note = "rejected"]
      IN  new \in TaskRow /\ new.status = "blocked"
  BY <1>1 DEF TaskRow, Row
<1>5. LET new == [row EXCEPT !.status = "needs_review", !.claude = FALSE]
      IN  new \in TaskRow /\ new.status = "needs_review"
  BY <1>1 DEF TaskRow, Row
<1>6. ASSUME NEW status \in {"planned", "superseded"}
      PROVE  LET new == [row EXCEPT !.status = status, !.holder = Nobody, !.claude = FALSE]
             IN  new \in TaskRow /\ new.status = status
  BY <1>1 DEF TaskRow, Row
<1>7. action \in {"retry", "approve", "reject", "rereview", "park", "supersede"}
  BY DEF Actions
<1>8. /\ Acted(row, "retry") = [ToQueue(row, "retry") EXCEPT !.retry = 0]
      /\ Acted(row, "approve") = [row EXCEPT !.status = "reviewed", !.claude = FALSE]
  BY DEF Acted
<1>9. Acted(row, "reject") =
        [row EXCEPT !.status = "blocked", !.claude = FALSE, !.retry = 99, !.note = "rejected"]
  BY DEF Acted
<1>10. Acted(row, "rereview") = [row EXCEPT !.status = "needs_review", !.claude = FALSE]
  BY DEF Acted
<1>11. Acted(row, "park") = [row EXCEPT !.status = "planned", !.holder = Nobody, !.claude = FALSE]
  BY DEF Acted
<1>12. Acted(row, "supersede") =
         [row EXCEPT !.status = "superseded", !.holder = Nobody, !.claude = FALSE]
  BY DEF Acted
<1>13. CASE action \in {"retry", "approve"}
  BY <1>2, <1>3, <1>8, <1>13
<1>14. CASE action \in {"reject", "rereview"}
  BY <1>4, <1>5, <1>9, <1>10, <1>14
<1>15. CASE action \in {"park", "supersede"}
  BY <1>6, <1>11, <1>12, <1>15
<1> QED BY <1>7, <1>13, <1>14, <1>15

-----------------------------------------------------------------------------
(* Types are kept *)

LEMMA TakeIsPart ==
  ASSUME NEW S, NEW n, NEW t \in Take(S, n) PROVE t \in S
BY DEF Take

LEMMA PutRow ==
  ASSUME tasks \in [Ids -> TaskRow], NEW t \in Ids, NEW row \in TaskRow, Put(t, row)
  PROVE  /\ tasks' \in [Ids -> TaskRow] /\ tasks'[t] = row
         /\ \A u \in Ids : u # t => tasks'[u] = tasks[u]
BY DEF Put

LEMMA OffSeats ==
  /\ Off \in Seat /\ Off.step = "off"
  /\ LET new == [Off EXCEPT !.step = "started"] IN new \in Seat /\ new.step = "started"
BY DEF Off, Seat, Notes

LEMMA SeatSteps ==
  ASSUME at \in [Crew -> Seat], NEW w \in Crew, NEW new \in Seat, at' = [at EXCEPT ![w] = new]
  PROVE  at' \in [Crew -> Seat] /\ at'[w] = new /\ \A v \in Crew : v # w => at'[v] = at[v]
OBVIOUS

LEMMA RuntimeMoves ==
  ASSUME runtime \in Runtime
  PROVE  /\ Granted \in Runtime /\ Revoked \in Runtime
         /\ \A w \in Workers : Paused(LaneOf[w]) \in Runtime
         /\ \A lane \in Lanes : [runtime EXCEPT !.paused = @ \ {lane}] \in Runtime
         /\ [runtime EXCEPT !.free = 0] \in Runtime
         /\ [runtime EXCEPT !.free = Slots["local"]] \in Runtime
<1>1. runtime.free \in Nat /\ runtime.granted \in BOOLEAN /\ runtime.refused \in BOOLEAN
      /\ runtime.paused \in SUBSET Lanes
  BY DEF Runtime
<1>2. Granted \in Runtime
  <2> DEFINE granted == runtime.free > 0
             refused == runtime.refused /\ runtime.free = 0
  <2>1. granted \in BOOLEAN /\ refused \in BOOLEAN
    BY <1>1
  <2>2. Granted = [runtime EXCEPT !.granted = granted, !.refused = refused]
    BY DEF Granted
  <2> HIDE DEF granted, refused
  <2> QED BY <2>1, <2>2 DEF Runtime
<1>3. Revoked \in Runtime
  BY DEF Revoked, Runtime
<1>4. ASSUME NEW w \in Workers PROVE Paused(LaneOf[w]) \in Runtime
  <2>1. LaneOf[w] \in Lanes
    BY PoolAssumption
  <2>2. runtime.paused \cup {LaneOf[w]} \in SUBSET Lanes
    BY <1>1, <2>1
  <2> QED BY <2>2 DEF Paused, Runtime
<1>5. ASSUME NEW lane \in Lanes PROVE [runtime EXCEPT !.paused = @ \ {lane}] \in Runtime
  BY DEF Runtime
<1>6. Slots["local"] \in Nat
  BY LedgerAssumption
<1>7. [runtime EXCEPT !.free = 0] \in Runtime /\ [runtime EXCEPT !.free = Slots["local"]] \in Runtime
  BY <1>6 DEF Runtime
<1> QED BY <1>2, <1>3, <1>4, <1>5, <1>7

LEMMA LeftMoves ==
  ASSUME left \in [ops : Nat, trouble : Nat], Trouble \/ MayOperate \/ UNCHANGED left
  PROVE  left' \in [ops : Nat, trouble : Nat]
BY DEF Trouble, MayOperate

LEMMA InitTyped == Init => Typed
<1> SUFFICES ASSUME Init PROVE Typed
  OBVIOUS
<1>1. Slots["local"] \in Nat
  BY LedgerAssumption
<1>2. runtime \in Runtime
  BY <1>1 DEF Init, Runtime
<1>3. tasks \in [Ids -> TaskRow] /\ copy \in [Ids -> TaskRow]
  BY NewRows DEF Init
<1>4. at \in [Crew -> Seat] /\ \A w \in Crew : ~AtWork(at[w])
  BY OffSeats DEF Init, AtWork
<1>5. patch \in [Ids -> Patches \cup {NoPatch}]
  BY DEF Init
<1>6. pilot \in [step : PilotSteps, idle : BOOLEAN] /\ rescue = "off"
  BY DEF Init, PilotSteps
<1>7. left \in [ops : Nat, trouble : Nat]
  BY PoolAssumption DEF Init
<1> QED BY <1>2, <1>3, <1>4, <1>5, <1>6, <1>7 DEF Typed

LEMMA ImplementTyped ==
  ASSUME Typed, NEW w \in Workers, Implement(w) PROVE Typed'
<1>0. /\ w \in Crew /\ at[w] \in Seat /\ at \in [Crew -> Seat]
      /\ AtWork(at[w]) => at[w].task \in Ids /\ tasks[at[w].task] \in TaskRow
      /\ tasks \in [Ids -> TaskRow]
  BY DEF Typed, Crew
<1>1. ASSUME Claim(w) PROVE Typed'
  <2>1. CASE \E t \in Take(Candidates(LaneOf[w]), 1) :
                /\ Put(t, Held(tasks[t], "in_progress", w))
                /\ at' = [at EXCEPT ![w] = [step |-> "run", task |-> t, out |-> "none"]]
                /\ patch' = [patch EXCEPT ![t] = NoPatch]
    <3>1. PICK t \in Candidates(LaneOf[w]) :
                /\ Put(t, Held(tasks[t], "in_progress", w))
                /\ at' = [at EXCEPT ![w] = [step |-> "run", task |-> t, out |-> "none"]]
                /\ patch' = [patch EXCEPT ![t] = NoPatch]
      BY <2>1, TakeIsPart
    <3>2. t \in Ids /\ tasks[t] \in TaskRow
      BY <1>0 DEF Candidates, With
    <3>3. Held(tasks[t], "in_progress", w) \in TaskRow
      BY <1>0, <3>2, HeldRow DEF Status, Active
    <3>4. tasks' \in [Ids -> TaskRow]
      BY <1>0, <3>1, <3>2, <3>3, PutRow
    <3>5. [step |-> "run", task |-> t, out |-> "none"] \in Seat
      BY <3>2 DEF Seat, Notes
    <3>6. at' \in [Crew -> Seat] /\ \A v \in Crew : AtWork(at'[v]) => at'[v].task \in Ids
      BY <1>0, <3>1, <3>2, <3>5, SeatSteps DEF Typed
    <3>7. patch' \in [Ids -> Patches \cup {NoPatch}]
      BY <3>1 DEF Typed
    <3> QED BY <1>1, <3>4, <3>6, <3>7 DEF Claim, Typed, AtWork
  <2>2. CASE at' = [at EXCEPT ![w] = Off] /\ UNCHANGED <<tasks, patch>>
    <3>1. at' \in [Crew -> Seat] /\ \A v \in Crew : AtWork(at'[v]) => at'[v].task \in Ids
      BY <1>0, <2>2, OffSeats, SeatSteps DEF Typed, AtWork
    <3> QED BY <1>1, <2>2, <3>1 DEF Claim, Typed, AtWork
  <2> QED BY <1>1, <2>1, <2>2 DEF Claim
<1>2. ASSUME RunAgent(w) PROVE Typed'
  <2>1. PICK out \in Patches \cup (Failures \cap (AgentOutcomes \cup PlanOutcomes \cup {"infra"})) :
          /\ at' = [at EXCEPT ![w].step = "ran", ![w].out = out]
          /\ patch' = IF out \in Patches THEN [patch EXCEPT ![at[w].task] = out] ELSE patch
    BY <1>2 DEF RunAgent
  <2>2. out \in Notes
    BY DEF Notes
  <2> DEFINE new == [at[w] EXCEPT !.step = "ran", !.out = out]
  <2>3. new \in Seat /\ new.task = at[w].task
    BY <1>0, <2>2 DEF Seat
  <2>4. at' = [at EXCEPT ![w] = new]
    BY <1>0, <2>1
  <2>5. at[w].task \in Ids
    BY <1>0, <1>2 DEF RunAgent, AtWork
  <2> HIDE DEF new
  <2>6. at' \in [Crew -> Seat] /\ \A v \in Crew : AtWork(at'[v]) => at'[v].task \in Ids
    BY <1>0, <2>3, <2>4, <2>5, SeatSteps DEF Typed
  <2>7. patch' \in [Ids -> Patches \cup {NoPatch}]
    BY <2>1, <2>5 DEF Typed
  <2> QED BY <1>2, <2>6, <2>7 DEF RunAgent, Typed, AtWork
<1>3. ASSUME FinishPatch(w) \/ FinishFailed(w) PROVE Typed'
  <2>1. at[w].task \in Ids /\ tasks[at[w].task] \in TaskRow
    BY <1>0, <1>3 DEF FinishPatch, FinishFailed, AtWork
  <2>2. at' = [at EXCEPT ![w] = Off]
    BY <1>3 DEF FinishPatch, FinishFailed
  <2>3. at' \in [Crew -> Seat] /\ \A v \in Crew : AtWork(at'[v]) => at'[v].task \in Ids
    BY <1>0, <2>2, OffSeats, SeatSteps DEF Typed, AtWork
  <2>4. tasks' \in [Ids -> TaskRow]
    <3>1. CASE FinishPatch(w)
      <4>1. PICK status \in CheckPatch :
              Put(at[w].task,
                  [Finished(tasks[at[w].task], status, IF status = "blocked" THEN "apply" ELSE "review")
                     EXCEPT !.artifact = TRUE])
        BY <3>1 DEF FinishPatch
      <4>2. status \in Status
        BY DEF CheckPatch, Status
      <4>3. [Finished(tasks[at[w].task], status, IF status = "blocked" THEN "apply" ELSE "review")
               EXCEPT !.artifact = TRUE] \in TaskRow
        <5>1. (IF status = "blocked" THEN "apply" ELSE "review") \in Notes
          BY DEF Notes
        <5> QED BY <2>1, <4>2, <5>1, FinishedRow
      <4> QED BY <1>0, <2>1, <4>1, <4>3, PutRow
    <3>2. CASE FinishFailed(w)
      <4>1. at[w].out \in Notes
        BY <1>0, <3>2 DEF FinishFailed, Seat
      <4>2. [Finished(tasks[at[w].task], "blocked", at[w].out) EXCEPT !.artifact = FALSE] \in TaskRow
        BY <2>1, <4>1, FinishedRow DEF Status
      <4> QED BY <1>0, <2>1, <3>2, <4>2, PutRow DEF FinishFailed
    <3> QED BY <1>3, <3>1, <3>2
  <2>5. runtime' \in Runtime
    BY <1>3, RuntimeMoves DEF FinishPatch, FinishFailed, Typed
  <2>6. UNCHANGED <<patch, pilot, copy, rescue, left>>
    BY <1>3 DEF FinishPatch, FinishFailed
  <2> QED BY <2>3, <2>4, <2>5, <2>6 DEF Typed, AtWork
<1> QED BY <1>1, <1>2, <1>3 DEF Implement

LEMMA ReviewTyped ==
  ASSUME Typed, NEW r \in Reviewers, Review(r) PROVE Typed'
<1>0. /\ r \in Crew /\ at[r] \in Seat /\ at \in [Crew -> Seat]
      /\ AtWork(at[r]) => at[r].task \in Ids /\ tasks[at[r].task] \in TaskRow
      /\ tasks \in [Ids -> TaskRow]
  BY DEF Typed, Crew
<1>1. ASSUME ClaimReview(r) PROVE Typed'
  <2>1. CASE \E t \in Take(With({"needs_review"}), 1) :
                /\ Put(t, Held(tasks[t], "reviewing", r))
                /\ at' = [at EXCEPT ![r] = [step |-> "run", task |-> t, out |-> "none"]]
    <3>1. PICK t \in With({"needs_review"}) :
                /\ Put(t, Held(tasks[t], "reviewing", r))
                /\ at' = [at EXCEPT ![r] = [step |-> "run", task |-> t, out |-> "none"]]
      BY <2>1, TakeIsPart
    <3>2. t \in Ids /\ tasks[t] \in TaskRow
      BY <1>0 DEF With
    <3>3. Held(tasks[t], "reviewing", r) \in TaskRow
      BY <1>0, <3>2, HeldRow DEF Status, Active
    <3>4. tasks' \in [Ids -> TaskRow]
      BY <1>0, <3>1, <3>2, <3>3, PutRow
    <3>5. [step |-> "run", task |-> t, out |-> "none"] \in Seat
      BY <3>2 DEF Seat, Notes
    <3>6. at' \in [Crew -> Seat] /\ \A v \in Crew : AtWork(at'[v]) => at'[v].task \in Ids
      BY <1>0, <3>1, <3>2, <3>5, SeatSteps DEF Typed
    <3> QED BY <1>1, <3>4, <3>6 DEF ClaimReview, Typed, AtWork
  <2>2. CASE at' = [at EXCEPT ![r] = Off] /\ UNCHANGED tasks
    <3>1. at' \in [Crew -> Seat] /\ \A v \in Crew : AtWork(at'[v]) => at'[v].task \in Ids
      BY <1>0, <2>2, OffSeats, SeatSteps DEF Typed, AtWork
    <3> QED BY <1>1, <2>2, <3>1 DEF ClaimReview, Typed, AtWork
  <2> QED BY <1>1, <2>1, <2>2 DEF ClaimReview
<1>2. ASSUME Gate(r) PROVE Typed'
  <2>1. PICK out \in GateOf(patch[at[r].task]) : at' = [at EXCEPT ![r].step = "gated", ![r].out = out]
    BY <1>2 DEF Gate
  <2>2. out \in Notes
    BY DEF GateOf, Notes
  <2> DEFINE new == [at[r] EXCEPT !.step = "gated", !.out = out]
  <2>3. new \in Seat /\ new.task = at[r].task
    BY <1>0, <2>2 DEF Seat
  <2>4. at' = [at EXCEPT ![r] = new]
    BY <1>0, <2>1
  <2>5. at[r].task \in Ids
    BY <1>0, <1>2 DEF Gate, AtWork
  <2> HIDE DEF new
  <2>6. at' \in [Crew -> Seat] /\ \A v \in Crew : AtWork(at'[v]) => at'[v].task \in Ids
    BY <1>0, <2>3, <2>4, <2>5, SeatSteps DEF Typed
  <2> QED BY <1>2, <2>6 DEF Gate, Typed, AtWork
<1>3. ASSUME FinishReview(r) PROVE Typed'
  <2>1. at[r].task \in Ids /\ tasks[at[r].task] \in TaskRow
    BY <1>0, <1>3 DEF FinishReview, AtWork
  <2>2. at' \in [Crew -> Seat] /\ \A v \in Crew : AtWork(at'[v]) => at'[v].task \in Ids
    BY <1>0, <1>3, OffSeats, SeatSteps DEF FinishReview, Typed, AtWork
  <2>3. PICK status \in {"reviewed", "needs_decision", "blocked"}, note \in {"passed", "objected", at[r].out} :
          Put(at[r].task, Finished(tasks[at[r].task], status, note))
    BY <1>3 DEF FinishReview
  <2>4. status \in Status
    BY DEF Status
  <2>5. tasks' \in [Ids -> TaskRow]
    <3>1. Finished(tasks[at[r].task], status, note) \in TaskRow
      <4>1. at[r].out \in Notes
        BY <1>0 DEF Seat
      <4>2. note \in Notes
        BY <4>1 DEF Notes
      <4> QED BY <2>1, <2>4, <4>2, FinishedRow
    <3> QED BY <1>0, <2>1, <2>3, <3>1, PutRow
  <2> QED BY <1>3, <2>2, <2>5 DEF FinishReview, Typed, AtWork
<1> QED BY <1>1, <1>2, <1>3 DEF Review

LEMMA LandingRow ==
  ASSUME tasks \in [Ids -> TaskRow], NEW t \in Ids, NEW out \in {"landed", "moved", "failed"}
  PROVE  Landing(t, out) \in TaskRow /\ Landing(t, out).status \in {"done", "ready", "blocked"}
<1>0. tasks[t] \in TaskRow /\ {"landed", "landing"} \subseteq Notes /\ {"done", "blocked"} \subseteq Status
  BY DEF Notes, Status
<1>1. LET new == [tasks[t] EXCEPT !.status = "done", !.claude = FALSE, !.note = "landed"]
      IN  new \in TaskRow /\ new.status = "done"
  BY <1>0 DEF TaskRow, Row
<1>2. LET new == [tasks[t] EXCEPT !.status = "blocked", !.claude = FALSE, !.note = "landing"]
      IN  new \in TaskRow /\ new.status = "blocked"
  BY <1>0 DEF TaskRow, Row
<1>3. ToQueue(tasks[t], "landing") \in TaskRow /\ ToQueue(tasks[t], "landing").status = "ready"
  BY <1>0, QueuedRow
<1>4. Landing(t, "landed") = [tasks[t] EXCEPT !.status = "done", !.claude = FALSE, !.note = "landed"]
  BY DEF Landing
<1>5. Landing(t, "moved") = ToQueue(tasks[t], "landing")
  BY DEF Landing
<1>6. Landing(t, "failed") = [tasks[t] EXCEPT !.status = "blocked", !.claude = FALSE, !.note = "landing"]
  BY DEF Landing
<1>7. CASE out = "landed"
  BY <1>1, <1>4, <1>7
<1>8. CASE out = "moved"
  BY <1>3, <1>5, <1>8
<1>9. CASE out = "failed"
  BY <1>2, <1>6, <1>9
<1> QED BY <1>7, <1>8, <1>9

LEMMA TickTyped == ASSUME Typed, Tick PROVE Typed'
<1>0. /\ tasks \in [Ids -> TaskRow] /\ copy \in [Ids -> TaskRow]
      /\ pilot \in [step : PilotSteps, idle : BOOLEAN] /\ pilot.idle \in BOOLEAN
      /\ left \in [ops : Nat, trouble : Nat]
  BY DEF Typed
<1>1. ASSUME NEW step \in PilotSteps, Next1(step)
      PROVE  pilot' \in [step : PilotSteps, idle : BOOLEAN]
  BY <1>0, <1>1 DEF Next1
<1>2. ASSUME TickHandoff PROVE Typed'
  <2>1. runtime' \in Runtime
    BY <1>2, RuntimeMoves DEF TickHandoff, Typed
  <2>2. pilot' \in [step : PilotSteps, idle : BOOLEAN]
    BY <1>2 DEF TickHandoff, Idle, PilotSteps
  <2> QED BY <1>2, <2>1, <2>2 DEF TickHandoff, Typed, AtWork
<1>3. ASSUME Land PROVE Typed'
  <2> DEFINE due == Take(With({"reviewed"}), 2)
  <2>1. PICK out \in [due -> {"landed", "moved", "failed"}] :
          /\ tasks' = [t \in Ids |-> IF t \in due THEN Landing(t, out[t]) ELSE tasks[t]]
          /\ IF \E t \in due : out[t] # "landed" THEN Trouble ELSE UNCHANGED left
    BY <1>3 DEF Land
  <2>2. ASSUME NEW t \in Ids PROVE tasks'[t] \in TaskRow
    <3>1. CASE t \in due
      <4>1. out[t] \in {"landed", "moved", "failed"}
        BY <2>1, <3>1
      <4>2. Landing(t, out[t]) \in TaskRow
        BY <1>0, <4>1, LandingRow
      <4> QED BY <2>1, <3>1, <4>2
    <3>2. CASE t \notin due
      BY <1>0, <2>1, <3>2
    <3> QED BY <3>1, <3>2
  <2>3. tasks' \in [Ids -> TaskRow]
    BY <2>1, <2>2
  <2>4. left' \in [ops : Nat, trouble : Nat]
    BY <1>0, <2>1, LeftMoves
  <2>5. pilot' \in [step : PilotSteps, idle : BOOLEAN]
    <3>1. Idle' \in BOOLEAN
      BY DEF Idle
    <3>2. "triage" \in PilotSteps
      BY DEF PilotSteps
    <3>3. pilot' = [step |-> "triage", idle |-> IF due = {} THEN pilot.idle ELSE Idle']
      BY <1>3 DEF Land
    <3> HIDE DEF due
    <3> QED BY <1>0, <3>1, <3>2, <3>3
  <2>6. UNCHANGED <<runtime, patch, at, copy, rescue>>
    BY <1>3 DEF Land
  <2> QED BY <2>3, <2>4, <2>5, <2>6 DEF Typed, AtWork
<1>4. ASSUME Triage PROVE Typed'
  <2>1. tasks' \in [Ids -> TaskRow]
    BY <1>0, <1>4, TriagedRow DEF Triage
  <2>2. pilot' \in [step : PilotSteps, idle : BOOLEAN]
    <3>1. Idle' \in BOOLEAN /\ "reopen" \in PilotSteps
      BY DEF Idle, PilotSteps
    <3>2. pilot' = [step |-> "reopen", idle |-> IF tasks' = tasks THEN pilot.idle ELSE Idle']
      BY <1>4 DEF Triage
    <3> QED BY <1>0, <3>1, <3>2
  <2>3. UNCHANGED <<runtime, patch, at, copy, rescue, left>>
    BY <1>4 DEF Triage
  <2> QED BY <2>1, <2>2, <2>3 DEF Typed, AtWork
<1>5. ASSUME SkipTriage PROVE Typed'
  <2>1. pilot' \in [step : PilotSteps, idle : BOOLEAN]
    BY <1>1, <1>5 DEF SkipTriage, PilotSteps
  <2> QED BY <1>5, <2>1 DEF SkipTriage, Typed, AtWork
<1>6. ASSUME Reopen PROVE Typed'
  <2>1. ASSUME NEW t \in Take(Reopenable, 2) PROVE Reopened(tasks[t]) \in TaskRow
    <3>1. t \in Ids /\ tasks[t].retry < MaxRetries
      BY <2>1, TakeIsPart DEF Reopenable, With
    <3> QED BY <1>0, <3>1, ReopenedRow
  <2>2. tasks' \in [Ids -> TaskRow]
    BY <1>0, <1>6, <2>1 DEF Reopen
  <2>3. pilot' \in [step : PilotSteps, idle : BOOLEAN]
    BY <1>6 DEF Reopen, PilotSteps
  <2> QED BY <1>6, <2>2, <2>3 DEF Reopen, Typed, AtWork
<1>7. ASSUME TopUp PROVE Typed'
  <2>1. pilot' \in [step : PilotSteps, idle : BOOLEAN] /\ copy' \in [Ids -> TaskRow]
    BY <1>0, <1>1, <1>7 DEF TopUp, PilotSteps
  <2> QED BY <1>7, <2>1 DEF TopUp, Typed, AtWork
<1>8. ASSUME Enqueue PROVE Typed'
  <2>1. tasks' \in [Ids -> TaskRow] /\ copy' \in [Ids -> TaskRow]
    BY <1>0, <1>8, NewRows DEF Enqueue
  <2>2. pilot' \in [step : PilotSteps, idle : BOOLEAN]
    BY <1>1, <1>8 DEF Enqueue, PilotSteps
  <2> QED BY <1>8, <2>1, <2>2 DEF Enqueue, Typed, AtWork
<1>9. ASSUME StartRecovery PROVE Typed'
  <2>1. pilot' \in [step : PilotSteps, idle : BOOLEAN]
    BY <1>1, <1>9 DEF StartRecovery, PilotSteps
  <2>2. rescue' \in {"off", "requeue", "dispatch", "wait"}
    BY <1>9 DEF StartRecovery, Typed
  <2> QED BY <1>9, <2>1, <2>2 DEF StartRecovery, Typed, AtWork
<1> QED BY <1>2, <1>3, <1>4, <1>5, <1>6, <1>7, <1>8, <1>9 DEF Tick

LEMMA RecoverTyped == ASSUME Typed, Recover PROVE Typed'
<1>0. tasks \in [Ids -> TaskRow] /\ at \in [Crew -> Seat]
  BY DEF Typed
<1>1. ASSUME RequeueStale PROVE Typed'
  <2>1. tasks' \in [Ids -> TaskRow]
    <3>1. \A t \in Ids : Orphaned(tasks[t]) \in TaskRow
      BY <1>0, OrphanedRow
    <3> QED BY <1>0, <1>1, <3>1 DEF RequeueStale
  <2> QED BY <1>1, <2>1 DEF RequeueStale, Typed, AtWork
<1>2. ASSUME Dispatch PROVE Typed'
  <2>1. PICK crew : at' = [w \in Crew |-> IF w \in crew THEN [Off EXCEPT !.step = "started"] ELSE at[w]]
    BY <1>2 DEF Dispatch
  <2>2. at' \in [Crew -> Seat] /\ \A w \in Crew : AtWork(at'[w]) => at'[w].task \in Ids
    BY <1>0, <2>1, OffSeats DEF Typed, AtWork
  <2> QED BY <1>2, <2>2 DEF Dispatch, Typed, AtWork
<1>3. ASSUME RecoveryEnds PROVE Typed'
  BY <1>3 DEF RecoveryEnds, Typed, AtWork
<1> QED BY <1>1, <1>2, <1>3 DEF Recover

LEMMA OthersTyped ==
  ASSUME Typed,
         \/ \E lane \in Lanes : Unpause(lane)
         \/ \E t \in Ids, action \in Operations \cap Actions : OperatorAction(t, action)
         \/ \E t \in Dictated : CreateOperatorTask(t)
         \/ Request
         \/ \E w \in CommandLine : StartCommandLine(w) \/ KillCommandLine(w)
         \/ Restart \/ Seize \/ Free
         \/ \E t \in Ids : CodexEnds(t)
  PROVE  Typed'
<1>0. tasks \in [Ids -> TaskRow] /\ at \in [Crew -> Seat] /\ left \in [ops : Nat, trouble : Nat]
      /\ runtime \in Runtime
  BY DEF Typed
<1>1. ASSUME NEW lane \in Lanes, Unpause(lane) PROVE Typed'
  <2>1. runtime' \in Runtime
    BY <1>0, <1>1, RuntimeMoves DEF Unpause
  <2> QED BY <1>1, <2>1 DEF Unpause, Typed, AtWork
<1>2. ASSUME NEW t \in Ids, NEW action \in Actions, OperatorAction(t, action) PROVE Typed'
  <2>1. tasks' \in [Ids -> TaskRow]
    BY <1>0, <1>2, ActedRow, PutRow DEF OperatorAction
  <2>2. left' \in [ops : Nat, trouble : Nat]
    BY <1>0, <1>2, LeftMoves DEF OperatorAction
  <2> QED BY <1>2, <2>1, <2>2 DEF OperatorAction, Typed, AtWork
<1>3. ASSUME NEW t \in Dictated, CreateOperatorTask(t) PROVE Typed'
  <2>1. tasks' \in [Ids -> TaskRow]
    BY <1>0, <1>3, NewRows, PutRow, PoolAssumption DEF CreateOperatorTask
  <2>2. rescue' \in {"off", "requeue", "dispatch", "wait"}
    BY <1>3 DEF CreateOperatorTask, Typed
  <2> QED BY <1>3, <2>1, <2>2 DEF CreateOperatorTask, Typed, AtWork
<1>4. ASSUME Request PROVE Typed'
  <2>1. tasks' \in [Ids -> TaskRow]
    BY <1>0, <1>4, TriagedRow DEF Request
  <2>2. runtime' \in Runtime
    BY <1>0, <1>4, RuntimeMoves DEF Request
  <2>3. rescue' \in {"off", "requeue", "dispatch", "wait"}
    BY <1>4 DEF Request, Typed
  <2>4. left' \in [ops : Nat, trouble : Nat]
    BY <1>0, <1>4, LeftMoves DEF Request
  <2> QED BY <1>4, <2>1, <2>2, <2>3, <2>4 DEF Request, Typed, AtWork
<1>5. ASSUME NEW w \in CommandLine, StartCommandLine(w) PROVE Typed'
  <2> DEFINE new == [at[w] EXCEPT !.step = "started"]
  <2>1. w \in Crew
    BY PoolAssumption DEF Crew
  <2>2. new \in Seat /\ new.step = "started"
    BY <1>0, <2>1 DEF Seat
  <2>3. at' = [at EXCEPT ![w] = new]
    BY <1>5 DEF StartCommandLine, To
  <2> HIDE DEF new
  <2>4. at' \in [Crew -> Seat] /\ \A v \in Crew : AtWork(at'[v]) => at'[v].task \in Ids
    BY <1>0, <2>1, <2>2, <2>3, SeatSteps DEF Typed, AtWork
  <2>5. left' \in [ops : Nat, trouble : Nat]
    BY <1>0, <1>5, LeftMoves DEF StartCommandLine
  <2> QED BY <1>5, <2>4, <2>5 DEF StartCommandLine, Typed, AtWork
<1>6. ASSUME NEW w \in CommandLine, KillCommandLine(w) PROVE Typed'
  <2>1. w \in Crew
    BY PoolAssumption DEF Crew
  <2>2. at' \in [Crew -> Seat] /\ \A v \in Crew : AtWork(at'[v]) => at'[v].task \in Ids
    BY <1>0, <1>6, <2>1, OffSeats, SeatSteps DEF KillCommandLine, Typed, AtWork
  <2>3. left' \in [ops : Nat, trouble : Nat]
    BY <1>0, <1>6, LeftMoves DEF KillCommandLine
  <2> QED BY <1>6, <2>2, <2>3 DEF KillCommandLine, Typed, AtWork
<1>7. ASSUME Restart PROVE Typed'
  <2>1. tasks' \in [Ids -> TaskRow]
    <3>1. \A t \in Ids : Orphaned(tasks[t]) \in TaskRow
      BY <1>0, OrphanedRow
    <3> QED BY <1>0, <1>7, <3>1 DEF Restart
  <2>2. at' \in [Crew -> Seat] /\ \A w \in Crew : AtWork(at'[w]) => at'[w].task \in Ids
    BY <1>0, <1>7, OffSeats DEF Restart, Typed, AtWork
  <2>3. pilot' \in [step : PilotSteps, idle : BOOLEAN] /\ rescue' = "off"
    BY <1>7 DEF Restart, PilotSteps
  <2>4. copy' \in [Ids -> TaskRow]
    BY <1>7, NewRows DEF Restart
  <2>5. left' \in [ops : Nat, trouble : Nat]
    BY <1>0, <1>7, LeftMoves DEF Restart
  <2> QED BY <1>7, <2>1, <2>2, <2>3, <2>4, <2>5 DEF Restart, Typed, AtWork
<1>8. ASSUME Seize \/ Free PROVE Typed'
  <2>1. runtime' \in Runtime
    BY <1>0, <1>8, RuntimeMoves DEF Seize, Free
  <2>2. left' \in [ops : Nat, trouble : Nat]
    BY <1>0, <1>8, LeftMoves DEF Seize, Free
  <2> QED BY <1>8, <2>1, <2>2 DEF Seize, Free, Typed, AtWork
<1>9. ASSUME NEW t \in Ids, CodexEnds(t) PROVE Typed'
  <2>1. PICK end \in {"landed", "dead", "late"} : Put(t, [tasks[t] EXCEPT !.job = end])
    BY <1>9 DEF CodexEnds
  <2>2. [tasks[t] EXCEPT !.job = end] \in TaskRow
    BY <1>0 DEF TaskRow, Row, Codex
  <2>3. tasks' \in [Ids -> TaskRow]
    BY <1>0, <2>1, <2>2, PutRow
  <2> QED BY <1>9, <2>3 DEF CodexEnds, Typed, AtWork
<1> QED BY <1>1, <1>2, <1>3, <1>4, <1>5, <1>6, <1>7, <1>8, <1>9

LEMMA NextTyped == Typed /\ [Next]_vars => Typed'
<1> SUFFICES ASSUME Typed, [Next]_vars PROVE Typed'
  OBVIOUS
<1>1. CASE Next
  BY <1>1, TickTyped, RecoverTyped, ImplementTyped, ReviewTyped, OthersTyped DEF Next
<1>2. CASE UNCHANGED vars
  BY <1>2 DEF vars, Typed, AtWork
<1> QED BY <1>1, <1>2

LEMMA SpecTyped == Spec => []Typed
BY InitTyped, NextTyped, PTL DEF Spec

\* The ledger's rows, the lanes, the patch files and what everybody does keep their
\* types whatever steps the pool takes; of a row, that the loop guard never
\* remembers a remedy later than the attempts there have been, and that the retries
\* stay within their limit (loopguard.py, verdict; pm.py, requeue_blocked).
THEOREM TypeCorrect == Spec => []TypeOK
<1>1. Typed => TypeOK
  <2> SUFFICES ASSUME Typed PROVE TypeOK
    OBVIOUS
  <2>1. ASSUME NEW t \in Ids
        PROVE  /\ tasks[t].status \in Status /\ tasks[t].holder \in Crew \cup {Nobody}
               /\ tasks[t].job \in Codex /\ tasks[t].retry \in Retries
               /\ tasks[t].guard \in 0..tasks[t].tries
    <3>1. tasks[t] \in TaskRow
      BY DEF Typed
    <3>2. tasks[t] \in Row /\ tasks[t].guard <= tasks[t].tries
      BY <3>1 DEF TaskRow
    <3>3. tasks[t].guard \in Nat /\ tasks[t].tries \in Nat
      BY <3>2, LedgerAssumption DEF Row, Tries
    <3>4. tasks[t].guard \in 0..tasks[t].tries
      BY <3>2, <3>3
    <3> QED BY <3>2, <3>4 DEF Row
  <2>2. \A w \in Crew : at[w].step \in {"off", "started", "run", "ran", "gated"} /\ at[w].task \in Ids \cup {0}
    BY DEF Typed, Seat
  <2>3. pilot.step \in PilotSteps
    BY DEF Typed
  <2> QED BY <2>1, <2>2, <2>3 DEF Typed, TypeOK, Codex, Retries, PilotSteps
<1> QED BY <1>1, SpecTyped, PTL

-----------------------------------------------------------------------------
(* Who works on what, and on which word a task lands *)

\* No server is restarted over a worker of the command line, and nobody writes the
\* ledger between the read and the write of enqueue.
Undisturbed == ~RestartOverWork /\ EnqueueAlone

Judged == {"reviewed", "needs_decision"}
Aside == {"needs_decision", "planned", "superseded"}

ReviewedIsSound == \A t \in Ids : tasks[t].status \in Judged => patch[t] = Sound
PassedIsSound ==
  \A r \in Reviewers : at[r].step = "gated" /\ at[r].out = "passed" => patch[at[r].task] = Sound
CopyIsCurrent == pilot.step = "write" => copy = tasks

Safe ==
  /\ HolderHolds
  /\ ReviewedIsSound
  /\ PassedIsSound
  /\ CopyIsCurrent
  /\ GatedLands

IInv == Typed /\ Safe

KeepsAside ==
  \A t \in Ids : tasks[t].status \in Aside /\ tasks'[t].status # tasks[t].status => left'.ops < left.ops

\* A step that touches no patch, puts nobody to work, moves no row somebody works
\* on, and judges nothing but sound patches.
Calm ==
  /\ patch' = patch
  /\ \A w \in Crew : at'[w] = at[w] \/ ~AtWork(at'[w])
  /\ \A t \in Ids : \/ tasks'[t].status = tasks[t].status /\ tasks'[t].holder = tasks[t].holder
                    \/ \A w \in Crew : AtWork(at'[w]) => at'[w].task # t
  /\ \A t \in Ids : tasks'[t].status \in Judged => tasks[t].status \in Judged \/ patch[t] = Sound
  /\ \A l \in landed' : l \in landed \/ l[2] = Sound
  /\ pilot'.step = "write" => copy' = tasks'
  /\ KeepsAside

LEMMA CalmKeeps == ASSUME IInv, Calm PROVE Safe'
<1>1. HolderHolds'
  <2> SUFFICES ASSUME NEW w \in Crew, AtWork(at'[w])
               PROVE  /\ tasks'[at'[w].task].holder = w
                      /\ tasks'[at'[w].task].status = IF w \in Workers THEN "in_progress" ELSE "reviewing"
    BY DEF HolderHolds, AtWork
  <2>1. at'[w] = at[w] /\ AtWork(at[w])
    BY DEF Calm
  <2>2. at[w].task \in Ids
    BY <2>1 DEF IInv, Typed
  <2>3. /\ tasks[at[w].task].holder = w
        /\ tasks[at[w].task].status = IF w \in Workers THEN "in_progress" ELSE "reviewing"
    BY <2>1 DEF IInv, Safe, HolderHolds, AtWork
  <2> QED BY <2>1, <2>2, <2>3 DEF Calm
<1>2. ReviewedIsSound'
  BY DEF Calm, ReviewedIsSound, IInv, Safe
<1>3. PassedIsSound'
  <2> SUFFICES ASSUME NEW r \in Reviewers, at'[r].step = "gated", at'[r].out = "passed"
               PROVE  patch'[at'[r].task] = Sound
    BY DEF PassedIsSound
  <2>1. at'[r] = at[r]
    BY DEF Calm, Crew, AtWork
  <2> QED BY <2>1 DEF Calm, IInv, Safe, PassedIsSound
<1>4. CopyIsCurrent' /\ GatedLands'
  BY DEF Calm, CopyIsCurrent, GatedLands, IInv, Safe
<1> QED BY <1>1, <1>2, <1>3, <1>4 DEF Safe

\* Nobody works on a task the ledger does not show as held.
LEMMA UnheldRow ==
  ASSUME IInv, NEW t \in Ids, tasks[t].status \notin Active, NEW w \in Crew, AtWork(at[w])
  PROVE  at[w].task # t
BY DEF IInv, Safe, HolderHolds, AtWork, Active

\* One who works on a task is its only worker.
LEMMA OnlyWorker ==
  ASSUME IInv, NEW w \in Crew, AtWork(at[w]), NEW v \in Crew, AtWork(at[v]), v # w
  PROVE  at[v].task # at[w].task
BY DEF IInv, Safe, HolderHolds, AtWork

LEMMA StatusesApart ==
  /\ Active \cap Judged = {} /\ Active \cap Aside = {}
  /\ {"ready", "needs_review", "blocked", "escalated", "done", "planned", "superseded", "ABSENT"}
       \cap (Active \cup Judged) = {}
  /\ {"ready", "needs_review", "blocked", "escalated", "done", "reviewed", "ABSENT"} \cap Aside = {}
BY DEF Active, Judged, Aside

\* Where everybody stays where he is or stops, rows in which nobody works are free
\* to move as long as they are not judged anew and not set aside.
LEMMA MovesCalmly ==
  ASSUME IInv, patch' = patch,
         \A w \in Crew : at'[w] = at[w] \/ ~AtWork(at'[w]),
         \A t \in Ids : \/ tasks'[t].status = tasks[t].status /\ tasks'[t].holder = tasks[t].holder
                        \/ /\ tasks[t].status \notin Active \cup Aside
                           /\ tasks'[t].status \notin Judged,
         \A l \in landed' : l \in landed \/ l[2] = Sound,
         pilot'.step = "write" => copy' = tasks'
  PROVE  Calm
<1>1. ASSUME NEW t \in Ids, tasks[t].status \notin Active, NEW w \in Crew, AtWork(at'[w])
      PROVE  at'[w].task # t
  BY <1>1, UnheldRow
<1>2. KeepsAside
  BY DEF KeepsAside
<1> QED BY <1>1, <1>2 DEF Calm

LEMMA TickCalm == ASSUME IInv, Tick, Undisturbed PROVE Calm
<1>0. /\ tasks \in [Ids -> TaskRow] /\ at \in [Crew -> Seat]
      /\ pilot \in [step : PilotSteps, idle : BOOLEAN]
  BY DEF IInv, Typed
<1>1. ASSUME TickHandoff \/ SkipTriage \/ StartRecovery PROVE Calm
  <2>1. UNCHANGED <<tasks, patch, at, landed>> /\ pilot'.step # "write"
    BY <1>0, <1>1 DEF TickHandoff, SkipTriage, StartRecovery, Next1
  <2> QED BY <2>1, MovesCalmly
<1>2. ASSUME TopUp PROVE Calm
  <2>1. UNCHANGED <<tasks, patch, at, landed>> /\ (pilot'.step = "write" => copy' = tasks')
    BY <1>0, <1>2 DEF TopUp, Next1
  <2> QED BY <2>1, MovesCalmly
<1>3. ASSUME Land PROVE Calm
  <2> DEFINE due == Take(With({"reviewed"}), 2)
  <2>1. PICK out \in [due -> {"landed", "moved", "failed"}] :
          /\ tasks' = [t \in Ids |-> IF t \in due THEN Landing(t, out[t]) ELSE tasks[t]]
          /\ landed' = landed \cup {<<t, patch[t]>> : t \in {u \in due : out[u] = "landed"}}
    BY <1>3 DEF Land
  <2>2. UNCHANGED <<patch, at>> /\ pilot'.step # "write"
    BY <1>3 DEF Land
  <2>3. ASSUME NEW t \in due PROVE t \in Ids /\ tasks[t].status = "reviewed" /\ patch[t] = Sound
    <3>1. t \in Ids /\ tasks[t].status = "reviewed"
      BY TakeIsPart DEF With
    <3> QED BY <3>1 DEF IInv, Safe, ReviewedIsSound, Judged
  <2>4. \A l \in landed' : l \in landed \/ l[2] = Sound
    <3> HIDE DEF due
    <3>1. ASSUME NEW l \in {<<t, patch[t]>> : t \in {u \in due : out[u] = "landed"}}
          PROVE  l[2] = Sound
      BY <2>3, <3>1
    <3> QED BY <2>1, <3>1
  <2>5. ASSUME NEW t \in due
        PROVE  tasks'[t].status \in {"done", "ready", "blocked"}
    <3>1. out[t] \in {"landed", "moved", "failed"} /\ t \in Ids
      BY <2>1, <2>3
    <3> QED BY <1>0, <2>1, <3>1, LandingRow
  <2>6. ASSUME NEW t \in Ids
        PROVE  \/ tasks'[t].status = tasks[t].status /\ tasks'[t].holder = tasks[t].holder
               \/ /\ tasks[t].status \notin Active \cup Aside
                  /\ tasks'[t].status \notin Judged
    <3>1. CASE t \in due
      BY <2>3, <2>5, <3>1 DEF Active, Aside, Judged
    <3>2. CASE t \notin due
      BY <2>1, <3>2
    <3> QED BY <3>1, <3>2
  <2> HIDE DEF due
  <2> QED BY <2>2, <2>4, <2>6, MovesCalmly
<1>4. ASSUME Triage PROVE Calm
  <2>1. UNCHANGED <<patch, at, landed>> /\ pilot'.step # "write"
    BY <1>4 DEF Triage
  <2>2. ASSUME NEW t \in Ids
        PROVE  \/ tasks'[t] = tasks[t]
               \/ /\ tasks[t].status \in {"blocked", "ready", "needs_review", "escalated"}
                  /\ tasks'[t].status \in {"ready", "escalated", "blocked", "done"}
    BY <1>0, <1>4, TriagedRow DEF Triage
  <2> QED BY <2>1, <2>2, MovesCalmly, StatusesApart
<1>5. ASSUME Reopen PROVE Calm
  <2>1. UNCHANGED <<patch, at, landed>> /\ pilot'.step # "write"
    BY <1>5 DEF Reopen
  <2>2. ASSUME NEW t \in Ids
        PROVE  tasks'[t] = tasks[t] \/ (tasks[t].status = "blocked" /\ tasks'[t].status = "ready")
    <3>1. CASE t \in Take(Reopenable, 2)
      <4>1. tasks[t].retry < MaxRetries /\ tasks[t].status = "blocked"
        BY <3>1, TakeIsPart DEF Reopenable, With
      <4>2. Reopened(tasks[t]).status = "ready"
        BY <1>0, <4>1, ReopenedRow
      <4> QED BY <1>5, <4>1, <4>2 DEF Reopen
    <3>2. CASE t \notin Take(Reopenable, 2)
      BY <1>5, <3>2 DEF Reopen
    <3> QED BY <3>1, <3>2
  <2> QED BY <2>1, <2>2, MovesCalmly, StatusesApart
<1>6. ASSUME Enqueue PROVE Calm
  <2>1. copy = tasks
    BY <1>6 DEF Enqueue, IInv, Safe, CopyIsCurrent
  <2>2. UNCHANGED <<patch, at, landed>> /\ pilot'.step # "write"
    BY <1>0, <1>6 DEF Enqueue, Next1
  <2>3. PICK u \in Milestones : tasks[u].status = "ABSENT" /\ tasks' = [tasks EXCEPT ![u] = NewTask]
    BY <1>6, <2>1, TakeIsPart DEF Enqueue
  <2>4. ASSUME NEW t \in Ids
        PROVE  tasks'[t] = tasks[t] \/ (tasks[t].status = "ABSENT" /\ tasks'[t].status = "ready")
    BY <1>0, <2>3, NewRows
  <2> QED BY <2>2, <2>4, MovesCalmly, StatusesApart
<1> QED BY <1>1, <1>2, <1>3, <1>4, <1>5, <1>6 DEF Tick

LEMMA RecoverCalm ==
  ASSUME IInv, Recover, UNCHANGED pilot, pilot.step # "write" PROVE Calm
<1>0. tasks \in [Ids -> TaskRow] /\ at \in [Crew -> Seat]
  BY DEF IInv, Typed
<1>1. ASSUME RequeueStale PROVE Calm
  <2>1. UNCHANGED <<patch, at, landed>>
    BY <1>1 DEF RequeueStale
  <2>2. ASSUME NEW t \in Ids, Stale(t)
        PROVE  /\ tasks[t].status \in Active /\ tasks'[t].status \in {"needs_review", "ready"}
               /\ \A w \in Crew : AtWork(at[w]) => at[w].task # t
    <3>1. tasks[t].status \in Active /\ ~Lives(t)
      BY <2>2 DEF Stale
    <3>2. tasks'[t] = Orphaned(tasks[t])
      BY <1>1, <2>2 DEF RequeueStale
    <3>3. ASSUME NEW w \in Crew, AtWork(at[w]), at[w].task = t PROVE FALSE
      BY <3>1, <3>3 DEF IInv, Safe, HolderHolds, Lives, AtWork
    <3> QED BY <1>0, <3>1, <3>2, <3>3, OrphanedRow
  <2>3. ASSUME NEW t \in Ids, ~Stale(t) PROVE tasks'[t] = tasks[t]
    BY <1>0, <1>1, <2>3 DEF RequeueStale
  <2>4. KeepsAside
    BY <2>2, <2>3, StatusesApart DEF KeepsAside
  <2>5. \A t \in Ids : tasks'[t].status \in Judged => tasks[t].status \in Judged
    BY <2>2, <2>3, StatusesApart
  <2> QED BY <2>1, <2>2, <2>3, <2>4, <2>5 DEF Calm
<1>2. ASSUME Dispatch PROVE Calm
  <2>1. PICK crew : at' = [w \in Crew |-> IF w \in crew THEN [Off EXCEPT !.step = "started"] ELSE at[w]]
    BY <1>2 DEF Dispatch
  <2>2. \A w \in Crew : at'[w] = at[w] \/ ~AtWork(at'[w])
    BY <2>1, OffSeats DEF AtWork
  <2>3. UNCHANGED <<tasks, patch, landed>>
    BY <1>2 DEF Dispatch
  <2> QED BY <2>2, <2>3, MovesCalmly
<1>3. ASSUME RecoveryEnds PROVE Calm
  <2>1. UNCHANGED <<tasks, patch, at, landed>>
    BY <1>3 DEF RecoveryEnds
  <2> QED BY <2>1, MovesCalmly
<1> QED BY <1>1, <1>2, <1>3 DEF Recover

\* One who stops leaves his row as he finds it good, for he is its only worker.
LEMMA StopsCalmly ==
  ASSUME IInv, UNCHANGED pilot, pilot.step # "write", UNCHANGED <<patch, landed>>,
         NEW w \in Crew, AtWork(at[w]), at' = [at EXCEPT ![w] = Off],
         NEW row \in TaskRow, Put(at[w].task, row),
         row.status \in Judged => patch[at[w].task] = Sound
  PROVE  Calm
<1>0. /\ tasks \in [Ids -> TaskRow] /\ at \in [Crew -> Seat] /\ at[w].task \in Ids
  BY DEF IInv, Typed
<1>1. /\ at'[w] = Off /\ ~AtWork(at'[w])
      /\ \A v \in Crew : v # w => at'[v] = at[v]
  BY <1>0, OffSeats, SeatSteps DEF AtWork
<1>2. /\ tasks'[at[w].task] = row
      /\ \A u \in Ids : u # at[w].task => tasks'[u] = tasks[u]
  BY <1>0, PutRow
<1>3. tasks[at[w].task].status \in Active
  BY DEF IInv, Safe, HolderHolds, AtWork, Active
<1>4. \A v \in Crew : AtWork(at'[v]) => at'[v].task # at[w].task
  BY <1>1, OnlyWorker
<1>5. KeepsAside
  BY <1>2, <1>3, StatusesApart DEF KeepsAside
<1> QED BY <1>1, <1>2, <1>4, <1>5 DEF Calm

LEMMA FinishCalm ==
  ASSUME IInv, UNCHANGED pilot, pilot.step # "write",
         NEW w \in Crew,
         \/ w \in Workers /\ (FinishPatch(w) \/ FinishFailed(w))
         \/ w \in Reviewers /\ FinishReview(w)
  PROVE  Calm
<1>0. AtWork(at[w]) /\ at[w] \in Seat
  BY DEF FinishPatch, FinishFailed, FinishReview, AtWork, IInv, Typed
<1>1. /\ at[w].task \in Ids /\ tasks[at[w].task] \in TaskRow /\ at[w].out \in Notes
  BY <1>0 DEF IInv, Typed, Seat
<1>2. at' = [at EXCEPT ![w] = Off] /\ UNCHANGED <<patch, landed>>
  BY DEF FinishPatch, FinishFailed, FinishReview
<1>3. CASE FinishPatch(w)
  <2>1. PICK status \in CheckPatch :
          Put(at[w].task,
              [Finished(tasks[at[w].task], status, IF status = "blocked" THEN "apply" ELSE "review")
                 EXCEPT !.artifact = TRUE])
    BY <1>3 DEF FinishPatch
  <2> DEFINE row == [Finished(tasks[at[w].task], status, IF status = "blocked" THEN "apply" ELSE "review")
                       EXCEPT !.artifact = TRUE]
  <2>2. row \in TaskRow /\ row.status = status
    <3>1. (IF status = "blocked" THEN "apply" ELSE "review") \in Notes /\ status \in Status
      BY DEF Notes, CheckPatch, Status
    <3> QED BY <1>1, <3>1, FinishedRow
  <2>3. Put(at[w].task, row)
    BY <2>1
  <2>4. row.status \notin Judged
    BY <2>2 DEF CheckPatch, Judged
  <2> HIDE DEF row
  <2> QED BY <1>0, <1>2, <2>2, <2>3, <2>4, StopsCalmly
<1>4. CASE FinishFailed(w)
  <2> DEFINE row == [Finished(tasks[at[w].task], "blocked", at[w].out) EXCEPT !.artifact = FALSE]
  <2>0. "blocked" \in Status /\ FALSE \in BOOLEAN
    BY DEF Status
  <2>1. row \in TaskRow /\ row.status = "blocked"
    <3>1. \A artifact \in BOOLEAN :
            LET new == [Finished(tasks[at[w].task], "blocked", at[w].out) EXCEPT !.artifact = artifact]
            IN  new \in TaskRow /\ new.status = "blocked"
      BY <1>1, <2>0, FinishedRow
    <3> QED BY <2>0, <3>1
  <2>2. Put(at[w].task, row)
    BY <1>4 DEF FinishFailed
  <2>3. row.status \notin Judged
    BY <2>1 DEF Judged
  <2> HIDE DEF row
  <2> QED BY <1>0, <1>2, <2>1, <2>2, <2>3, StopsCalmly
<1>5. CASE w \in Reviewers /\ FinishReview(w)
  <2>1. PICK status \in {"reviewed", "needs_decision", "blocked"}, note \in Notes :
          /\ Put(at[w].task, Finished(tasks[at[w].task], status, note))
          /\ status \in Judged => at[w].out = "passed"
    <3>1. {"passed", "objected"} \subseteq Notes /\ "blocked" \notin Judged
      BY DEF Notes, Judged
    <3> QED BY <1>1, <1>5, <3>1 DEF FinishReview
  <2>2. /\ Finished(tasks[at[w].task], status, note) \in TaskRow
        /\ Finished(tasks[at[w].task], status, note).status = status
    <3>1. status \in Status
      BY DEF Status
    <3> QED BY <1>1, <3>1, FinishedRow
  <2>3. status \in Judged => patch[at[w].task] = Sound
    BY <1>5, <2>1 DEF FinishReview, IInv, Safe, PassedIsSound
  <2> QED BY <1>0, <1>2, <2>1, <2>2, <2>3, StopsCalmly
<1> QED BY <1>3, <1>4, <1>5

LEMMA OthersCalm ==
  ASSUME IInv, Undisturbed, pilot.step # "write",
         \/ \E lane \in Lanes : Unpause(lane)
         \/ \E t \in Ids, action \in Operations \cap Actions : OperatorAction(t, action)
         \/ \E t \in Dictated : CreateOperatorTask(t)
         \/ Request
         \/ \E w \in CommandLine : StartCommandLine(w) \/ KillCommandLine(w)
         \/ Restart \/ Seize \/ Free
         \/ \E t \in Ids : CodexEnds(t)
  PROVE  Calm
<1>0. tasks \in [Ids -> TaskRow] /\ at \in [Crew -> Seat] /\ left \in [ops : Nat, trouble : Nat]
  BY DEF IInv, Typed
<1>1. ASSUME (\E lane \in Lanes : Unpause(lane)) \/ Seize \/ Free PROVE Calm
  <2>1. UNCHANGED <<tasks, patch, at, landed, pilot>>
    BY <1>1 DEF Unpause, Seize, Free
  <2> QED BY <2>1, MovesCalmly
<1>2. ASSUME NEW t \in Ids, NEW action \in Actions, OperatorAction(t, action) PROVE Calm
  <2>1. /\ UNCHANGED <<patch, at, landed, pilot>>
        /\ MayAct(tasks[t], action) /\ Put(t, Acted(tasks[t], action)) /\ MayOperate
    BY <1>2 DEF OperatorAction
  <2>2. /\ Acted(tasks[t], action) \in TaskRow
        /\ \/ Acted(tasks[t], action).status \in {"ready", "blocked", "needs_review", "planned", "superseded"}
           \/ (action = "approve" /\ Acted(tasks[t], action).status = "reviewed")
    BY <1>0, <1>2, ActedRow
  <2>3. tasks'[t] = Acted(tasks[t], action) /\ \A u \in Ids : u # t => tasks'[u] = tasks[u]
    BY <1>0, <1>2, <2>1, <2>2, PutRow
  <2>4. tasks[t].status \notin Active /\ (action = "approve" => tasks[t].status \in Judged)
    BY <2>1 DEF MayAct, Judged
  <2>5. \A w \in Crew : AtWork(at[w]) => at[w].task # t
    BY <2>4, UnheldRow
  <2>6. left'.ops < left.ops
    BY <1>0, <2>1 DEF MayOperate
  <2>7. KeepsAside
    BY <2>6 DEF KeepsAside
  <2>8. \A u \in Ids : tasks'[u].status \in Judged => tasks[u].status \in Judged
    BY <2>2, <2>3, <2>4, StatusesApart
  <2> QED BY <2>1, <2>3, <2>5, <2>7, <2>8 DEF Calm
<1>3. ASSUME NEW t \in Dictated, CreateOperatorTask(t) PROVE Calm
  <2>1. /\ UNCHANGED <<patch, at, landed, pilot>> /\ tasks[t].status = "ABSENT" /\ Put(t, NewTask)
    BY <1>3 DEF CreateOperatorTask
  <2>2. t \in Ids
    BY PoolAssumption
  <2>3. tasks'[t].status = "ready" /\ \A u \in Ids : u # t => tasks'[u] = tasks[u]
    BY <1>0, <2>1, <2>2, NewRows, PutRow
  <2> QED BY <2>1, <2>2, <2>3, MovesCalmly, StatusesApart
<1>4. ASSUME Request PROVE Calm
  <2>1. UNCHANGED <<patch, at, landed, pilot>>
    BY <1>4 DEF Request
  <2>2. ASSUME NEW t \in Ids
        PROVE  \/ tasks'[t] = tasks[t]
               \/ /\ tasks[t].status \in {"blocked", "ready", "needs_review", "escalated"}
                  /\ tasks'[t].status \in {"ready", "escalated", "blocked", "done"}
    BY <1>0, <1>4, TriagedRow DEF Request
  <2> QED BY <2>1, <2>2, MovesCalmly, StatusesApart
<1>5. ASSUME NEW w \in CommandLine, StartCommandLine(w) \/ KillCommandLine(w) PROVE Calm
  <2>1. w \in Crew
    BY PoolAssumption DEF Crew
  <2>2. UNCHANGED <<tasks, patch, landed, pilot>>
    BY <1>5 DEF StartCommandLine, KillCommandLine
  <2>3. at'[w].step \in {"off", "started"} /\ \A v \in Crew : v # w => at'[v] = at[v]
    BY <1>0, <1>5, <2>1, OffSeats DEF StartCommandLine, KillCommandLine, To, Seat
  <2> QED BY <2>2, <2>3, MovesCalmly DEF AtWork
<1>6. ASSUME Restart PROVE Calm
  <2>1. UNCHANGED <<patch, landed>> /\ pilot'.step # "write"
    BY <1>6 DEF Restart
  <2>2. \A w \in Crew : ~AtWork(at'[w])
    BY <1>0, <1>6, OffSeats DEF Restart, Undisturbed, AtWork
  <2>3. ASSUME NEW t \in Ids
        PROVE  \/ tasks'[t] = tasks[t]
               \/ tasks[t].status \in Active /\ tasks'[t].status \in {"needs_review", "ready"}
    BY <1>0, <1>6, OrphanedRow DEF Restart
  <2>4. KeepsAside
    BY <2>3, StatusesApart DEF KeepsAside
  <2>5. \A t \in Ids : tasks'[t].status \in Judged => tasks[t].status \in Judged
    BY <2>3, StatusesApart
  <2> QED BY <2>1, <2>2, <2>4, <2>5 DEF Calm
<1>7. ASSUME NEW t \in Ids, CodexEnds(t) PROVE Calm
  <2>1. UNCHANGED <<patch, at, landed, pilot>>
    BY <1>7 DEF CodexEnds
  <2>2. PICK end \in {"landed", "dead", "late"} : tasks' = [tasks EXCEPT ![t] = [tasks[t] EXCEPT !.job = end]]
    BY <1>7 DEF CodexEnds, Put
  <2>3. tasks[t] \in Row
    BY <1>0 DEF TaskRow
  <2>4. \A u \in Ids : tasks'[u].status = tasks[u].status /\ tasks'[u].holder = tasks[u].holder
    BY <1>0, <2>2, <2>3 DEF Row
  <2> QED BY <2>1, <2>4, MovesCalmly
<1> QED BY <1>1, <1>2, <1>3, <1>4, <1>5, <1>6, <1>7

\* Who is put to work is put to work on a row nobody else works on, and what he does
\* with its patch is done while the row is his.
LEMMA WorkKeeps ==
  ASSUME IInv, UNCHANGED pilot, pilot.step # "write", NEW w \in Crew,
         \/ w \in Workers /\ (Claim(w) \/ RunAgent(w))
         \/ w \in Reviewers /\ (ClaimReview(w) \/ Gate(w))
  PROVE  Safe' /\ KeepsAside
<1>0. /\ tasks \in [Ids -> TaskRow] /\ at \in [Crew -> Seat] /\ patch \in [Ids -> Patches \cup {NoPatch}]
      /\ AtWork(at[w]) => at[w].task \in Ids
      /\ w \in Workers => w \notin Reviewers
  BY PoolAssumption DEF IInv, Typed
<1>1. UNCHANGED <<landed, left, copy>>
  BY DEF Claim, RunAgent, ClaimReview, Gate
<1>2. CopyIsCurrent' /\ GatedLands'
  BY <1>1 DEF CopyIsCurrent, GatedLands, IInv, Safe
<1>3. ASSUME NEW t \in Ids, tasks[t].status \in {"ready", "needs_review"},
             NEW status \in Active, status = IF w \in Workers THEN "in_progress" ELSE "reviewing",
             Put(t, Held(tasks[t], status, w)),
             at' = [at EXCEPT ![w] = [step |-> "run", task |-> t, out |-> "none"]],
             \A u \in Ids : u # t => patch'[u] = patch[u]
      PROVE  Safe' /\ KeepsAside
  <2>0. [step |-> "run", task |-> t, out |-> "none"] \in Seat
    BY DEF Seat, Notes
  <2>1. /\ at'[w].step = "run" /\ at'[w].task = t
        /\ \A v \in Crew : v # w => at'[v] = at[v]
    BY <1>0, <1>3, <2>0, SeatSteps
  <2>2. status \in Status
    BY DEF Status
  <2>3. Held(tasks[t], status, w) \in TaskRow
        /\ Held(tasks[t], status, w).status = status /\ Held(tasks[t], status, w).holder = w
    BY <1>0, <2>2, HeldRow
  <2>4. /\ tasks'[t].status = status /\ tasks'[t].holder = w
        /\ \A u \in Ids : u # t => tasks'[u] = tasks[u]
    BY <1>0, <1>3, <2>3, PutRow
  <2>5. ASSUME NEW v \in Crew, v # w, AtWork(at'[v])
        PROVE  at'[v] = at[v] /\ AtWork(at[v]) /\ at[v].task \in Ids /\ at[v].task # t
    <3>1. tasks[t].status \notin Active
      BY <1>3 DEF Active
    <3> QED BY <2>1, <2>5, <3>1, UnheldRow DEF IInv, Typed
  <2>6. HolderHolds'
    <3> SUFFICES ASSUME NEW v \in Crew, AtWork(at'[v])
                 PROVE  /\ tasks'[at'[v].task].holder = v
                        /\ tasks'[at'[v].task].status = IF v \in Workers THEN "in_progress" ELSE "reviewing"
      BY DEF HolderHolds, AtWork
    <3>1. CASE v = w
      BY <1>3, <2>1, <2>4, <3>1
    <3>2. CASE v # w
      BY <2>4, <2>5, <3>2 DEF IInv, Safe, HolderHolds, AtWork
    <3> QED BY <3>1, <3>2
  <2>7. ReviewedIsSound'
    BY <1>3, <2>4, StatusesApart DEF ReviewedIsSound, IInv, Safe
  <2>8. PassedIsSound'
    <3> SUFFICES ASSUME NEW r \in Reviewers, at'[r].step = "gated", at'[r].out = "passed"
                 PROVE  patch'[at'[r].task] = Sound
      BY DEF PassedIsSound
    <3>1. r \in Crew /\ r # w /\ AtWork(at'[r])
      BY <2>1 DEF Crew, AtWork
    <3> QED BY <1>3, <2>5, <3>1 DEF IInv, Safe, PassedIsSound
  <2>9. KeepsAside
    BY <1>3, <2>4 DEF KeepsAside, Aside
  <2> QED BY <1>2, <2>6, <2>7, <2>8, <2>9 DEF Safe
<1>4. CASE w \in Workers /\ Claim(w)
  <2>1. CASE \E t \in Take(Candidates(LaneOf[w]), 1) :
                /\ Put(t, Held(tasks[t], "in_progress", w))
                /\ at' = [at EXCEPT ![w] = [step |-> "run", task |-> t, out |-> "none"]]
                /\ patch' = [patch EXCEPT ![t] = NoPatch]
    <3>1. PICK t \in Candidates(LaneOf[w]) :
                /\ Put(t, Held(tasks[t], "in_progress", w))
                /\ at' = [at EXCEPT ![w] = [step |-> "run", task |-> t, out |-> "none"]]
                /\ patch' = [patch EXCEPT ![t] = NoPatch]
      BY <2>1, TakeIsPart
    <3>2. t \in Ids /\ tasks[t].status \in {"ready", "needs_review"}
      BY DEF Candidates, With
    <3>3. "in_progress" \in Active /\ \A u \in Ids : u # t => patch'[u] = patch[u]
      BY <1>0, <3>1 DEF Active
    <3> QED BY <1>3, <1>4, <3>1, <3>2, <3>3
  <2>2. CASE at' = [at EXCEPT ![w] = Off] /\ UNCHANGED <<tasks, patch>>
    <3>1. \A v \in Crew : at'[v] = at[v] \/ ~AtWork(at'[v])
      BY <1>0, <2>2, OffSeats, SeatSteps DEF AtWork
    <3>2. Calm
      BY <1>1, <2>2, <3>1, MovesCalmly
    <3> QED BY <3>2, CalmKeeps DEF Calm
  <2> QED BY <1>4, <2>1, <2>2 DEF Claim
<1>5. CASE w \in Reviewers /\ ClaimReview(w)
  <2>0. patch' = patch
    BY <1>5 DEF ClaimReview
  <2>1. CASE \E t \in Take(With({"needs_review"}), 1) :
                /\ Put(t, Held(tasks[t], "reviewing", w))
                /\ at' = [at EXCEPT ![w] = [step |-> "run", task |-> t, out |-> "none"]]
    <3>1. PICK t \in With({"needs_review"}) :
                /\ Put(t, Held(tasks[t], "reviewing", w))
                /\ at' = [at EXCEPT ![w] = [step |-> "run", task |-> t, out |-> "none"]]
      BY <2>1, TakeIsPart
    <3>2. t \in Ids /\ tasks[t].status \in {"ready", "needs_review"}
      BY DEF With
    <3>3. "reviewing" \in Active /\ w \notin Workers
      BY <1>0, <1>5 DEF Active
    <3> QED BY <1>3, <1>5, <2>0, <3>1, <3>2, <3>3
  <2>2. CASE at' = [at EXCEPT ![w] = Off] /\ UNCHANGED tasks
    <3>1. \A v \in Crew : at'[v] = at[v] \/ ~AtWork(at'[v])
      BY <1>0, <2>2, OffSeats, SeatSteps DEF AtWork
    <3>2. Calm
      BY <1>1, <2>0, <2>2, <3>1, MovesCalmly
    <3> QED BY <3>2, CalmKeeps DEF Calm
  <2> QED BY <1>5, <2>1, <2>2 DEF ClaimReview
<1>6. ASSUME AtWork(at[w]), UNCHANGED tasks,
             NEW new \in Seat, AtWork(new), new.task = at[w].task, at' = [at EXCEPT ![w] = new]
      PROVE  HolderHolds' /\ KeepsAside
  <2>1. at'[w] = new /\ \A v \in Crew : v # w => at'[v] = at[v]
    BY <1>0, <1>6, SeatSteps
  <2>2. HolderHolds'
    BY <1>6, <2>1 DEF HolderHolds, AtWork, IInv, Safe
  <2> QED BY <1>6, <2>2 DEF KeepsAside
<1>7. CASE w \in Workers /\ RunAgent(w)
  <2>1. PICK out \in Patches \cup (Failures \cap (AgentOutcomes \cup PlanOutcomes \cup {"infra"})) :
          /\ at' = [at EXCEPT ![w].step = "ran", ![w].out = out]
          /\ patch' = IF out \in Patches THEN [patch EXCEPT ![at[w].task] = out] ELSE patch
    BY <1>7 DEF RunAgent
  <2> DEFINE new == [at[w] EXCEPT !.step = "ran", !.out = out]
  <2>2. new \in Seat /\ new.task = at[w].task /\ AtWork(new)
    <3>1. out \in Notes
      BY DEF Notes
    <3> QED BY <1>0, <3>1 DEF Seat, AtWork
  <2>3. at' = [at EXCEPT ![w] = new]
    BY <1>0, <2>1
  <2>4. AtWork(at[w]) /\ UNCHANGED tasks
    BY <1>7 DEF RunAgent, AtWork
  <2> HIDE DEF new
  <2>5. HolderHolds' /\ KeepsAside
    BY <1>6, <2>2, <2>3, <2>4
  <2>6. /\ at[w].task \in Ids /\ tasks[at[w].task].status = "in_progress"
        /\ \A u \in Ids : u # at[w].task => patch'[u] = patch[u]
    <3>1. at[w].task \in Ids /\ tasks[at[w].task].status = "in_progress"
      BY <1>0, <1>7, <2>4 DEF IInv, Safe, HolderHolds, AtWork
    <3> QED BY <1>0, <2>1, <3>1
  <2>7. ReviewedIsSound'
    BY <2>4, <2>6 DEF ReviewedIsSound, Judged, IInv, Safe
  <2>8. PassedIsSound'
    <3> SUFFICES ASSUME NEW r \in Reviewers, at'[r].step = "gated", at'[r].out = "passed"
                 PROVE  patch'[at'[r].task] = Sound
      BY DEF PassedIsSound
    <3>1. r \in Crew /\ r # w /\ at'[r] = at[r] /\ AtWork(at[r])
      BY <1>0, <1>7, <2>2, <2>3, SeatSteps DEF Crew, AtWork
    <3>2. at[r].task \in Ids /\ at[r].task # at[w].task
      BY <2>4, <3>1, OnlyWorker DEF IInv, Typed
    <3> QED BY <2>6, <3>1, <3>2 DEF IInv, Safe, PassedIsSound
  <2> QED BY <1>2, <2>5, <2>7, <2>8 DEF Safe
<1>8. CASE w \in Reviewers /\ Gate(w)
  <2>1. PICK out \in GateOf(patch[at[w].task]) : at' = [at EXCEPT ![w].step = "gated", ![w].out = out]
    BY <1>8 DEF Gate
  <2> DEFINE new == [at[w] EXCEPT !.step = "gated", !.out = out]
  <2>2. new \in Seat /\ new.task = at[w].task /\ new.out = out /\ AtWork(new)
    <3>1. out \in Notes
      BY DEF GateOf, Notes
    <3> QED BY <1>0, <3>1 DEF Seat, AtWork
  <2>3. at' = [at EXCEPT ![w] = new]
    BY <1>0, <2>1
  <2>4. AtWork(at[w]) /\ UNCHANGED <<tasks, patch>>
    BY <1>8 DEF Gate, AtWork
  <2> HIDE DEF new
  <2>5. HolderHolds' /\ KeepsAside
    BY <1>6, <2>2, <2>3, <2>4
  <2>6. ReviewedIsSound'
    BY <2>4 DEF ReviewedIsSound, IInv, Safe
  <2>7. out = "passed" => patch[at[w].task] = Sound
    BY PoolAssumption DEF GateOf
  <2>8. PassedIsSound'
    <3> SUFFICES ASSUME NEW r \in Reviewers, at'[r].step = "gated", at'[r].out = "passed"
                 PROVE  patch'[at'[r].task] = Sound
      BY DEF PassedIsSound
    <3>1. CASE r = w
      BY <1>0, <2>2, <2>3, <2>4, <2>7, <3>1, SeatSteps
    <3>2. CASE r # w
      <4>1. at'[r] = at[r]
        BY <1>0, <2>2, <2>3, <3>2, SeatSteps DEF Crew
      <4> QED BY <2>4, <4>1 DEF IInv, Safe, PassedIsSound
    <3> QED BY <3>1, <3>2
  <2> QED BY <1>2, <2>5, <2>6, <2>8 DEF Safe
<1> QED BY <1>4, <1>5, <1>7, <1>8

LEMMA InitSafe == Init => Safe
<1> SUFFICES ASSUME Init PROVE Safe
  OBVIOUS
<1>1. \A w \in Crew : at[w].step = "off"
  BY DEF Init, Off
<1>2. HolderHolds /\ PassedIsSound
  BY <1>1 DEF HolderHolds, PassedIsSound, Crew
<1>3. ReviewedIsSound
  BY NewRows DEF Init, ReviewedIsSound, Judged
<1> QED BY <1>2, <1>3 DEF Init, Safe, CopyIsCurrent, GatedLands

LEMMA NextSafe == ASSUME Undisturbed, IInv, Next PROVE Safe' /\ KeepsAside
<1>1. CASE Tick
  BY <1>1, TickCalm, CalmKeeps DEF Calm
<1>2. CASE Quiet /\ ~Tick
  <2>1. pilot.step # "write"
    BY <1>2 DEF Quiet, Undisturbed
  <2>2. CASE Recover
    <3>1. UNCHANGED pilot
      BY <2>2 DEF Recover, RequeueStale, Dispatch, RecoveryEnds
    <3> QED BY <2>1, <2>2, <3>1, RecoverCalm, CalmKeeps DEF Calm
  <2>3. ASSUME NEW w \in Workers, Implement(w) PROVE Safe' /\ KeepsAside
    <3>1. w \in Crew /\ UNCHANGED pilot
      BY <2>3 DEF Crew, Implement, Claim, RunAgent, FinishPatch, FinishFailed
    <3>2. CASE Claim(w) \/ RunAgent(w)
      BY <2>1, <3>1, <3>2, WorkKeeps
    <3>3. CASE FinishPatch(w) \/ FinishFailed(w)
      BY <2>1, <3>1, <3>3, FinishCalm, CalmKeeps DEF Calm
    <3> QED BY <2>3, <3>2, <3>3 DEF Implement
  <2>4. ASSUME NEW r \in Reviewers, Review(r) PROVE Safe' /\ KeepsAside
    <3>1. r \in Crew /\ UNCHANGED pilot
      BY <2>4 DEF Crew, Review, ClaimReview, Gate, FinishReview
    <3>2. CASE ClaimReview(r) \/ Gate(r)
      BY <2>1, <3>1, <3>2, WorkKeeps
    <3>3. CASE FinishReview(r)
      BY <2>1, <3>1, <3>3, FinishCalm, CalmKeeps DEF Calm
    <3> QED BY <2>4, <3>2, <3>3 DEF Review
  <2>5. CASE ~(Recover \/ (\E w \in Workers : Implement(w)) \/ \E r \in Reviewers : Review(r))
    <3>1. Calm
      BY <1>2, <2>1, <2>5, OthersCalm DEF Next
    <3> QED BY <3>1, CalmKeeps DEF Calm
  <2> QED BY <2>2, <2>3, <2>4, <2>5
<1> QED BY <1>1, <1>2 DEF Next

LEMMA StepSafe == Undisturbed => (IInv /\ [Next]_vars => IInv')
<1> SUFFICES ASSUME Undisturbed, IInv, [Next]_vars PROVE IInv'
  OBVIOUS
<1>1. Typed'
  BY NextTyped DEF IInv
<1>2. CASE Next
  BY <1>1, <1>2, NextSafe DEF IInv
<1>3. CASE UNCHANGED vars
  BY <1>1, <1>3 DEF vars, IInv, Safe, HolderHolds, ReviewedIsSound, PassedIsSound, CopyIsCurrent, GatedLands
<1> QED BY <1>2, <1>3

LEMMA SpecIInv == Undisturbed => (Spec => []IInv)
<1> SUFFICES ASSUME Undisturbed PROVE Spec => []IInv
  OBVIOUS
<1>1. Init => IInv
  BY InitTyped, InitSafe DEF IInv
<1>2. IInv /\ [Next]_vars => IInv'
  BY StepSafe
<1> QED BY <1>1, <1>2, PTL DEF Spec

\* What is committed on a task's branch passed the gate: between the gate and the
\* landing nobody rewrites the patch, for only who holds the task writes it and a
\* judged task is held by nobody (land.py, land_patch; pm.py, claim).  For every
\* crew, set of tasks and limit, as long as the ledger's writers keep to the lock.
THEOREM GatedLandOnly == Undisturbed => (Spec => []GatedLands)
<1>1. IInv => GatedLands
  BY DEF IInv, Safe
<1> QED BY <1>1, SpecIInv, PTL

\* Whoever works on a task is its holder in the ledger, so that nobody ends the
\* work of somebody else (pm.py, finish), under the same hypotheses.
THEOREM HoldersHold == Undisturbed => (Spec => []HolderHolds)
<1>1. IInv => HolderHolds
  BY DEF IInv, Safe
<1> QED BY <1>1, SpecIInv, PTL

\* What waits for a decision, is parked or superseded is moved by no triage, tick,
\* recovery, restart or worker, only by a request of the operator (pm.py,
\* operator_action), under the same hypotheses.
THEOREM AsideIsTheOperators == Undisturbed => (Spec => SetAside)
<1> SUFFICES ASSUME Undisturbed PROVE Spec => SetAside
  OBVIOUS
<1>1. IInv /\ [Next]_vars =>
        [\A t \in Ids : /\ tasks[t].status \in {"needs_decision", "planned", "superseded"}
                        /\ tasks'[t].status # tasks[t].status
                        => left'.ops < left.ops]_vars
  BY NextSafe DEF KeepsAside, Aside
<1>2. []IInv /\ [][Next]_vars => SetAside
  BY <1>1, PTL DEF SetAside
<1> QED BY <1>2, SpecIInv, PTL DEF Spec

=============================================================================
