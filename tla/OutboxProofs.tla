---------------------------- MODULE OutboxProofs ----------------------------
(***************************************************************************)
(* TLAPS proofs about Outbox, for every finite set of events, every        *)
(* assignment of aggregates and worker ids and every value of the bounds.  *)
(***************************************************************************)
EXTENDS Outbox, FiniteSetTheorems, TLAPS

\* The retry delay is a natural number, whatever the number of attempts.
LEMMA RetryDelayType == ASSUME NEW n \in Nat PROVE RetryDelay(n) \in Nat
<1> DEFINE k == IF n = 0 THEN 0 ELSE Least(n - 1, 7)
           t == <<1, 2, 4, 8, 16, 32, 64, 128>>[k + 1]
<1>1. k \in 0..7
  BY DEF Least
<1>2. t \in Nat
  <2>1. \/ k = 0 \/ k = 1 \/ k = 2 \/ k = 3
        \/ k = 4 \/ k = 5 \/ k = 6 \/ k = 7
    BY <1>1
  <2> HIDE DEF k
  <2> QED BY <2>1
<1>3. RetryDelay(n) = Least(RetryCap, RetryBase * t)
  BY DEF RetryDelay
<1> HIDE DEF t, k
<1>4. RetryBase * t \in Nat
  BY <1>2, OutboxAssumption
<1> QED BY <1>3, <1>4, OutboxAssumption DEF Least

\* A worker that holds nothing has a well-formed memory.
LEMMA NoHoldType == NoHold \in Hold
<1>1. (CHOOSE e \in Events : TRUE) \in Events
  BY OutboxAssumption
<1> QED BY <1>1 DEF NoHold, Hold

\* What fail_outbox writes is a row.
LEMMA FailedRowType == ASSUME NEW r \in Row PROVE FailedRow(r) \in Row
<1>1. RetryDelay(r.attempts) \in Nat
  BY RetryDelayType DEF Row
<1> QED BY <1>1 DEF FailedRow, Row, EventState

\* A row stays a row under the update of each method.
LEMMA RowAppended ==
  ASSUME NEW r \in Row, NEW s \in EventState, NEW n \in Nat
  PROVE  [r EXCEPT !.state = s, !.rowid = n] \in Row
BY DEF Row

LEMMA RowClaimed ==
  ASSUME NEW r \in Row, NEW s \in EventState, NEW o \in Ids, NEW l \in Nat,
         NEW t \in Nat, NEW n \in Nat
  PROVE  [r EXCEPT !.state = s, !.owner = o, !.lease = l, !.token = t, !.attempts = n] \in Row
BY DEF Row

LEMMA RowCompleted ==
  ASSUME NEW r \in Row, NEW s \in EventState
  PROVE  [r EXCEPT !.state = s, !.owner = NoWorker, !.lease = 0] \in Row
BY DEF Row

LEMMA RowTicked ==
  ASSUME NEW r \in Row, NEW l \in Nat, NEW n \in Nat
  PROVE  [r EXCEPT !.lease = l, !.wait = n] \in Row
BY DEF Row

-----------------------------------------------------------------------------
(* Type correctness *)

LEMMA InitType == Init => TypeOK
<1> SUFFICES ASSUME Init PROVE TypeOK
  OBVIOUS
<1>1. NewRow \in Row
  BY DEF NewRow, Row, EventState
<1> QED BY <1>1, NoHoldType DEF Init, TypeOK

LEMMA ReleaseType ==
  ASSUME TypeOK, NEW w \in Workers, Release(w)
  PROVE  hold' \in [Workers -> Hold]
BY NoHoldType DEF TypeOK, Release

LEMMA ClaimType ==
  ASSUME TypeOK, NEW w \in Workers, NEW e \in Events, Claim(w, e), UNCHANGED spent
  PROVE  TypeOK'
<1>1. /\ outbox[e] \in Row /\ LeaseTime \in Nat
      /\ WorkerId[w] \in Ids
  BY OutboxAssumption DEF TypeOK, Ids
<1>a. /\ outbox[e].token + 1 \in Nat /\ outbox[e].attempts + 1 \in Nat
      /\ "LEASED" \in EventState
  BY <1>1 DEF Row, EventState
<1>2. [outbox[e] EXCEPT !.state = "LEASED", !.owner = WorkerId[w], !.lease = LeaseTime,
                        !.token = @ + 1, !.attempts = @ + 1] \in Row
  BY <1>1, <1>a, RowClaimed
<1>3. [busy |-> TRUE, event |-> e, token |-> outbox[e].token + 1] \in Hold
  BY <1>1 DEF Row, Hold
<1> QED BY <1>2, <1>3 DEF TypeOK, Claim

LEMMA NextType == TypeOK /\ [Next]_outboxVars => TypeOK'
<1> SUFFICES ASSUME TypeOK, [Next]_outboxVars PROVE TypeOK'
  OBVIOUS
<1>1. ASSUME NEW e \in Events, AppendOutbox(e) PROVE TypeOK'
  <2>1. Appended \subseteq Events /\ IsFiniteSet(Events)
    BY OutboxAssumption DEF Appended
  <2>2. Cardinality(Appended) \in Nat
    BY <2>1, FS_Subset, FS_CardinalityType
  <2>3. [outbox[e] EXCEPT !.state = "PENDING", !.rowid = Cardinality(Appended) + 1] \in Row
    <3>1. outbox[e] \in Row /\ Cardinality(Appended) + 1 \in Nat /\ "PENDING" \in EventState
      BY <2>2 DEF TypeOK, EventState
    <3> QED BY <3>1, RowAppended
  <2>4. outbox' = [outbox EXCEPT ![e] =
          [outbox[e] EXCEPT !.state = "PENDING", !.rowid = Cardinality(Appended) + 1]]
    BY <1>1 DEF AppendOutbox, TypeOK, Row
  <2> QED BY <1>1, <2>3, <2>4 DEF TypeOK, AppendOutbox
<1>2. ASSUME NEW w \in Workers, NEW e \in Events,
             ClaimNextOutbox(w, e) \/ ClaimOutbox(w, e)
      PROVE  TypeOK'
  BY <1>2, ClaimType DEF ClaimNextOutbox, ClaimOutbox
<1>3. ASSUME NEW w \in Workers, NEW b \in BOOLEAN, CheckpointOutbox(w, b) PROVE TypeOK'
  <2>1. hold[w].event \in Events
    BY DEF TypeOK, Hold
  <2>2. [outbox[hold[w].event] EXCEPT !.state = "COMPLETED", !.owner = NoWorker, !.lease = 0]
          \in Row
    <3>1. outbox[hold[w].event] \in Row /\ "COMPLETED" \in EventState
      BY <2>1 DEF TypeOK, EventState
    <3> QED BY <3>1, RowCompleted
  <2> QED BY <1>3, <2>1, <2>2, ReleaseType DEF TypeOK, CheckpointOutbox
<1>4. ASSUME NEW w \in Workers, FailOutbox(w) PROVE TypeOK'
  <2>1. hold[w].event \in Events
    BY DEF TypeOK, Hold
  <2>2. FailedRow(outbox[hold[w].event]) \in Row
    BY <2>1, FailedRowType DEF TypeOK
  <2> QED BY <1>4, <2>1, <2>2, ReleaseType DEF TypeOK, FailOutbox
<1>5. ASSUME NEW w \in Workers, Stale(w) PROVE TypeOK'
  BY <1>5, ReleaseType DEF TypeOK, Stale
<1>6. ASSUME NEW w \in Workers, Crash(w) PROVE TypeOK'
  BY <1>6, ReleaseType DEF TypeOK, Crash
<1>7. CASE Tick
  <2>1. ASSUME NEW e \in Events PROVE outbox'[e] \in Row
    <3>1. outbox'[e] = [outbox[e] EXCEPT !.lease = IF @ > 0 THEN @ - 1 ELSE 0,
                                         !.wait = IF @ > 0 THEN @ - 1 ELSE 0]
      BY <1>7 DEF Tick
    <3>2. outbox[e] \in Row
      BY DEF TypeOK
    <3> DEFINE l == IF outbox[e].lease > 0 THEN outbox[e].lease - 1 ELSE 0
               n == IF outbox[e].wait > 0 THEN outbox[e].wait - 1 ELSE 0
    <3>3. l \in Nat /\ n \in Nat
      BY <3>2 DEF Row
    <3>4. outbox'[e] = [outbox[e] EXCEPT !.lease = l, !.wait = n]
      BY <3>1
    <3> HIDE DEF l, n
    <3> QED BY <3>2, <3>3, <3>4, RowTicked
  <2>2. outbox' \in [Events -> Row]
    BY <1>7, <2>1 DEF Tick
  <2>3. spent' \in [deaths : Nat, late : Nat]
    <3>1. spent' = [spent EXCEPT !.late = IF Working THEN @ + 1 ELSE @]
      BY <1>7 DEF Tick
    <3>2. spent \in [deaths : Nat, late : Nat]
      BY DEF TypeOK
    <3> QED BY <3>1, <3>2
  <2>4. hold' = hold
    BY <1>7 DEF Tick
  <2> QED BY <2>2, <2>3, <2>4 DEF TypeOK
<1>8. CASE UNCHANGED outboxVars
  BY <1>8 DEF TypeOK, outboxVars
<1> QED
  BY <1>1, <1>2, <1>3, <1>4, <1>5, <1>6, <1>7, <1>8
  DEF Next, Append, WorkerStep, Poll, Postpone, Report

\* The rows and the workers' memory keep their declared shape in every
\* reachable state of the outbox.
THEOREM TypeCorrect == Spec => []TypeOK
<1> QED BY InitType, NextType, PTL DEF Spec

-----------------------------------------------------------------------------
(* The inductive invariant *)

\* A busy worker's token was once its event's, and the event exists.
Tokens ==
  \A w \in Workers : hold[w].busy =>
    /\ hold[w].token <= outbox[hold[w].event].token
    /\ outbox[hold[w].event].state # "ABSENT"

\* Two workers busy with one event hold different tokens.
Distinct ==
  \A v, w \in Workers :
    v # w /\ hold[v].busy /\ hold[w].busy /\ hold[v].event = hold[w].event
      => hold[v].token # hold[w].token

\* Only a leased row has a lease, only a row to retry waits, and a row that was
\* not appended was not claimed either.
Rested ==
  \A e \in Events :
    /\ outbox[e].state # "LEASED" => outbox[e].lease = 0
    /\ outbox[e].state # "RETRY" => outbox[e].wait = 0
    /\ outbox[e].state = "ABSENT" => outbox[e].token = 0

\* The next rowid is larger than every rowid so far.
Numbered == \A e \in Appended : outbox[e].rowid <= Cardinality(Appended)

IInv == TypeOK /\ Tokens /\ Distinct /\ Rested /\ Numbered /\ InOrder

\* A step whose workers only let go, of rows whose tokens only grow, keeps
\* Tokens and Distinct.
LEMMA LettingGo ==
  ASSUME Tokens, Distinct, TypeOK, TypeOK',
         \A w \in Workers : hold'[w] = hold[w] \/ ~hold'[w].busy,
         \A e \in Events : /\ outbox'[e].token = outbox[e].token
                           /\ outbox[e].state # "ABSENT" => outbox'[e].state # "ABSENT"
  PROVE  Tokens' /\ Distinct'
<1>1. Tokens'
  <2> SUFFICES ASSUME NEW w \in Workers, hold'[w].busy
               PROVE  /\ hold'[w].token <= outbox'[hold'[w].event].token
                      /\ outbox'[hold'[w].event].state # "ABSENT"
    BY DEF Tokens
  <2>1. hold'[w] = hold[w] /\ hold[w].event \in Events
    BY DEF TypeOK, Hold
  <2> QED BY <2>1 DEF Tokens
<1>2. Distinct'
  BY DEF Distinct
<1> QED BY <1>1, <1>2

\* A step that renumbers, claims and appends nothing and reopens no finished
\* event keeps the order.
LEMMA KeepingOrder ==
  ASSUME Numbered, InOrder,
         \A e \in Events : /\ outbox'[e].rowid = outbox[e].rowid
                           /\ outbox'[e].token = outbox[e].token
                           /\ outbox'[e].state = "ABSENT" <=> outbox[e].state = "ABSENT"
                           /\ outbox[e].state \in Finished => outbox'[e].state \in Finished
  PROVE  Numbered' /\ InOrder'
<1>1. Appended' = Appended /\ Appended \subseteq Events
  BY DEF Appended
<1>2. Numbered'
  BY <1>1 DEF Numbered
<1>3. InOrder'
  BY <1>1 DEF InOrder
<1> QED BY <1>2, <1>3

LEMMA InitIInv == Init => IInv
<1> SUFFICES ASSUME Init PROVE IInv
  OBVIOUS
<1>1. TypeOK
  BY InitType
<1>2. \A e \in Events : outbox[e] = NewRow
  BY DEF Init
<1>3. Appended = {}
  BY <1>2 DEF Appended, NewRow
<1>4. Tokens /\ Distinct
  BY DEF Init, NoHold, Tokens, Distinct
<1>5. Rested
  BY <1>2 DEF Rested, NewRow
<1>6. Numbered /\ InOrder
  BY <1>3 DEF Numbered, InOrder
<1> QED BY <1>1, <1>4, <1>5, <1>6 DEF IInv

-----------------------------------------------------------------------------
(* Each step keeps the invariant *)

LEMMA AppendKeeps ==
  ASSUME IInv, TypeOK', NEW e \in Events, AppendOutbox(e)
  PROVE  IInv'
<1> DEFINE n == Cardinality(Appended)
<1>1. Appended \subseteq Events /\ IsFiniteSet(Appended) /\ n \in Nat
  <2>1. Appended \subseteq Events /\ IsFiniteSet(Events)
    BY OutboxAssumption DEF Appended
  <2> QED BY <2>1, FS_Subset, FS_CardinalityType
<1>2. /\ outbox[e] \in Row /\ outbox'[e] \in Row
      /\ outbox'[e].state = "PENDING" /\ outbox'[e].rowid = n + 1
      /\ outbox'[e].token = outbox[e].token
      /\ outbox'[e].lease = outbox[e].lease /\ outbox'[e].wait = outbox[e].wait
      /\ outbox[e].state = "ABSENT"
  BY DEF AppendOutbox, IInv, TypeOK, Row
<1>3. \A f \in Events : f # e => outbox'[f] = outbox[f]
  BY DEF AppendOutbox, IInv, TypeOK
<1>4. hold' = hold
  BY DEF AppendOutbox
<1>5. Appended' = Appended \cup {e} /\ e \notin Appended
  BY <1>2, <1>3 DEF Appended
<1>6. Cardinality(Appended') = n + 1
  BY <1>1, <1>5, FS_AddElement
<1> HIDE DEF n
<1>7. Tokens' /\ Distinct'
  <2>1. \A w \in Workers : hold'[w] = hold[w]
    BY <1>4
  <2>2. \A f \in Events : /\ outbox'[f].token = outbox[f].token
                          /\ outbox[f].state # "ABSENT" => outbox'[f].state # "ABSENT"
    BY <1>2, <1>3
  <2> QED BY <2>1, <2>2, LettingGo DEF IInv
<1>8. Rested'
  BY <1>2, <1>3 DEF IInv, Rested
<1>9. Numbered'
  <2>1. \A f \in Appended : outbox'[f].rowid <= n + 1
    <3> SUFFICES ASSUME NEW f \in Appended PROVE outbox'[f].rowid <= n + 1
      OBVIOUS
    <3>1. outbox'[f] = outbox[f] /\ outbox[f].rowid \in Nat
      BY <1>1, <1>3, <1>5 DEF IInv, TypeOK, Row
    <3>2. outbox[f].rowid <= n
      BY DEF IInv, Numbered, n
    <3> QED BY <1>1, <3>1, <3>2
  <2>2. outbox'[e].rowid <= n + 1
    BY <1>1, <1>2
  <2> QED BY <1>5, <1>6, <2>1, <2>2 DEF Numbered
<1>10. InOrder'
  <2> SUFFICES ASSUME NEW d \in Appended', NEW f \in Appended',
                      Aggregate[d] = Aggregate[f], outbox'[d].rowid < outbox'[f].rowid,
                      f \notin Named, outbox'[f].token > 0
               PROVE  outbox'[d].state \in Finished
    BY DEF InOrder
  <2>1. f # e
    BY <1>2 DEF IInv, Rested
  <2>2. f \in Appended /\ outbox'[f] = outbox[f] /\ outbox[f].rowid <= n
        /\ outbox[f].rowid \in Nat
    BY <1>1, <1>3, <1>5, <2>1 DEF IInv, Numbered, n, TypeOK, Row
  <2>3. d # e
    BY <1>1, <1>2, <2>2
  <2>4. d \in Appended /\ outbox'[d] = outbox[d]
    BY <1>1, <1>3, <1>5, <2>3
  <2> QED BY <2>2, <2>4 DEF IInv, InOrder
<1> QED BY <1>7, <1>8, <1>9, <1>10 DEF IInv

LEMMA ClaimKeeps ==
  ASSUME IInv, TypeOK', NEW w \in Workers, NEW e \in Events, Claim(w, e),
         e \in Named \/ Unblocked(e)
  PROVE  IInv'
<1>1. /\ outbox[e] \in Row /\ outbox'[e] \in Row
      /\ outbox'[e].state = "LEASED"
      /\ outbox'[e].token = outbox[e].token + 1
      /\ outbox'[e].rowid = outbox[e].rowid
      /\ outbox'[e].wait = outbox[e].wait
      /\ outbox[e].state \notin Finished \cup {"ABSENT"}
      /\ outbox[e].state = "RETRY" => outbox[e].wait = 0
  BY DEF Claim, ClaimableByName, IInv, TypeOK, Row
<1>2. \A f \in Events : f # e => outbox'[f] = outbox[f]
  BY DEF Claim, IInv, TypeOK
<1>3. hold'[w] = [busy |-> TRUE, event |-> e, token |-> outbox[e].token + 1]
  BY DEF Claim, IInv, TypeOK
<1>4. \A v \in Workers : v # w => hold'[v] = hold[v]
  BY DEF Claim, IInv, TypeOK
<1>5. Appended' = Appended /\ e \in Appended /\ Appended \subseteq Events
  BY <1>1, <1>2 DEF Appended
<1>6. \A v \in Workers : hold[v] \in Hold /\ hold[v].event \in Events /\ hold[v].token \in Nat
  BY DEF IInv, TypeOK, Hold
<1>7. outbox[e].token \in Nat
  BY <1>1 DEF Row
<1>8. Tokens'
  <2> SUFFICES ASSUME NEW v \in Workers, hold'[v].busy
               PROVE  /\ hold'[v].token <= outbox'[hold'[v].event].token
                      /\ outbox'[hold'[v].event].state # "ABSENT"
    BY DEF Tokens
  <2>1. CASE v = w
    BY <1>1, <1>3, <1>7, <2>1
  <2>2. CASE v # w
    <3>1. /\ hold'[v] = hold[v]
          /\ hold[v].token <= outbox[hold[v].event].token
          /\ outbox[hold[v].event].state # "ABSENT"
      BY <1>4, <2>2 DEF IInv, Tokens
    <3>2. CASE hold[v].event = e
      BY <1>1, <1>6, <1>7, <3>1, <3>2
    <3>3. CASE hold[v].event # e
      BY <1>2, <1>6, <3>1, <3>3
    <3> QED BY <3>2, <3>3
  <2> QED BY <2>1, <2>2
<1>9. Distinct'
  <2>1. ASSUME NEW v \in Workers, v # w, hold[v].busy, hold[v].event = e
        PROVE  hold[v].token # outbox[e].token + 1
    <3>1. hold[v].token <= outbox[e].token
      BY <2>1 DEF IInv, Tokens
    <3> QED BY <1>6, <1>7, <3>1
  <2> SUFFICES ASSUME NEW u \in Workers, NEW v \in Workers, u # v, hold'[u].busy,
                      hold'[v].busy, hold'[u].event = hold'[v].event
               PROVE  hold'[u].token # hold'[v].token
    BY DEF Distinct
  <2>2. CASE u = w
    BY <1>3, <1>4, <2>1, <2>2
  <2>3. CASE v = w
    BY <1>3, <1>4, <2>1, <2>3
  <2>4. CASE u # w /\ v # w
    BY <1>4, <2>4 DEF IInv, Distinct
  <2> QED BY <2>2, <2>3, <2>4
<1>10. Rested'
  <2> SUFFICES ASSUME NEW f \in Events
               PROVE  /\ outbox'[f].state # "LEASED" => outbox'[f].lease = 0
                      /\ outbox'[f].state # "RETRY" => outbox'[f].wait = 0
                      /\ outbox'[f].state = "ABSENT" => outbox'[f].token = 0
    BY DEF Rested
  <2>1. CASE f = e
    BY <1>1, <2>1 DEF IInv, Rested
  <2>2. CASE f # e
    BY <1>2, <2>2 DEF IInv, Rested
  <2> QED BY <2>1, <2>2
<1>11. \A f \in Events : outbox'[f].rowid = outbox[f].rowid
  BY <1>1, <1>2
<1>12. Numbered'
  BY <1>5, <1>11 DEF IInv, Numbered
<1>13. InOrder'
  <2> SUFFICES ASSUME NEW d \in Appended, NEW f \in Appended,
                      Aggregate[d] = Aggregate[f], outbox[d].rowid < outbox[f].rowid,
                      f \notin Named, outbox'[f].token > 0
               PROVE  outbox'[d].state \in Finished
    BY <1>5, <1>11 DEF InOrder
  <2>0. d # f
    <3>1. outbox[f].rowid \in Nat
      BY <1>5 DEF IInv, TypeOK, Row
    <3> QED BY <3>1
  <2>1. CASE f = e
    BY <1>2, <1>5, <2>0, <2>1 DEF Unblocked
  <2>2. CASE f # e
    <3>1. outbox[d].state \in Finished
      BY <1>2, <1>5, <2>2 DEF IInv, InOrder
    <3> QED BY <1>1, <1>2, <1>5, <3>1
  <2> QED BY <2>1, <2>2
<1> QED BY <1>8, <1>9, <1>10, <1>12, <1>13 DEF IInv

\* A worker that lets go of its event without touching the rows.
LEMMA LetGoKeeps ==
  ASSUME IInv, TypeOK', NEW w \in Workers, Release(w), UNCHANGED outbox
  PROVE  IInv'
<1>1. \A v \in Workers : hold'[v] = hold[v] \/ ~hold'[v].busy
  BY DEF Release, NoHold, IInv, TypeOK
<1>2. Tokens' /\ Distinct'
  BY <1>1, LettingGo DEF IInv
<1>3. Numbered' /\ InOrder'
  BY KeepingOrder DEF IInv
<1>4. Rested'
  BY DEF IInv, Rested
<1> QED BY <1>2, <1>3, <1>4 DEF IInv

\* What checkpoint_outbox and fail_outbox may write: the leased row they name is
\* finished or goes back to wait, with its number and its token.
Settled(e) ==
  /\ outbox[e].state = "LEASED"
  /\ \A f \in Events : f # e => outbox'[f] = outbox[f]
  /\ outbox'[e].state \in Finished \cup {"RETRY"}
  /\ outbox'[e].rowid = outbox[e].rowid
  /\ outbox'[e].token = outbox[e].token
  /\ outbox'[e].lease = 0
  /\ outbox'[e].state # "RETRY" => outbox'[e].wait = 0

LEMMA SettledKeeps ==
  ASSUME IInv, TypeOK', NEW w \in Workers, Release(w), NEW e \in Events, Settled(e)
  PROVE  IInv'
<1>1. \A v \in Workers : hold'[v] = hold[v] \/ ~hold'[v].busy
  BY DEF Release, NoHold, IInv, TypeOK
<1>2. \A f \in Events :
        /\ outbox'[f].rowid = outbox[f].rowid
        /\ outbox'[f].token = outbox[f].token
        /\ outbox'[f].state = "ABSENT" <=> outbox[f].state = "ABSENT"
        /\ outbox[f].state \in Finished => outbox'[f].state \in Finished
  BY DEF Settled, Finished
<1>3. Tokens' /\ Distinct'
  BY <1>1, <1>2, LettingGo DEF IInv
<1>4. Numbered' /\ InOrder'
  BY <1>2, KeepingOrder DEF IInv
<1>5. Rested'
  BY DEF Settled, Finished, IInv, Rested
<1> QED BY <1>3, <1>4, <1>5 DEF IInv

LEMMA CompletedSettles ==
  ASSUME IInv, NEW w \in Workers, CheckpointOutbox(w, TRUE)
  PROVE  Settled(hold[w].event) /\ hold[w].event \in Events /\ Release(w)
<1> DEFINE e == hold[w].event
<1>1. e \in Events /\ outbox[e] \in Row
  BY DEF IInv, TypeOK, Hold
<1>2. outbox' = [outbox EXCEPT ![e] =
        [outbox[e] EXCEPT !.state = "COMPLETED", !.owner = NoWorker, !.lease = 0]]
  BY DEF CheckpointOutbox
<1>3. outbox[e].state = "LEASED" /\ outbox[e].wait = 0
  BY <1>1 DEF CheckpointOutbox, LeaseHeld, IInv, Rested
<1> HIDE DEF e
<1>4. Settled(e)
  BY <1>1, <1>2, <1>3 DEF Settled, Finished, Row, IInv, TypeOK
<1> QED BY <1>1, <1>4 DEF CheckpointOutbox, e

LEMMA FailedSettles ==
  ASSUME IInv, NEW w \in Workers, FailOutbox(w)
  PROVE  Settled(hold[w].event) /\ hold[w].event \in Events /\ Release(w)
<1> DEFINE e == hold[w].event
<1>1. e \in Events /\ outbox[e] \in Row
  BY DEF IInv, TypeOK, Hold
<1>2. outbox' = [outbox EXCEPT ![e] = FailedRow(outbox[e])]
  BY DEF FailOutbox
<1>3. outbox[e].state = "LEASED"
  BY DEF FailOutbox, LeaseHeld
<1> HIDE DEF e
<1>4. Settled(e)
  BY <1>1, <1>2, <1>3 DEF Settled, FailedRow, Finished, Row, IInv, TypeOK
<1> QED BY <1>1, <1>4 DEF FailOutbox, e

\* What a tick does to a row.
LEMMA TickedRow ==
  ASSUME TypeOK, Tick, NEW e \in Events
  PROVE  /\ outbox'[e].state = outbox[e].state
         /\ outbox'[e].rowid = outbox[e].rowid
         /\ outbox'[e].token = outbox[e].token
         /\ outbox[e].lease = 0 => outbox'[e].lease = 0
         /\ outbox[e].wait = 0 => outbox'[e].wait = 0
         /\ outbox[e].lease = 0 /\ outbox[e].wait = 0 => outbox'[e] = outbox[e]
<1>1. outbox'[e] = [outbox[e] EXCEPT !.lease = IF @ > 0 THEN @ - 1 ELSE 0,
                                     !.wait = IF @ > 0 THEN @ - 1 ELSE 0]
  BY DEF Tick
<1>2. outbox[e] \in Row
  BY DEF TypeOK
<1> DEFINE r == outbox[e]
           l == IF r.lease > 0 THEN r.lease - 1 ELSE 0
           n == IF r.wait > 0 THEN r.wait - 1 ELSE 0
<1>3. outbox'[e] = [r EXCEPT !.lease = l, !.wait = n]
  BY <1>1
<1>4. (r.lease = 0 => l = 0) /\ (r.wait = 0 => n = 0)
  BY <1>2 DEF Row
<1> HIDE DEF l, n
<1> QED BY <1>2, <1>3, <1>4 DEF Row

LEMMA TickKeeps ==
  ASSUME IInv, TypeOK', Tick
  PROVE  IInv'
<1>1. \A e \in Events :
        /\ outbox'[e].state = outbox[e].state
        /\ outbox'[e].rowid = outbox[e].rowid
        /\ outbox'[e].token = outbox[e].token
        /\ outbox[e].lease = 0 => outbox'[e].lease = 0
        /\ outbox[e].wait = 0 => outbox'[e].wait = 0
  BY TickedRow DEF IInv
<1>2. hold' = hold
  BY DEF Tick
<1>3. Tokens' /\ Distinct'
  BY <1>1, <1>2, LettingGo DEF IInv
<1>4. Numbered' /\ InOrder'
  BY <1>1, KeepingOrder DEF IInv
<1>5. Rested'
  BY <1>1 DEF IInv, Rested
<1> QED BY <1>3, <1>4, <1>5 DEF IInv

LEMMA NextIInv == IInv /\ [Next]_outboxVars => IInv'
<1> SUFFICES ASSUME IInv, [Next]_outboxVars PROVE IInv'
  OBVIOUS
<1>0. TypeOK'
  BY NextType DEF IInv
<1>1. ASSUME NEW e \in Events, AppendOutbox(e) PROVE IInv'
  BY <1>0, <1>1, AppendKeeps
<1>2. ASSUME NEW w \in Workers, NEW e \in Events, ClaimNextOutbox(w, e) PROVE IInv'
  BY <1>0, <1>2, ClaimKeeps DEF ClaimNextOutbox, NextInLine
<1>3. ASSUME NEW w \in Workers, NEW e \in Events, ClaimOutbox(w, e) PROVE IInv'
  BY <1>0, <1>3, ClaimKeeps DEF ClaimOutbox
<1>4. ASSUME NEW w \in Workers, CheckpointOutbox(w, FALSE) PROVE IInv'
  BY <1>0, <1>4, LetGoKeeps DEF CheckpointOutbox
<1>5. ASSUME NEW w \in Workers, CheckpointOutbox(w, TRUE) PROVE IInv'
  BY <1>0, <1>5, CompletedSettles, SettledKeeps
<1>6. ASSUME NEW w \in Workers, FailOutbox(w) PROVE IInv'
  BY <1>0, <1>6, FailedSettles, SettledKeeps
<1>7. ASSUME NEW w \in Workers, Stale(w) \/ Crash(w) PROVE IInv'
  BY <1>0, <1>7, LetGoKeeps DEF Stale, Crash
<1>8. CASE Tick
  BY <1>0, <1>8, TickKeeps
<1>9. CASE UNCHANGED outboxVars
  <2>1. outbox' = outbox /\ hold' = hold
    BY <1>9 DEF outboxVars
  <2>2. Tokens' /\ Distinct' /\ Rested'
    BY <2>1 DEF IInv, Tokens, Distinct, Rested
  <2>3. Numbered' /\ InOrder'
    BY <2>1, KeepingOrder DEF IInv
  <2> QED BY <1>0, <2>2, <2>3 DEF IInv
<1> QED
  BY <1>1, <1>2, <1>3, <1>4, <1>5, <1>6, <1>7, <1>8, <1>9
  DEF Next, Append, WorkerStep, Poll, Postpone, Report

LEMMA Invariance == Spec => []IInv
<1> QED BY InitIInv, NextIInv, PTL DEF Spec

-----------------------------------------------------------------------------
(* The theorems *)

\* However many processes share a worker_id, at most one of them passes the
\* lease test of an event: the fencing token tells them apart.
THEOREM LeasesAreExclusive == Spec => []OneHolder
<1>1. IInv => OneHolder
  BY DEF IInv, Distinct, OneHolder, LeaseHeld
<1> QED BY <1>1, Invariance, PTL

\* Polling workers start the events of an aggregate in the order in which they
\* were appended, whatever fails, expires or dies on the way.
THEOREM AggregatesInOrder == Spec => []InOrder
<1>1. IInv => InOrder
  BY DEF IInv
<1> QED BY <1>1, Invariance, PTL

\* No step of any worker, nor the passing of time, changes an event that is
\* completed or dead (checkpoint_outbox, fail_outbox).
THEOREM FinishedIsFinal == Spec => FinishedForever
<1>1. IInv /\ [Next]_outboxVars =>
        [\A e \in Events : outbox[e].state \in Finished => outbox'[e] = outbox[e]]_outboxVars
  <2> SUFFICES ASSUME IInv, Next, NEW e \in Events, outbox[e].state \in Finished
               PROVE  outbox'[e] = outbox[e]
    OBVIOUS
  <2>0. outbox[e].state # "ABSENT" /\ outbox[e].state # "LEASED" /\ outbox[e].state # "RETRY"
    BY DEF Finished
  <2>1. ASSUME NEW f \in Events, AppendOutbox(f) PROVE outbox'[e] = outbox[e]
    BY <2>0, <2>1 DEF AppendOutbox, IInv, TypeOK
  <2>2. ASSUME NEW w \in Workers, NEW f \in Events, Claim(w, f) PROVE outbox'[e] = outbox[e]
    BY <2>2 DEF Claim, ClaimableByName, IInv, TypeOK
  <2>3. ASSUME NEW w \in Workers, CheckpointOutbox(w, TRUE) \/ FailOutbox(w)
        PROVE  outbox'[e] = outbox[e]
    <3>1. Settled(hold[w].event)
      BY <2>3, CompletedSettles, FailedSettles
    <3> QED BY <2>0, <3>1 DEF Settled
  <2>4. ASSUME NEW w \in Workers, CheckpointOutbox(w, FALSE) \/ Stale(w) \/ Crash(w)
        PROVE  outbox'[e] = outbox[e]
    BY <2>4 DEF CheckpointOutbox, Stale, Crash
  <2>5. CASE Tick
    <3>1. outbox[e] \in Row /\ outbox[e].lease = 0 /\ outbox[e].wait = 0
      BY <2>0 DEF IInv, TypeOK, Rested
    <3> QED BY <2>5, <3>1, TickedRow DEF IInv
  <2> QED
    BY <2>1, <2>2, <2>3, <2>4, <2>5
    DEF Next, Append, WorkerStep, Poll, Postpone, Report, ClaimNextOutbox, ClaimOutbox
<1> QED BY <1>1, Invariance, PTL DEF Spec, FinishedForever
=============================================================================
