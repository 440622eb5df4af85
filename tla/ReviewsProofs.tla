---------------------------- MODULE ReviewsProofs ----------------------------
(***************************************************************************)
(* TLAPS proofs about Reviews, for every set of contracts, targets, reviews*)
(* and approvals, every freshness period and every wait for the lock.      *)
(***************************************************************************)
EXTENDS Reviews, TLAPS

-----------------------------------------------------------------------------
(* What the many builders, requests and submissions have in common *)

\* Whatever contract a step belongs to, it is one of these.
StepKinds ==
  \/ Tick
  \/ \E f \in Feeds : Observe(f)
  \/ \E f \in Feeds, t \in Targets : Turn(f, t)
  \/ \E t \in Targets : CarryOut(t)
  \/ \E r \in ReviewIds, t \in Targets, left \in 1..MaxAge, phase \in {"INITIAL", "FOLLOWUP"} :
       InFavour(t) /\ Built(r, t, left, phase)
  \/ \E p \in Papers, rs \in SUBSET ReviewIds : Verified(rs) /\ Request(p, rs)
  \/ \E p \in Papers, s \in {"APPROVED", "CLOSED"} : Decide(p, s)
  \/ \E p \in Papers : Lapse(p)
  \/ \E p \in Papers : paper[p] # Unset /\ Verified(paper[p].reviews) /\ Begin(p)
  \/ \E p \in Papers : SubmitTool(p)
  \/ \E p \in Papers, rows \in SUBSET Targets :
       Response(p, rows) /\ rows = TargetsOf(paper[p].reviews) /\ Matched(p)
  \/ \E p \in Papers, results \in SUBSET ReviewIds : ReconcileBatch(p, results)
  \/ \E r \in ReviewIds : review[r] # Unset /\ review[r].target \in done /\ Confirm(r)

LEMMA BuildsAreOfAKind ==
  ASSUME NEW r \in ReviewIds, NEW t \in Targets, NEW left \in 1..MaxAge,
         \/ BuildDispatch(r, t, left) \/ BuildTracking(r, t, left) \/ BuildSplit(r, t, left)
         \/ BuildReturn(r, t, left) \/ BuildListing(r, t, left) \/ BuildCatalog(r, t, left)
         \/ \E prior \in ReviewIds : BuildFollowup(r, t, left, prior)
  PROVE  StepKinds
<1>1. \E phase \in {"INITIAL", "FOLLOWUP"} : InFavour(t) /\ Built(r, t, left, phase)
  BY DEF BuildDispatch, BuildTracking, BuildSplit, BuildReturn, BuildListing, BuildCatalog,
         BuildFollowup, Build
<1> QED BY <1>1 DEF StepKinds

LEMMA RequestsAreOfAKind ==
  ASSUME NEW p \in Papers, NEW rs \in SUBSET ReviewIds,
         \/ RequestTrackingBatch(p, rs) \/ RequestReturnBatch(p, rs)
         \/ \E r \in ReviewIds :
              /\ rs = {r}
              /\ \/ RequestTracking(p, r) \/ RequestSplit(p, r)
                 \/ RequestReturn(p, r) \/ RequestListing(p, r)
  PROVE  StepKinds
<1>1. Verified(rs) /\ Request(p, rs)
  BY DEF RequestTrackingBatch, RequestReturnBatch, Composed,
         RequestTracking, RequestSplit, RequestReturn, RequestListing
<1> QED BY <1>1 DEF StepKinds

LEMMA SubmissionsAreOfAKind ==
  ASSUME NEW p \in Papers,
         \/ SubmitTracking(p) \/ SubmitTrackingBatch(p) \/ SubmitSplit(p)
         \/ SubmitReturn(p) \/ SubmitReturnBatch(p) \/ SubmitListing(p)
  PROVE  StepKinds
<1>1. paper[p] # Unset /\ Verified(paper[p].reviews) /\ Begin(p)
  BY DEF SubmitTracking, SubmitTrackingBatch, SubmitSplit, SubmitReturn,
         SubmitReturnBatch, SubmitListing, Single, Rebuilt, Composed
<1> QED BY <1>1 DEF StepKinds

LEMMA ResultsAreOfAKind ==
  ASSUME NEW p \in Papers,
         \/ \E rows \in SUBSET Targets : Interpret(p, rows) \/ InterpretBatch(p, rows)
         \/ \E results \in SUBSET ReviewIds : ReconcileBatch(p, results)
  PROVE  StepKinds
<1>1. ASSUME NEW rows \in SUBSET Targets, Interpret(p, rows) \/ InterpretBatch(p, rows)
      PROVE  Response(p, rows) /\ rows = TargetsOf(paper[p].reviews) /\ Matched(p)
  BY <1>1 DEF Interpret, InterpretBatch, Covers
<1> QED BY <1>1 DEF StepKinds

LEMMA ReadBacksAreOfAKind ==
  ASSUME NEW r \in ReviewIds, ReconcileReturn(r) \/ ReconcileListing(r) \/ ReconcileCatalog(r)
  PROVE  StepKinds
<1>1. review[r] # Unset /\ review[r].target \in done /\ Confirm(r)
  BY DEF ReconcileReturn, ReconcileListing, ReconcileCatalog, ListingShown, ItemShown,
         ShownDone, Verified, Response
<1> QED BY <1>1 DEF StepKinds

LEMMA StepsAreOfAKind == ASSUME Next PROVE StepKinds
<1>1. CASE Tick
  BY <1>1 DEF StepKinds
<1>2. CASE \E f \in Feeds : Observe(f) \/ \E t \in Targets : Turn(f, t)
  BY <1>2 DEF StepKinds
<1>3. CASE \E t \in Targets : CarryOut(t)
  BY <1>3 DEF StepKinds
<1>4. CASE \E p \in Papers :
        \/ \E s \in {"APPROVED", "CLOSED"} : Decide(p, s)
        \/ Lapse(p) \/ SubmitTool(p)
  BY <1>4 DEF StepKinds
<1>5. ASSUME NEW p \in Papers, NEW r \in ReviewIds,
             RequestTracking(p, r) \/ RequestSplit(p, r) \/ RequestReturn(p, r) \/ RequestListing(p, r)
      PROVE  StepKinds
  <2>1. {r} \in SUBSET ReviewIds
    OBVIOUS
  <2> QED BY <1>5, <2>1, RequestsAreOfAKind
<1>6. ASSUME NEW p \in Papers, NEW rs \in SUBSET ReviewIds,
             RequestTrackingBatch(p, rs) \/ RequestReturnBatch(p, rs)
      PROVE  StepKinds
  BY <1>6, RequestsAreOfAKind
<1> QED BY <1>1, <1>2, <1>3, <1>4, <1>5, <1>6, BuildsAreOfAKind, SubmissionsAreOfAKind,
           ResultsAreOfAKind, ReadBacksAreOfAKind DEF Next

-----------------------------------------------------------------------------
(* The inductive invariant *)

\* What a page did not hold against a target has not been so for longer than
\* the page is old.
PagesAreRecent ==
  \A f \in Feeds, t \in Targets :
    page[f] # Unset /\ t \notin page[f].against => turned[f][t] <= page[f].age + 1

\* A review in time rests on facts that were good when its time began.
ReviewsAreRecent ==
  \A r \in ReviewIds, f \in Feeds :
    review[r] # Unset /\ review[r].left > 0 =>
      turned[f][review[r].target] <= MaxAge - review[r].left + 1

\* An approval names reviews that were built.
PapersAreReviewed ==
  \A p \in Papers : paper[p] # Unset => \A r \in paper[p].reviews : review[r] # Unset

\* What a submission verified was in time when it began to wait.
WaitsAreRecent ==
  \A p \in Papers : Waiting(p) =>
    \A r \in paper[p].reviews, f \in Feeds :
      turned[f][review[r].target] <= MaxAge + paper[p].waited - 1

\* A read-back that confirmed a review saw its target done.
ConfirmedIsDone ==
  \A r \in confirmed : review[r] # Unset /\ review[r].target \in done

\* Only an approval that was asked for has a result.
MatchedIsAsked == \A p \in matched : paper[p] # Unset

IInv ==
  /\ TypeOK
  /\ PagesAreRecent
  /\ ReviewsAreRecent
  /\ PapersAreReviewed
  /\ WaitsAreRecent
  /\ ConfirmedIsDone
  /\ MatchedIsAsked
  /\ MatchedIsDone

\* A time that has not run out counts on by at most one.
LEMMA OlderByOne ==
  ASSUME NEW n \in 0..Horizon + 1
  PROVE  Older(n) \in 0..Horizon + 1 /\ Older(n) <= n + 1
BY LimitsAssumption DEF Older, Horizon

LEMMA InitIInv == Init => IInv
<1> SUFFICES ASSUME Init PROVE IInv
  OBVIOUS
<1>1. TypeOK
  BY LimitsAssumption DEF Init, TypeOK, Horizon
<1>2. /\ \A f \in Feeds : page[f] = Unset
      /\ \A r \in ReviewIds : review[r] = Unset
      /\ \A p \in Papers : paper[p] = Unset
      /\ confirmed = {} /\ matched = {}
  BY DEF Init
<1> QED BY <1>1, <1>2 DEF IInv, PagesAreRecent, ReviewsAreRecent, PapersAreReviewed,
           WaitsAreRecent, Waiting, ConfirmedIsDone, MatchedIsAsked, MatchedIsDone

-----------------------------------------------------------------------------
(* The world and its clock *)

\* A review's target stays what it was as its time runs out.
LEMMA TickReviews ==
  ASSUME IInv, Tick, NEW r \in ReviewIds
  PROVE  /\ review'[r] \in Review \cup {Unset}
         /\ review'[r] # Unset <=> review[r] # Unset
         /\ review[r] # Unset => review'[r].target = review[r].target
         /\ review[r] # Unset /\ review'[r].left > 0 =>
              review[r].left > 0 /\ review'[r].left = review[r].left - 1
<1>1. review'[r] = IF review[r] = Unset \/ review[r].left = 0 THEN review[r]
                   ELSE [review[r] EXCEPT !.left = @ - 1]
  BY DEF Tick
<1>2. review[r] \in Review \cup {Unset}
  BY DEF IInv, TypeOK
<1>3. CASE review[r] = Unset \/ review[r].left = 0
  BY <1>1, <1>2, <1>3
<1>4. CASE review[r] # Unset /\ review[r].left # 0
  <2>1. review[r] \in Review
    BY <1>2, <1>4
  <2>2. review'[r] = [review[r] EXCEPT !.left = @ - 1]
    BY <1>1, <1>4
  <2>3. review'[r] \in Review /\ review'[r].target = review[r].target
        /\ review'[r].left = review[r].left - 1 /\ review[r].left > 0
    BY <1>4, <2>1, <2>2, LimitsAssumption DEF Review
  <2> QED BY <1>4, <2>3, UnsetAssumption
<1> QED BY <1>3, <1>4

LEMMA TickPages ==
  ASSUME IInv, Tick, NEW f \in Feeds
  PROVE  /\ page'[f] \in Page \cup {Unset}
         /\ page'[f] # Unset => /\ page[f] # Unset
                                /\ page'[f].against = page[f].against
                                /\ page'[f].age = page[f].age + 1
<1>1. page'[f] = IF page[f] = Unset \/ page[f].age + 1 = MaxAge THEN Unset
                 ELSE [page[f] EXCEPT !.age = @ + 1]
  BY DEF Tick
<1>2. page[f] \in Page \cup {Unset}
  BY DEF IInv, TypeOK
<1>3. CASE page[f] # Unset /\ page[f].age + 1 # MaxAge
  <2>1. page[f] \in Page
    BY <1>2, <1>3
  <2>2. page'[f] = [page[f] EXCEPT !.age = @ + 1]
    BY <1>1, <1>3
  <2> QED BY <1>3, <2>1, <2>2, LimitsAssumption DEF Page
<1>4. CASE page[f] = Unset \/ page[f].age + 1 = MaxAge
  BY <1>1, <1>4
<1> QED BY <1>3, <1>4

LEMMA TickPapers ==
  ASSUME IInv, Tick, NEW p \in Papers
  PROVE  /\ paper'[p] \in Paper \cup {Unset}
         /\ paper'[p] # Unset <=> paper[p] # Unset
         /\ paper[p] # Unset => paper'[p].reviews = paper[p].reviews
                                /\ paper'[p].state = paper[p].state
         /\ paper'[p] # Unset /\ paper'[p].waited > 0 =>
              paper[p].waited > 0 /\ paper'[p].waited = paper[p].waited + 1
<1>1. paper'[p] = IF Waiting(p) THEN [paper[p] EXCEPT !.waited = @ + 1] ELSE paper[p]
  BY DEF Tick
<1>2. paper[p] \in Paper \cup {Unset}
  BY DEF IInv, TypeOK
<1>3. CASE Waiting(p)
  <2>1. paper[p] \in Paper /\ paper[p].waited <= WaitLimit /\ paper[p].waited > 0
    BY <1>2, <1>3 DEF Waiting, Tick
  <2>2. paper'[p] = [paper[p] EXCEPT !.waited = @ + 1]
    BY <1>1, <1>3
  <2>3. paper'[p] \in Paper /\ paper'[p].waited = paper[p].waited + 1
        /\ paper'[p].reviews = paper[p].reviews /\ paper'[p].state = paper[p].state
    BY <2>1, <2>2, LimitsAssumption DEF Paper
  <2> QED BY <2>1, <2>3, UnsetAssumption
<1>4. CASE ~Waiting(p)
  BY <1>1, <1>2, <1>4 DEF Waiting
<1> QED BY <1>3, <1>4

LEMMA TickTurned ==
  ASSUME IInv, Tick, NEW f \in Feeds, NEW t \in Targets
  PROVE  /\ turned[f][t] \in 0..Horizon + 1 /\ turned'[f][t] \in 0..Horizon + 1
         /\ turned'[f][t] <= turned[f][t] + 1
<1>1. turned[f][t] \in 0..Horizon + 1
  BY DEF IInv, TypeOK
<1>2. turned'[f][t] = Older(turned[f][t])
  BY DEF Tick
<1> QED BY <1>1, <1>2, OlderByOne

\* The targets a set of reviews names, of reviews that are there.
LEMMA TargetsAre ==
  ASSUME IInv, NEW r \in ReviewIds, review[r] # Unset
  PROVE  review[r] \in Review /\ review[r].target \in Targets
BY DEF IInv, TypeOK, Review

LEMMA TickKeeps == ASSUME IInv, Tick PROVE IInv'
<1>0. /\ Feeds' = Feeds /\ UNCHANGED <<contract, done, confirmed, matched>>
  BY DEF Tick, Feeds
<1>1. TypeOK'
  <2>1. turned' \in [Feeds -> [Targets -> 0..Horizon + 1]]
    <3>1. turned' = [f \in Feeds |-> [t \in Targets |-> Older(turned[f][t])]]
      BY DEF Tick
    <3>2. \A f \in Feeds, t \in Targets : Older(turned[f][t]) \in 0..Horizon + 1
      BY OlderByOne DEF IInv, TypeOK
    <3> QED BY <3>1, <3>2
  <2>2. page' \in [Feeds -> Page \cup {Unset}]
    <3>1. page' = [f \in Feeds |-> page'[f]]
      BY DEF Tick
    <3> QED BY <3>1, TickPages
  <2>3. review' \in [ReviewIds -> Review \cup {Unset}]
    <3>1. review' = [r \in ReviewIds |-> review'[r]]
      BY DEF Tick
    <3> QED BY <3>1, TickReviews
  <2>4. paper' \in [Papers -> Paper \cup {Unset}]
    <3>1. paper' = [p \in Papers |-> paper'[p]]
      BY DEF Tick
    <3> QED BY <3>1, TickPapers
  <2> QED BY <1>0, <2>1, <2>2, <2>3, <2>4 DEF IInv, TypeOK
<1>2. PagesAreRecent'
  <2> SUFFICES ASSUME NEW f \in Feeds, NEW t \in Targets, page'[f] # Unset, t \notin page'[f].against
               PROVE  turned'[f][t] <= page'[f].age + 1
    BY <1>0 DEF PagesAreRecent
  <2>1. page[f] # Unset /\ t \notin page[f].against /\ page'[f].age = page[f].age + 1
    BY TickPages
  <2>2. turned[f][t] <= page[f].age + 1
    BY <2>1 DEF IInv, PagesAreRecent
  <2>3. page[f].age \in Nat
    BY <2>1, LimitsAssumption DEF IInv, TypeOK, Page
  <2> QED BY <2>1, <2>2, <2>3, TickTurned, LimitsAssumption DEF Horizon
<1>3. ReviewsAreRecent'
  <2> SUFFICES ASSUME NEW r \in ReviewIds, NEW f \in Feeds, review'[r] # Unset, review'[r].left > 0
               PROVE  turned'[f][review'[r].target] <= MaxAge - review'[r].left + 1
    BY <1>0 DEF ReviewsAreRecent
  <2>1. /\ review[r] # Unset /\ review'[r].target = review[r].target
        /\ review[r].left > 0 /\ review'[r].left = review[r].left - 1
    BY TickReviews
  <2>2. turned[f][review[r].target] <= MaxAge - review[r].left + 1
    BY <2>1 DEF IInv, ReviewsAreRecent
  <2>3. review[r].target \in Targets /\ review[r].left \in Int
    BY <2>1, TargetsAre, LimitsAssumption DEF Review
  <2>4. turned'[f][review[r].target] <= turned[f][review[r].target] + 1
        /\ turned'[f][review[r].target] \in Int /\ turned[f][review[r].target] \in Int
    BY <2>3, TickTurned, LimitsAssumption DEF Horizon
  <2> QED BY <2>1, <2>2, <2>3, <2>4, LimitsAssumption
<1>4. PapersAreReviewed'
  <2> SUFFICES ASSUME NEW p \in Papers, paper'[p] # Unset, NEW r \in paper'[p].reviews
               PROVE  review'[r] # Unset
    BY DEF PapersAreReviewed
  <2>1. paper[p] # Unset /\ paper[p] \in Paper /\ r \in paper[p].reviews
    BY TickPapers DEF IInv, TypeOK
  <2>2. r \in ReviewIds /\ review[r] # Unset
    BY <2>1 DEF IInv, PapersAreReviewed, Paper
  <2> QED BY <2>2, TickReviews
<1>5. WaitsAreRecent'
  <2> SUFFICES ASSUME NEW p \in Papers, paper'[p] # Unset, paper'[p].waited > 0,
                      NEW r \in paper'[p].reviews, NEW f \in Feeds
               PROVE  turned'[f][review'[r].target] <= MaxAge + paper'[p].waited - 1
    BY <1>0 DEF WaitsAreRecent, Waiting
  <2>1. /\ paper[p] # Unset /\ paper[p] \in Paper /\ r \in paper[p].reviews
        /\ paper[p].waited > 0 /\ paper'[p].waited = paper[p].waited + 1
    BY TickPapers DEF IInv, TypeOK
  <2>2. r \in ReviewIds /\ review[r] # Unset /\ paper[p].waited \in Int
    BY <2>1, LimitsAssumption DEF IInv, PapersAreReviewed, Paper
  <2>3. review'[r].target = review[r].target /\ review[r].target \in Targets
    BY <2>2, TickReviews, TargetsAre
  <2>4. turned[f][review[r].target] <= MaxAge + paper[p].waited - 1
    BY <2>1 DEF IInv, WaitsAreRecent, Waiting
  <2>5. turned'[f][review[r].target] <= turned[f][review[r].target] + 1
        /\ turned'[f][review[r].target] \in Int /\ turned[f][review[r].target] \in Int
    BY <2>3, TickTurned, LimitsAssumption DEF Horizon
  <2> QED BY <2>1, <2>2, <2>3, <2>4, <2>5, LimitsAssumption
<1>6. ConfirmedIsDone'
  <2> SUFFICES ASSUME NEW r \in confirmed PROVE review'[r] # Unset /\ review'[r].target \in done
    BY <1>0 DEF ConfirmedIsDone
  <2>1. r \in ReviewIds /\ review[r] # Unset /\ review[r].target \in done
    BY DEF IInv, TypeOK, ConfirmedIsDone
  <2> QED BY <2>1, TickReviews
<1>7. MatchedIsAsked' /\ MatchedIsDone'
  <2> SUFFICES ASSUME NEW p \in matched
               PROVE  paper'[p] # Unset
                      /\ \A r \in paper'[p].reviews : review'[r].target \in done
    BY <1>0 DEF MatchedIsAsked, MatchedIsDone, TargetsOf
  <2>1. p \in Papers /\ paper[p] # Unset /\ paper[p] \in Paper
        /\ \A r \in paper[p].reviews : review[r].target \in done
    BY DEF IInv, TypeOK, MatchedIsAsked, MatchedIsDone, TargetsOf
  <2>2. paper'[p] # Unset /\ paper'[p].reviews = paper[p].reviews
    BY <2>1, TickPapers
  <2>3. \A r \in paper[p].reviews : review'[r].target = review[r].target
    BY <2>1, TickReviews DEF IInv, PapersAreReviewed, Paper
  <2> QED BY <2>1, <2>2, <2>3
<1> QED BY <1>1, <1>2, <1>3, <1>4, <1>5, <1>6, <1>7 DEF IInv

\* What turns now is as recent as anything may be, and what is done stays done.
LEMMA TurningKeeps ==
  ASSUME IInv, UNCHANGED <<contract, page, review, paper, confirmed, matched>>,
         done \subseteq done', done' \subseteq Targets,
         turned' \in [Feeds -> [Targets -> 0..Horizon + 1]],
         \A f \in Feeds, t \in Targets : turned'[f][t] = turned[f][t] \/ turned'[f][t] = 1
  PROVE  IInv'
<1>0. Feeds' = Feeds
  BY DEF Feeds
<1>1. TypeOK'
  BY <1>0 DEF IInv, TypeOK
<1>2. PagesAreRecent'
  <2> SUFFICES ASSUME NEW f \in Feeds, NEW t \in Targets, page[f] # Unset, t \notin page[f].against
               PROVE  turned'[f][t] <= page[f].age + 1
    BY <1>0 DEF PagesAreRecent
  <2>1. turned[f][t] <= page[f].age + 1 /\ page[f].age \in Nat
    BY LimitsAssumption DEF IInv, PagesAreRecent, TypeOK, Page
  <2> QED BY <2>1
<1>3. ReviewsAreRecent'
  <2> SUFFICES ASSUME NEW r \in ReviewIds, NEW f \in Feeds, review[r] # Unset, review[r].left > 0
               PROVE  turned'[f][review[r].target] <= MaxAge - review[r].left + 1
    BY <1>0 DEF ReviewsAreRecent
  <2>1. turned[f][review[r].target] <= MaxAge - review[r].left + 1
    BY DEF IInv, ReviewsAreRecent
  <2>2. review[r].target \in Targets /\ review[r].left \in 0..MaxAge
    BY TargetsAre DEF Review
  <2> QED BY <2>1, <2>2, LimitsAssumption
<1>4. WaitsAreRecent'
  <2> SUFFICES ASSUME NEW p \in Papers, Waiting(p), NEW r \in paper[p].reviews, NEW f \in Feeds
               PROVE  turned'[f][review[r].target] <= MaxAge + paper[p].waited - 1
    BY <1>0 DEF WaitsAreRecent, Waiting
  <2>1. paper[p] # Unset /\ paper[p] \in Paper /\ paper[p].waited > 0
    BY DEF IInv, TypeOK, Waiting
  <2>2. review[r].target \in Targets
    BY <2>1, TargetsAre DEF IInv, PapersAreReviewed, Paper
  <2>3. turned[f][review[r].target] <= MaxAge + paper[p].waited - 1
    BY DEF IInv, WaitsAreRecent
  <2> QED BY <2>1, <2>2, <2>3, LimitsAssumption DEF Paper
<1>5. PapersAreReviewed' /\ ConfirmedIsDone' /\ MatchedIsAsked' /\ MatchedIsDone'
  BY DEF IInv, PapersAreReviewed, ConfirmedIsDone, MatchedIsAsked, MatchedIsDone, TargetsOf
<1> QED BY <1>1, <1>2, <1>3, <1>4, <1>5 DEF IInv

LEMMA TurnKeeps ==
  ASSUME IInv, NEW f \in Feeds, NEW t \in Targets, Turn(f, t) PROVE IInv'
<1>1. turned' = [turned EXCEPT ![f][t] = 1] /\ 1 \in 0..Horizon + 1
  BY LimitsAssumption DEF Turn, Horizon
<1>2. turned' \in [Feeds -> [Targets -> 0..Horizon + 1]]
  BY <1>1 DEF IInv, TypeOK
<1>3. \A g \in Feeds, u \in Targets : turned'[g][u] = turned[g][u] \/ turned'[g][u] = 1
  BY <1>1 DEF IInv, TypeOK
<1>4. UNCHANGED <<contract, done, page, review, paper, confirmed, matched>> /\ done \subseteq Targets
  BY DEF Turn, IInv, TypeOK
<1> QED BY <1>2, <1>3, <1>4, TurningKeeps

LEMMA CarryOutKeeps == ASSUME IInv, NEW t \in Targets, CarryOut(t) PROVE IInv'
<1>1. turned' = [f \in Feeds |->
        IF ShowsDone(f) THEN [turned[f] EXCEPT ![t] = 1] ELSE turned[f]]
  BY DEF CarryOut
<1>2. \A f \in Feeds : turned'[f] = turned[f] \/ turned'[f] = [turned[f] EXCEPT ![t] = 1]
  BY <1>1
<1>3. \A f \in Feeds : turned[f] \in [Targets -> 0..Horizon + 1]
  BY DEF IInv, TypeOK
<1>4. 1 \in 0..Horizon + 1
  BY LimitsAssumption DEF Horizon
<1>5. \A f \in Feeds : /\ turned'[f] \in [Targets -> 0..Horizon + 1]
                       /\ \A u \in Targets : turned'[f][u] = turned[f][u] \/ turned'[f][u] = 1
  <2> TAKE f \in Feeds
  <2>1. CASE turned'[f] = turned[f]
    BY <1>3, <2>1
  <2>2. CASE turned'[f] = [turned[f] EXCEPT ![t] = 1]
    <3>1. turned[f] \in [Targets -> 0..Horizon + 1]
      BY <1>3
    <3>2. [turned[f] EXCEPT ![t] = 1] \in [Targets -> 0..Horizon + 1]
      BY <1>4, <3>1
    <3>3. \A u \in Targets : [turned[f] EXCEPT ![t] = 1][u] = IF u = t THEN 1 ELSE turned[f][u]
      BY <3>1
    <3> QED BY <2>2, <3>2, <3>3
  <2> QED BY <1>2, <2>1, <2>2
<1>6. turned' \in [Feeds -> [Targets -> 0..Horizon + 1]]
  <2>1. turned' = [f \in Feeds |-> turned'[f]]
    BY <1>1
  <2> QED BY <1>5, <2>1
<1>7. /\ UNCHANGED <<contract, page, review, paper, confirmed, matched>>
      /\ done \subseteq done' /\ done' \subseteq Targets
  BY DEF CarryOut, IInv, TypeOK
<1> QED BY <1>5, <1>6, <1>7, TurningKeeps

\* What a page does not hold against a target has not turned when it is read.
LEMMA ObserveKeeps == ASSUME IInv, NEW f \in Feeds, Observe(f) PROVE IInv'
<1> DEFINE new == [age |-> 0, against |-> {t \in Targets : turned[f][t] > 0},
                   taken |-> IF contract = "split" /\ ShowsDone(f) THEN done ELSE {}]
<1>0. /\ Feeds' = Feeds /\ page' = [page EXCEPT ![f] = new]
      /\ UNCHANGED <<contract, turned, done, review, paper, confirmed, matched>>
  BY DEF Observe, Feeds
<1>1. new \in Page /\ new.age = 0 /\ new.against = {t \in Targets : turned[f][t] > 0}
  BY LimitsAssumption DEF Page, IInv, TypeOK
<1> HIDE DEF new
<1>2. TypeOK'
  BY <1>0, <1>1 DEF IInv, TypeOK
<1>3. PagesAreRecent'
  <2> SUFFICES ASSUME NEW g \in Feeds, NEW t \in Targets, page'[g] # Unset, t \notin page'[g].against
               PROVE  turned[g][t] <= page'[g].age + 1
    BY <1>0 DEF PagesAreRecent
  <2>1. CASE g = f
    <3>1. page'[g] = new
      BY <1>0, <2>1 DEF IInv, TypeOK
    <3>2. turned[f][t] \in Nat /\ ~(turned[f][t] > 0)
      BY <1>1, <2>1, <3>1, LimitsAssumption DEF IInv, TypeOK, Horizon
    <3> QED BY <1>1, <2>1, <3>1, <3>2
  <2>2. CASE g # f
    <3>1. page'[g] = page[g]
      BY <1>0, <2>2 DEF IInv, TypeOK
    <3> QED BY <3>1 DEF IInv, PagesAreRecent
  <2> QED BY <2>1, <2>2
<1> QED BY <1>0, <1>2, <1>3 DEF IInv, ReviewsAreRecent, PapersAreReviewed, WaitsAreRecent, Waiting,
           ConfirmedIsDone, MatchedIsAsked, MatchedIsDone, TargetsOf

-----------------------------------------------------------------------------
(* Reviews *)

\* A review in every feed's favour, within the freshness of all of them, rests
\* on facts that are as recent as its expiry says.
LEMMA BuiltKeeps ==
  ASSUME IInv, NEW r \in ReviewIds, NEW t \in Targets, NEW left \in 1..MaxAge,
         NEW phase \in {"INITIAL", "FOLLOWUP"}, InFavour(t), Built(r, t, left, phase)
  PROVE  IInv'
<1> DEFINE new == [target |-> t, left |-> left, phase |-> phase]
<1>0. /\ Feeds' = Feeds /\ review' = [review EXCEPT ![r] = new] /\ review[r] = Unset
      /\ UNCHANGED <<contract, turned, done, page, paper, confirmed, matched>>
  BY DEF Built, Feeds
<1>1. new \in Review /\ new.target = t /\ new.left = left
  BY LimitsAssumption DEF Review
<1>2. new # Unset
  BY <1>1, UnsetAssumption
<1> HIDE DEF new
<1>3. review'[r] = new /\ \A q \in ReviewIds : q # r => review'[q] = review[q]
  BY <1>0 DEF IInv, TypeOK
<1>4. TypeOK'
  BY <1>0, <1>1 DEF IInv, TypeOK
<1>5. ReviewsAreRecent'
  <2> SUFFICES ASSUME NEW q \in ReviewIds, NEW f \in Feeds, review'[q] # Unset, review'[q].left > 0
               PROVE  turned[f][review'[q].target] <= MaxAge - review'[q].left + 1
    BY <1>0 DEF ReviewsAreRecent
  <2>1. CASE q # r
    BY <1>3, <2>1 DEF IInv, ReviewsAreRecent
  <2>2. CASE q = r
    <3>1. page[f] # Unset /\ t \notin page[f].against /\ left <= MaxAge - page[f].age
      BY DEF Built, InFavour, ExpiryWithin
    <3>2. turned[f][t] <= page[f].age + 1
      BY <3>1 DEF IInv, PagesAreRecent
    <3>3. turned[f][t] \in Int /\ page[f].age \in Int
      BY <3>1, LimitsAssumption DEF IInv, TypeOK, Page, Horizon
    <3>4. turned[f][t] <= MaxAge - left + 1
      BY <3>1, <3>2, <3>3, LimitsAssumption
    <3> QED BY <1>1, <1>3, <2>2, <3>4
  <2> QED BY <2>1, <2>2
\* whatever was on record before is on record now
<1>6. \A q \in ReviewIds : review[q] # Unset => review'[q] = review[q]
  BY <1>0, <1>3
<1>7. \A p \in Papers : paper[p] # Unset =>
        \A q \in paper[p].reviews : review[q] # Unset /\ review'[q] = review[q]
  BY <1>6 DEF IInv, TypeOK, PapersAreReviewed, Paper
<1>8. PapersAreReviewed'
  BY <1>0, <1>7 DEF PapersAreReviewed
<1>9. WaitsAreRecent'
  BY <1>0, <1>7 DEF IInv, WaitsAreRecent, Waiting
<1>10. ConfirmedIsDone'
  BY <1>0, <1>6 DEF IInv, TypeOK, ConfirmedIsDone
<1>11. MatchedIsAsked' /\ MatchedIsDone'
  BY <1>0, <1>7 DEF IInv, TypeOK, MatchedIsAsked, MatchedIsDone, TargetsOf
<1> QED BY <1>0, <1>4, <1>5, <1>8, <1>9, <1>10, <1>11 DEF IInv, PagesAreRecent

-----------------------------------------------------------------------------
(* Approvals *)

\* An approval that names the same reviews, and waits no longer than what it
\* verified allows, keeps the invariant.
LEMMA PaperKeeps ==
  ASSUME IInv, UNCHANGED <<contract, turned, done, page, review, confirmed, matched>>,
         NEW p \in Papers, NEW new \in Paper, paper' = [paper EXCEPT ![p] = new],
         \A r \in new.reviews : review[r] # Unset,
         paper[p] # Unset => new.reviews = paper[p].reviews,
         paper[p] = Unset => new.waited = 0,
         new.waited > 0 =>
           \/ paper[p].waited = new.waited
           \/ new.waited = 1 /\ Verified(new.reviews)
  PROVE  IInv'
<1>0. Feeds' = Feeds /\ new # Unset
  BY UnsetAssumption DEF Feeds
<1>1. paper'[p] = new /\ \A q \in Papers : q # p => paper'[q] = paper[q]
  BY DEF IInv, TypeOK
<1>2. TypeOK'
  BY <1>0 DEF IInv, TypeOK
<1>3. PapersAreReviewed'
  BY <1>1 DEF IInv, PapersAreReviewed
<1>4. WaitsAreRecent'
  <2> SUFFICES ASSUME NEW q \in Papers, paper'[q] # Unset, paper'[q].waited > 0,
                      NEW r \in paper'[q].reviews, NEW f \in Feeds
               PROVE  turned[f][review[r].target] <= MaxAge + paper'[q].waited - 1
    BY <1>0 DEF WaitsAreRecent, Waiting
  <2>1. CASE q # p
    BY <1>1, <2>1 DEF IInv, WaitsAreRecent, Waiting
  <2>2. CASE q = p /\ paper[p].waited = new.waited
    <3>1. paper[p] # Unset /\ paper[p].waited > 0
      BY <1>1, <2>2
    <3> QED BY <1>1, <2>2, <3>1 DEF IInv, WaitsAreRecent, Waiting
  <2>3. CASE q = p /\ new.waited = 1 /\ Verified(new.reviews)
    <3>1. r \in ReviewIds /\ review[r] # Unset /\ review[r].left > 0
      BY <1>1, <2>3 DEF Verified, Paper
    <3>2. turned[f][review[r].target] <= MaxAge - review[r].left + 1
      BY <3>1 DEF IInv, ReviewsAreRecent
    <3>3. review[r].target \in Targets /\ review[r].left \in Int
      BY <3>1, TargetsAre, LimitsAssumption DEF Review
    <3>4. turned[f][review[r].target] \in Int
      BY <3>3, LimitsAssumption DEF IInv, TypeOK, Horizon
    <3> QED BY <1>1, <2>3, <3>1, <3>2, <3>3, <3>4, LimitsAssumption
  <2> QED BY <1>1, <2>1, <2>2, <2>3
<1>5. MatchedIsAsked'
  BY <1>0, <1>1 DEF IInv, TypeOK, MatchedIsAsked
<1>6. MatchedIsDone'
  <2> SUFFICES ASSUME NEW q \in matched, NEW r \in paper'[q].reviews
               PROVE  review[r].target \in done
    BY DEF MatchedIsDone, TargetsOf
  <2>1. q \in Papers /\ paper'[q].reviews = paper[q].reviews
    BY <1>1 DEF IInv, TypeOK, MatchedIsAsked
  <2> QED BY <2>1 DEF IInv, MatchedIsDone, TargetsOf
<1> QED BY <1>0, <1>2, <1>3, <1>4, <1>5, <1>6
        DEF IInv, PagesAreRecent, ReviewsAreRecent, ConfirmedIsDone

LEMMA RequestKeeps ==
  ASSUME IInv, NEW p \in Papers, NEW rs \in SUBSET ReviewIds, Verified(rs), Request(p, rs)
  PROVE  IInv'
<1> DEFINE new == [reviews |-> rs, state |-> "PENDING", waited |-> 0]
<1>1. new \in Paper /\ new.waited = 0 /\ new.reviews = rs
  BY LimitsAssumption DEF Paper
<1>2. paper[p] = Unset /\ paper' = [paper EXCEPT ![p] = new]
      /\ UNCHANGED <<contract, turned, done, page, review, confirmed, matched>>
  BY DEF Request
<1>3. \A r \in new.reviews : review[r] # Unset
  BY DEF Verified
<1>4. ~(new.waited > 0)
  BY <1>1
<1> HIDE DEF new
<1> QED BY <1>1, <1>2, <1>3, <1>4, PaperKeeps

\* What is written of an approval that is there.
LEMMA DecidedKeeps ==
  ASSUME IInv, UNCHANGED <<contract, turned, done, page, review, confirmed, matched>>,
         NEW p \in Papers, paper[p] # Unset,
         NEW state \in {"PENDING", "APPROVED", "CLOSED", "USED"}, NEW waited \in 0..WaitLimit + 1,
         paper' = [paper EXCEPT ![p] = [reviews |-> paper[p].reviews, state |-> state, waited |-> waited]],
         waited > 0 => (waited = paper[p].waited \/ (waited = 1 /\ Verified(paper[p].reviews)))
  PROVE  IInv'
<1> DEFINE new == [reviews |-> paper[p].reviews, state |-> state, waited |-> waited]
<1>1. paper[p] \in Paper /\ \A r \in paper[p].reviews : review[r] # Unset
  BY DEF IInv, TypeOK, PapersAreReviewed
<1>2. new \in Paper /\ new.waited = waited /\ new.reviews = paper[p].reviews
  BY <1>1 DEF Paper
<1>3. paper' = [paper EXCEPT ![p] = new]
  OBVIOUS
<1>4. new.waited > 0 => (paper[p].waited = new.waited \/ (new.waited = 1 /\ Verified(new.reviews)))
  BY <1>2
<1>5. \A r \in new.reviews : review[r] # Unset
  BY <1>1, <1>2
<1> HIDE DEF new
<1> QED BY <1>2, <1>3, <1>4, <1>5, PaperKeeps

\* A row of the table, written out.
LEMMA RowWritten ==
  ASSUME NEW row \in Paper, NEW state, NEW waited
  PROVE  /\ [row EXCEPT !.state = state] =
              [reviews |-> row.reviews, state |-> state, waited |-> row.waited]
         /\ [row EXCEPT !.waited = waited] =
              [reviews |-> row.reviews, state |-> row.state, waited |-> waited]
<1>1. row = [reviews |-> row.reviews, state |-> row.state, waited |-> row.waited]
  BY DEF Paper
<1>2. [row EXCEPT !.state = state] =
        [reviews |-> row.reviews, state |-> state, waited |-> row.waited]
  BY <1>1
<1>3. [row EXCEPT !.waited = waited] =
        [reviews |-> row.reviews, state |-> row.state, waited |-> waited]
  BY <1>1
<1> QED BY <1>2, <1>3

LEMMA PaperRow ==
  ASSUME IInv, NEW p \in Papers, paper[p] # Unset
  PROVE  /\ paper[p] \in Paper
         /\ paper[p].state \in {"PENDING", "APPROVED", "CLOSED", "USED"}
         /\ paper[p].waited \in 0..WaitLimit + 1
BY DEF IInv, TypeOK, Paper

LEMMA DecideKeeps ==
  ASSUME IInv, NEW p \in Papers,
         Lapse(p) \/ \E s \in {"APPROVED", "CLOSED"} : Decide(p, s)
  PROVE  IInv'
<1>1. PICK state \in {"APPROVED", "CLOSED"} : paper' = [paper EXCEPT ![p].state = state]
  BY DEF Lapse, Decide
<1>2. paper[p] # Unset /\ UNCHANGED <<contract, turned, done, page, review, confirmed, matched>>
  BY DEF Lapse, Decide
<1>3. [paper[p] EXCEPT !.state = state] =
        [reviews |-> paper[p].reviews, state |-> state, waited |-> paper[p].waited]
  BY <1>2, PaperRow, RowWritten
<1>4. paper' = [paper EXCEPT ![p] =
        [reviews |-> paper[p].reviews, state |-> state, waited |-> paper[p].waited]]
  BY <1>1, <1>3
<1>5. state \in {"PENDING", "APPROVED", "CLOSED", "USED"} /\ paper[p].waited \in 0..WaitLimit + 1
  BY <1>2, PaperRow
<1> QED BY <1>2, <1>4, <1>5, DecidedKeeps

LEMMA BeginKeeps ==
  ASSUME IInv, NEW p \in Papers, paper[p] # Unset, Verified(paper[p].reviews), Begin(p)
  PROVE  IInv'
<1>1. UNCHANGED <<contract, turned, done, page, review, confirmed, matched>>
  BY DEF Begin
<1>2. [paper[p] EXCEPT !.waited = 1] =
        [reviews |-> paper[p].reviews, state |-> paper[p].state, waited |-> 1]
  <2>1. 1 \in 0..WaitLimit + 1 /\ paper[p] \in Paper
    BY PaperRow, LimitsAssumption
  <2> QED BY <2>1, RowWritten, PaperRow
<1>3. paper' = [paper EXCEPT ![p] =
        [reviews |-> paper[p].reviews, state |-> paper[p].state, waited |-> 1]]
  BY <1>2 DEF Begin
<1>4. 1 \in 0..WaitLimit + 1
  BY LimitsAssumption
<1> QED BY <1>1, <1>3, <1>4, PaperRow, DecidedKeeps

LEMMA SubmitToolKeeps == ASSUME IInv, NEW p \in Papers, SubmitTool(p) PROVE IInv'
<1> DEFINE state == IF paper[p].state = "APPROVED" THEN "USED" ELSE paper[p].state
<1>1. paper[p] # Unset /\ UNCHANGED <<contract, turned, done, page, review, confirmed, matched>>
  BY DEF SubmitTool, Waiting
<1>2. state \in {"PENDING", "APPROVED", "CLOSED", "USED"}
  BY <1>1, PaperRow
<1>3. paper' = [paper EXCEPT ![p] =
        [reviews |-> paper[p].reviews, state |-> state, waited |-> 0]]
  <2>1. paper' = [paper EXCEPT ![p] = [[paper[p] EXCEPT !.waited = 0] EXCEPT !.state = state]]
    BY DEF SubmitTool, IInv, TypeOK
  <2>2. [[paper[p] EXCEPT !.waited = 0] EXCEPT !.state = state] =
          [reviews |-> paper[p].reviews, state |-> state, waited |-> 0]
    <3> DEFINE row == paper[p]
    <3>1. row \in Paper
      BY <1>1, PaperRow
    <3> HIDE DEF state, row
    <3>2. [row EXCEPT !.waited = 0] = [reviews |-> row.reviews, state |-> row.state, waited |-> 0]
      BY <3>1, RowWritten
    <3>3. [[reviews |-> row.reviews, state |-> row.state, waited |-> 0] EXCEPT !.state = state] =
            [reviews |-> row.reviews, state |-> state, waited |-> 0]
      OBVIOUS
    <3> QED BY <3>2, <3>3 DEF row
  <2> QED BY <2>1, <2>2
<1>4. 0 \in 0..WaitLimit + 1 /\ ~(0 > 0)
  BY LimitsAssumption
<1> HIDE DEF state
<1> QED BY <1>1, <1>2, <1>3, <1>4, DecidedKeeps

-----------------------------------------------------------------------------
(* Results *)

LEMMA MatchedKeeps ==
  ASSUME IInv, NEW p \in Papers, paper[p] # Unset, TargetsOf(paper[p].reviews) \subseteq done,
         Matched(p)
  PROVE  IInv'
<1>0. Feeds' = Feeds /\ matched' = matched \cup {p}
      /\ UNCHANGED <<contract, turned, done, page, review, paper, confirmed>>
  BY DEF Matched, Feeds
<1>1. TypeOK'
  BY <1>0 DEF IInv, TypeOK
<1>2. MatchedIsAsked' /\ MatchedIsDone'
  BY <1>0 DEF IInv, MatchedIsAsked, MatchedIsDone, TargetsOf
<1> QED BY <1>0, <1>1, <1>2 DEF IInv, PagesAreRecent, ReviewsAreRecent, PapersAreReviewed,
           WaitsAreRecent, Waiting, ConfirmedIsDone

\* Every result the caller brings was confirmed by a read-back of its target.
LEMMA ReconcileBatchKeeps ==
  ASSUME IInv, NEW p \in Papers, NEW results \in SUBSET ReviewIds, ReconcileBatch(p, results)
  PROVE  IInv'
<1>1. TargetsOf(results) \subseteq done
  BY DEF ReconcileBatch, IInv, ConfirmedIsDone, TargetsOf
<1>2. paper[p] # Unset /\ Matched(p) /\ TargetsOf(results) = TargetsOf(paper[p].reviews)
  BY DEF ReconcileBatch, Response, Covers
<1> QED BY <1>1, <1>2, MatchedKeeps

LEMMA ConfirmKeeps ==
  ASSUME IInv, NEW r \in ReviewIds, review[r] # Unset, review[r].target \in done, Confirm(r)
  PROVE  IInv'
<1>0. Feeds' = Feeds /\ confirmed' = confirmed \cup {r}
      /\ UNCHANGED <<contract, turned, done, page, review, paper, matched>>
  BY DEF Confirm, Feeds
<1>1. TypeOK' /\ ConfirmedIsDone'
  BY <1>0 DEF IInv, TypeOK, ConfirmedIsDone
<1> QED BY <1>0, <1>1 DEF IInv, PagesAreRecent, ReviewsAreRecent, PapersAreReviewed,
           WaitsAreRecent, Waiting, MatchedIsAsked, MatchedIsDone, TargetsOf

-----------------------------------------------------------------------------
(* Every step *)

LEMMA NextIInv == IInv /\ [Next]_vars => IInv'
<1> SUFFICES ASSUME IInv, [Next]_vars PROVE IInv'
  OBVIOUS
<1>1. CASE UNCHANGED vars
  BY <1>1 DEF vars, IInv, TypeOK, Feeds, PagesAreRecent, ReviewsAreRecent, PapersAreReviewed,
              WaitsAreRecent, Waiting, ConfirmedIsDone, MatchedIsAsked, MatchedIsDone, TargetsOf
<1>2. CASE Next
  <2>1. StepKinds
    BY <1>2, StepsAreOfAKind
  <2>2. ASSUME NEW p \in Papers, NEW rows \in SUBSET Targets,
               Response(p, rows), rows = TargetsOf(paper[p].reviews), Matched(p)
        PROVE  IInv'
    BY <2>2, MatchedKeeps DEF Response
  <2> QED BY <2>1, <2>2, TickKeeps, ObserveKeeps, TurnKeeps, CarryOutKeeps, BuiltKeeps, RequestKeeps,
             DecideKeeps, BeginKeeps, SubmitToolKeeps, ReconcileBatchKeeps, ConfirmKeeps
          DEF StepKinds
<1> QED BY <1>1, <1>2

LEMMA SpecIInv == Spec => []IInv
BY InitIInv, NextIInv, PTL DEF Spec

\* Feeds, pages, reviews, batches and approvals keep their declared shape, and no
\* age counts past its bound (build_*_review, submit_approved_*).
THEOREM TypeCorrect == Spec => []TypeOK
<1>1. IInv => TypeOK
  BY DEF IInv
<1> QED BY <1>1, SpecIInv, PTL

\* A result that is reported as matched is of an approval whose every target
\* the channel carried out, in a batch too (interpret_tracking_batch,
\* reconcile_return_batch).
THEOREM ResultsAreDone == Spec => []MatchedIsDone
<1>1. IInv => MatchedIsDone
  BY DEF IInv
<1> QED BY <1>1, SpecIInv, PTL

\* Only a submission that waited for its transaction uses an approval.
LEMMA OnlySubmissionUses ==
  ASSUME IInv, Next, NEW p \in Papers, paper'[p] # Unset, paper'[p].state = "USED",
         paper[p].state # "USED"
  PROVE  Waiting(p)
<1> SUFFICES ASSUME ~Waiting(p) PROVE FALSE
  OBVIOUS
<1>1. StepKinds
  BY StepsAreOfAKind
<1>2. paper' # paper
  OBVIOUS
<1>3. ~Tick
  BY TickPapers DEF Tick
<1>4. ASSUME NEW q \in Papers, NEW new, paper' = [paper EXCEPT ![q] = new]
      PROVE  q = p /\ paper'[p] = new
  BY <1>4 DEF IInv, TypeOK
<1>5. ASSUME NEW q \in Papers, NEW rs, Request(q, rs) PROVE FALSE
  BY <1>4, <1>5 DEF Request
<1>6. ASSUME NEW q \in Papers, Lapse(q) \/ \E s \in {"APPROVED", "CLOSED"} : Decide(q, s)
      PROVE  FALSE
  <2>1. paper[q] # Unset
    BY <1>6 DEF Lapse, Decide
  <2>2. PICK state \in {"APPROVED", "CLOSED"} : paper' = [paper EXCEPT ![q].state = state]
    BY <1>6 DEF Lapse, Decide
  <2>3. paper'[p] = [paper[p] EXCEPT !.state = state]
    BY <2>2 DEF IInv, TypeOK
  <2> QED BY <2>1, <2>2, <2>3, PaperRow DEF IInv, TypeOK, Paper
<1>7. ASSUME NEW q \in Papers, paper[q] # Unset, Begin(q) PROVE FALSE
  <2>1. paper' = [paper EXCEPT ![q] = [paper[q] EXCEPT !.waited = 1]]
    BY <1>7 DEF Begin
  <2>2. q = p /\ paper'[p] = [paper[p] EXCEPT !.waited = 1]
    BY <1>4, <2>1
  <2> QED BY <1>7, <2>2, PaperRow DEF Paper
<1>8. ASSUME NEW q \in Papers, SubmitTool(q) PROVE FALSE
  <2>1. q # p
    BY <1>8 DEF SubmitTool
  <2>2. paper'[p] = paper[p]
    BY <1>8, <2>1 DEF SubmitTool, IInv, TypeOK
  <2> QED BY <2>2
<1> QED BY <1>1, <1>2, <1>3, <1>5, <1>6, <1>7, <1>8
        DEF StepKinds, Observe, Turn, CarryOut, Built, Matched, ReconcileBatch, Confirm

\* A submission goes through only on targets that no feed had turned against
\* for longer than one freshness period and one wait for the lock: a page, a
\* review and a wait each hand the age of the fact they rest on to the next
\* (build_*_review, submit_approved_*).
THEOREM SubmissionsRestOnRecentFacts == Spec => DispatchedOnRecentFacts
<1>1. ASSUME IInv, [Next]_vars
      PROVE  [\A p \in Papers :
                (paper'[p] # Unset /\ paper'[p].state = "USED" /\ paper[p].state # "USED") =>
                  \A r \in paper[p].reviews, f \in Feeds :
                    turned[f][review[r].target] <= Horizon]_vars
  <2>1. CASE UNCHANGED vars
    BY <2>1
  <2>2. ASSUME Next, NEW p \in Papers, paper'[p] # Unset, paper'[p].state = "USED",
               paper[p].state # "USED", NEW r \in paper[p].reviews, NEW f \in Feeds
        PROVE  turned[f][review[r].target] <= Horizon
    <3>1. Waiting(p)
      BY <1>1, <2>2, OnlySubmissionUses
    <3>2. turned[f][review[r].target] <= MaxAge + paper[p].waited - 1
      BY <1>1, <3>1 DEF IInv, WaitsAreRecent
    <3>3. paper[p] # Unset /\ paper[p].waited \in 0..WaitLimit + 1 /\ paper[p] \in Paper
      BY <1>1, <3>1, PaperRow DEF Waiting
    <3>4. r \in ReviewIds /\ review[r] # Unset
      BY <1>1, <2>2, <3>3 DEF IInv, PapersAreReviewed, Paper
    <3>5. turned[f][review[r].target] \in Int
      BY <1>1, <3>4, TargetsAre, LimitsAssumption DEF IInv, TypeOK, Horizon
    <3> QED BY <3>2, <3>3, <3>5, LimitsAssumption DEF Horizon
  <2> QED BY <1>1, <2>1, <2>2
<1> QED BY <1>1, SpecIInv, PTL DEF Spec, DispatchedOnRecentFacts

=============================================================================
