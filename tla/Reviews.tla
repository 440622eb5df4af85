------------------------------ MODULE Reviews ------------------------------
(***************************************************************************)
(* The offline review contracts (offline_tracking_contracts.py,            *)
(* offline_tracking_batch.py, offline_split_tracking.py,                   *)
(* offline_claim_contracts.py, offline_return_batch.py,                    *)
(* offline_listing_contracts.py, offline_catalog_contracts.py) and the     *)
(* bridges that bind a review to the approval gateway (tracking_gateway.py *)
(* and its siblings; a catalog review has none).                           *)
(*                                                                         *)
(* A review is built from dated observations of one or two feeds, is good  *)
(* for a bounded time, is put on an approval alone or in a batch, and is   *)
(* verified once more before the approved command is submitted.  The world *)
(* moves meanwhile: a claim arrives, an order is cancelled, a stock ends.  *)
(* Time is counted in ticks; the age of a fact, of a page and of a review  *)
(* is what the contracts compare.                                          *)
(*                                                                         *)
(* Abstracted: references, digests (a review is its slot, an approval      *)
(* names the reviews it was asked for), the fields of a listing body and   *)
(* the decision itself (Approvals.tla).  An approval runs out at any time  *)
(* (Lapse) instead of after its own term.                                  *)
(***************************************************************************)
EXTENDS Integers, FiniteSets

CONSTANTS
  Contracts,   \* the kinds of review explored, of the domain of FeedsOf
  Targets,     \* shipments, receipts or supplier items; the two items of a split order
  ReviewIds,   \* one for each review ever built
  Papers,      \* one for each approval ever asked for
  MaxAge,      \* max_age_seconds, in ticks
  WaitLimit,   \* the longest wait for the database lock, in ticks
  Unset

ASSUME LimitsAssumption == MaxAge \in Nat \ {0} /\ WaitLimit \in Nat

VARIABLES
  contract,    \* the kind of review followed
  turned,      \* turned[f][t]: 0, or 1 + the ticks since feed f turned against t
  done,        \* the targets the channel has carried out
  page,        \* page[f]: the last observation of feed f, or Unset
  review,      \* review[r]: the review built as r, or Unset
  paper,       \* paper[p]: the approval asked for as p, or Unset
  confirmed,   \* the reviews a read-back matched
  matched      \* the approvals whose result was reported as matched

vars == <<contract, turned, done, page, review, paper, confirmed, matched>>

\* the feeds each build reads
FeedsOf ==
  [dispatch |-> {"orders"},
   tracking |-> {"orders", "claims"},
   split    |-> {"orders", "claims"},
   return   |-> {"receipts", "withdrawals"},
   listing  |-> {"supplier", "policy"},
   catalog  |-> {"channel", "supplier"}]

\* the feed in which a target that was carried out no longer is in the state asked for
StatusFeed ==
  [dispatch |-> "orders", tracking |-> "orders", split |-> "orders", return |-> "receipts"]

Feeds == FeedsOf[contract]

\* a fact this old can be in no observation a submission may still rest on
Horizon == MaxAge + WaitLimit

\* what a feed held against targets when it was read, and which of them it showed taken
Page == [age : 0..MaxAge - 1, against : SUBSET Targets, taken : SUBSET Targets]

Review == [target : Targets, left : 0..MaxAge, phase : {"INITIAL", "FOLLOWUP"}]
Paper == [reviews : SUBSET ReviewIds, state : {"PENDING", "APPROVED", "CLOSED", "USED"},
          waited : 0..WaitLimit + 1]

ASSUME UnsetAssumption == Unset \notin Page /\ Unset \notin Review /\ Unset \notin Paper

Init ==
  /\ contract \in Contracts
  /\ turned = [f \in Feeds |-> [t \in Targets |-> 0]]
  /\ done = {}
  /\ page = [f \in Feeds |-> Unset]
  /\ review = [r \in ReviewIds |-> Unset]
  /\ paper = [p \in Papers |-> Unset]
  /\ confirmed = {}
  /\ matched = {}

-----------------------------------------------------------------------------
(* The world and its clock *)

Older(n) == IF n = 0 \/ n > Horizon THEN n ELSE n + 1

\* once a target is done, the feed of its status is against doing it again
ShowsDone(f) == contract \in DOMAIN StatusFeed /\ f = StatusFeed[contract]

\* a submission that was begun and is not yet through its transaction
Waiting(p) == paper[p] # Unset /\ paper[p].waited > 0

\* Time passes.  A page too old for any review is dropped; a transaction does
\* not wait for the lock beyond its limit.
Tick ==
  /\ \A p \in Papers : Waiting(p) => paper[p].waited <= WaitLimit
  /\ turned' = [f \in Feeds |-> [t \in Targets |-> Older(turned[f][t])]]
  /\ page' = [f \in Feeds |->
       IF page[f] = Unset \/ page[f].age + 1 = MaxAge THEN Unset
       ELSE [page[f] EXCEPT !.age = @ + 1]]
  /\ review' = [r \in ReviewIds |->
       IF review[r] = Unset \/ review[r].left = 0 THEN review[r]
       ELSE [review[r] EXCEPT !.left = @ - 1]]
  /\ paper' = [p \in Papers |->
       IF Waiting(p) THEN [paper[p] EXCEPT !.waited = @ + 1] ELSE paper[p]]
  /\ UNCHANGED <<contract, done, confirmed, matched>>

\* A claim, a cancellation, a withdrawal, an end of stock.
Turn(f, t) ==
  /\ turned[f][t] = 0
  /\ turned' = [turned EXCEPT ![f][t] = 1]
  /\ UNCHANGED <<contract, done, page, review, paper, confirmed, matched>>

\* The channel carries out one of the targets of a submitted command, alone, if
\* its state still is the one asked for; a reviewed change of the catalog is made
\* by hand.
CarryOut(t) ==
  /\ t \notin done
  /\ \A f \in Feeds : ShowsDone(f) => turned[f][t] = 0
  /\ \E r \in ReviewIds :
       /\ review[r] # Unset /\ review[r].target = t
       /\ \/ contract = "catalog"
          \/ \E p \in Papers : paper[p] # Unset /\ paper[p].state = "USED" /\ r \in paper[p].reviews
  /\ done' = done \cup {t}
  /\ turned' = [f \in Feeds |->
       IF ShowsDone(f) THEN [turned[f] EXCEPT ![t] = 1] ELSE turned[f]]
  /\ UNCHANGED <<contract, page, review, paper, confirmed, matched>>

\* A feed is read whole; only the follow-up of a split shipment asks which of the
\* items it holds back were taken.
Observe(f) ==
  /\ page' = [page EXCEPT ![f] =
       [age |-> 0, against |-> {t \in Targets : turned[f][t] > 0},
        taken |-> IF contract = "split" /\ ShowsDone(f) THEN done ELSE {}]]
  /\ UNCHANGED <<contract, turned, done, review, paper, confirmed, matched>>

-----------------------------------------------------------------------------
(* Building a review *)

\* what it would be if one of them were forgotten
ExpiryWithinSome(left) ==
  /\ \A f \in Feeds : page[f] # Unset
  /\ \E f \in Feeds : left <= MaxAge - page[f].age

\* An expiry must be within the freshness of every observation it rests on.
ExpiryWithin(left) ==
  \A f \in Feeds : page[f] # Unset /\ left <= MaxAge - page[f].age

\* No feed holds anything against the target.
InFavour(t) == \A f \in Feeds : page[f] # Unset /\ t \notin page[f].against

\* the review is made for what it is worth by then
Built(r, t, left, phase) ==
  /\ review[r] = Unset
  /\ ExpiryWithin(left)
  /\ review' = [review EXCEPT ![r] = [target |-> t, left |-> left, phase |-> phase]]
  /\ UNCHANGED <<contract, turned, done, page, paper, confirmed, matched>>

Build(r, t, left) == InFavour(t) /\ Built(r, t, left, "INITIAL")

\* build_naver_dispatch_review reads the order alone.
BuildDispatch(r, t, left) == contract = "dispatch" /\ Build(r, t, left)

\* build_coupang_tracking_review reads the order and the claims on its line.
BuildTracking(r, t, left) == contract = "tracking" /\ Build(r, t, left)

\* build_initial_split_review: both items wait, unclaimed; one of them, t, goes.
BuildSplit(r, t, left) ==
  contract = "split" /\ (\A u \in Targets : InFavour(u)) /\ Build(r, t, left)

\* build_followup_split_review: the item of an initial review was taken, and t,
\* which it deferred, still waits; no claim on either.
BuildFollowup(r, t, left, prior) ==
  /\ contract = "split"
  /\ review[prior] # Unset /\ review[prior].phase = "INITIAL"
  /\ LET sent == review[prior].target
     IN  /\ InFavour(t)
         /\ sent \in page["orders"].taken /\ sent \notin page["claims"].against
  /\ Built(r, t, left, "FOLLOWUP")

\* build_coupang_return_review reads the receipt and the withdrawals.
BuildReturn(r, t, left) == contract = "return" /\ Build(r, t, left)

\* build_coupang_listing_review reads the supplier's row under a dated policy.
BuildListing(r, t, left) == contract = "listing" /\ Build(r, t, left)

\* build_coupang_catalog_review reads the item on sale and the supplier's row.
BuildCatalog(r, t, left) == contract = "catalog" /\ Build(r, t, left)

-----------------------------------------------------------------------------
(* From a review to a submitted command *)

\* Each review is within its time (verify_*).
Verified(rs) == \A r \in rs : review[r] # Unset /\ review[r].left > 0

TargetsOf(rs) == {review[r].target : r \in rs}

\* A batch is of reviews in time that name no target twice.
Composed(rs) ==
  /\ rs # {} /\ Verified(rs)
  /\ Cardinality(TargetsOf(rs)) = Cardinality(rs)

\* An approval is asked for that names these reviews and no other.
Request(p, rs) ==
  /\ paper[p] = Unset
  /\ paper' = [paper EXCEPT ![p] = [reviews |-> rs, state |-> "PENDING", waited |-> 0]]
  /\ UNCHANGED <<contract, turned, done, page, review, confirmed, matched>>

\* request_tracking_approval
RequestTracking(p, r) ==
  contract \in {"dispatch", "tracking"} /\ Verified({r}) /\ Request(p, {r})

\* request_tracking_batch_approval
RequestTrackingBatch(p, rs) ==
  contract \in {"dispatch", "tracking"} /\ Composed(rs) /\ Request(p, rs)

\* request_split_tracking_approval, of either phase
RequestSplit(p, r) == contract = "split" /\ Verified({r}) /\ Request(p, {r})

\* request_return_approval
RequestReturn(p, r) == contract = "return" /\ Verified({r}) /\ Request(p, {r})

\* request_return_batch_approval
RequestReturnBatch(p, rs) == contract = "return" /\ Composed(rs) /\ Request(p, rs)

\* request_listing_approval
RequestListing(p, r) == contract = "listing" /\ Verified({r}) /\ Request(p, {r})

\* An owner approves, or closes by rejection.
Decide(p, s) ==
  /\ paper[p] # Unset /\ paper[p].state = "PENDING" /\ s \in {"APPROVED", "CLOSED"}
  /\ paper' = [paper EXCEPT ![p].state = s]
  /\ UNCHANGED <<contract, turned, done, page, review, confirmed, matched>>

\* The approval's own term ends.
Lapse(p) ==
  /\ paper[p] # Unset /\ paper[p].state \in {"PENDING", "APPROVED"}
  /\ paper' = [paper EXCEPT ![p].state = "CLOSED"]
  /\ UNCHANGED <<contract, turned, done, page, review, confirmed, matched>>

\* A submission has verified what it carries against the clock and goes on to
\* its transaction.
Begin(p) ==
  /\ ~Waiting(p)
  /\ paper' = [paper EXCEPT ![p].waited = 1]
  /\ UNCHANGED <<contract, turned, done, page, review, confirmed, matched>>

\* the single review, or a batch rebuilt from its members
Single(p) == paper[p] # Unset /\ Cardinality(paper[p].reviews) = 1 /\ Verified(paper[p].reviews)
Rebuilt(p) == paper[p] # Unset /\ Composed(paper[p].reviews)

\* submit_approved_tracking
SubmitTracking(p) == contract \in {"dispatch", "tracking"} /\ Single(p) /\ Begin(p)

\* submit_approved_tracking_batch
SubmitTrackingBatch(p) == contract \in {"dispatch", "tracking"} /\ Rebuilt(p) /\ Begin(p)

\* submit_approved_split_tracking
SubmitSplit(p) == contract = "split" /\ Single(p) /\ Begin(p)

\* submit_approved_return
SubmitReturn(p) == contract = "return" /\ Single(p) /\ Begin(p)

\* submit_approved_return_batch
SubmitReturnBatch(p) == contract = "return" /\ Rebuilt(p) /\ Begin(p)

\* submit_approved_listing
SubmitListing(p) == contract = "listing" /\ Single(p) /\ Begin(p)

\* submit_demo_tool uses an approval that stands, once, or is blocked.
SubmitTool(p) ==
  /\ Waiting(p)
  /\ paper' = [paper EXCEPT ![p].waited = 0,
       ![p].state = IF @ = "APPROVED" THEN "USED" ELSE @]
  /\ UNCHANGED <<contract, turned, done, page, review, confirmed, matched>>

-----------------------------------------------------------------------------
(* Reading the result *)

\* what it would be if the members left out were not missed
CoversSome(rows, rs) == rows \subseteq rs /\ rows # {}

\* A result counts for a batch if it covers every member and nothing else.
Covers(rows, rs) == rows = rs

\* A submitted command's response lists the targets the channel took.
Response(p, rows) == paper[p] # Unset /\ paper[p].state = "USED" /\ rows \subseteq done

Matched(p) ==
  /\ matched' = matched \cup {p}
  /\ UNCHANGED <<contract, turned, done, page, review, paper, confirmed>>

\* interpret_*_fixture: the one target, or reconciliation is asked for
Interpret(p, rows) ==
  /\ contract \in {"dispatch", "tracking"}
  /\ Response(p, rows) /\ Cardinality(paper[p].reviews) = 1
  /\ Covers(rows, TargetsOf(paper[p].reviews))
  /\ Matched(p)

\* interpret_tracking_batch: each member, once
InterpretBatch(p, rows) ==
  /\ contract \in {"dispatch", "tracking"}
  /\ Response(p, rows)
  /\ Covers(rows, TargetsOf(paper[p].reviews))
  /\ Matched(p)

\* An accepted response, and a read-back that shows the target completed while
\* the review still lasts.
ShownDone(r) ==
  /\ Verified({r})
  /\ \E p \in Papers : Response(p, {review[r].target}) /\ r \in paper[p].reviews

Confirm(r) ==
  /\ r \notin confirmed
  /\ confirmed' = confirmed \cup {r}
  /\ UNCHANGED <<contract, turned, done, page, review, paper, matched>>

\* reconcile_return_fixture: the receipt is read again.
ReconcileReturn(r) == contract = "return" /\ ShownDone(r) /\ Confirm(r)

\* reconcile_listing_fixture: the created listing is read back, field by field.
ListingShown(r) == contract = "listing" /\ ShownDone(r)

\* reconcile_approved_listing: in time, and as reviewed
ReconcileListing(r) == Verified({r}) /\ ListingShown(r) /\ Confirm(r)

\* the item reads back on sale with the proposed value
ItemShown(r) ==
  LET t == review[r].target
  IN  t \in done /\ turned["channel"][t] = 0

\* reconcile_catalog_fixture: however late
ReconcileCatalog(r) ==
  contract = "catalog" /\ review[r] # Unset /\ ItemShown(r) /\ Confirm(r)

\* reconcile_return_batch: the caller brings one result for each receipt.
ReconcileBatch(p, results) ==
  /\ contract = "return"
  /\ Response(p, {}) /\ results \subseteq confirmed
  /\ Covers(TargetsOf(results), TargetsOf(paper[p].reviews))
  /\ Matched(p)

Next ==
  \/ Tick
  \/ \E f \in Feeds : Observe(f) \/ \E t \in Targets : Turn(f, t)
  \/ \E t \in Targets : CarryOut(t)
  \/ \E r \in ReviewIds, t \in Targets, left \in 1..MaxAge :
       \/ BuildDispatch(r, t, left)
       \/ BuildTracking(r, t, left)
       \/ BuildSplit(r, t, left)
       \/ BuildReturn(r, t, left)
       \/ BuildListing(r, t, left)
       \/ BuildCatalog(r, t, left)
       \/ \E prior \in ReviewIds : BuildFollowup(r, t, left, prior)
  \/ \E p \in Papers :
       \/ \E r \in ReviewIds :
            RequestTracking(p, r) \/ RequestSplit(p, r) \/ RequestReturn(p, r) \/ RequestListing(p, r)
       \/ \E rs \in SUBSET ReviewIds : RequestTrackingBatch(p, rs) \/ RequestReturnBatch(p, rs)
       \/ \E s \in {"APPROVED", "CLOSED"} : Decide(p, s)
       \/ Lapse(p)
       \/ SubmitTracking(p) \/ SubmitTrackingBatch(p)
       \/ SubmitSplit(p)
       \/ SubmitReturn(p) \/ SubmitReturnBatch(p)
       \/ SubmitListing(p)
       \/ SubmitTool(p)
       \/ \E rows \in SUBSET Targets : Interpret(p, rows) \/ InterpretBatch(p, rows)
       \/ \E results \in SUBSET ReviewIds : ReconcileBatch(p, results)
  \/ \E r \in ReviewIds : ReconcileReturn(r) \/ ReconcileListing(r) \/ ReconcileCatalog(r)

Spec == Init /\ [][Next]_vars

-----------------------------------------------------------------------------
(* Properties *)

\* Every value keeps its declared shape.
TypeOK ==
  /\ contract \in Contracts
  /\ turned \in [Feeds -> [Targets -> 0..Horizon + 1]]
  /\ done \subseteq Targets
  /\ page \in [Feeds -> Page \cup {Unset}]
  /\ review \in [ReviewIds -> Review \cup {Unset}]
  /\ paper \in [Papers -> Paper \cup {Unset}]
  /\ confirmed \subseteq ReviewIds
  /\ matched \subseteq Papers

\* A submission goes through only on targets that no feed had turned against
\* for longer than one freshness period and one wait for the lock, however
\* long the decision took and whichever member of a batch is the oldest
\* (submit_approved_*: the approval lives a day, a review at most an hour).
DispatchedOnRecentFacts ==
  [][\A p \in Papers :
       (paper'[p] # Unset /\ paper'[p].state = "USED" /\ paper[p].state # "USED") =>
         \A r \in paper[p].reviews, f \in Feeds : turned[f][review[r].target] <= Horizon]_vars

\* A result reported as matched means that the channel carried out every
\* member, also when it carried out a batch in part (interpret_tracking_batch,
\* reconcile_return_batch: "never infer a refund").
MatchedIsDone ==
  \A p \in matched : TargetsOf(paper[p].reviews) \subseteq done
=============================================================================
