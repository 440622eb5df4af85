--------------------------- MODULE PurchaseOrders ---------------------------
(***************************************************************************)
(* One channel order: its routing to suppliers, the purchase orders this   *)
(* creates, their approval, renewal, submission and reconciliation, the    *)
(* cancellation that races all of them, and tracking                       *)
(* (packages/store_core/orders.py, order02.py, order03.py).                *)
(*                                                                         *)
(* Orders share nothing but the stop flag, so one order is modelled.       *)
(* There is one purchase order per supplier (idempotency key               *)
(* po:{order}:{supplier}), hence it is named by its supplier.  Routing     *)
(* decisions and purchase lines are written once and together; `route` is  *)
(* both.  A purchase order points at one approval command; the approvals   *)
(* of earlier rounds stay in the database and are never looked at again.   *)
(* `left` is the time to the approval's expires_at.                        *)
(***************************************************************************)
EXTENDS Naturals, FiniteSets

CONSTANTS
  Lines,         \* order lines
  Suppliers,     \* supplier ids, ordered as their strings are
  QuoteTables,   \* quote tables callers of propose_routing may bring
  NoSupplier,    \* a line that is not routed
  Callers,       \* concurrent calls of propose_routing
  People,        \* members who may hold the purchase capability
  NoPerson,      \* an approval nobody decided
  Tracks,        \* tracking key and status pairs that may be observed
  NoTrack,       \* tracking_key IS NULL
  ApprovalTime,  \* ttl of an approval, in clock ticks
  MaxPoVersion,  \* bound: renewals stop once a purchase order has this version
  MaxChanges     \* bound: stops, changes of capability, supersessions

Quote == [supplier : Suppliers, cost : Nat, enough : BOOLEAN]

ASSUME PurchaseAssumption ==
  /\ Lines # {}
  /\ IsFiniteSet(Lines)
  /\ IsFiniteSet(Tracks)
  /\ Suppliers \subseteq Nat
  /\ NoSupplier \notin Suppliers
  /\ QuoteTables \subseteq [Lines -> SUBSET Quote]
  /\ NoPerson \notin People
  /\ NoTrack \notin Tracks
  /\ ApprovalTime \in Nat \ {0}
  /\ MaxPoVersion \in Nat
  /\ MaxChanges \in Nat

VARIABLES
  order,     \* channel_orders row
  route,     \* supplier each line is routed to
  track,     \* tracking checkpoint and observations of each line
  po,        \* supplier_purchase_orders rows
  approval,  \* the approval each purchase order points at
  events,    \* outbox keys po:{id}:{status} already appended
  router,    \* what a call of propose_routing read before its transaction
  capable,   \* members who hold the purchase capability now
  stopped,   \* demo_stop_active for the order's channel
  changes    \* environment changes so far (model bound)

vars == <<order, route, track, po, approval, events, router, capable, stopped, changes>>
environment == <<capable, stopped, changes>>

OrderState == {"ABSENT", "ACCEPTED", "PO_PENDING", "EXCEPTION", "CANCELLED"}
PoState == {"ABSENT", "APPROVAL_PENDING", "APPROVED", "SUBMITTED", "ACKNOWLEDGED",
            "CANCEL_REQUESTED", "CANCELLED", "EXCEPTION"}
ApprovalState == {"ABSENT", "PENDING", "APPROVED", "REJECTED", "EXPIRED", "SUPERSEDED"}
Response == {"none", "ACKNOWLEDGED", "REJECTED"}

\* the tables, a row for each
Order == [status : OrderState, version : Nat]
Routes == [Lines -> Suppliers \cup {NoSupplier}]
LineTrack == [last : Tracks \cup {NoTrack}, seen : SUBSET Tracks, version : Nat]
Po == [status : PoState, version : Nat, response : Response]
Approval == [state : ApprovalState, left : Nat, by : People \cup {NoPerson}, target : Nat]

Router == [pc : {"idle", "routed", "unroutable"}, version : Nat, choice : Routes]

Unrouted == [l \in Lines |-> NoSupplier]
NoPo == [status |-> "ABSENT", version |-> 0, response |-> "none"]
NoApproval == [state |-> "ABSENT", left |-> 0, by |-> NoPerson, target |-> 0]
IdleRouter == [pc |-> "idle", version |-> 0, choice |-> Unrouted]

Init ==
  /\ order = [status |-> "ABSENT", version |-> 0]
  /\ route = Unrouted
  /\ track = [l \in Lines |-> [last |-> NoTrack, seen |-> {}, version |-> 0]]
  /\ po = [s \in Suppliers |-> NoPo]
  /\ approval = [s \in Suppliers |-> NoApproval]
  /\ events = [s \in Suppliers |-> {}]
  /\ router = [c \in Callers |-> IdleRouter]
  /\ capable = People
  /\ stopped = FALSE
  /\ changes = 0

-----------------------------------------------------------------------------
(* orders.py *)

\* ingest_order: the order, its lines and order.accepted in one transaction;
\* a replay of the same payload returns the stored order
IngestOrder ==
  /\ order.status = "ABSENT"
  /\ order' = [status |-> "ACCEPTED", version |-> 1]
  /\ UNCHANGED <<route, track, po, approval, events, router, environment>>

Existing == {s \in Suppliers : po[s].status # "ABSENT"}

Feasible(table, l) == {q \in table[l] : q.enough}

\* sorted by (cost, supplier), first
Cheapest(table, l) ==
  CHOOSE q \in Feasible(table, l) :
    \A r \in Feasible(table, l) :
      q.cost < r.cost \/ (q.cost = r.cost /\ q.supplier <= r.supplier)

\* propose_routing up to its transaction: checks and selection on unlocked reads
SelectSuppliers(c, table) ==
  LET unroutable == \E l \in Lines : Feasible(table, l) = {}
  IN  /\ router[c].pc = "idle"
      /\ order.status \in {"ACCEPTED", "PO_PENDING"}
      /\ Existing = {}
      /\ router' = [router EXCEPT ![c] =
           [pc |-> IF unroutable THEN "unroutable" ELSE "routed",
            version |-> order.version,
            choice |-> IF unroutable THEN Unrouted
                       ELSE [l \in Lines |-> Cheapest(table, l).supplier]]]
      /\ UNCHANGED <<order, route, track, po, approval, events, environment>>

\* Mutant of VersionHolds: the version read before the transaction is trusted.
VersionTrusted(c) == TRUE

\* the compare-and-set both transactions of propose_routing start with
VersionHolds(c) == order.version = router[c].version

\* propose_routing, no feasible quote
FailRouting(c) ==
  /\ router[c].pc = "unroutable"
  /\ VersionHolds(c)
  /\ order' = [status |-> "EXCEPTION", version |-> order.version + 1]
  /\ router' = [router EXCEPT ![c] = IdleRouter]
  /\ UNCHANGED <<route, track, po, approval, events, environment>>

NewApproval(version) ==
  [state |-> "PENDING", left |-> ApprovalTime, by |-> NoPerson, target |-> version]

\* save_purchase_order: an identity that is on record is left as it is
Opened(s) == IF po[s].status = "ABSENT"
               THEN [NoPo EXCEPT !.status = "APPROVAL_PENDING", !.version = 1] ELSE po[s]

\* update_purchase_order: every change of the row counts its version on
Moved(s, status) == [po[s] EXCEPT !.status = status, !.version = @ + 1]

\* propose_routing, one purchase order and one approval per supplier chosen
CommitRouting(c) ==
  LET chosen == {router[c].choice[l] : l \in Lines}
      version == order.version + 1
  IN  /\ router[c].pc = "routed"
      /\ VersionHolds(c)
      /\ order' = [status |-> "PO_PENDING", version |-> version]
      /\ route' = router[c].choice
      /\ track' = [l \in Lines |-> [track[l] EXCEPT !.version = @ + 1]]
      /\ po' = [s \in Suppliers |-> IF s \in chosen THEN Opened(s) ELSE po[s]]
      /\ approval' = [s \in Suppliers |->
           IF s \in chosen /\ po[s].status = "ABSENT" THEN NewApproval(version) ELSE approval[s]]
      /\ router' = [router EXCEPT ![c] = IdleRouter]
      /\ UNCHANGED <<events, environment>>

\* "order version conflict": the call raises
RoutingConflict(c) ==
  /\ router[c].pc # "idle"
  /\ ~VersionHolds(c)
  /\ router' = [router EXCEPT ![c] = IdleRouter]
  /\ UNCHANGED <<order, route, track, po, approval, events, environment>>

-----------------------------------------------------------------------------
(* order02.py *)

\* _verify_po; _routed_payload holds because routing is written once
Verified(s) ==
  /\ po[s].status = "APPROVAL_PENDING"
  /\ order.status = "PO_PENDING"
  /\ approval[s].state = "PENDING"
  /\ approval[s].target = order.version

\* the key po:{id}:{status} is unique in the outbox
KeyFree(s, status) == status \notin events[s]

\* Mutant of DecidedPo: a decision that came too late still moves the order.
DecidedPoLate(s, approve) == IF approve THEN "APPROVED" ELSE "CANCELLED"

DecidedPo(s, approve) ==
  CASE approval[s].left = 0 -> "APPROVAL_PENDING"
    [] approval[s].left > 0 /\ approve -> "APPROVED"
    [] approval[s].left > 0 /\ ~approve -> "CANCELLED"

\* approve_demo_po, which decide calls for a linked purchase: the approval,
\* the purchase order and the event change together, or an expiry is recorded
ApproveDemoPo(p, s, approve) ==
  LET status == DecidedPo(s, approve)
      verdict == IF approval[s].left = 0 THEN "EXPIRED"
                 ELSE IF approve THEN "APPROVED" ELSE "REJECTED"
  IN  /\ p \in capable
      /\ Verified(s)
      /\ verdict # "EXPIRED" => KeyFree(s, status)
      /\ approval' = [approval EXCEPT ![s].state = verdict,
                                      ![s].by = IF verdict = "EXPIRED" THEN @ ELSE p]
      /\ IF status = "APPROVAL_PENDING"
           THEN UNCHANGED <<po, events>>
           ELSE /\ po' = [po EXCEPT ![s] = Moved(s, status)]
                /\ events' = [events EXCEPT ![s] = @ \cup {status}]
      /\ UNCHANGED <<order, route, track, router, environment>>

\* _renewable
Renewable(s) ==
  \/ po[s].status = "CANCELLED" /\ approval[s].state \in {"REJECTED", "EXPIRED"}
  \/ po[s].status = "APPROVAL_PENDING" /\ (approval[s].state = "EXPIRED" \/ approval[s].left = 0)
  \/ po[s].status = "APPROVED" /\ approval[s].left = 0

\* Mutant of RenewalWanted: the order's state is not looked at.
RenewalWantedAlways == TRUE

RenewalWanted == order.status = "PO_PENDING"

\* regenerate_demo_po: a fresh approval under a key that carries the version
RegenerateDemoPo(s) ==
  /\ RenewalWanted
  /\ Renewable(s)
  /\ po[s].version < MaxPoVersion
  /\ approval' = [approval EXCEPT ![s] = NewApproval(order.version)]
  /\ po' = [po EXCEPT ![s] = Moved(s, "APPROVAL_PENDING")]
  /\ UNCHANGED <<order, route, track, events, router, environment>>

\* Mutant of Submittable: the approval is trusted as it was when it was given.
SubmittableOnceApproved(s) ==
  /\ po[s].status = "APPROVED"
  /\ ~stopped
  /\ order.status = "PO_PENDING"

\* submit_demo_po's checks, prepare_execution's among them
Submittable(s) ==
  /\ po[s].status = "APPROVED"
  /\ ~stopped
  /\ order.status = "PO_PENDING"
  /\ approval[s].state = "APPROVED"
  /\ approval[s].left > 0
  /\ approval[s].target = order.version
  /\ approval[s].by \in capable

SubmitDemoPo(s) ==
  /\ Submittable(s)
  /\ KeyFree(s, "SUBMITTED")
  /\ po' = [po EXCEPT ![s] = Moved(s, "SUBMITTED")]
  /\ events' = [events EXCEPT ![s] = @ \cup {"SUBMITTED"}]
  /\ UNCHANGED <<order, route, track, approval, router, environment>>

\* the first definite answer is recorded; the same again is a replay, another
\* one a conflict
Answerable(s) ==
  /\ po[s].status \in {"SUBMITTED", "ACKNOWLEDGED", "EXCEPTION"}
  /\ po[s].response = "none"

\* reconcile_demo_po; UNKNOWN leaves everything as it is
ReconcileDemoPo(s, answer) ==
  /\ Answerable(s)
  /\ po' = [po EXCEPT ![s] =
       [Moved(s, IF answer = "ACKNOWLEDGED" THEN "ACKNOWLEDGED" ELSE "EXCEPTION")
          EXCEPT !.response = answer]]
  /\ UNCHANGED <<order, route, track, approval, events, router, environment>>

-----------------------------------------------------------------------------
(* order03.py *)

CancelledPo(status) ==
  CASE status \in {"APPROVAL_PENDING", "APPROVED"} -> "CANCELLED"
    [] status \in {"SUBMITTED", "ACKNOWLEDGED"} -> "CANCEL_REQUESTED"
    [] OTHER -> status

\* the purchase orders a cancel_requested event is appended for
AskedToCancel(s) == po[s].status \in {"SUBMITTED", "ACKNOWLEDGED"}

\* request_demo_cancel; a repeated request finds the order CANCELLED
RequestDemoCancel ==
  /\ order.status = "PO_PENDING"
  /\ order' = [status |-> "CANCELLED", version |-> order.version + 1]
  /\ po' = [s \in Suppliers |->
       LET status == CancelledPo(po[s].status)
       IN  IF status = po[s].status THEN po[s] ELSE Moved(s, status)]
  /\ events' = [s \in Suppliers |->
       IF AskedToCancel(s) THEN events[s] \cup {"CANCEL_REQUESTED"} ELSE events[s]]
  /\ UNCHANGED <<route, track, approval, router, environment>>

\* save_tracking_observation and the line's checkpoint
Observed(l, t) == [last |-> t, seen |-> track[l].seen \cup {t}, version |-> track[l].version + 1]

\* ingest_demo_tracking; an observation that is on record is a replay
IngestDemoTracking(l, t) ==
  /\ route[l] # NoSupplier
  /\ order.status \in {"PO_PENDING", "CANCELLED"}
  /\ t \notin track[l].seen
  /\ track' = [track EXCEPT ![l] = Observed(l, t)]
  /\ UNCHANGED <<order, route, po, approval, events, router, environment>>

-----------------------------------------------------------------------------
(* The approval's own life, the operator and the clock *)

\* expire_due_approvals reaches the approval
ExpireApproval(s) ==
  /\ approval[s].state = "PENDING" /\ approval[s].left = 0
  /\ approval' = [approval EXCEPT ![s].state = "EXPIRED"]
  /\ UNCHANGED <<order, route, track, po, events, router, environment>>

Change == changes < MaxChanges /\ changes' = changes + 1

\* supersede, called for the purchase command itself
SupersedeApproval(s) ==
  /\ Change
  /\ approval[s].state \in {"PENDING", "APPROVED"}
  /\ approval' = [approval EXCEPT ![s].state = "SUPERSEDED"]
  /\ UNCHANGED <<order, route, track, po, events, router, capable, stopped>>

SetDemoStop ==
  /\ Change
  /\ stopped' = ~stopped
  /\ UNCHANGED <<order, route, track, po, approval, events, router, capable>>

\* change_member_roles, revoke_member, add_member
ChangeCapability(p) ==
  /\ Change
  /\ capable' = IF p \in capable THEN capable \ {p} ELSE capable \cup {p}
  /\ UNCHANGED <<order, route, track, po, approval, events, router, stopped>>

Tick ==
  /\ \E s \in Suppliers : approval[s].left > 0
  /\ approval' = [s \in Suppliers |->
       [approval[s] EXCEPT !.left = IF @ > 0 THEN @ - 1 ELSE 0]]
  /\ UNCHANGED <<order, route, track, po, events, router, environment>>

Route(c) ==
  \/ \E table \in QuoteTables : SelectSuppliers(c, table)
  \/ FailRouting(c) \/ CommitRouting(c) \/ RoutingConflict(c)

Purchase(s) ==
  \/ \E p \in People, approve \in BOOLEAN : ApproveDemoPo(p, s, approve)
  \/ RegenerateDemoPo(s)
  \/ SubmitDemoPo(s)
  \/ \E answer \in Response \ {"none"} : ReconcileDemoPo(s, answer)
  \/ ExpireApproval(s)
  \/ SupersedeApproval(s)

Next ==
  \/ IngestOrder
  \/ \E c \in Callers : Route(c)
  \/ \E s \in Suppliers : Purchase(s)
  \/ RequestDemoCancel
  \/ \E l \in Lines, t \in Tracks : IngestDemoTracking(l, t)
  \/ SetDemoStop
  \/ \E p \in People : ChangeCapability(p)
  \/ Tick

Spec == Init /\ [][Next]_vars

-----------------------------------------------------------------------------
(* Properties *)

\* The tables and what a routing call remembers keep their declared shape.
TypeOK ==
  /\ order \in Order
  /\ route \in Routes
  /\ track \in [Lines -> LineTrack]
  /\ po \in [Suppliers -> Po]
  /\ approval \in [Suppliers -> Approval]
  /\ events \in [Suppliers -> SUBSET PoState]
  /\ router \in [Callers -> Router]
  /\ capable \subseteq People
  /\ stopped \in BOOLEAN
  /\ changes \in Nat

\* However many calls route the order at once, with whatever quotes, it is
\* routed once and whole or not at all: purchase orders exist for exactly the
\* suppliers the lines went to, and only for an order that was routed
\* (propose_routing's compare-and-set around its unlocked reads).
RoutedOnce ==
  /\ Existing = {route[l] : l \in Lines} \ {NoSupplier}
  /\ \A l \in Lines : route[l] # NoSupplier <=> order.status \in {"PO_PENDING", "CANCELLED"}

\* The purchase order and the approval it points at tell one story, although
\* decisions, expiry, supersession, renewal and cancellation write them from
\* different places (approve_demo_po, regenerate_demo_po).
PoMatchesApproval ==
  \A s \in Existing : order.status = "PO_PENDING" =>
    CASE po[s].status = "APPROVAL_PENDING" -> approval[s].state \in {"PENDING", "EXPIRED", "SUPERSEDED"}
      [] po[s].status = "APPROVED" -> approval[s].state \in {"APPROVED", "SUPERSEDED"}
      [] po[s].status = "CANCELLED" -> approval[s].state = "REJECTED"
      [] OTHER -> approval[s].state \in {"APPROVED", "SUPERSEDED"} /\ approval[s].by \in People

\* Whatever reaches a supplier is covered at that moment: by an approval that
\* is good, unexpired and from somebody who may still give it, for an order
\* that still wants it, in a scope that is not stopped (submit_demo_po).
SubmittedOnCurrentApproval ==
  [][\A s \in Suppliers :
       po[s].status # "SUBMITTED" /\ po'[s].status = "SUBMITTED" =>
         /\ approval[s].state = "APPROVED" /\ approval[s].left > 0
         /\ approval[s].by \in capable
         /\ order.status = "PO_PENDING" /\ ~stopped]_vars

\* A cancelled order buys nothing: no purchase order of it is or becomes
\* submittable, whichever of approval, renewal, submission and answer the
\* cancellation overtook (request_demo_cancel).
CancelledBuysNothing ==
  order.status = "CANCELLED" =>
    \A s \in Existing : po[s].status \in {"CANCELLED", "CANCEL_REQUESTED", "EXCEPTION"}

\* "Issue a fresh purchase approval for a PO whose previous one was rejected or
\* expired": a purchase order whose approval is open and in time can be
\* approved by somebody with the capability.
RenewalIsUsable ==
  \A s \in Suppliers :
    Verified(s) /\ approval[s].left > 0 => KeyFree(s, DecidedPo(s, TRUE))
=============================================================================
