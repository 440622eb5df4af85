------------------------ MODULE PurchaseOrdersProofs ------------------------
(***************************************************************************)
(* TLAPS proofs about PurchaseOrders, for every set of lines, suppliers,   *)
(* quote tables, callers and people, and every value of the bounds.        *)
(***************************************************************************)
EXTENDS PurchaseOrders, WellFoundedInduction, TLAPS

-----------------------------------------------------------------------------
(* The cheapest quote *)

\* A set of costs has a least one.
LEMMA LeastNat ==
  ASSUME NEW T, T \subseteq Nat, T # {}
  PROVE  \E m \in T : \A n \in T : m <= n
<1> DEFINE R == {ss \in Nat \X Nat : ss[1] < ss[2]}
<1>1. IsWellFoundedOn(R, Nat)
  BY NatLessThanWellFounded DEF OpToRel
<1>2. PICK m \in T : \A n \in T : ~(<<n, m>> \in R)
  <2> HIDE DEF R
  <2> QED BY <1>1, WFMin
<1>3. ASSUME NEW n \in T PROVE m <= n
  <2>1. m \in Nat /\ n \in Nat /\ <<n, m>> \notin R
    BY <1>2
  <2>2. <<n, m>> \in Nat \X Nat /\ <<n, m>>[1] = n /\ <<n, m>>[2] = m
    BY <2>1
  <2>3. ~(n < m)
    BY <2>1, <2>2
  <2> QED BY <2>1, <2>3
<1> QED BY <1>2, <1>3

\* The quote that propose_routing selects is one of the feasible ones, and no
\* feasible quote is cheaper.
LEMMA CheapestIsFeasible ==
  ASSUME NEW table \in QuoteTables, NEW l \in Lines, Feasible(table, l) # {}
  PROVE  /\ Cheapest(table, l) \in Feasible(table, l)
         /\ Cheapest(table, l).supplier \in Suppliers
         /\ \A q \in Feasible(table, l) : Cheapest(table, l).cost <= q.cost
<1> DEFINE F == Feasible(table, l)
           costs == {q.cost : q \in F}
<1>1. F \subseteq Quote
  BY PurchaseAssumption DEF Feasible
<1>2. costs \subseteq Nat /\ costs # {}
  BY <1>1 DEF Quote
<1>3. PICK m \in costs : \A n \in costs : m <= n
  <2> HIDE DEF costs
  <2> QED BY <1>2, LeastNat
<1> DEFINE cheap == {q.supplier : q \in {r \in F : r.cost = m}}
<1>4. cheap \subseteq Nat /\ cheap # {}
  <2>1. PICK r \in F : r.cost = m
    BY <1>3
  <2>2. r.supplier \in cheap
    BY <2>1
  <2>3. \A q \in F : q.supplier \in Nat
    BY <1>1, PurchaseAssumption DEF Quote
  <2> QED BY <2>2, <2>3
<1>5. PICK s \in cheap : \A n \in cheap : s <= n
  <2> HIDE DEF cheap
  <2> QED BY <1>4, LeastNat
<1>6. PICK q \in F : q.cost = m /\ q.supplier = s
  BY <1>5
<1>7. \A r \in F : q.cost < r.cost \/ (q.cost = r.cost /\ q.supplier <= r.supplier)
  <2> TAKE r \in F
  <2>1. m <= r.cost /\ m \in Nat /\ r.cost \in Nat
    BY <1>1, <1>2, <1>3 DEF Quote
  <2>2. r.cost = m => s <= r.supplier
    BY <1>5
  <2> QED BY <1>6, <2>1, <2>2
<1>8. Cheapest(table, l) \in F
      /\ \A r \in F : \/ Cheapest(table, l).cost < r.cost
                      \/ Cheapest(table, l).cost = r.cost
  <2> HIDE DEF F, costs, cheap
  <2> QED BY <1>6, <1>7 DEF Cheapest, F
<1> QED BY <1>1, <1>8 DEF Quote

-----------------------------------------------------------------------------
(* Rows *)

LEMMA MovedType ==
  ASSUME po \in [Suppliers -> Po], NEW s \in Suppliers, NEW status \in PoState
  PROVE  /\ Moved(s, status) \in Po
         /\ Moved(s, status).status = status
         /\ Moved(s, status).response = po[s].response
<1>1. po[s] \in Po /\ po[s].version + 1 \in Nat
  BY DEF Po
<1> QED BY <1>1 DEF Moved, Po

LEMMA OpenedType ==
  ASSUME po \in [Suppliers -> Po], NEW s \in Suppliers
  PROVE  /\ Opened(s) \in Po
         /\ po[s].status = "ABSENT" =>
              Opened(s).status = "APPROVAL_PENDING" /\ Opened(s).response = "none"
         /\ po[s].status # "ABSENT" => Opened(s) = po[s]
BY DEF Opened, Po, NoPo, PoState, Response

LEMMA NewApprovalType == ASSUME NEW v \in Nat PROVE NewApproval(v) \in Approval
BY PurchaseAssumption DEF NewApproval, Approval, ApprovalState

LEMMA DecidedPoType ==
  ASSUME approval \in [Suppliers -> Approval], NEW s \in Suppliers, NEW approve \in BOOLEAN
  PROVE  \/ approval[s].left = 0 /\ DecidedPo(s, approve) = "APPROVAL_PENDING"
         \/ approval[s].left > 0 /\ approve /\ DecidedPo(s, approve) = "APPROVED"
         \/ approval[s].left > 0 /\ ~approve /\ DecidedPo(s, approve) = "CANCELLED"
<1>1. approval[s].left \in Nat
  BY DEF Approval
<1>2. CASE approval[s].left = 0
  <2>1. ~(approval[s].left > 0)
    BY <1>2
  <2> QED BY <1>2, <2>1 DEF DecidedPo
<1>3. CASE approval[s].left > 0 /\ approve
  <2>1. approval[s].left # 0
    BY <1>1, <1>3
  <2> QED BY <1>3, <2>1 DEF DecidedPo
<1>4. CASE approval[s].left > 0 /\ ~approve
  <2>1. approval[s].left # 0
    BY <1>1, <1>4
  <2> QED BY <1>4, <2>1 DEF DecidedPo
<1> QED BY <1>1, <1>2, <1>3, <1>4

\* What a cancellation makes of the state of a purchase order.
LEMMA CancelledPoValue ==
  ASSUME NEW status \in PoState
  PROVE  /\ CancelledPo(status) \in PoState
         /\ status \in {"APPROVAL_PENDING", "APPROVED"} => CancelledPo(status) = "CANCELLED"
         /\ status \in {"SUBMITTED", "ACKNOWLEDGED"} => CancelledPo(status) = "CANCEL_REQUESTED"
         /\ status \in {"ABSENT", "CANCEL_REQUESTED", "CANCELLED", "EXCEPTION"} =>
              CancelledPo(status) = status
BY DEF CancelledPo, PoState

-----------------------------------------------------------------------------
(* Type correctness *)

LEMMA InitType == Init => TypeOK
<1> SUFFICES ASSUME Init PROVE TypeOK
  OBVIOUS
<1>1. Unrouted \in Routes
  BY DEF Unrouted, Routes
<1>2. NoPo \in Po /\ NoApproval \in Approval
  BY DEF NoPo, NoApproval, Po, Approval, PoState, ApprovalState, Response
<1>3. IdleRouter \in Router
  BY <1>1 DEF IdleRouter, Router
<1>4. order \in Order
  BY DEF Init, Order, OrderState
<1>5. track \in [Lines -> LineTrack]
  BY DEF Init, LineTrack
<1> QED BY <1>1, <1>2, <1>3, <1>4, <1>5 DEF Init, TypeOK

LEMMA RouteType == ASSUME TypeOK, NEW c \in Callers, Route(c) PROVE TypeOK'
<1>0. /\ Unrouted \in Routes /\ IdleRouter \in Router
      /\ order \in Order /\ router[c] \in Router /\ order.version + 1 \in Nat
  BY DEF TypeOK, Unrouted, Routes, IdleRouter, Router, Order
<1>1. ASSUME NEW table \in QuoteTables, SelectSuppliers(c, table) PROVE TypeOK'
  <2> DEFINE unroutable == \E l \in Lines : Feasible(table, l) = {}
             new == [pc |-> IF unroutable THEN "unroutable" ELSE "routed",
                     version |-> order.version,
                     choice |-> IF unroutable THEN Unrouted
                                ELSE [l \in Lines |-> Cheapest(table, l).supplier]]
  <2>1. ~unroutable => [l \in Lines |-> Cheapest(table, l).supplier] \in Routes
    BY CheapestIsFeasible DEF Routes
  <2>2. new \in Router
    BY <1>0, <2>1 DEF Router, Order
  <2>3. router' = [router EXCEPT ![c] = new]
    BY <1>1 DEF SelectSuppliers
  <2> HIDE DEF new
  <2> QED BY <1>1, <2>2, <2>3 DEF SelectSuppliers, TypeOK, environment
<1>2. CASE FailRouting(c)
  BY <1>0, <1>2 DEF FailRouting, TypeOK, environment, Order, OrderState
<1>3. CASE CommitRouting(c)
  <2>1. order' \in Order
    BY <1>0, <1>3 DEF CommitRouting, Order, OrderState
  <2>2. route' \in Routes
    BY <1>0, <1>3 DEF CommitRouting, Router
  <2>3. track' \in [Lines -> LineTrack]
    <3>1. \A l \in Lines : [track[l] EXCEPT !.version = @ + 1] \in LineTrack
      BY DEF TypeOK, LineTrack
    <3>2. track' = [l \in Lines |-> [track[l] EXCEPT !.version = @ + 1]]
      BY <1>3 DEF CommitRouting
    <3> QED BY <3>1, <3>2
  <2>4. po' \in [Suppliers -> Po]
    BY <1>3, OpenedType DEF CommitRouting, TypeOK
  <2>5. approval' \in [Suppliers -> Approval]
    BY <1>0, <1>3, NewApprovalType DEF CommitRouting, TypeOK
  <2>6. router' \in [Callers -> Router]
    BY <1>0, <1>3 DEF CommitRouting, TypeOK
  <2> QED BY <1>3, <2>1, <2>2, <2>3, <2>4, <2>5, <2>6 DEF CommitRouting, TypeOK, environment
<1>4. CASE RoutingConflict(c)
  BY <1>0, <1>4 DEF RoutingConflict, TypeOK, environment
<1> QED BY <1>1, <1>2, <1>3, <1>4 DEF Route

LEMMA PurchaseType == ASSUME TypeOK, NEW s \in Suppliers, Purchase(s) PROVE TypeOK'
<1>0. po[s] \in Po /\ approval[s] \in Approval /\ order \in Order
  BY DEF TypeOK
<1>1. ASSUME NEW p \in People, NEW approve \in BOOLEAN, ApproveDemoPo(p, s, approve)
      PROVE  TypeOK'
  <2> DEFINE status == DecidedPo(s, approve)
             verdict == IF approval[s].left = 0 THEN "EXPIRED"
                        ELSE IF approve THEN "APPROVED" ELSE "REJECTED"
             row == [approval[s] EXCEPT !.state = verdict,
                                        !.by = IF verdict = "EXPIRED" THEN @ ELSE p]
  <2>1. status \in PoState
    BY DecidedPoType DEF TypeOK, PoState
  <2>2. verdict \in ApprovalState
    BY DEF ApprovalState
  <2>3. row \in Approval
    <3> HIDE DEF verdict
    <3> QED BY <1>0, <2>2 DEF Approval
  <2>4. approval' = [approval EXCEPT ![s] = row]
    BY <1>1 DEF ApproveDemoPo, TypeOK
  <2>5. \/ UNCHANGED <<po, events>>
        \/ /\ po' = [po EXCEPT ![s] = Moved(s, status)]
           /\ events' = [events EXCEPT ![s] = @ \cup {status}]
    BY <1>1 DEF ApproveDemoPo
  <2>6. Moved(s, status) \in Po
    BY <2>1, MovedType DEF TypeOK
  <2> HIDE DEF row, status
  <2>7. approval' \in [Suppliers -> Approval]
    BY <2>3, <2>4 DEF TypeOK
  <2>8. po' \in [Suppliers -> Po] /\ events' \in [Suppliers -> SUBSET PoState]
    BY <2>1, <2>5, <2>6 DEF TypeOK
  <2> QED BY <1>1, <2>7, <2>8 DEF ApproveDemoPo, TypeOK, environment
<1>2. CASE RegenerateDemoPo(s)
  <2>1. Moved(s, "APPROVAL_PENDING") \in Po
    BY MovedType DEF TypeOK, PoState
  <2>2. NewApproval(order.version) \in Approval
    BY <1>0, NewApprovalType DEF Order
  <2> QED BY <1>2, <2>1, <2>2 DEF RegenerateDemoPo, TypeOK, environment
<1>3. CASE SubmitDemoPo(s)
  <2>1. Moved(s, "SUBMITTED") \in Po /\ "SUBMITTED" \in PoState
    BY MovedType DEF TypeOK, PoState
  <2> QED BY <1>3, <2>1 DEF SubmitDemoPo, TypeOK, environment
<1>4. ASSUME NEW answer \in Response \ {"none"}, ReconcileDemoPo(s, answer) PROVE TypeOK'
  <2> DEFINE to == IF answer = "ACKNOWLEDGED" THEN "ACKNOWLEDGED" ELSE "EXCEPTION"
  <2>1. Moved(s, to) \in Po
    BY MovedType DEF TypeOK, PoState
  <2>2. [Moved(s, to) EXCEPT !.response = answer] \in Po
    <3> HIDE DEF to
    <3> QED BY <2>1 DEF Po
  <2> QED BY <1>4, <2>2 DEF ReconcileDemoPo, TypeOK, environment
<1>5. CASE ExpireApproval(s)
  <2>1. [approval[s] EXCEPT !.state = "EXPIRED"] \in Approval
    BY <1>0 DEF Approval, ApprovalState
  <2> QED BY <1>5, <2>1 DEF ExpireApproval, TypeOK, environment
<1>6. CASE SupersedeApproval(s)
  <2>1. [approval[s] EXCEPT !.state = "SUPERSEDED"] \in Approval
    BY <1>0 DEF Approval, ApprovalState
  <2> QED BY <1>6, <2>1 DEF SupersedeApproval, Change, TypeOK
<1> QED BY <1>1, <1>2, <1>3, <1>4, <1>5, <1>6 DEF Purchase

LEMMA NextType == TypeOK /\ [Next]_vars => TypeOK'
<1> SUFFICES ASSUME TypeOK, [Next]_vars PROVE TypeOK'
  OBVIOUS
<1>1. CASE IngestOrder
  BY <1>1 DEF IngestOrder, TypeOK, environment, Order, OrderState
<1>2. ASSUME NEW c \in Callers, Route(c) PROVE TypeOK'
  BY <1>2, RouteType
<1>3. ASSUME NEW s \in Suppliers, Purchase(s) PROVE TypeOK'
  BY <1>3, PurchaseType
<1>4. CASE RequestDemoCancel
  <2>1. order' \in Order
    BY <1>4 DEF RequestDemoCancel, TypeOK, Order, OrderState
  <2>2. \A s \in Suppliers : Moved(s, CancelledPo(po[s].status)) \in Po
    BY MovedType, CancelledPoValue DEF TypeOK, Po
  <2>3. po' \in [Suppliers -> Po]
    BY <1>4, <2>2 DEF RequestDemoCancel, TypeOK
  <2>4. events' \in [Suppliers -> SUBSET PoState]
    BY <1>4 DEF RequestDemoCancel, TypeOK, PoState
  <2> QED BY <1>4, <2>1, <2>3, <2>4 DEF RequestDemoCancel, TypeOK, environment
<1>5. ASSUME NEW l \in Lines, NEW t \in Tracks, IngestDemoTracking(l, t) PROVE TypeOK'
  <2>1. Observed(l, t) \in LineTrack
    BY DEF Observed, TypeOK, LineTrack
  <2> QED BY <1>5, <2>1 DEF IngestDemoTracking, TypeOK, environment
<1>6. CASE SetDemoStop
  BY <1>6 DEF SetDemoStop, Change, TypeOK
<1>7. ASSUME NEW p \in People, ChangeCapability(p) PROVE TypeOK'
  BY <1>7 DEF ChangeCapability, Change, TypeOK
<1>8. CASE Tick
  <2>1. \A s \in Suppliers :
          [approval[s] EXCEPT !.left = IF @ > 0 THEN @ - 1 ELSE 0] \in Approval
    BY DEF TypeOK, Approval
  <2> QED BY <1>8, <2>1 DEF Tick, TypeOK, environment
<1>9. CASE UNCHANGED vars
  BY <1>9 DEF vars, TypeOK
<1> QED BY <1>1, <1>2, <1>3, <1>4, <1>5, <1>6, <1>7, <1>8, <1>9 DEF Next

\* Order, routing, purchase orders, approvals and what propose_routing and the
\* others read before they write keep their declared shape (order02.py, order03.py).
THEOREM TypeCorrect == Spec => []TypeOK
BY InitType, NextType, PTL DEF Spec

-----------------------------------------------------------------------------
(* The inductive invariant *)

\* An order that does not exist has never been written.
AbsentIsUnwritten == order.status = "ABSENT" => order.version = 0

\* A routing call read a version the order has had, and if it still has that
\* version it still is the order the call saw, accepted and not routed.
RouterReads ==
  \A c \in Callers :
    router[c].pc # "idle" =>
      /\ router[c].version <= order.version
      /\ router[c].version = order.version => order.status = "ACCEPTED"
      /\ router[c].pc = "routed" => \A l \in Lines : router[c].choice[l] \in Suppliers

\* A purchase order that failed was answered, so no answer reopens it.
ExceptionIsAnswered == \A s \in Suppliers : po[s].status = "EXCEPTION" => po[s].response # "none"

IInv ==
  /\ TypeOK
  /\ AbsentIsUnwritten
  /\ RouterReads
  /\ ExceptionIsAnswered
  /\ RoutedOnce
  /\ PoMatchesApproval
  /\ CancelledBuysNothing

\* What PoMatchesApproval says of one purchase order and its approval.
OneStory(c, a) ==
  /\ c.status = "APPROVAL_PENDING" => a.state \in {"PENDING", "EXPIRED", "SUPERSEDED"}
  /\ c.status = "APPROVED" => a.state \in {"APPROVED", "SUPERSEDED"}
  /\ c.status = "CANCELLED" => a.state = "REJECTED"
  /\ c.status \notin {"APPROVAL_PENDING", "APPROVED", "CANCELLED"} =>
       a.state \in {"APPROVED", "SUPERSEDED"} /\ a.by \in People

LEMMA OneStoryEach ==
  PoMatchesApproval <=>
    (order.status = "PO_PENDING" => \A s \in Existing : OneStory(po[s], approval[s]))
<1>1. ASSUME NEW s
      PROVE  OneStory(po[s], approval[s]) <=>
               CASE po[s].status = "APPROVAL_PENDING" -> approval[s].state \in {"PENDING", "EXPIRED", "SUPERSEDED"}
                 [] po[s].status = "APPROVED" -> approval[s].state \in {"APPROVED", "SUPERSEDED"}
                 [] po[s].status = "CANCELLED" -> approval[s].state = "REJECTED"
                 [] OTHER -> approval[s].state \in {"APPROVED", "SUPERSEDED"} /\ approval[s].by \in People
  <2>1. CASE po[s].status = "APPROVAL_PENDING"
    BY <2>1 DEF OneStory
  <2>2. CASE po[s].status = "APPROVED"
    BY <2>2 DEF OneStory
  <2>3. CASE po[s].status = "CANCELLED"
    BY <2>3 DEF OneStory
  <2>4. CASE po[s].status \notin {"APPROVAL_PENDING", "APPROVED", "CANCELLED"}
    BY <2>4 DEF OneStory
  <2> QED BY <2>1, <2>2, <2>3, <2>4
<1> QED BY <1>1 DEF PoMatchesApproval

LEMMA OneStoryThen ==
  ASSUME order'.status = "PO_PENDING" => \A s \in Existing' : OneStory(po'[s], approval'[s])
  PROVE  PoMatchesApproval'
<1>1. (order.status = "PO_PENDING" => \A s \in Existing : OneStory(po[s], approval[s]))'
        => PoMatchesApproval'
  BY OneStoryEach, PTL
<1> QED BY <1>1 DEF OneStory

-----------------------------------------------------------------------------
(* Routing *)

\* An order that is accepted has no purchase order and no line routed.
LEMMA AcceptedIsUnrouted ==
  ASSUME IInv, order.status \notin {"PO_PENDING", "CANCELLED"}
  PROVE  Existing = {} /\ \A l \in Lines : route[l] = NoSupplier
BY DEF IInv, RoutedOnce

\* A routed order has one.
LEMMA RoutedHasPo ==
  ASSUME IInv, order.status \in {"PO_PENDING", "CANCELLED"}
  PROVE  Existing # {}
<1>1. PICK l \in Lines : TRUE
  BY PurchaseAssumption
<1> QED BY <1>1 DEF IInv, RoutedOnce

LEMMA SelectKeeps ==
  ASSUME IInv, NEW c \in Callers, NEW table \in QuoteTables, SelectSuppliers(c, table)
  PROVE  IInv'
<1> DEFINE unroutable == \E l \in Lines : Feasible(table, l) = {}
           choice == [l \in Lines |-> Cheapest(table, l).supplier]
           new == [pc |-> IF unroutable THEN "unroutable" ELSE "routed",
                   version |-> order.version,
                   choice |-> IF unroutable THEN Unrouted ELSE choice]
<1>1. TypeOK'
  BY NextType DEF IInv, Next, Route
<1>2. router' = [router EXCEPT ![c] = new]
      /\ UNCHANGED <<order, route, track, po, approval, events, environment>>
  BY DEF SelectSuppliers
<1>3. order.status = "ACCEPTED"
  BY RoutedHasPo DEF SelectSuppliers
<1>4. new.pc = "routed" => \A l \in Lines : new.choice[l] \in Suppliers
  BY CheapestIsFeasible
<1>5. new.version = order.version /\ order.version \in Nat
  BY DEF IInv, TypeOK, Order
<1> HIDE DEF new
<1>6. RouterReads'
  <2> SUFFICES ASSUME NEW d \in Callers, router'[d].pc # "idle"
               PROVE  /\ router'[d].version <= order.version
                      /\ router'[d].version = order.version => order.status = "ACCEPTED"
                      /\ router'[d].pc = "routed" => \A l \in Lines : router'[d].choice[l] \in Suppliers
    BY <1>2 DEF RouterReads
  <2>1. CASE d = c
    BY <1>2, <1>3, <1>4, <1>5, <2>1 DEF IInv, TypeOK
  <2>2. CASE d # c
    <3>1. router'[d] = router[d]
      BY <1>2, <2>2 DEF IInv, TypeOK
    <3> QED BY <3>1 DEF IInv, RouterReads
  <2> QED BY <2>1, <2>2
<1> QED BY <1>1, <1>2, <1>6 DEF IInv, AbsentIsUnwritten, ExceptionIsAnswered, RoutedOnce,
           Existing, PoMatchesApproval, CancelledBuysNothing

\* A call that goes idle leaves the others' readings as good as they were, if
\* the order keeps its version or moves to a higher one.
LEMMA RouterReadsKept ==
  ASSUME IInv, NEW c, router' = [router EXCEPT ![c] = IdleRouter] \/ router' = router,
         order' = order \/ (order'.version \in Nat /\ order'.version > order.version)
  PROVE  RouterReads'
<1> SUFFICES ASSUME NEW d \in Callers, router'[d].pc # "idle"
             PROVE  /\ router'[d].version <= order'.version
                    /\ router'[d].version = order'.version => order'.status = "ACCEPTED"
                    /\ router'[d].pc = "routed" => \A l \in Lines : router'[d].choice[l] \in Suppliers
  BY DEF RouterReads
<1>1. IdleRouter.pc = "idle"
  BY DEF IdleRouter
<1>2. router'[d] = router[d]
  BY <1>1 DEF IInv, TypeOK
<1>3. router[d].version \in Nat /\ order.version \in Nat
  BY DEF IInv, TypeOK, Router, Order
<1>4. /\ router[d].version <= order.version
      /\ router[d].version = order.version => order.status = "ACCEPTED"
      /\ router[d].pc = "routed" => \A l \in Lines : router[d].choice[l] \in Suppliers
  BY <1>2 DEF IInv, RouterReads
<1> QED BY <1>2, <1>3, <1>4

LEMMA FailRoutingKeeps == ASSUME IInv, NEW c \in Callers, FailRouting(c) PROVE IInv'
<1>1. TypeOK'
  BY NextType DEF IInv, Next, Route
<1>2. order.version \in Nat
  BY DEF IInv, TypeOK, Order
<1>3. /\ order'.status = "EXCEPTION" /\ order'.version = order.version + 1
      /\ router' = [router EXCEPT ![c] = IdleRouter]
      /\ UNCHANGED <<route, track, po, approval, events, environment>>
  BY DEF FailRouting
<1>4. RouterReads'
  <2>1. order'.version \in Nat /\ order'.version > order.version
    BY <1>2, <1>3
  <2> QED BY <1>3, <2>1, RouterReadsKept
<1>5. order.status = "ACCEPTED"
  BY DEF FailRouting, VersionHolds, IInv, RouterReads
<1>6. RoutedOnce'
  BY <1>3, <1>5 DEF IInv, RoutedOnce, Existing
<1> QED BY <1>1, <1>3, <1>4, <1>6 DEF IInv, AbsentIsUnwritten, ExceptionIsAnswered,
           PoMatchesApproval, CancelledBuysNothing

LEMMA CommitRoutingKeeps == ASSUME IInv, NEW c \in Callers, CommitRouting(c) PROVE IInv'
<1> DEFINE chosen == {router[c].choice[l] : l \in Lines}
<1>1. TypeOK'
  BY NextType DEF IInv, Next, Route
<1>2. order.version \in Nat
  BY DEF IInv, TypeOK, Order
<1>3. /\ order'.status = "PO_PENDING" /\ order'.version = order.version + 1
      /\ route' = router[c].choice
      /\ po' = [s \in Suppliers |-> IF s \in chosen THEN Opened(s) ELSE po[s]]
      /\ approval' = [s \in Suppliers |->
           IF s \in chosen /\ po[s].status = "ABSENT" THEN NewApproval(order.version + 1)
           ELSE approval[s]]
      /\ router' = [router EXCEPT ![c] = IdleRouter]
  BY DEF CommitRouting
<1>4. RouterReads'
  <2>1. order'.version \in Nat /\ order'.version > order.version
    BY <1>2, <1>3
  <2> QED BY <1>3, <2>1, RouterReadsKept
<1>5. order.status = "ACCEPTED" /\ chosen \subseteq Suppliers
      /\ \A l \in Lines : router[c].choice[l] \in Suppliers
  BY DEF CommitRouting, VersionHolds, IInv, RouterReads
<1>6. \A s \in Suppliers : po[s].status = "ABSENT"
  BY <1>5, AcceptedIsUnrouted DEF Existing
<1>7. \A s \in Suppliers :
        IF s \in chosen
          THEN /\ po'[s].status = "APPROVAL_PENDING" /\ po'[s].response = "none"
               /\ approval'[s].state = "PENDING"
          ELSE po'[s] = po[s]
  BY <1>3, <1>6, OpenedType DEF NewApproval, IInv, TypeOK
<1>8. Existing' = chosen
  BY <1>5, <1>6, <1>7 DEF Existing
<1>9. RoutedOnce'
  BY <1>3, <1>5, <1>8, PurchaseAssumption DEF RoutedOnce
<1>10. PoMatchesApproval'
  <2>1. \A s \in Existing' : OneStory(po'[s], approval'[s])
    BY <1>5, <1>7, <1>8 DEF OneStory
  <2> QED BY <2>1, OneStoryThen
<1>11. ExceptionIsAnswered'
  BY <1>6, <1>7 DEF ExceptionIsAnswered
<1> QED BY <1>1, <1>3, <1>4, <1>9, <1>10, <1>11 DEF IInv, AbsentIsUnwritten, CancelledBuysNothing

-----------------------------------------------------------------------------
(* Purchase orders *)

\* Two rows of one supplier change and every other row stays.
OnlyRow(s) ==
  /\ \A o \in Suppliers \ {s} : po'[o] = po[o] /\ approval'[o] = approval[o]
  /\ UNCHANGED <<order, route, router>>

\* A step on one purchase order of a pending order keeps the invariant if the
\* two rows still tell one story.
LEMMA PendingRowKeeps ==
  ASSUME IInv, TypeOK', NEW s \in Suppliers, OnlyRow(s),
         order.status = "PO_PENDING",
         po[s].status # "ABSENT", po'[s].status # "ABSENT",
         OneStory(po'[s], approval'[s]),
         po'[s].status = "EXCEPTION" => po'[s].response # "none"
  PROVE  IInv'
<1>1. UNCHANGED <<order, route, router>>
      /\ \A o \in Suppliers \ {s} : po'[o] = po[o] /\ approval'[o] = approval[o]
  BY DEF OnlyRow
<1>2. Existing' = Existing
  BY <1>1 DEF Existing
<1>3. RoutedOnce'
  BY <1>1, <1>2 DEF IInv, RoutedOnce
<1>4. \A o \in Existing : OneStory(po'[o], approval'[o])
  <2> TAKE o \in Existing
  <2>1. o \in Suppliers /\ OneStory(po[o], approval[o])
    BY OneStoryEach DEF IInv, Existing
  <2> QED BY <1>1, <2>1
<1>5. PoMatchesApproval'
  BY <1>2, <1>4, OneStoryThen
<1>6. RouterReads' /\ AbsentIsUnwritten' /\ CancelledBuysNothing'
  BY <1>1 DEF IInv, RouterReads, AbsentIsUnwritten, CancelledBuysNothing
<1>7. ExceptionIsAnswered'
  BY <1>1 DEF IInv, ExceptionIsAnswered
<1> QED BY <1>3, <1>5, <1>6, <1>7 DEF IInv

\* A step that leaves the order and the purchase orders alone keeps the
\* invariant if every purchase order of a pending order keeps its story.
LEMMA ApprovalStepKeeps ==
  ASSUME IInv, TypeOK', UNCHANGED <<order, route, po, router>>,
         order.status = "PO_PENDING" => \A s \in Existing : OneStory(po[s], approval'[s])
  PROVE  IInv'
<1>1. Existing' = Existing
  BY DEF Existing
<1>2. PoMatchesApproval'
  BY <1>1, OneStoryThen
<1> QED BY <1>1, <1>2 DEF IInv, RouterReads, AbsentIsUnwritten, CancelledBuysNothing,
           ExceptionIsAnswered, RoutedOnce

LEMMA ApproveDemoPoKeeps ==
  ASSUME IInv, NEW s \in Suppliers, NEW p \in People, NEW approve \in BOOLEAN,
         ApproveDemoPo(p, s, approve)
  PROVE  IInv'
<1> DEFINE status == DecidedPo(s, approve)
<1>1. TypeOK'
  BY NextType DEF IInv, Next, Purchase
<1>2. po[s].status = "APPROVAL_PENDING" /\ order.status = "PO_PENDING"
  BY DEF ApproveDemoPo, Verified
<1>3. OnlyRow(s)
  BY DEF ApproveDemoPo, OnlyRow, IInv, TypeOK
<1>4. approval[s] \in Approval /\ po[s] \in Po
  BY DEF IInv, TypeOK
<1>5. CASE approval[s].left = 0
  <2>1. status = "APPROVAL_PENDING"
    BY <1>5, DecidedPoType DEF IInv, TypeOK
  <2>2. po' = po
    BY <2>1 DEF ApproveDemoPo
  <2>3. approval'[s].state = "EXPIRED"
    BY <1>4, <1>5 DEF ApproveDemoPo, IInv, TypeOK, Approval
  <2>4. OneStory(po'[s], approval'[s])
    BY <1>2, <2>2, <2>3 DEF OneStory
  <2> QED BY <1>1, <1>2, <1>3, <2>2, <2>4, PendingRowKeeps
<1>6. CASE approval[s].left # 0
  <2>1. status = IF approve THEN "APPROVED" ELSE "CANCELLED"
    BY <1>6, DecidedPoType DEF IInv, TypeOK
  <2>2. po' = [po EXCEPT ![s] = Moved(s, status)]
    BY <2>1 DEF ApproveDemoPo
  <2>3. po'[s] = Moved(s, status) /\ Moved(s, status).status = status
    BY <2>1, <2>2, MovedType DEF IInv, TypeOK, PoState
  <2>4. approval'[s].state = IF approve THEN "APPROVED" ELSE "REJECTED"
    BY <1>4, <1>6 DEF ApproveDemoPo, IInv, TypeOK, Approval
  <2>5. OneStory(po'[s], approval'[s])
    BY <2>1, <2>3, <2>4 DEF OneStory
  <2> QED BY <1>1, <1>2, <1>3, <2>1, <2>3, <2>5, PendingRowKeeps
<1> QED BY <1>5, <1>6

LEMMA RegenerateDemoPoKeeps ==
  ASSUME IInv, NEW s \in Suppliers, RegenerateDemoPo(s) PROVE IInv'
<1>1. TypeOK'
  BY NextType DEF IInv, Next, Purchase
<1>2. po[s].status # "ABSENT" /\ order.status = "PO_PENDING"
  BY DEF RegenerateDemoPo, Renewable, RenewalWanted
<1>3. OnlyRow(s)
  BY DEF RegenerateDemoPo, OnlyRow, IInv, TypeOK
<1>4. po'[s] = Moved(s, "APPROVAL_PENDING")
      /\ Moved(s, "APPROVAL_PENDING").status = "APPROVAL_PENDING"
  BY MovedType DEF RegenerateDemoPo, IInv, TypeOK, PoState
<1>5. approval'[s].state = "PENDING"
  BY DEF RegenerateDemoPo, IInv, TypeOK, NewApproval
<1>6. OneStory(po'[s], approval'[s])
  BY <1>4, <1>5 DEF OneStory
<1> QED BY <1>1, <1>2, <1>3, <1>4, <1>6, PendingRowKeeps

LEMMA SubmitDemoPoKeeps ==
  ASSUME IInv, NEW s \in Suppliers, SubmitDemoPo(s) PROVE IInv'
<1>1. TypeOK'
  BY NextType DEF IInv, Next, Purchase
<1>2. /\ po[s].status = "APPROVED" /\ order.status = "PO_PENDING"
      /\ approval[s].state = "APPROVED" /\ approval[s].by \in People
  BY DEF SubmitDemoPo, Submittable, IInv, TypeOK
<1>3. OnlyRow(s)
  BY DEF SubmitDemoPo, OnlyRow, IInv, TypeOK
<1>4. po'[s] = Moved(s, "SUBMITTED") /\ Moved(s, "SUBMITTED").status = "SUBMITTED"
  BY MovedType DEF SubmitDemoPo, IInv, TypeOK, PoState
<1>5. approval'[s] = approval[s]
  BY DEF SubmitDemoPo
<1>6. OneStory(po'[s], approval'[s])
  BY <1>2, <1>4, <1>5 DEF OneStory
<1> QED BY <1>1, <1>2, <1>3, <1>4, <1>6, PendingRowKeeps

\* An answer finds a purchase order that was submitted, and the cancellation of
\* the order leaves none of those in a state that takes an answer.
LEMMA ReconcileDemoPoKeeps ==
  ASSUME IInv, NEW s \in Suppliers, NEW answer \in Response \ {"none"},
         ReconcileDemoPo(s, answer)
  PROVE  IInv'
<1> DEFINE to == IF answer = "ACKNOWLEDGED" THEN "ACKNOWLEDGED" ELSE "EXCEPTION"
<1>1. TypeOK'
  BY NextType DEF IInv, Next, Purchase
<1>2. po[s].status \in {"SUBMITTED", "ACKNOWLEDGED"}
  BY DEF ReconcileDemoPo, Answerable, IInv, ExceptionIsAnswered
<1>3. s \in Existing
  BY <1>2 DEF Existing
<1>4. order.status = "PO_PENDING"
  <2>1. order.status \in {"PO_PENDING", "CANCELLED"}
    BY <1>3, AcceptedIsUnrouted
  <2>2. order.status # "CANCELLED"
    BY <1>2, <1>3 DEF IInv, CancelledBuysNothing
  <2> QED BY <2>1, <2>2
<1>5. OnlyRow(s)
  BY DEF ReconcileDemoPo, OnlyRow, IInv, TypeOK
<1>6. Moved(s, to) \in Po /\ Moved(s, to).status = to
  BY MovedType DEF IInv, TypeOK, PoState
<1>7. po'[s] = [Moved(s, to) EXCEPT !.response = answer]
  BY DEF ReconcileDemoPo, IInv, TypeOK
<1>8. po'[s].status = to /\ po'[s].response = answer
  BY <1>6, <1>7 DEF Po
<1>9. OneStory(po'[s], approval'[s])
  <2>1. OneStory(po[s], approval[s])
    BY <1>3, <1>4, OneStoryEach DEF IInv
  <2>2. approval'[s] = approval[s]
    BY DEF ReconcileDemoPo
  <2> QED BY <1>2, <1>8, <2>1, <2>2 DEF OneStory
<1> QED BY <1>1, <1>2, <1>4, <1>5, <1>8, <1>9, PendingRowKeeps

\* Expiry and supersession change the approval alone, whatever the order does.
LEMMA ApprovalLifeKeeps ==
  ASSUME IInv, NEW s \in Suppliers, ExpireApproval(s) \/ SupersedeApproval(s) PROVE IInv'
<1>1. TypeOK'
  BY NextType DEF IInv, Next, Purchase
<1>2. UNCHANGED <<order, route, po, router>>
  BY DEF ExpireApproval, SupersedeApproval
<1>3. approval[s] \in Approval
  BY DEF IInv, TypeOK
<1>4. ASSUME order.status = "PO_PENDING", NEW o \in Existing
      PROVE  OneStory(po[o], approval'[o])
  <2>1. o \in Suppliers /\ OneStory(po[o], approval[o])
    BY <1>4, OneStoryEach DEF IInv, Existing
  <2>2. CASE o # s
    <3>1. approval'[o] = approval[o]
      BY <2>1, <2>2 DEF ExpireApproval, SupersedeApproval, IInv, TypeOK
    <3> QED BY <2>1, <3>1
  <2>3. CASE o = s
    <3>1. \/ approval[s].state = "PENDING" /\ approval'[s] = [approval[s] EXCEPT !.state = "EXPIRED"]
          \/ /\ approval[s].state \in {"PENDING", "APPROVED"}
             /\ approval'[s] = [approval[s] EXCEPT !.state = "SUPERSEDED"]
      BY DEF ExpireApproval, SupersedeApproval, IInv, TypeOK
    <3> QED BY <1>3, <2>1, <2>3, <3>1 DEF OneStory, Approval
  <2> QED BY <2>2, <2>3
<1> QED BY <1>1, <1>2, <1>4, ApprovalStepKeeps

LEMMA RequestDemoCancelKeeps == ASSUME IInv, RequestDemoCancel PROVE IInv'
<1>1. TypeOK'
  BY NextType DEF IInv, Next
<1>2. /\ order.status = "PO_PENDING"
      /\ order'.status = "CANCELLED" /\ order'.version = order.version + 1
      /\ UNCHANGED <<route, router>>
  BY DEF RequestDemoCancel
<1>3. \A s \in Suppliers : po'[s].status = CancelledPo(po[s].status)
                           /\ po'[s].response = po[s].response
  <2> TAKE s \in Suppliers
  <2> DEFINE status == CancelledPo(po[s].status)
  <2>1. status \in PoState
    BY CancelledPoValue DEF IInv, TypeOK, Po
  <2>2. po'[s] = IF status = po[s].status THEN po[s] ELSE Moved(s, status)
    BY DEF RequestDemoCancel
  <2>3. Moved(s, status).status = status /\ Moved(s, status).response = po[s].response
    BY <2>1, MovedType DEF IInv, TypeOK
  <2> HIDE DEF status
  <2> QED BY <2>2, <2>3 DEF status
<1>4. \A s \in Suppliers : po[s].status \in PoState
  BY DEF IInv, TypeOK, Po
<1>5. Existing' = Existing
  <2>1. \A s \in Suppliers : po'[s].status = "ABSENT" <=> po[s].status = "ABSENT"
    BY <1>3, <1>4, CancelledPoValue DEF PoState
  <2> QED BY <2>1 DEF Existing
<1>6. CancelledBuysNothing'
  <2>1. \A s \in Existing : po'[s].status \in {"CANCELLED", "CANCEL_REQUESTED", "EXCEPTION"}
    BY <1>3, <1>4, CancelledPoValue DEF Existing, PoState
  <2> QED BY <1>5, <2>1 DEF CancelledBuysNothing
<1>7. ExceptionIsAnswered'
  <2>1. \A s \in Suppliers : po'[s].status = "EXCEPTION" => po[s].status = "EXCEPTION"
    BY <1>3, <1>4, CancelledPoValue DEF PoState
  <2> QED BY <1>3, <2>1 DEF IInv, ExceptionIsAnswered
<1>8. RouterReads'
  <2>1. order'.version \in Nat /\ order'.version > order.version
    BY <1>2 DEF IInv, TypeOK, Order
  <2>2. router' = router
    BY <1>2
  <2> QED BY <2>1, <2>2, RouterReadsKept
<1>9. RoutedOnce'
  BY <1>2, <1>5 DEF IInv, RoutedOnce
<1> QED BY <1>1, <1>2, <1>6, <1>7, <1>8, <1>9 DEF IInv, AbsentIsUnwritten, PoMatchesApproval

-----------------------------------------------------------------------------
(* Every step *)

LEMMA InitIInv == Init => IInv
<1> SUFFICES ASSUME Init PROVE IInv
  OBVIOUS
<1>1. TypeOK
  BY InitType
<1>2. /\ order.status = "ABSENT" /\ order.version = 0
      /\ \A l \in Lines : route[l] = NoSupplier
      /\ \A c \in Callers : router[c].pc = "idle"
      /\ \A s \in Suppliers : po[s].status = "ABSENT"
  BY DEF Init, Unrouted, IdleRouter, NoPo
<1>3. Existing = {}
  BY <1>2 DEF Existing
<1> QED BY <1>1, <1>2, <1>3 DEF IInv, AbsentIsUnwritten, RouterReads, ExceptionIsAnswered,
           RoutedOnce, PoMatchesApproval, CancelledBuysNothing

\* No caller has read an order that was not there.
LEMMA IngestOrderKeeps == ASSUME IInv, IngestOrder PROVE IInv'
<1>1. TypeOK'
  BY NextType DEF IInv, Next
<1>2. /\ order.status = "ABSENT" /\ order.version = 0
      /\ order'.status = "ACCEPTED" /\ order'.version = 1
      /\ UNCHANGED <<route, po, approval, router>>
  BY DEF IngestOrder, IInv, AbsentIsUnwritten
<1>3. Existing' = Existing
  BY <1>2 DEF Existing
<1>4. RouterReads'
  <2>1. order'.version \in Nat /\ order'.version > order.version
    BY <1>2
  <2>2. router' = router
    BY <1>2
  <2> QED BY <2>1, <2>2, RouterReadsKept
<1> QED BY <1>1, <1>2, <1>3, <1>4 DEF IInv, AbsentIsUnwritten, ExceptionIsAnswered, RoutedOnce,
           PoMatchesApproval, CancelledBuysNothing

LEMMA RoutingConflictKeeps ==
  ASSUME IInv, NEW c \in Callers, RoutingConflict(c) PROVE IInv'
<1>1. TypeOK'
  BY NextType DEF IInv, Next, Route
<1>2. UNCHANGED <<order, route, po, approval>> /\ router' = [router EXCEPT ![c] = IdleRouter]
  BY DEF RoutingConflict
<1>3. RouterReads'
  BY <1>2, RouterReadsKept
<1> QED BY <1>1, <1>2, <1>3 DEF IInv, AbsentIsUnwritten, ExceptionIsAnswered, RoutedOnce,
           Existing, PoMatchesApproval, CancelledBuysNothing

LEMMA NextIInv == IInv /\ [Next]_vars => IInv'
<1> SUFFICES ASSUME IInv, [Next]_vars PROVE IInv'
  OBVIOUS
<1>0. TypeOK'
  BY NextType DEF IInv
<1>1. CASE IngestOrder
  BY <1>1, IngestOrderKeeps
<1>2. ASSUME NEW c \in Callers, Route(c) PROVE IInv'
  BY <1>2, SelectKeeps, FailRoutingKeeps, CommitRoutingKeeps, RoutingConflictKeeps DEF Route
<1>3. ASSUME NEW s \in Suppliers, Purchase(s) PROVE IInv'
  BY <1>3, ApproveDemoPoKeeps, RegenerateDemoPoKeeps, SubmitDemoPoKeeps,
     ReconcileDemoPoKeeps, ApprovalLifeKeeps DEF Purchase
<1>4. CASE RequestDemoCancel
  BY <1>4, RequestDemoCancelKeeps
<1>5. ASSUME UNCHANGED <<order, route, po, router>>,
             \A s \in Suppliers : OneStory(po[s], approval[s]) => OneStory(po[s], approval'[s])
      PROVE  IInv'
  <2>1. order.status = "PO_PENDING" => \A s \in Existing : OneStory(po[s], approval'[s])
    BY <1>5, OneStoryEach DEF IInv, Existing
  <2> QED BY <1>0, <1>5, <2>1, ApprovalStepKeeps
<1>6. ASSUME NEW l \in Lines, NEW t \in Tracks, IngestDemoTracking(l, t) PROVE IInv'
  BY <1>5, <1>6 DEF IngestDemoTracking
<1>7. CASE SetDemoStop
  BY <1>5, <1>7 DEF SetDemoStop
<1>8. ASSUME NEW p \in People, ChangeCapability(p) PROVE IInv'
  BY <1>5, <1>8 DEF ChangeCapability
<1>9. CASE Tick
  <2>1. \A s \in Suppliers :
          approval'[s].state = approval[s].state /\ approval'[s].by = approval[s].by
    <3>1. \A s \in Suppliers : approval[s] \in Approval
      BY DEF IInv, TypeOK
    <3> QED BY <1>9, <3>1 DEF Tick, Approval
  <2>2. \A s \in Suppliers : OneStory(po[s], approval[s]) => OneStory(po[s], approval'[s])
    BY <2>1 DEF OneStory
  <2>3. UNCHANGED <<order, route, po, router>>
    BY <1>9 DEF Tick
  <2> QED BY <1>5, <2>2, <2>3
<1>10. CASE UNCHANGED vars
  BY <1>5, <1>10 DEF vars
<1> QED BY <1>1, <1>2, <1>3, <1>4, <1>6, <1>7, <1>8, <1>9, <1>10 DEF Next

LEMMA SpecIInv == Spec => []IInv
BY InitIInv, NextIInv, PTL DEF Spec

\* An order is routed once and whole, however many calls of propose_routing
\* read it before any of them wrote: the version each read is compared when it
\* writes, and an order that still has that version is still unrouted.
THEOREM RoutedOnceAndWhole == Spec => []RoutedOnce
<1>1. IInv => RoutedOnce
  BY DEF IInv
<1> QED BY <1>1, SpecIInv, PTL

\* A purchase order of a pending order and the approval it points at never
\* contradict each other, whoever wrote last (approve_demo_po,
\* regenerate_demo_po, expire_due_approvals, supersede).
THEOREM PurchasesTellOneStory == Spec => []PoMatchesApproval
<1>1. IInv => PoMatchesApproval
  BY DEF IInv
<1> QED BY <1>1, SpecIInv, PTL

\* No purchase order of a cancelled order is submittable, or ever becomes so
\* (request_demo_cancel).
THEOREM CancelledStaysUnbought == Spec => []CancelledBuysNothing
<1>1. IInv => CancelledBuysNothing
  BY DEF IInv
<1> QED BY <1>1, SpecIInv, PTL

-----------------------------------------------------------------------------
(* Submission *)

\* Only submit_demo_po makes a purchase order SUBMITTED.
LEMMA OnlySubmitSubmits ==
  ASSUME IInv, Next, NEW s \in Suppliers, po[s].status # "SUBMITTED",
         po'[s].status = "SUBMITTED"
  PROVE  SubmitDemoPo(s)
<1>0. po[s] \in Po /\ po[s].status \in PoState
  BY DEF IInv, TypeOK, Po
<1>1. po' # po
  OBVIOUS
<1>2. ASSUME NEW c \in Callers, Route(c) PROVE FALSE
  <2>1. CommitRouting(c)
    BY <1>1, <1>2 DEF Route, SelectSuppliers, FailRouting, RoutingConflict
  <2>2. po'[s] = Opened(s) \/ po'[s] = po[s]
    BY <2>1 DEF CommitRouting
  <2> QED BY <2>2, OpenedType DEF IInv, TypeOK
<1>3. ASSUME NEW o \in Suppliers, Purchase(o), ~SubmitDemoPo(o) PROVE FALSE
  <2>1. ASSUME NEW status \in PoState, status # "SUBMITTED",
               po' = [po EXCEPT ![o] = Moved(o, status)]
        PROVE  FALSE
    BY <2>1, MovedType DEF IInv, TypeOK
  <2>2. ASSUME NEW p \in People, NEW approve \in BOOLEAN, ApproveDemoPo(p, o, approve)
        PROVE  FALSE
    <3>1. po' = [po EXCEPT ![o] = Moved(o, DecidedPo(o, approve))]
      BY <1>1, <2>2 DEF ApproveDemoPo
    <3>2. DecidedPo(o, approve) \in {"APPROVAL_PENDING", "APPROVED", "CANCELLED"}
      BY DecidedPoType DEF IInv, TypeOK
    <3> QED BY <2>1, <3>1, <3>2 DEF PoState
  <2>3. ~RegenerateDemoPo(o)
    BY <2>1 DEF RegenerateDemoPo, PoState
  <2>4. ASSUME NEW answer \in Response \ {"none"}, ReconcileDemoPo(o, answer) PROVE FALSE
    <3> DEFINE to == IF answer = "ACKNOWLEDGED" THEN "ACKNOWLEDGED" ELSE "EXCEPTION"
    <3>1. Moved(o, to) \in Po /\ Moved(o, to).status = to
      BY MovedType DEF IInv, TypeOK, PoState
    <3>2. po' = [po EXCEPT ![o] = [Moved(o, to) EXCEPT !.response = answer]]
      BY <2>4 DEF ReconcileDemoPo
    <3>3. po'[o].status = to
      BY <3>1, <3>2 DEF IInv, TypeOK, Po
    <3>4. o # s => po'[s] = po[s]
      BY <3>2 DEF IInv, TypeOK
    <3> QED BY <3>3, <3>4
  <2> QED BY <1>1, <1>3, <2>2, <2>3, <2>4 DEF Purchase, ExpireApproval, SupersedeApproval
<1>4. ASSUME NEW o \in Suppliers, SubmitDemoPo(o) PROVE SubmitDemoPo(s)
  <2>1. o = s
    BY <1>4 DEF SubmitDemoPo, IInv, TypeOK
  <2> QED BY <1>4, <2>1
<1>5. ~RequestDemoCancel
  <2> SUFFICES ASSUME RequestDemoCancel PROVE FALSE
    OBVIOUS
  <2> DEFINE status == CancelledPo(po[s].status)
  <2>1. status \in PoState /\ status # "SUBMITTED"
    BY <1>0, CancelledPoValue DEF PoState
  <2>2. po'[s] = IF status = po[s].status THEN po[s] ELSE Moved(s, status)
    BY DEF RequestDemoCancel
  <2>3. Moved(s, status).status = status
    BY <2>1, MovedType DEF IInv, TypeOK
  <2> HIDE DEF status
  <2> QED BY <2>1, <2>2, <2>3
<1>6. /\ ~IngestOrder /\ ~SetDemoStop /\ ~Tick
      /\ \A l \in Lines, t \in Tracks : ~IngestDemoTracking(l, t)
      /\ \A p \in People : ~ChangeCapability(p)
  BY <1>1 DEF IngestOrder, SetDemoStop, Tick, IngestDemoTracking, ChangeCapability
<1> QED BY <1>2, <1>3, <1>4, <1>5, <1>6 DEF Next

\* What is submitted to a supplier is covered by a good, unexpired approval of
\* somebody who may still give it, for an order that still wants it, in a scope
\* that is not stopped (submit_demo_po).
THEOREM SubmissionsAreCovered == Spec => SubmittedOnCurrentApproval
<1>1. ASSUME IInv, [Next]_vars
      PROVE  [\A s \in Suppliers :
                po[s].status # "SUBMITTED" /\ po'[s].status = "SUBMITTED" =>
                  /\ approval[s].state = "APPROVED" /\ approval[s].left > 0
                  /\ approval[s].by \in capable
                  /\ order.status = "PO_PENDING" /\ ~stopped]_vars
  <2>1. CASE UNCHANGED vars
    BY <2>1
  <2>2. ASSUME Next, NEW s \in Suppliers, po[s].status # "SUBMITTED",
               po'[s].status = "SUBMITTED"
        PROVE  /\ approval[s].state = "APPROVED" /\ approval[s].left > 0
               /\ approval[s].by \in capable
               /\ order.status = "PO_PENDING" /\ ~stopped
    BY <1>1, <2>2, OnlySubmitSubmits DEF SubmitDemoPo, Submittable
  <2> QED BY <1>1, <2>1, <2>2
<1> QED BY <1>1, SpecIInv, PTL DEF Spec, SubmittedOnCurrentApproval

=============================================================================
