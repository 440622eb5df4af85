---------------------------- MODULE InflowProofs ----------------------------
(***************************************************************************)
(* TLAPS proofs about Inflow, for every sequence of pages, every set of    *)
(* events, contents, pollers and adapters, and any number of manifests.    *)
(***************************************************************************)
EXTENDS Inflow, SequenceTheorems, TLAPS

\* A page that an adapter may return, and the rows a receipt leaves, are typed.
LEMMA PageType == ASSUME TypeOK, NEW k \in Cursor PROVE PageAt(k) \in Page
<1>1. CASE k >= Len(Pages)
  BY <1>1 DEF PageAt, Page
<1>2. CASE ~(k >= Len(Pages))
  <2>1. Len(Pages) \in Nat /\ k \in Nat /\ k + 1 \in 1..Len(Pages)
    BY <1>2, InflowAssumption, LenProperties DEF Cursor
  <2>2. Pages[k + 1] \in SUBSET Events
    BY <2>1, InflowAssumption, ElementOfSeq
  <2>3. k + 1 \in Cursor
    BY <2>1 DEF Cursor
  <2> QED BY <1>2, <2>2, <2>3 DEF PageAt, Page
<1> QED BY <1>1, <1>2

LEMMA ReceivedRowType ==
  ASSUME TypeOK, NEW e \in Events, NEW content \in Contents
  PROVE  ReceivedRow(e, content) \in Receipt
BY DEF ReceivedRow, Receipt, TypeOK, Inbox

-----------------------------------------------------------------------------
(* Type correctness *)

LEMMA InitType == Init => TypeOK
<1> SUFFICES ASSUME Init PROVE TypeOK
  OBVIOUS
<1>1. 0 \in Cursor
  BY InflowAssumption, LenProperties DEF Cursor
<1>2. manifest \in Manifest
  BY InflowAssumption DEF Init, Manifest
<1> QED BY <1>1, <1>2 DEF Init, TypeOK, Checkpoint, Inbox

LEMMA CommitPollType == ASSUME TypeOK, NEW c \in Pollers, CommitPoll(c) PROVE TypeOK'
<1> DEFINE p == poll[c]
<1>1. p \in Poll
  BY DEF TypeOK, CommitPoll
<1>2. p.page.items \subseteq Events
  BY <1>1 DEF Poll, Page
<1>3. payloads' \subseteq Payload
  BY <1>2, InflowAssumption DEF CommitPoll, Stored, TypeOK, Payload
<1>4. inbox' \in Inbox
  <2>1. \A e \in Events : ReceivedRow(e, Original) \in Receipt
    BY ReceivedRowType, InflowAssumption
  <2> QED BY <2>1 DEF CommitPoll, TypeOK, Inbox
<1>5. checkpoint' \in Checkpoint
  <2>1. NextCursor(p) \in Cursor
    BY <1>1 DEF NextCursor, Poll, Page
  <2> QED BY <1>1, <2>1 DEF CommitPoll, Advanced, Checkpoint, Poll
<1>6. poll' \in [Pollers -> Poll \cup {Unset}]
  <2>1. \A d \in Pollers : poll[d] # Unset => [poll[d] EXCEPT !.current = FALSE] \in Poll
    BY DEF TypeOK, Poll
  <2> QED BY <2>1 DEF CommitPoll, TypeOK
<1> QED BY <1>3, <1>4, <1>5, <1>6 DEF TypeOK, CommitPoll

LEMMA NextType == TypeOK /\ [Next]_vars => TypeOK'
<1> SUFFICES ASSUME TypeOK, [Next]_vars PROVE TypeOK'
  OBVIOUS
<1>1. ASSUME NEW e \in Events, Publish(e) PROVE TypeOK'
  BY <1>1 DEF Publish, TypeOK
<1>2. CASE ClosePage
  <2>1. closed + 1 \in Cursor
    BY <1>2, InflowAssumption, LenProperties DEF ClosePage, TypeOK, Cursor
  <2> QED BY <1>2, <2>1 DEF ClosePage, TypeOK
<1>3. ASSUME NEW a \in Adapters, NEW inbound \in BOOLEAN, RegisterAdapterManifest(a, inbound)
      PROVE  TypeOK'
  <2>1. manifest.count + 1 \in 1..MaxManifests
    BY <1>3, InflowAssumption DEF RegisterAdapterManifest, TypeOK, Manifest
  <2> QED BY <1>3, <2>1 DEF RegisterAdapterManifest, TypeOK, Manifest
<1>4. ASSUME NEW e \in Events, NEW content \in Contents, ReceiveInbound(e, content)
      PROVE  TypeOK'
  BY <1>4, ReceivedRowType DEF ReceiveInbound, TypeOK, Inbox
<1>5. ASSUME NEW e \in Events, ProcessInbound(e) PROVE TypeOK'
  <2>1. Processed(e) \in Receipt
    BY <1>5 DEF ProcessInbound, Processed, TypeOK, Inbox, Receipt
  <2> QED BY <1>5, <2>1 DEF ProcessInbound, TypeOK, Inbox
<1>6. ASSUME NEW c \in Pollers, NEW a \in Adapters, NEW current \in BOOLEAN,
             StartPoll(c, a, current)
      PROVE  TypeOK'
  <2>1. checkpoint.cursor \in Cursor
    BY DEF TypeOK, Checkpoint
  <2>2. [current |-> current, adapter |-> a, cursor |-> checkpoint.cursor,
         page |-> PageAt(checkpoint.cursor)] \in Poll
    BY <2>1, PageType DEF Poll
  <2> QED BY <1>6, <2>2 DEF StartPoll, TypeOK
<1>7. ASSUME NEW c \in Pollers, CommitPoll(c) PROVE TypeOK'
  BY <1>7, CommitPollType
<1>8. ASSUME NEW c \in Pollers, AbandonPoll(c) PROVE TypeOK'
  BY <1>8 DEF AbandonPoll, TypeOK
<1>9. CASE UNCHANGED vars
  BY <1>9 DEF vars, TypeOK
<1> QED BY <1>1, <1>2, <1>3, <1>4, <1>5, <1>6, <1>7, <1>8, <1>9 DEF Next

\* Manifests, checkpoint, payloads, inbox rows and what a poll remembers keep their
\* declared shape (ingestion.py, poll_demo_connection; service.py, receive_inbound).
THEOREM TypeCorrect == Spec => []TypeOK
BY InitType, NextType, PTL DEF Spec

-----------------------------------------------------------------------------
(* The inductive invariant *)

\* A closed page is full: nothing is ever added to it.
ClosedIsFull == \A k \in 1..closed : Pages[k] \subseteq shown

\* A poll that moves the cursor on read the whole page, and the page was closed.
PollIsWhole ==
  \A c \in Pollers :
    LET p == poll[c]
    IN  p # Unset /\ NextCursor(p) # p.cursor =>
          /\ NextCursor(p) = p.cursor + 1 /\ NextCursor(p) <= closed
          /\ Pages[NextCursor(p)] \subseteq p.page.items

\* A poll whose version is still current read at the cursor of now.
PollIsCurrent ==
  \A c \in Pollers :
    poll[c] # Unset /\ poll[c].current => poll[c].cursor = checkpoint.cursor

IInv ==
  /\ TypeOK
  /\ ClosedIsFull
  /\ PollIsWhole
  /\ PollIsCurrent
  /\ checkpoint.cursor <= closed
  /\ NothingSkipped
  /\ PayloadHasReceipt

\* What a receipt leaves is a row, never the absence of one.
LEMMA ReceiptIsSet == Unset \notin Receipt
BY InflowAssumption DEF Receipt

\* A row stays with its content when it is received again.
LEMMA ReceivedRowKeeps ==
  ASSUME TypeOK, NEW e \in Events, NEW content \in Contents
  PROVE  /\ ReceivedRow(e, content) # Unset
         /\ ReceivedRow(e, content).content = IF inbox[e] = Unset THEN content ELSE inbox[e].content
<1>1. ReceivedRow(e, content) \in Receipt
  BY ReceivedRowType
<1> QED BY <1>1, ReceiptIsSet DEF ReceivedRow

\* The pages hold events.
LEMMA PageEvents == ASSUME NEW k \in 1..Len(Pages) PROVE Pages[k] \subseteq Events
<1>1. Pages[k] \in SUBSET Events
  BY InflowAssumption, ElementOfSeq
<1> QED BY <1>1

\* The arrivals up to the cursor survive every step that leaves the cursor alone.
LEMMA NothingSkippedStays ==
  ASSUME TypeOK, checkpoint.cursor <= closed, NothingSkipped,
         UNCHANGED checkpoint, payloads \subseteq payloads',
         \A e \in Events : inbox[e] # Unset => inbox'[e] # Unset
  PROVE  NothingSkipped'
<1> SUFFICES ASSUME NEW k \in 1..checkpoint.cursor, NEW e \in Pages[k] PROVE Arrived(e)'
  BY DEF NothingSkipped
<1>1. k \in 1..Len(Pages)
  BY InflowAssumption, LenProperties DEF TypeOK, Checkpoint, Cursor
<1>2. e \in Events
  BY <1>1, PageEvents
<1>3. Arrived(e)
  BY DEF NothingSkipped
<1> QED BY <1>2, <1>3 DEF Arrived

-----------------------------------------------------------------------------
(* What a poll reads and what it commits *)

LEMMA StartPollKeeps ==
  ASSUME IInv, NEW c \in Pollers, NEW a \in Adapters, NEW current \in BOOLEAN,
         StartPoll(c, a, current)
  PROVE  (PollIsWhole /\ PollIsCurrent)'
<1> DEFINE k == checkpoint.cursor
           p == [current |-> current, adapter |-> a, cursor |-> k, page |-> PageAt(k)]
<1>1. poll' = [poll EXCEPT ![c] = p] /\ UNCHANGED <<closed, checkpoint>>
  BY DEF StartPoll
<1>2. k \in Nat /\ closed \in Nat /\ closed <= Len(Pages) /\ Len(Pages) \in Nat
  BY InflowAssumption, LenProperties DEF IInv, TypeOK, Checkpoint, Cursor
<1>3. ASSUME NextCursor(p) # p.cursor
      PROVE  /\ NextCursor(p) = k + 1 /\ k + 1 <= closed
             /\ Pages[k + 1] \subseteq p.page.items
  <2>1. p.page = PageAt(k) /\ p.cursor = k
    OBVIOUS
  <2>2. PageAt(k).next # Unset /\ PageAt(k).next # k /\ NextCursor(p) = PageAt(k).next
    BY <1>3, <2>1 DEF NextCursor
  <2>3. ~(k >= Len(Pages)) /\ k < closed
    BY <1>2, <2>2 DEF PageAt
  <2>4. PageAt(k) = [items |-> Pages[k + 1] \cap shown, next |-> k + 1]
    BY <2>3 DEF PageAt
  <2>5. Pages[k + 1] \subseteq shown
    BY <1>2, <2>3 DEF IInv, ClosedIsFull
  <2> QED BY <1>2, <2>1, <2>2, <2>3, <2>4, <2>5
<1> HIDE DEF p
<1>4. p.cursor = k
  BY DEF p
<1>5. PollIsWhole'
  <2> SUFFICES ASSUME NEW d \in Pollers, poll'[d] # Unset,
                      NextCursor(poll'[d]) # poll'[d].cursor
               PROVE  /\ NextCursor(poll'[d]) = poll'[d].cursor + 1
                      /\ NextCursor(poll'[d]) <= closed
                      /\ Pages[NextCursor(poll'[d])] \subseteq poll'[d].page.items
    BY <1>1 DEF PollIsWhole, NextCursor
  <2>1. CASE d = c
    BY <1>1, <1>3, <1>4, <2>1 DEF IInv, TypeOK
  <2>2. CASE d # c
    <3>1. poll'[d] = poll[d]
      BY <1>1, <2>2 DEF IInv, TypeOK
    <3> QED BY <3>1 DEF IInv, PollIsWhole
  <2> QED BY <2>1, <2>2
<1>6. PollIsCurrent'
  BY <1>1, <1>4 DEF IInv, TypeOK, PollIsCurrent
<1> QED BY <1>5, <1>6

LEMMA CommitPollKeeps ==
  ASSUME IInv, NEW c \in Pollers, CommitPoll(c)
  PROVE  (PollIsWhole /\ PollIsCurrent /\ checkpoint.cursor <= closed
            /\ NothingSkipped /\ PayloadHasReceipt)'
<1> DEFINE p == poll[c]
<1>1. p \in Poll /\ p # Unset /\ p.current
  BY DEF IInv, TypeOK, CommitPoll
<1>2. p.cursor = checkpoint.cursor
  BY <1>1 DEF IInv, PollIsCurrent
<1>3. /\ p.page.items \subseteq Events /\ p.cursor \in Nat /\ p.cursor <= Len(Pages)
      /\ Len(Pages) \in Nat /\ closed \in Nat /\ closed <= Len(Pages)
  BY <1>1, InflowAssumption, LenProperties DEF Poll, Page, Cursor, IInv, TypeOK
<1>4. checkpoint'.cursor = NextCursor(p) /\ UNCHANGED closed
  BY DEF CommitPoll, Advanced
<1>5. \/ NextCursor(p) = p.cursor
      \/ /\ NextCursor(p) = p.cursor + 1 /\ p.cursor + 1 <= closed
         /\ Pages[p.cursor + 1] \subseteq p.page.items
  BY <1>1 DEF IInv, PollIsWhole
<1>6. \A e \in Events : inbox[e] # Unset => inbox'[e] = inbox[e]
  BY DEF CommitPoll, ReceivedRow
<1>7. \A e \in p.page.items :
        inbox'[e] # Unset /\ inbox'[e].content = Original
  <2> TAKE e \in p.page.items
  <2>1. e \in Events /\ Original \in Contents
    BY <1>3, InflowAssumption
  <2>2. inbox'[e] = ReceivedRow(e, Original)
    BY <2>1 DEF CommitPoll
  <2>3. inbox[e] = Unset \/ inbox[e].content = Original
    BY DEF CommitPoll, Contradicted
  <2> QED BY <2>1, <2>2, <2>3, ReceivedRowKeeps DEF IInv
<1>8. payloads' = payloads \cup {[event |-> e, content |-> Original] : e \in p.page.items}
  BY DEF CommitPoll, Stored
<1>9. \A e \in p.page.items : Arrived(e)'
  BY <1>7, <1>8 DEF Arrived
<1>10. PollIsWhole'
  <2> SUFFICES ASSUME NEW d \in Pollers, poll'[d] # Unset,
                      NextCursor(poll'[d]) # poll'[d].cursor
               PROVE  /\ NextCursor(poll'[d]) = poll'[d].cursor + 1
                      /\ NextCursor(poll'[d]) <= closed
                      /\ Pages[NextCursor(poll'[d])] \subseteq poll'[d].page.items
    BY <1>4 DEF PollIsWhole, NextCursor
  <2>1. poll[d] # Unset /\ poll'[d] = [poll[d] EXCEPT !.current = FALSE]
    BY DEF CommitPoll
  <2>2. poll[d] \in Poll
    BY <2>1 DEF IInv, TypeOK
  <2>3. poll'[d].cursor = poll[d].cursor /\ poll'[d].page = poll[d].page
    BY <2>1, <2>2 DEF Poll
  <2>4. NextCursor(poll'[d]) = NextCursor(poll[d])
    BY <2>3 DEF NextCursor
  <2> QED BY <2>1, <2>3, <2>4 DEF IInv, PollIsWhole
<1>11. PollIsCurrent'
  <2> SUFFICES ASSUME NEW d \in Pollers, poll'[d] # Unset PROVE ~poll'[d].current
    BY DEF PollIsCurrent
  <2>1. poll[d] # Unset /\ poll'[d] = [poll[d] EXCEPT !.current = FALSE]
    BY DEF CommitPoll
  <2>2. poll[d] \in Poll
    BY <2>1 DEF IInv, TypeOK
  <2> QED BY <2>1, <2>2 DEF Poll
<1>12. (checkpoint.cursor <= closed)'
  BY <1>2, <1>3, <1>4, <1>5 DEF IInv
<1>13. NothingSkipped'
  <2> SUFFICES ASSUME NEW k \in 1..checkpoint'.cursor, NEW e \in Pages[k] PROVE Arrived(e)'
    BY DEF NothingSkipped
  <2>1. k \in 1..Len(Pages)
    BY <1>3, <1>4, <1>5
  <2>2. e \in Events
    BY <2>1, PageEvents
  <2>3. CASE k \in 1..p.cursor
    <3>1. Arrived(e)
      BY <1>2, <2>3 DEF IInv, NothingSkipped
    <3> QED BY <1>6, <1>8, <2>2, <3>1 DEF Arrived
  <2>4. CASE k \notin 1..p.cursor
    <3>1. k = p.cursor + 1 /\ e \in p.page.items
      BY <1>3, <1>4, <1>5, <2>4
    <3> QED BY <1>9, <3>1
  <2> QED BY <2>3, <2>4
<1>14. PayloadHasReceipt'
  <2> SUFFICES ASSUME NEW q \in payloads'
               PROVE  inbox'[q.event] # Unset /\ inbox'[q.event].content = q.content
    BY DEF PayloadHasReceipt
  <2>1. CASE q \in payloads
    <3>1. q.event \in Events
      BY <2>1 DEF IInv, TypeOK, Payload
    <3> QED BY <1>6, <2>1, <3>1 DEF IInv, PayloadHasReceipt
  <2>2. CASE q \notin payloads
    <3>1. PICK e \in p.page.items : q = [event |-> e, content |-> Original]
      BY <1>8, <2>2
    <3> QED BY <1>7, <3>1
  <2> QED BY <2>1, <2>2
<1> QED BY <1>10, <1>11, <1>12, <1>13, <1>14

-----------------------------------------------------------------------------
(* Preservation *)

LEMMA InitIInv == Init => IInv
<1> SUFFICES ASSUME Init PROVE IInv
  OBVIOUS
<1>1. TypeOK
  BY InitType
<1> QED BY <1>1 DEF Init, IInv, ClosedIsFull, PollIsWhole, PollIsCurrent, NothingSkipped,
                    PayloadHasReceipt

LEMMA NextIInv == IInv /\ [Next]_vars => IInv'
<1> SUFFICES ASSUME IInv, [Next]_vars PROVE IInv'
  OBVIOUS
<1>1. TypeOK'
  BY NextType DEF IInv
<1>2. closed \in Nat /\ closed <= Len(Pages) /\ Len(Pages) \in Nat /\ checkpoint.cursor \in Nat
  BY InflowAssumption, LenProperties DEF IInv, TypeOK, Cursor, Checkpoint
<1>3. ASSUME NEW e \in Events, Publish(e) PROVE IInv'
  <2>1. shown \subseteq shown' /\ UNCHANGED <<closed, manifest, checkpoint, payloads, inbox, poll>>
    BY <1>3 DEF Publish
  <2> QED BY <1>1, <2>1 DEF IInv, ClosedIsFull, PollIsWhole, PollIsCurrent, NothingSkipped,
                            PayloadHasReceipt, Arrived, NextCursor
<1>4. CASE ClosePage
  <2>1. closed' = closed + 1 /\ Pages[closed + 1] \subseteq shown
        /\ UNCHANGED <<shown, checkpoint, payloads, inbox, poll>>
    BY <1>4 DEF ClosePage
  <2>2. ClosedIsFull'
    BY <1>2, <2>1 DEF IInv, ClosedIsFull
  <2>3. PollIsWhole'
    <3> SUFFICES ASSUME NEW d \in Pollers, poll[d] # Unset,
                        NextCursor(poll[d]) # poll[d].cursor
                 PROVE  /\ NextCursor(poll[d]) = poll[d].cursor + 1
                        /\ NextCursor(poll[d]) <= closed + 1
                        /\ Pages[NextCursor(poll[d])] \subseteq poll[d].page.items
      BY <2>1 DEF PollIsWhole, NextCursor
    <3>1. /\ NextCursor(poll[d]) = poll[d].cursor + 1
          /\ NextCursor(poll[d]) <= closed
          /\ Pages[NextCursor(poll[d])] \subseteq poll[d].page.items
      BY DEF IInv, PollIsWhole
    <3>2. poll[d].cursor \in Nat
      BY DEF IInv, TypeOK, Poll, Cursor
    <3> QED BY <1>2, <3>1, <3>2
  <2>4. PollIsCurrent' /\ NothingSkipped' /\ PayloadHasReceipt'
    BY <2>1 DEF IInv, PollIsCurrent, NothingSkipped, PayloadHasReceipt, Arrived
  <2>5. checkpoint'.cursor <= closed'
    BY <1>2, <2>1 DEF IInv
  <2> QED BY <1>1, <2>2, <2>3, <2>4, <2>5 DEF IInv
<1>5. ASSUME NEW a \in Adapters, NEW inbound \in BOOLEAN, RegisterAdapterManifest(a, inbound)
      PROVE  IInv'
  <2>1. UNCHANGED <<shown, closed, checkpoint, payloads, inbox, poll>>
    BY <1>5 DEF RegisterAdapterManifest
  <2> QED BY <1>1, <2>1 DEF IInv, ClosedIsFull, PollIsWhole, PollIsCurrent, NothingSkipped,
                            PayloadHasReceipt, Arrived, NextCursor
<1>6. ASSUME NEW e \in Events, NEW content \in Contents, ReceiveInbound(e, content)
      PROVE  IInv'
  <2>1. inbox' = [inbox EXCEPT ![e] = ReceivedRow(e, content)] /\ inbox[e] = Unset
        /\ UNCHANGED <<shown, closed, checkpoint, payloads, poll>>
    BY <1>6 DEF ReceiveInbound
  <2>2. \A d \in Events : inbox[d] # Unset => inbox'[d] = inbox[d]
    BY <2>1 DEF IInv, TypeOK, Inbox
  <2>3. NothingSkipped'
    BY <2>1, <2>2, NothingSkippedStays DEF IInv
  <2>4. PayloadHasReceipt'
    BY <2>1, <2>2 DEF IInv, PayloadHasReceipt, TypeOK, Payload
  <2> QED BY <1>1, <2>1, <2>3, <2>4 DEF IInv, ClosedIsFull, PollIsWhole, PollIsCurrent, NextCursor
<1>7. ASSUME NEW e \in Events, ProcessInbound(e) PROVE IInv'
  <2>1. inbox' = [inbox EXCEPT ![e] = Processed(e)] /\ inbox[e] # Unset
        /\ UNCHANGED <<shown, closed, checkpoint, payloads, poll>>
    BY <1>7 DEF ProcessInbound
  <2>2. inbox[e] \in Receipt
    BY <2>1 DEF IInv, TypeOK, Inbox
  <2>3. Processed(e) \in Receipt /\ Processed(e).content = inbox[e].content
    BY <2>2 DEF Processed, Receipt
  <2>4. \A d \in Events : inbox[d] # Unset =>
          inbox'[d] # Unset /\ inbox'[d].content = inbox[d].content
    BY <2>1, <2>3, ReceiptIsSet DEF IInv, TypeOK, Inbox
  <2>5. NothingSkipped'
    BY <2>1, <2>4, NothingSkippedStays DEF IInv
  <2>6. PayloadHasReceipt'
    BY <2>1, <2>4 DEF IInv, PayloadHasReceipt, TypeOK, Payload
  <2> QED BY <1>1, <2>1, <2>5, <2>6 DEF IInv, ClosedIsFull, PollIsWhole, PollIsCurrent, NextCursor
<1>8. ASSUME NEW c \in Pollers, NEW a \in Adapters, NEW current \in BOOLEAN,
             StartPoll(c, a, current)
      PROVE  IInv'
  <2>1. UNCHANGED <<shown, closed, checkpoint, payloads, inbox>>
    BY <1>8 DEF StartPoll
  <2>2. PollIsWhole' /\ PollIsCurrent'
    BY <1>8, StartPollKeeps
  <2> QED BY <1>1, <2>1, <2>2 DEF IInv, ClosedIsFull, NothingSkipped, PayloadHasReceipt, Arrived
<1>9. ASSUME NEW c \in Pollers, CommitPoll(c) PROVE IInv'
  <2>1. UNCHANGED <<shown, closed>>
    BY <1>9 DEF CommitPoll
  <2> QED BY <1>1, <1>9, <2>1, CommitPollKeeps DEF IInv, ClosedIsFull
<1>10. ASSUME NEW c \in Pollers, AbandonPoll(c) PROVE IInv'
  <2>1. poll' = [poll EXCEPT ![c] = Unset]
        /\ UNCHANGED <<shown, closed, checkpoint, payloads, inbox>>
    BY <1>10 DEF AbandonPoll
  <2>2. \A d \in Pollers : poll'[d] = Unset \/ poll'[d] = poll[d]
    BY <2>1 DEF IInv, TypeOK
  <2>3. PollIsWhole' /\ PollIsCurrent'
    BY <2>1, <2>2 DEF IInv, PollIsWhole, PollIsCurrent, NextCursor
  <2> QED BY <1>1, <2>1, <2>3 DEF IInv, ClosedIsFull, NothingSkipped, PayloadHasReceipt, Arrived
<1>11. CASE UNCHANGED vars
  BY <1>1, <1>11 DEF vars, IInv, ClosedIsFull, PollIsWhole, PollIsCurrent, NothingSkipped,
                     PayloadHasReceipt, Arrived, NextCursor
<1> QED BY <1>3, <1>4, <1>5, <1>6, <1>7, <1>8, <1>9, <1>10, <1>11 DEF Next

LEMMA SpecIInv == Spec => []IInv
BY InitIInv, NextIInv, PTL DEF Spec

\* poll_demo_connection never moves the cursor past an event that has not its
\* payload and its receipt, however pages grow and polls race.
THEOREM CursorPassesNothing == Spec => []NothingSkipped
<1>1. IInv => NothingSkipped
  BY DEF IInv
<1> QED BY <1>1, SpecIInv, PTL

\* A normalized payload has the inbox row of its event, with the same content,
\* whichever of poll and push stored the event first (ingestion.py).
THEOREM PayloadsAreReceived == Spec => []PayloadHasReceipt
<1>1. IInv => PayloadHasReceipt
  BY DEF IInv
<1> QED BY <1>1, SpecIInv, PTL
=============================================================================
