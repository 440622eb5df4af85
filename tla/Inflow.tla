------------------------------- MODULE Inflow -------------------------------
(***************************************************************************)
(* How a channel's orders enter: pages polled from an adapter, the same    *)
(* events pushed to the inbox, and the checkpoint of the connection        *)
(* (packages/store_core/ingestion.py, service.py, sqlite_repository.py).   *)
(*                                                                         *)
(* poll_demo_connection reads the checkpoint and the page outside its      *)
(* transaction; a poll is two steps and other polls, pushes and manifest   *)
(* changes come between them.  A checkpoint's version only grows and is    *)
(* only compared for equality with the one the caller names, so a poll     *)
(* keeps whether its version is still the current one.                     *)
(***************************************************************************)
EXTENDS Naturals, Sequences, FiniteSets

CONSTANTS
  Events,        \* external event ids
  Pages,         \* what the adapter's pages come to hold, in order
  Spoilable,     \* events whose row may be one normalize_demo_order refuses
  Contents,      \* contents an event may be pushed with
  Original,      \* the content the adapter gives
  Pollers,       \* callers of poll_demo_connection
  Adapters,      \* adapter versions
  First,         \* the version registered first
  Unset,         \* no receipt, no checkpoint yet
  MaxManifests   \* bound: registrations of the manifest

ASSUME InflowAssumption ==
  /\ Pages \in Seq(SUBSET Events) /\ Spoilable \subseteq Events
  /\ Original \in Contents /\ First \in Adapters
  /\ Unset \notin Adapters /\ MaxManifests \in Nat \ {0}
  /\ Unset \notin [content : Contents, state : {"RECEIVED", "PROCESSED"}]

VARIABLES
  malformed,   \* events whose row cannot be normalised
  shown,       \* events the adapter's pages hold by now
  closed,      \* how many pages carry a next cursor
  manifest,    \* adapter_capability_manifests
  checkpoint,  \* adapter_poll_checkpoints
  payloads,    \* normalized_inbound_payloads
  inbox,       \* inbox_messages
  poll         \* what a poll read before its transaction

vars == <<malformed, shown, closed, manifest, checkpoint, payloads, inbox, poll>>

Cursor == 0..Len(Pages)
Payload == [event : Events, content : Contents]
Receipt == [content : Contents, state : {"RECEIVED", "PROCESSED"}]
Inbox == [Events -> Receipt \cup {Unset}]
Manifest == [adapter : Adapters, inbound : BOOLEAN, count : 1..MaxManifests]
Checkpoint == [adapter : Adapters \cup {Unset}, cursor : Cursor]
Page == [items : SUBSET Events, next : Cursor \cup {Unset}]
Poll == [current : BOOLEAN, adapter : Adapters, cursor : Cursor, page : Page]

Init ==
  /\ malformed \in SUBSET Spoilable
  /\ shown = {}
  /\ closed = 0
  /\ manifest = [adapter |-> First, inbound |-> TRUE, count |-> 1]
  /\ checkpoint = [adapter |-> Unset, cursor |-> 0]
  /\ payloads = {}
  /\ inbox = [e \in Events |-> Unset]
  /\ poll = [c \in Pollers |-> Unset]

-----------------------------------------------------------------------------
(* The adapter *)

\* list_changes: beyond the last page an empty one that names the same cursor
PageAt(k) ==
  IF k >= Len(Pages)
    THEN [items |-> {}, next |-> k]
    ELSE [items |-> Pages[k + 1] \cap shown, next |-> IF k < closed THEN k + 1 ELSE Unset]

\* an event comes to stand on the page that is still open
Publish(e) ==
  /\ closed < Len(Pages)
  /\ e \in Pages[closed + 1] \ shown
  /\ shown' = shown \cup {e}
  /\ UNCHANGED <<malformed, closed, manifest, checkpoint, payloads, inbox, poll>>

\* the page is complete: it has a next cursor from now on
ClosePage ==
  /\ closed < Len(Pages)
  /\ Pages[closed + 1] \subseteq shown
  /\ closed' = closed + 1
  /\ UNCHANGED <<malformed, shown, manifest, checkpoint, payloads, inbox, poll>>

\* register_adapter_manifest
RegisterAdapterManifest(a, inbound) ==
  /\ manifest.count < MaxManifests
  /\ manifest' = [adapter |-> a, inbound |-> inbound, count |-> manifest.count + 1]
  /\ UNCHANGED <<malformed, shown, closed, checkpoint, payloads, inbox, poll>>

\* the manifest names this adapter and takes its events
Serves(a) == manifest.adapter = a /\ manifest.inbound

-----------------------------------------------------------------------------
(* The inbox *)

\* Mutant of Contradicted: an event that is known is a replay, whatever it says.
ContradictedNever(e, content) == FALSE

\* receive_inbox: an identity is never received with two contents
Contradicted(e, content) == inbox[e] # Unset /\ inbox[e].content # content

\* the row a receipt leaves: the one that was there, or a new one
ReceivedRow(e, content) ==
  IF inbox[e] = Unset THEN [content |-> content, state |-> "RECEIVED"] ELSE inbox[e]

\* receive_inbound, called by a push
ReceiveInbound(e, content) ==
  /\ manifest.inbound
  /\ inbox[e] = Unset
  /\ inbox' = [inbox EXCEPT ![e] = ReceivedRow(e, content)]
  /\ UNCHANGED <<malformed, shown, closed, manifest, checkpoint, payloads, poll>>

\* mark_inbox_processed
Processed(e) == [inbox[e] EXCEPT !.state = "PROCESSED"]

\* process_inbound; a receipt that is processed is only read
ProcessInbound(e) ==
  /\ inbox[e] # Unset
  /\ inbox[e].state = "RECEIVED"
  /\ inbox' = [inbox EXCEPT ![e] = Processed(e)]
  /\ UNCHANGED <<malformed, shown, closed, manifest, checkpoint, payloads, poll>>

-----------------------------------------------------------------------------
(* Polls *)

\* every row of the page passes normalize_demo_order
Normalizable(items) == items \cap malformed = {}

\* poll_demo_connection up to its transaction; `current` says whether the
\* caller names the checkpoint's version of now or an earlier one
StartPoll(c, a, current) ==
  /\ poll[c] = Unset
  /\ Serves(a)
  /\ checkpoint.adapter \in {Unset, a}
  /\ Normalizable(PageAt(checkpoint.cursor).items)
  /\ poll' = [poll EXCEPT ![c] = [current |-> current, adapter |-> a,
                                  cursor |-> checkpoint.cursor, page |-> PageAt(checkpoint.cursor)]]
  /\ UNCHANGED <<malformed, shown, closed, manifest, checkpoint, payloads, inbox>>

\* Mutants of NextCursor: a page is behind once it was read; a last page's
\* cursor is kept for every page.
NextCursorAlways(p) == IF p.cursor < Len(Pages) THEN p.cursor + 1 ELSE p.cursor
NextCursorNever(p) == p.cursor

\* a page without a next cursor is read again
NextCursor(p) == IF p.page.next = Unset THEN p.cursor ELSE p.page.next

\* save_normalized_payload for every row: what is stored is left as it is
Stored(items) == payloads \cup {[event |-> e, content |-> Original] : e \in items}

\* insert_or_advance_poll_checkpoint, which every other poll's version then misses
Advanced(p) == [adapter |-> p.adapter, cursor |-> NextCursor(p)]

\* the transaction: payloads, receipts and cursor together or not at all
CommitPoll(c) ==
  LET p == poll[c]
  IN  /\ p # Unset
      /\ Serves(p.adapter)
      /\ p.current
      /\ \A e \in p.page.items : ~Contradicted(e, Original)
      /\ payloads' = Stored(p.page.items)
      /\ inbox' = [e \in Events |-> IF e \in p.page.items THEN ReceivedRow(e, Original) ELSE inbox[e]]
      /\ checkpoint' = Advanced(p)
      /\ poll' = [d \in Pollers |->
                    IF d = c \/ poll[d] = Unset THEN Unset ELSE [poll[d] EXCEPT !.current = FALSE]]
      /\ UNCHANGED <<malformed, shown, closed, manifest>>

\* a refused read, a conflict, or the end of the caller's process
AbandonPoll(c) ==
  /\ poll[c] # Unset
  /\ poll' = [poll EXCEPT ![c] = Unset]
  /\ UNCHANGED <<malformed, shown, closed, manifest, checkpoint, payloads, inbox>>

Next ==
  \/ \E e \in Events : Publish(e)
  \/ ClosePage
  \/ \E a \in Adapters, inbound \in BOOLEAN : RegisterAdapterManifest(a, inbound)
  \/ \E e \in Events, content \in Contents : ReceiveInbound(e, content)
  \/ \E e \in Events : ProcessInbound(e)
  \/ \E c \in Pollers, a \in Adapters, current \in BOOLEAN : StartPoll(c, a, current)
  \/ \E c \in Pollers : CommitPoll(c)
  \/ \E c \in Pollers : AbandonPoll(c)

Spec == Init /\ [][Next]_vars

\* A caller repeats its polls with the version the last one gave it; a poll may
\* fail, but every call ends and not every poll fails.
Fairness ==
  \A c \in Pollers :
    /\ SF_vars(\E a \in Adapters : StartPoll(c, a, TRUE))
    /\ SF_vars(CommitPoll(c))
    /\ WF_vars(CommitPoll(c) \/ AbandonPoll(c))

FairSpec == Spec /\ Fairness

-----------------------------------------------------------------------------
(* Properties *)

\* Every column keeps its declared shape.
TypeOK ==
  /\ malformed \subseteq Spoilable
  /\ shown \subseteq Events
  /\ closed \in Cursor
  /\ manifest \in Manifest
  /\ checkpoint \in Checkpoint
  /\ payloads \subseteq Payload
  /\ inbox \in Inbox
  /\ poll \in [Pollers -> Poll \cup {Unset}]

Arrived(e) == [event |-> e, content |-> Original] \in payloads /\ inbox[e] # Unset

\* The cursor never passes an event: whatever the pages before it hold has its
\* payload and its receipt, although a page grows after it was read and polls
\* race (poll_demo_connection: "atomically persist payloads, inbox receipts and
\* cursor").
NothingSkipped ==
  \A k \in 1..checkpoint.cursor : \A e \in Pages[k] : Arrived(e)

\* A payload that is stored is what its event was received with, also when a
\* push came first or came between a poll's read and its transaction.
PayloadHasReceipt ==
  \A p \in payloads : inbox[p.event] # Unset /\ inbox[p.event].content = p.content

\* what ends polling for good: an event received with another content, a row
\* that cannot be normalised, or a manifest that is not the checkpoint's
Wedged ==
  \/ \E e \in PageAt(checkpoint.cursor).items : e \in malformed \/ Contradicted(e, Original)
  \/ ~manifest.inbound
  \/ checkpoint.adapter \notin {Unset, manifest.adapter}

\* An event on a page arrives: neither racing polls, stale versions, lost
\* answers nor pages that grow keep it out, unless the connection is wedged.
EveryEventArrives ==
  \A e \in Events : e \in shown ~> (Arrived(e) \/ Wedged)
=============================================================================
