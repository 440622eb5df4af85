------------------------------ MODULE Approvals ------------------------------
(***************************************************************************)
(* Commands, their approvals and immutable intents, the two-step browser   *)
(* decision, expiry, supersession, execution preparation and the single    *)
(* tool command an approval is good for (packages/store_core/service.py,   *)
(* browser_auth.py, approvals.py, gateway.py).                             *)
(*                                                                         *)
(* A command and its approval are created together under one idempotency   *)
(* key and never part, so both are named by that key.  A payload stands    *)
(* for kind, target, payload and evidence together, a policy number for    *)
(* policy and target version; an intent digest binds all of them, so it is *)
(* the pair of the two.  `left` is the time to expires_at.                 *)
(***************************************************************************)
EXTENDS Membership

CONSTANTS
  Keys, NoKey,     \* idempotency keys of commands
  Payloads,        \* what a command may propose
  Policies,        \* policy and target versions (positive)
  ToolKeys,        \* idempotency keys of tool commands
  Nonces,          \* confirmation nonces that may be issued
  Requests,        \* concurrent browser requests to decide
  Internal,        \* contexts of workflows that call decide directly
  NoUser,          \* decided_by IS NULL
  ApprovalTime,    \* 24 h, in clock ticks
  NonceTime,       \* nonce ttl, in clock ticks
  BatchSize        \* limit of expire_due_approvals

ASSUME ApprovalsAssumption ==
  /\ Keys # {} /\ NoKey \notin Keys
  /\ Policies \subseteq Nat \ {0}
  /\ NoUser \notin Users
  /\ Internal \subseteq Sessions
  /\ Nonces # {} /\ Sessions # {} /\ Payloads # {}
  /\ ApprovalTime \in Nat \ {0}
  /\ NonceTime \in Nat \ {0}
  /\ BatchSize \in Nat \ {0}

VARIABLES
  command,   \* commands joined with approvals, intents and preparations
  nonce,     \* approval_confirmation_nonces
  request,   \* decide_approval_authenticated calls between their transactions
  tool       \* demo_tool_commands

vars == <<member, session, command, nonce, request, tool>>

Decided == {"APPROVED", "REJECTED", "EXPIRED", "SUPERSEDED"}
Command ==
  [cstate : Decided \cup {"ABSENT", "AWAITING"},  \* commands.state
   astate : Decided \cup {"ABSENT", "PENDING"},   \* approvals.state
   payload : Payloads, policy : Policies \cup {0}, \* policy 0: no intent
   left : Nat, by : Users \cup {NoUser}, prepared : {"no", "yes"},
   replaces : Keys \cup {NoKey}]

\* commands and approvals, one row under each idempotency key
Commands == [Keys -> Command]

Nonce == [state : {"unissued", "issued", "consumed"}, session : Sessions,
          key : Keys, left : Nat]
Request == [pc : {"idle", "confirmed"}, session : Sessions, key : Keys,
            approve : BOOLEAN, nonce : Nonces]
ToolCommand == [state : {"ABSENT", "accepted", "blocked", "approval_required"},
                approval : Keys \cup {NoKey}, payload : Payloads,
                policy : Policies \cup {0}]

SomeOf(S) == CHOOSE x \in S : TRUE

NewCommand == [cstate |-> "ABSENT", astate |-> "ABSENT", payload |-> SomeOf(Payloads),
               policy |-> 0, left |-> 0, by |-> NoUser, prepared |-> "no",
               replaces |-> NoKey]
IdleRequest == [pc |-> "idle", session |-> SomeOf(Sessions), key |-> SomeOf(Keys),
                approve |-> FALSE, nonce |-> SomeOf(Nonces)]

Init ==
  /\ MemberInit
  /\ command = [k \in Keys |-> NewCommand]
  /\ nonce = [n \in Nonces |-> [state |-> "unissued", session |-> SomeOf(Sessions),
                                key |-> SomeOf(Keys), left |-> 0]]
  /\ request = [r \in Requests |-> IdleRequest]
  /\ tool = [t \in ToolKeys |-> [state |-> "ABSENT", approval |-> NoKey,
                                 payload |-> SomeOf(Payloads), policy |-> 0]]

-----------------------------------------------------------------------------
(* Proposing *)

\* the row create_command leaves under key k for payload p
Created(k, p) ==
  IF command[k].cstate = "ABSENT"
    THEN [NewCommand EXCEPT !.cstate = "AWAITING", !.astate = "PENDING",
                            !.payload = p, !.left = ApprovalTime]
    ELSE command[k]

\* an existing key must carry the same payload
Creatable(k, p) == command[k].cstate # "ABSENT" => command[k].payload = p

CreateCommand(s, k, p) ==
  /\ Permitted(s)
  /\ Creatable(k, p)
  /\ command' = [command EXCEPT ![k] = Created(k, p)]
  /\ UNCHANGED <<member, session, nonce, request, tool>>

\* an intent is attached once, to a pending approval; a replay must match it
Attachable(row, v) == row.policy = v \/ (row.policy = 0 /\ row.astate = "PENDING")

\* request_approval: create_command and the intent in one transaction
RequestApproval(s, k, p, v) ==
  /\ Permitted(s)
  /\ Creatable(k, p)
  /\ Attachable(Created(k, p), v)
  /\ command' = [command EXCEPT ![k] = [Created(k, p) EXCEPT !.policy = v]]
  /\ UNCHANGED <<member, session, nonce, request, tool>>

\* supersede: retire k, then create_command under k2, all or nothing
Supersede(s, k, k2, p) ==
  /\ Permitted(s)
  /\ command[k].astate \in {"PENDING", "APPROVED"}
  /\ p # command[k].payload
  /\ k2 # k
  /\ Creatable(k2, p)
  /\ command' = [command EXCEPT
       ![k].cstate = "SUPERSEDED", ![k].astate = "SUPERSEDED",
       ![k2] = [Created(k2, p) EXCEPT !.replaces = k]]
  /\ UNCHANGED <<member, session, nonce, request, tool>>

-----------------------------------------------------------------------------
(* Deciding *)

Pending(k) == command[k].astate = "PENDING"

\* issue_approval_confirmation_nonce
IssueNonce(s, n, k) ==
  /\ nonce[n].state = "unissued"
  /\ Authenticated(s) /\ Permitted(s)
  /\ Pending(k) /\ command[k].left > 0
  /\ nonce' = [nonce EXCEPT ![n] =
       [state |-> "issued", session |-> s, key |-> k,
        left |-> IF NonceTime <= command[k].left THEN NonceTime ELSE command[k].left]]
  /\ UNCHANGED <<member, session, command, request, tool>>

\* consume_approval_confirmation_nonce's WHERE clause
Consumable(s, n, k) ==
  /\ nonce[n].state = "issued"
  /\ nonce[n].session = s /\ nonce[n].key = k
  /\ nonce[n].left > 0

\* decide_approval_authenticated, first transaction
ConfirmDecision(r, s, n, k, approve) ==
  /\ request[r].pc = "idle"
  /\ Authenticated(s) /\ Permitted(s)
  /\ Consumable(s, n, k)
  /\ nonce' = [nonce EXCEPT ![n].state = "consumed"]
  /\ request' = [request EXCEPT ![r] =
       [pc |-> "confirmed", session |-> s, key |-> k, approve |-> approve, nonce |-> n]]
  /\ UNCHANGED <<member, session, command, tool>>

\* Mutant of MayDecide: the authority checked at confirmation is trusted.
MayDecideOnConfirmation(s, k) == Pending(k)

\* _decide's own checks: authority now, and still pending
MayDecide(s, k) == Permitted(s) /\ Pending(k)

\* Mutant of DecidedRow: a late decision expires the approval only.
DecidedRowForgetsCommand(s, k, approve) ==
  IF command[k].left = 0
    THEN [command[k] EXCEPT !.astate = "EXPIRED"]
    ELSE LET verdict == IF approve THEN "APPROVED" ELSE "REJECTED"
         IN  [command[k] EXCEPT !.cstate = verdict, !.astate = verdict,
                                !.by = session[s].user]

\* _decide: a decision, or an expiry written down when it comes too late
DecidedRow(s, k, approve) ==
  IF command[k].left = 0
    THEN [command[k] EXCEPT !.cstate = "EXPIRED", !.astate = "EXPIRED"]
    ELSE LET verdict == IF approve THEN "APPROVED" ELSE "REJECTED"
         IN  [command[k] EXCEPT !.cstate = verdict, !.astate = verdict,
                                !.by = session[s].user]

\* second transaction of the browser decision; the nonce stays consumed when
\* the decision is refused
FinishDecision(r) ==
  LET s == request[r].session
      k == request[r].key
  IN  /\ request[r].pc = "confirmed"
      /\ command' = IF MayDecide(s, k)
                      THEN [command EXCEPT ![k] = DecidedRow(s, k, request[r].approve)]
                      ELSE command
      /\ request' = [request EXCEPT ![r] = IdleRequest]
      /\ UNCHANGED <<member, session, nonce, tool>>

\* decide, called by a domain workflow
Decide(s, k, approve) ==
  /\ s \in Internal
  /\ MayDecide(s, k)
  /\ command' = [command EXCEPT ![k] = DecidedRow(s, k, approve)]
  /\ UNCHANGED <<member, session, nonce, request, tool>>

\* Mutant of Due: an approval without an intent is overlooked.
DueWithIntent == {k \in Keys : Pending(k) /\ command[k].left = 0 /\ command[k].policy > 0}

Due == {k \in Keys : Pending(k) /\ command[k].left = 0}

\* expire_due_approvals: one batch, all or nothing.  Rows due at one tick may
\* carry any order of expires_at and id, so any batch of them may be taken.
ExpireDueApprovals ==
  /\ \E D \in SUBSET Due :
       /\ D # {}
       /\ Cardinality(D) = BatchSize \/ (D = Due /\ Cardinality(Due) < BatchSize)
       /\ \A k \in D : command[k].cstate = "AWAITING"
       /\ command' = [k \in Keys |->
            IF k \in D THEN [command[k] EXCEPT !.cstate = "EXPIRED", !.astate = "EXPIRED"]
                       ELSE command[k]]
  /\ UNCHANGED <<member, session, nonce, request, tool>>

-----------------------------------------------------------------------------
(* Executing *)

\* Mutant of Executable: an existing preparation is returned unchecked.
ExecutableOncePrepared(s, k, v) ==
  /\ Permitted(s)
  /\ \/ command[k].prepared = "yes"
     \/ /\ command[k].cstate = "APPROVED" /\ command[k].astate = "APPROVED"
        /\ command[k].left > 0
        /\ command[k].policy = v
        /\ member[command[k].by].status = "active" /\ Capable(command[k].by)

\* prepare_execution's checks, made before an earlier preparation is returned
Executable(s, k, v) ==
  /\ Permitted(s)
  /\ command[k].policy = v
  /\ command[k].cstate = "APPROVED" /\ command[k].astate = "APPROVED"
  /\ command[k].left > 0
  /\ member[command[k].by].status = "active" /\ Capable(command[k].by)

PrepareExecution(s, k, v) ==
  /\ Executable(s, k, v)
  /\ command' = [command EXCEPT ![k].prepared = "yes"]
  /\ UNCHANGED <<member, session, nonce, request, tool>>

\* Mutant of Unused: only earlier commands under the same key are looked at.
UnusedUnderKey(t, k) == tool[t].approval = k => tool[t].state # "accepted"

\* no other tool command was accepted on this approval
Unused(t, k) ==
  \A o \in ToolKeys \ {t} : ~(tool[o].state = "accepted" /\ tool[o].approval = k)

\* Mutant of ApprovalFits: the payload is not compared.
ApprovalFitsAnyPayload(s, t, k, p, v) ==
  /\ command[k].cstate # "ABSENT" /\ command[k].policy = v
  /\ Unused(t, k)
  /\ Executable(s, k, v)

\* _validated_tool_approval
ApprovalFits(s, t, k, p, v) ==
  /\ command[k].cstate # "ABSENT" /\ command[k].policy = v
  /\ command[k].payload = p
  /\ Unused(t, k)
  /\ Executable(s, k, v)

\* save_tool_command: a key that is on record replays its row, exactly
SavedTool(t, row) == IF tool[t].state = "ABSENT" THEN row ELSE tool[t]

\* what a replay must match
SameTool(t, row) ==
  /\ tool[t].approval = row.approval
  /\ tool[t].payload = row.payload /\ tool[t].policy = row.policy

\* submit_demo_tool for a mutating tool: a new row is accepted or blocked, an
\* existing one must match exactly; stop is demo_stop_active at that moment
SubmitDemoTool(s, t, k, p, v, stop) ==
  LET fits == ~stop /\ k # NoKey /\ ApprovalFits(s, t, k, p, v)
      row == [state |-> IF fits THEN "accepted"
                        ELSE IF k = NoKey /\ ~stop THEN "approval_required" ELSE "blocked",
              approval |-> IF fits THEN k ELSE NoKey,
              payload |-> p, policy |-> v]
  IN  /\ IsAdmin(s)
      /\ tool[t].state = "ABSENT" \/ SameTool(t, row)
      /\ tool' = [tool EXCEPT ![t] = SavedTool(t, row)]
      /\ command' = IF fits THEN [command EXCEPT ![k].prepared = "yes"] ELSE command
      /\ UNCHANGED <<member, session, nonce, request>>

-----------------------------------------------------------------------------
Less(n) == IF n > 0 THEN n - 1 ELSE 0

Tick ==
  /\ \/ \E s \in Sessions : session[s].left > 0
     \/ \E k \in Keys : command[k].left > 0
     \/ \E n \in Nonces : nonce[n].left > 0
  /\ SessionsAge
  /\ command' = [k \in Keys |-> [command[k] EXCEPT !.left = Less(@)]]
  /\ nonce' = [n \in Nonces |-> [nonce[n] EXCEPT !.left = Less(@)]]
  /\ UNCHANGED <<member, request, tool>>

Propose ==
  \E s \in Sessions, k \in Keys, p \in Payloads :
    \/ CreateCommand(s, k, p)
    \/ \E v \in Policies : RequestApproval(s, k, p, v)
    \/ \E k2 \in Keys : Supersede(s, k, k2, p)

Approve ==
  \/ \E s \in Sessions, k \in Keys :
       \/ \E n \in Nonces : IssueNonce(s, n, k)
       \/ \E r \in Requests, n \in Nonces, b \in BOOLEAN : ConfirmDecision(r, s, n, k, b)
       \/ \E b \in BOOLEAN : Decide(s, k, b)
  \/ \E r \in Requests : FinishDecision(r)

Use ==
  \E s \in Sessions, v \in Policies :
    \/ \E k \in Keys : PrepareExecution(s, k, v)
    \/ \E t \in ToolKeys, k \in Keys \cup {NoKey}, p \in Payloads, stop \in BOOLEAN :
         SubmitDemoTool(s, t, k, p, v, stop)

Next ==
  \/ MemberStep /\ UNCHANGED <<command, nonce, request, tool>>
  \/ Propose
  \/ Approve
  \/ ExpireDueApprovals
  \/ Use
  \/ Tick

Spec == Init /\ [][Next]_vars

(* The expiry worker is scheduled again and again and the clock advances.   *)
FairSpec == Spec /\ WF_vars(Tick) /\ WF_vars(ExpireDueApprovals)

-----------------------------------------------------------------------------
(* Properties *)

\* The tables keep their declared shape.
TypeOK ==
  /\ MemberTypeOK
  /\ command \in Commands
  /\ nonce \in [Nonces -> Nonce]
  /\ request \in [Requests -> Request]
  /\ tool \in [ToolKeys -> ToolCommand]

\* The state of a command and the state of its approval, kept in two tables and
\* written by decisions, expiry and supersession alike, never disagree; without
\* it expire_due_approvals would fail on every batch that holds the pair.
StatesAgree ==
  \A k \in Keys :
    \/ command[k].cstate = command[k].astate
    \/ command[k].cstate = "AWAITING" /\ command[k].astate = "PENDING"

\* Whoever decides is a current member with the capability at that moment and
\* in time, although the browser flow checked all that in an earlier
\* transaction already (decide_approval_authenticated, _decide).
DecidedWithAuthority ==
  [][\A k \in Keys :
       command[k].astate # command'[k].astate
         /\ command'[k].astate \in {"APPROVED", "REJECTED"}
         => /\ command[k].left > 0
            /\ member[command'[k].by].status = "active"
            /\ Capable(command'[k].by)]_vars

\* "One accepted command per approval; exact idempotent replay is the only
\* reuse", whatever keys, replays, expiries and supersessions come between.
ApprovalUsedOnce ==
  \A k \in Keys :
    Cardinality({t \in ToolKeys : tool[t].state = "accepted" /\ tool[t].approval = k}) <= 1

\* An accepted tool command carries what was approved, and was approved.
AcceptedAsApproved ==
  \A t \in ToolKeys : tool[t].state = "accepted" =>
    LET c == command[tool[t].approval]
    IN  /\ c.payload = tool[t].payload /\ c.policy = tool[t].policy
        /\ c.astate \in {"APPROVED", "SUPERSEDED"} /\ c.by # NoUser

\* A tool command is accepted only while its approval is approved, unexpired
\* and backed by an approver who still has the capability; a preparation made
\* earlier does not stand in for that (AP-04, AP-05).
AcceptedOnCurrentAuthority ==
  [][\A t \in ToolKeys :
       tool[t].state # "accepted" /\ tool'[t].state = "accepted" =>
         LET c == command[tool'[t].approval]
         IN  /\ c.astate = "APPROVED" /\ c.left > 0
             /\ member[c.by].status = "active" /\ Capable(c.by)]_vars

\* No approval stays pending: it is decided, superseded or expires
\* (ApprovalExpiryWorker).
PendingEnds ==
  \A k \in Keys : Pending(k) ~> ~Pending(k)
=============================================================================
