--------------------------- MODULE ApprovalsProofs ---------------------------
(***************************************************************************)
(* TLAPS proofs about Approvals and the Membership it extends, for every   *)
(* set of users, sessions, keys, payloads, policies, nonces, requests and  *)
(* tool keys, and every value of the limits; and about Budget, the other   *)
(* half of gateway.py, for every set of tenants, costs and limits.         *)
(***************************************************************************)
EXTENDS Approvals, Budget, FiniteSetTheorems, WellFoundedInduction, TLAPS

-----------------------------------------------------------------------------
(* Rows *)

LEMMA SomeOfType == ASSUME NEW S, S # {} PROVE SomeOf(S) \in S
BY DEF SomeOf

LEMMA NewCommandType == NewCommand \in Command
<1>1. SomeOf(Payloads) \in Payloads
  BY SomeOfType, ApprovalsAssumption
<1> QED BY <1>1 DEF NewCommand, Command, Decided

LEMMA IdleRequestType == IdleRequest \in Request
<1>1. SomeOf(Sessions) \in Sessions /\ SomeOf(Keys) \in Keys /\ SomeOf(Nonces) \in Nonces
  BY SomeOfType, ApprovalsAssumption
<1> QED BY <1>1 DEF IdleRequest, Request

LEMMA LessType == ASSUME NEW n \in Nat PROVE Less(n) \in Nat
BY DEF Less

LEMMA CreatedType ==
  ASSUME command \in Commands, NEW k \in Keys, NEW p \in Payloads
  PROVE  Created(k, p) \in Command
<1>1. command[k] \in Command
  BY DEF Commands
<1>2. [NewCommand EXCEPT !.cstate = "AWAITING", !.astate = "PENDING",
                         !.payload = p, !.left = ApprovalTime] \in Command
  BY NewCommandType, ApprovalsAssumption DEF Command
<1> QED BY <1>1, <1>2 DEF Created

LEMMA DecidedRowType ==
  ASSUME command \in Commands, session \in BrowserSessions,
         NEW s \in Sessions, NEW k \in Keys, NEW approve \in BOOLEAN
  PROVE  DecidedRow(s, k, approve) \in Command
<1>1. command[k] \in Command /\ session[s].user \in Users
  BY DEF Commands, BrowserSessions, Session
<1>2. CASE command[k].left = 0
  BY <1>1, <1>2 DEF DecidedRow, Command, Decided
<1>3. CASE command[k].left # 0 /\ approve
  BY <1>1, <1>3 DEF DecidedRow, Command, Decided
<1>4. CASE command[k].left # 0 /\ ~approve
  BY <1>1, <1>4 DEF DecidedRow, Command, Decided
<1> QED BY <1>2, <1>3, <1>4

-----------------------------------------------------------------------------
(* Type correctness *)

LEMMA InitType == Init => TypeOK
<1> SUFFICES ASSUME Init PROVE TypeOK
  OBVIOUS
<1>1. MemberTypeOK
  BY MembershipAssumption
     DEF Init, MemberInit, MemberTypeOK, Members, Member, BrowserSessions, Session, Delegated
<1>2. /\ SomeOf(Sessions) \in Sessions /\ SomeOf(Keys) \in Keys
      /\ SomeOf(Payloads) \in Payloads
  BY SomeOfType, ApprovalsAssumption
<1>3. command \in Commands
  BY NewCommandType DEF Init, Commands
<1>4. nonce \in [Nonces -> Nonce]
  BY <1>2 DEF Init, Nonce
<1>5. request \in [Requests -> Request]
  BY IdleRequestType DEF Init
<1>6. tool \in [ToolKeys -> ToolCommand]
  BY <1>2 DEF Init, ToolCommand
<1> QED BY <1>1, <1>3, <1>4, <1>5, <1>6 DEF TypeOK

LEMMA MemberStepType == ASSUME MemberTypeOK, MemberStep PROVE MemberTypeOK'
<1>1. ASSUME NEW s \in Sessions, NEW u \in Users, NEW r \in Delegated, AddMember(s, u, r)
      PROVE  MemberTypeOK'
  BY <1>1 DEF AddMember, Rejoined, MemberTypeOK, Members, Member
<1>2. ASSUME NEW s \in Sessions, NEW u \in Users, NEW r \in Delegated, ChangeMemberRoles(s, u, r)
      PROVE  MemberTypeOK'
  BY <1>2 DEF ChangeMemberRoles, MemberTypeOK, Members, Member
<1>3. ASSUME NEW s \in Sessions, NEW u \in Users, RevokeMember(s, u) PROVE MemberTypeOK'
  BY <1>3 DEF RevokeMember, MemberTypeOK, Members, Member
<1>4. ASSUME NEW s \in Sessions, NEW u \in Users, IssueBrowserSession(s, u)
      PROVE  MemberTypeOK'
  BY <1>4, MembershipAssumption
     DEF IssueBrowserSession, MemberTypeOK, Members, Member, BrowserSessions, Session
<1> QED BY <1>1, <1>2, <1>3, <1>4 DEF MemberStep

LEMMA ProposeType == ASSUME TypeOK, Propose PROVE command' \in Commands
<1> USE DEF TypeOK
<1>1. PICK s \in Sessions, k \in Keys, p \in Payloads :
        \/ CreateCommand(s, k, p)
        \/ \E v \in Policies : RequestApproval(s, k, p, v)
        \/ \E k2 \in Keys : Supersede(s, k, k2, p)
  BY DEF Propose
<1>2. Created(k, p) \in Command
  BY CreatedType
<1>3. CASE CreateCommand(s, k, p)
  BY <1>2, <1>3 DEF CreateCommand, Commands
<1>4. ASSUME NEW v \in Policies, RequestApproval(s, k, p, v) PROVE command' \in Commands
  <2>1. [Created(k, p) EXCEPT !.policy = v] \in Command
    BY <1>2 DEF Command
  <2> QED BY <1>4, <2>1 DEF RequestApproval, Commands
<1>5. ASSUME NEW k2 \in Keys, Supersede(s, k, k2, p) PROVE command' \in Commands
  <2>1. [Created(k2, p) EXCEPT !.replaces = k] \in Command
    BY CreatedType DEF Command
  <2>2. [command[k] EXCEPT !.cstate = "SUPERSEDED", !.astate = "SUPERSEDED"] \in Command
    BY DEF Commands, Command, Decided
  <2> QED BY <1>5, <2>1, <2>2 DEF Supersede, Commands
<1> QED BY <1>1, <1>3, <1>4, <1>5

LEMMA NextType == TypeOK /\ [Next]_vars => TypeOK'
<1> SUFFICES ASSUME TypeOK, [Next]_vars PROVE TypeOK'
  OBVIOUS
<1>1. CASE MemberStep /\ UNCHANGED <<command, nonce, request, tool>>
  BY <1>1, MemberStepType DEF TypeOK
<1>2. CASE Propose
  <2>1. UNCHANGED <<member, session, nonce, request, tool>>
    BY <1>2 DEF Propose, CreateCommand, RequestApproval, Supersede
  <2>2. command' \in Commands
    BY <1>2, ProposeType
  <2> QED BY <2>1, <2>2 DEF TypeOK, MemberTypeOK
<1>3. ASSUME NEW s \in Sessions, NEW k \in Keys, NEW n \in Nonces, IssueNonce(s, n, k)
      PROVE  TypeOK'
  <2>1. (IF NonceTime <= command[k].left THEN NonceTime ELSE command[k].left) \in Nat
    BY ApprovalsAssumption DEF TypeOK, Commands, Command
  <2> QED BY <1>3, <2>1 DEF IssueNonce, TypeOK, MemberTypeOK, Nonce
<1>4. ASSUME NEW s \in Sessions, NEW k \in Keys, NEW r \in Requests, NEW n \in Nonces,
             NEW b \in BOOLEAN, ConfirmDecision(r, s, n, k, b)
      PROVE  TypeOK'
  BY <1>4 DEF ConfirmDecision, TypeOK, MemberTypeOK, Nonce, Request
<1>5. ASSUME NEW s \in Sessions, NEW k \in Keys, NEW b \in BOOLEAN, Decide(s, k, b)
      PROVE  TypeOK'
  <2>1. DecidedRow(s, k, b) \in Command
    BY DecidedRowType DEF TypeOK, MemberTypeOK
  <2> QED BY <1>5, <2>1 DEF Decide, TypeOK, MemberTypeOK, Commands
<1>6. ASSUME NEW r \in Requests, FinishDecision(r) PROVE TypeOK'
  <2>1. request[r] \in Request
    BY DEF TypeOK
  <2>2. DecidedRow(request[r].session, request[r].key, request[r].approve) \in Command
    BY <2>1, DecidedRowType DEF TypeOK, MemberTypeOK, Request
  <2>3. command' \in Commands
    BY <1>6, <2>1, <2>2 DEF FinishDecision, TypeOK, Commands, Request
  <2> QED BY <1>6, <2>3, IdleRequestType DEF FinishDecision, TypeOK, MemberTypeOK
<1>7. CASE ExpireDueApprovals
  <2>1. \A k \in Keys :
          [command[k] EXCEPT !.cstate = "EXPIRED", !.astate = "EXPIRED"] \in Command
    BY DEF TypeOK, Commands, Command, Decided
  <2>2. command' \in Commands
    BY <1>7, <2>1 DEF ExpireDueApprovals, TypeOK, Commands
  <2> QED BY <1>7, <2>2 DEF ExpireDueApprovals, TypeOK, MemberTypeOK
<1>8. ASSUME NEW s \in Sessions, NEW v \in Policies, NEW k \in Keys, PrepareExecution(s, k, v)
      PROVE  TypeOK'
  <2>1. [command[k] EXCEPT !.prepared = "yes"] \in Command
    BY DEF TypeOK, Commands, Command
  <2> QED BY <1>8, <2>1 DEF PrepareExecution, TypeOK, MemberTypeOK, Commands
<1>9. ASSUME NEW s \in Sessions, NEW v \in Policies, NEW t \in ToolKeys,
             NEW k \in Keys \cup {NoKey}, NEW p \in Payloads, NEW stop \in BOOLEAN,
             SubmitDemoTool(s, t, k, p, v, stop)
      PROVE  TypeOK'
  <2> DEFINE fits == ~stop /\ k # NoKey /\ ApprovalFits(s, t, k, p, v)
             row == [state |-> IF fits THEN "accepted"
                               ELSE IF k = NoKey /\ ~stop THEN "approval_required" ELSE "blocked",
                     approval |-> IF fits THEN k ELSE NoKey,
                     payload |-> p, policy |-> v]
  <2>1. row \in ToolCommand
    BY DEF ToolCommand
  <2>2. tool' = [tool EXCEPT ![t] = SavedTool(t, row)]
    BY <1>9 DEF SubmitDemoTool
  <2>3. tool' \in [ToolKeys -> ToolCommand]
    <3> HIDE DEF row
    <3> QED BY <2>1, <2>2 DEF SavedTool, TypeOK
  <2>4. command' = command \/ (k \in Keys /\ command' = [command EXCEPT ![k].prepared = "yes"])
    BY <1>9 DEF SubmitDemoTool
  <2>5. command' \in Commands
    BY <2>4 DEF TypeOK, Commands, Command
  <2> QED BY <1>9, <2>3, <2>5 DEF SubmitDemoTool, TypeOK, MemberTypeOK
<1>10. CASE Tick
  <2>1. session' \in BrowserSessions
    BY <1>10 DEF Tick, SessionsAge, TypeOK, MemberTypeOK, BrowserSessions, Session
  <2>2. \A k \in Keys : [command[k] EXCEPT !.left = Less(@)] \in Command
    BY LessType DEF TypeOK, Commands, Command
  <2>3. \A n \in Nonces : [nonce[n] EXCEPT !.left = Less(@)] \in Nonce
    BY LessType DEF TypeOK, Nonce
  <2> QED BY <1>10, <2>1, <2>2, <2>3 DEF Tick, TypeOK, MemberTypeOK, Commands
<1>11. CASE UNCHANGED vars
  BY <1>11 DEF vars, TypeOK, MemberTypeOK
<1> QED BY <1>1, <1>2, <1>3, <1>4, <1>5, <1>6, <1>7, <1>8, <1>9, <1>10, <1>11
        DEF Next, Approve, Use

\* Memberships, contexts, commands with their approvals, nonces and tool commands
\* keep their declared shape, whoever is invited, revoked or decides (service.py,
\* browser_auth.py, approvals.py, gateway.py).
THEOREM TypeCorrect == Spec => []TypeOK
BY InitType, NextType, PTL DEF Spec

-----------------------------------------------------------------------------
(* The inductive invariant *)

Agree(c) == c.cstate = c.astate \/ (c.cstate = "AWAITING" /\ c.astate = "PENDING")

\* A decision is somebody's.
ApproverKnown == \A k \in Keys : command[k].astate = "APPROVED" => command[k].by \in Users

\* A tool command is accepted on an approval, never on none.
AcceptedOnKey == \A t \in ToolKeys : tool[t].state = "accepted" => tool[t].approval \in Keys

\* Two tool commands are not accepted on one approval.
OneToolEach ==
  \A t, u \in ToolKeys :
    (/\ tool[t].state = "accepted" /\ tool[u].state = "accepted"
     /\ tool[t].approval = tool[u].approval) => t = u

\* No context is ahead of the membership it was issued for.
SessionNotAhead == \A s \in Sessions : session[s].version <= member[session[s].user].version

IInv ==
  /\ TypeOK
  /\ SessionNotAhead
  /\ StatesAgree
  /\ ApproverKnown
  /\ AcceptedOnKey
  /\ OneToolEach
  /\ AcceptedAsApproved

\* What no step takes back of a command row: an approved row stays as it was
\* approved and can only be superseded, a superseded one stays.
Kept(c, d) ==
  /\ Agree(d)
  /\ d.astate = "APPROVED" => d.by \in Users
  /\ c.astate \in {"APPROVED", "SUPERSEDED"} =>
       /\ d.payload = c.payload /\ d.policy = c.policy /\ d.by = c.by
       /\ d.astate = c.astate \/ d.astate = "SUPERSEDED"

-----------------------------------------------------------------------------
(* Every step keeps every command row in that sense *)

LEMMA SameKept ==
  ASSUME IInv, NEW k \in Keys, NEW d \in Command,
         d.cstate = command[k].cstate, d.astate = command[k].astate, d.by = command[k].by,
         d.payload = command[k].payload, d.policy = command[k].policy
  PROVE  Kept(command[k], d)
BY DEF Kept, Agree, IInv, StatesAgree, ApproverKnown

LEMMA CreatedKept ==
  ASSUME IInv, NEW k \in Keys, NEW p \in Payloads
  PROVE  /\ Kept(command[k], Created(k, p))
         /\ command[k].astate = "ABSENT" \/ Created(k, p) = command[k]
<1>1. command[k] \in Command
  BY DEF IInv, TypeOK, Commands
<1>2. CASE command[k].cstate = "ABSENT"
  <2>1. command[k].astate = "ABSENT"
    BY <1>2 DEF IInv, StatesAgree
  <2>2. Created(k, p).cstate = "AWAITING" /\ Created(k, p).astate = "PENDING"
    BY <1>2, NewCommandType DEF Created, Command
  <2> QED BY <2>1, <2>2 DEF Kept, Agree
<1>3. CASE command[k].cstate # "ABSENT"
  <2>1. Created(k, p) = command[k]
    BY <1>3 DEF Created
  <2> QED BY <1>1, <2>1, SameKept
<1> QED BY <1>2, <1>3

LEMMA DecidedKept ==
  ASSUME IInv, NEW s \in Sessions, NEW k \in Keys, NEW b \in BOOLEAN, Pending(k)
  PROVE  Kept(command[k], DecidedRow(s, k, b))
<1>1. command[k] \in Command /\ session[s].user \in Users
  BY DEF IInv, TypeOK, MemberTypeOK, Commands, BrowserSessions, Session
<1>2. CASE command[k].left = 0
  BY <1>1, <1>2 DEF DecidedRow, Kept, Agree, Pending, Command
<1>3. CASE command[k].left # 0 /\ b
  BY <1>1, <1>3 DEF DecidedRow, Kept, Agree, Pending, Command
<1>4. CASE command[k].left # 0 /\ ~b
  BY <1>1, <1>4 DEF DecidedRow, Kept, Agree, Pending, Command
<1> QED BY <1>2, <1>3, <1>4

LEMMA ProposeKept == ASSUME IInv, Propose, NEW i \in Keys PROVE Kept(command[i], command'[i])
<1>0. command[i] \in Command /\ command \in [Keys -> Command] /\ Kept(command[i], command[i])
  BY SameKept DEF IInv, TypeOK, Commands
<1>1. PICK s \in Sessions, k \in Keys, p \in Payloads :
        \/ CreateCommand(s, k, p)
        \/ \E v \in Policies : RequestApproval(s, k, p, v)
        \/ \E k2 \in Keys : Supersede(s, k, k2, p)
  BY DEF Propose
<1>2. Created(k, p) \in Command
  BY CreatedType DEF IInv, TypeOK
<1>3. CASE CreateCommand(s, k, p)
  BY <1>0, <1>3, CreatedKept DEF CreateCommand
<1>4. ASSUME NEW v \in Policies, RequestApproval(s, k, p, v)
      PROVE  Kept(command[i], command'[i])
  <2> DEFINE d == [Created(k, p) EXCEPT !.policy = v]
  <2>1. Created(k, p).policy = v
        \/ (Created(k, p).policy = 0 /\ Created(k, p).astate = "PENDING")
    BY <1>4 DEF RequestApproval, Attachable
  <2>2. Kept(command[k], Created(k, p))
        /\ (command[k].astate = "ABSENT" \/ Created(k, p) = command[k])
    BY CreatedKept
  <2>3. Kept(command[k], d)
    BY <1>2, <2>1, <2>2 DEF Kept, Agree, Command
  <2> HIDE DEF d
  <2>4. command' = [command EXCEPT ![k] = d]
    BY <1>4 DEF RequestApproval, d
  <2> QED BY <1>0, <2>3, <2>4
<1>5. ASSUME NEW k2 \in Keys, Supersede(s, k, k2, p) PROVE Kept(command[i], command'[i])
  <2> DEFINE d == [Created(k2, p) EXCEPT !.replaces = k]
             c == [command[k] EXCEPT !.cstate = "SUPERSEDED", !.astate = "SUPERSEDED"]
  <2>1. Created(k2, p) \in Command /\ Kept(command[k2], Created(k2, p))
    BY CreatedKept, CreatedType DEF IInv, TypeOK
  <2>2. Kept(command[k2], d)
    BY <2>1 DEF Kept, Agree, Command
  <2>3. Kept(command[k], c)
    BY <1>0 DEF Kept, Agree, Command
  <2> HIDE DEF c, d
  <2>4. command' = [command EXCEPT ![k] = c, ![k2] = d] /\ k2 # k
    BY <1>5 DEF Supersede, c, d
  <2> QED BY <1>0, <2>2, <2>3, <2>4
<1> QED BY <1>1, <1>3, <1>4, <1>5

LEMMA ApproveKept ==
  ASSUME IInv, Approve, NEW i \in Keys
  PROVE  Kept(command[i], command'[i])
<1>0. command \in [Keys -> Command] /\ Kept(command[i], command[i])
  BY SameKept DEF IInv, TypeOK, Commands
<1>1. ASSUME NEW s \in Sessions, NEW k \in Keys, NEW b \in BOOLEAN, Decide(s, k, b)
      PROVE  Kept(command[i], command'[i])
  BY <1>0, <1>1, DecidedKept DEF Decide, MayDecide
<1>2. ASSUME NEW r \in Requests, FinishDecision(r) PROVE Kept(command[i], command'[i])
  <2>1. request[r].session \in Sessions /\ request[r].key \in Keys /\ request[r].approve \in BOOLEAN
    BY DEF IInv, TypeOK, Request
  <2> QED BY <1>0, <1>2, <2>1, DecidedKept DEF FinishDecision, MayDecide
<1>3. ASSUME NEW s \in Sessions, NEW k \in Keys, NEW n \in Nonces, IssueNonce(s, n, k)
      PROVE  Kept(command[i], command'[i])
  BY <1>0, <1>3 DEF IssueNonce
<1>4. ASSUME NEW s \in Sessions, NEW k \in Keys, NEW r \in Requests, NEW n \in Nonces,
             NEW b \in BOOLEAN, ConfirmDecision(r, s, n, k, b)
      PROVE  Kept(command[i], command'[i])
  BY <1>0, <1>4 DEF ConfirmDecision
<1> QED BY <1>1, <1>2, <1>3, <1>4 DEF Approve

\* Executing an approval marks it prepared and changes nothing else of it.
LEMMA UseStep ==
  ASSUME Use
  PROVE  /\ command' = command \/ \E k \in Keys : command' = [command EXCEPT ![k].prepared = "yes"]
         /\ UNCHANGED <<member, session, nonce, request>>
<1>1. ASSUME NEW s \in Sessions, NEW v \in Policies, NEW k \in Keys, PrepareExecution(s, k, v)
      PROVE  /\ command' = [command EXCEPT ![k].prepared = "yes"]
             /\ UNCHANGED <<member, session, nonce, request>>
  BY <1>1 DEF PrepareExecution
<1>2. ASSUME NEW s \in Sessions, NEW v \in Policies, NEW t \in ToolKeys,
             NEW k \in Keys \cup {NoKey}, NEW p \in Payloads, NEW stop \in BOOLEAN,
             SubmitDemoTool(s, t, k, p, v, stop)
      PROVE  /\ \/ command' = command
                \/ k \in Keys /\ command' = [command EXCEPT ![k].prepared = "yes"]
             /\ UNCHANGED <<member, session, nonce, request>>
  BY <1>2 DEF SubmitDemoTool
<1> QED BY <1>1, <1>2 DEF Use

\* Every step keeps every row.
LEMMA NextKept ==
  ASSUME IInv, [Next]_vars, NEW i \in Keys
  PROVE  Kept(command[i], command'[i])
<1>0. /\ command \in [Keys -> Command] /\ command[i] \in Command
      /\ Kept(command[i], command[i])
  BY SameKept DEF IInv, TypeOK, Commands
<1>1. CASE ExpireDueApprovals
  <2>1. command'[i] = command[i]
        \/ /\ Pending(i)
           /\ command'[i] = [command[i] EXCEPT !.cstate = "EXPIRED", !.astate = "EXPIRED"]
    BY <1>1 DEF ExpireDueApprovals, Due
  <2> QED BY <1>0, <2>1 DEF Kept, Agree, Pending, Command
<1>2. ASSUME NEW k \in Keys, command' = [command EXCEPT ![k].prepared = "yes"]
      PROVE  Kept(command[i], command'[i])
  <2>1. [command[i] EXCEPT !.prepared = "yes"] \in Command
    BY <1>0 DEF Command
  <2>2. Kept(command[i], [command[i] EXCEPT !.prepared = "yes"])
    BY <1>0 DEF Kept, Agree, Command
  <2> QED BY <1>0, <1>2, <2>2
<1>3. CASE Use
  BY <1>0, <1>2, <1>3, UseStep
<1>4. CASE Tick
  <2>1. command'[i] = [command[i] EXCEPT !.left = Less(@)]
    BY <1>4 DEF Tick
  <2> QED BY <1>0, <2>1 DEF Kept, Agree, Command
<1>5. CASE (MemberStep /\ UNCHANGED <<command, nonce, request, tool>>) \/ UNCHANGED vars
  BY <1>0, <1>5 DEF vars
<1> QED BY <1>1, <1>3, <1>4, <1>5, ProposeKept, ApproveKept DEF Next

-----------------------------------------------------------------------------
(* Tool commands *)

\* A tool command that is accepted was accepted before or is accepted now, on
\* an approval that is approved and not used.
LEMMA ToolStep ==
  ASSUME IInv, [Next]_vars, NEW t \in ToolKeys, tool'[t].state = "accepted"
  PROVE  \/ tool[t].state = "accepted" /\ tool'[t] = tool[t]
         \/ /\ tool[t].state # "accepted"
            /\ tool'[t].approval \in Keys
            /\ LET c == command[tool'[t].approval]
               IN  /\ c.astate = "APPROVED" /\ c.left > 0
                   /\ c.payload = tool'[t].payload /\ c.policy = tool'[t].policy
                   /\ member[c.by].status = "active" /\ Capable(c.by)
            /\ Unused(t, tool'[t].approval)
            /\ \A u \in ToolKeys \ {t} : tool'[u] = tool[u]
<1>1. ASSUME NEW s \in Sessions, NEW v \in Policies, NEW o \in ToolKeys,
             NEW k \in Keys \cup {NoKey}, NEW p \in Payloads, NEW stop \in BOOLEAN,
             SubmitDemoTool(s, o, k, p, v, stop)
      PROVE  \/ tool'[t] = tool[t]
             \/ /\ tool[t].state = "ABSENT"
                /\ k # NoKey /\ ApprovalFits(s, t, k, p, v)
                /\ tool'[t].approval = k /\ tool'[t].payload = p /\ tool'[t].policy = v
                /\ \A u \in ToolKeys \ {t} : tool'[u] = tool[u]
  <2> DEFINE fits == ~stop /\ k # NoKey /\ ApprovalFits(s, o, k, p, v)
             row == [state |-> IF fits THEN "accepted"
                               ELSE IF k = NoKey /\ ~stop THEN "approval_required" ELSE "blocked",
                     approval |-> IF fits THEN k ELSE NoKey,
                     payload |-> p, policy |-> v]
  <2>1. tool' = [tool EXCEPT ![o] = SavedTool(o, row)] /\ tool \in [ToolKeys -> ToolCommand]
    BY <1>1 DEF SubmitDemoTool, IInv, TypeOK
  <2>2. row.state = "accepted" => fits /\ row.approval = k
    OBVIOUS
  <2>3. row.payload = p /\ row.policy = v
    OBVIOUS
  <2> HIDE DEF row
  <2>4. CASE t # o
    BY <2>1, <2>4
  <2>5. CASE t = o /\ tool[t].state # "ABSENT"
    BY <2>1, <2>5 DEF SavedTool
  <2>6. CASE t = o /\ tool[t].state = "ABSENT"
    <3>1. tool'[t] = row
      BY <2>1, <2>6 DEF SavedTool
    <3> QED BY <2>1, <2>2, <2>3, <2>6, <3>1
  <2> QED BY <2>4, <2>5, <2>6
<1>2. CASE \E s \in Sessions, v \in Policies, o \in ToolKeys, k \in Keys \cup {NoKey},
              p \in Payloads, stop \in BOOLEAN : SubmitDemoTool(s, o, k, p, v, stop)
  BY <1>1, <1>2 DEF ApprovalFits, Executable
<1>3. CASE tool' = tool
  BY <1>3
<1>4. \/ \E s \in Sessions, v \in Policies, o \in ToolKeys, k \in Keys \cup {NoKey},
            p \in Payloads, stop \in BOOLEAN : SubmitDemoTool(s, o, k, p, v, stop)
      \/ tool' = tool
  BY DEF Next, Propose, CreateCommand, RequestApproval, Supersede, Approve, IssueNonce,
         ConfirmDecision, Decide, FinishDecision, ExpireDueApprovals, Use, PrepareExecution,
         Tick, vars
<1> QED BY <1>2, <1>3, <1>4

\* Of tool commands no two of which share an approval, at most one has any given.
LEMMA AtMostOne == ASSUME OneToolEach PROVE ApprovalUsedOnce
<1> SUFFICES ASSUME NEW k \in Keys
             PROVE  Cardinality({t \in ToolKeys : tool[t].state = "accepted"
                                                  /\ tool[t].approval = k}) <= 1
  BY DEF ApprovalUsedOnce
<1> DEFINE S == {t \in ToolKeys : tool[t].state = "accepted" /\ tool[t].approval = k}
<1> SUFFICES Cardinality(S) <= 1
  OBVIOUS
<1>1. CASE S = {}
  <2> HIDE DEF S
  <2> QED BY <1>1, FS_EmptySet
<1>2. CASE S # {}
  <2>1. PICK t : t \in S
    BY <1>2
  <2>2. S = {t}
    BY <2>1 DEF OneToolEach
  <2>3. Cardinality({t}) = 1
    BY FS_Singleton
  <2> HIDE DEF S
  <2> QED BY <2>2, <2>3
<1> QED BY <1>1, <1>2

-----------------------------------------------------------------------------
(* Memberships and contexts *)

\* A membership is only ever written with a higher version, and a context is
\* written once.
LEMMA MemberSteps ==
  ASSUME IInv, [Next]_vars
  PROVE  /\ \A u \in Users : member'[u] = member[u] \/ member'[u].version > member[u].version
         /\ \A s \in Sessions :
              \/ session'[s].user = session[s].user /\ session'[s].version = session[s].version
              \/ /\ session[s].version = 0
                 /\ session'[s].version = member[session'[s].user].version
                 /\ session'[s].user \in Users /\ member' = member
<1> USE DEF IInv, TypeOK, MemberTypeOK, Members, Member, BrowserSessions, Session
<1>1. ASSUME NEW s \in Sessions, NEW u \in Users, NEW r \in Delegated,
             AddMember(s, u, r) \/ ChangeMemberRoles(s, u, r)
      PROVE  /\ \A w \in Users : member'[w] = member[w] \/ member'[w].version > member[w].version
             /\ session' = session
  BY <1>1 DEF AddMember, Rejoined, ChangeMemberRoles, RevokeMember
<1>2. ASSUME NEW s \in Sessions, NEW u \in Users, RevokeMember(s, u)
      PROVE  /\ \A w \in Users : member'[w] = member[w] \/ member'[w].version > member[w].version
             /\ session' = session
  BY <1>2 DEF RevokeMember
<1>3. ASSUME NEW s \in Sessions, NEW u \in Users, IssueBrowserSession(s, u)
      PROVE  /\ member' = member
             /\ \A o \in Sessions :
                  \/ session'[o] = session[o]
                  \/ /\ session[o].version = 0 /\ session'[o].user = u
                     /\ session'[o].version = member[u].version
  BY <1>3 DEF IssueBrowserSession
<1>4. CASE Tick
  BY <1>4 DEF Tick, SessionsAge
<1>5. CASE UNCHANGED <<member, session>>
  BY <1>5
<1>6. Propose \/ Approve \/ ExpireDueApprovals \/ Use => UNCHANGED <<member, session>>
  BY UseStep DEF Propose, CreateCommand, RequestApproval, Supersede, Approve, IssueNonce,
                 ConfirmDecision, Decide, FinishDecision, ExpireDueApprovals
<1>7. CASE MemberStep
  BY <1>1, <1>2, <1>3, <1>7 DEF MemberStep
<1> QED BY <1>4, <1>5, <1>6, <1>7 DEF Next, vars

\* Versions only grow, so no context gets ahead.
LEMMA SessionNotAheadKept == ASSUME IInv, [Next]_vars PROVE SessionNotAhead'
<1> SUFFICES ASSUME NEW s \in Sessions
             PROVE  session'[s].version <= member'[session'[s].user].version
  BY DEF SessionNotAhead
<1>1. TypeOK'
  BY NextType DEF IInv
<1>2. /\ session[s].user \in Users /\ session'[s].user \in Users
      /\ session[s].version \in Nat /\ session'[s].version \in Nat
  BY <1>1 DEF IInv, TypeOK, MemberTypeOK, BrowserSessions, Session
<1>3. \A u \in Users : member[u].version \in Nat /\ member'[u].version \in Nat
  BY <1>1 DEF IInv, TypeOK, MemberTypeOK, Members, Member
<1>4. \A u \in Users : member'[u].version >= member[u].version
  BY <1>3, MemberSteps
<1>5. CASE session'[s].user = session[s].user /\ session'[s].version = session[s].version
  <2>1. session[s].version <= member[session[s].user].version
    BY DEF IInv, SessionNotAhead
  <2> QED BY <1>2, <1>3, <1>4, <1>5, <2>1
<1>6. CASE session'[s].version = member[session'[s].user].version /\ member' = member
  BY <1>2, <1>3, <1>6
<1> QED BY <1>5, <1>6, MemberSteps

-----------------------------------------------------------------------------
(* Preservation *)

LEMMA InitIInv == Init => IInv
<1> SUFFICES ASSUME Init PROVE IInv
  OBVIOUS
<1>1. TypeOK
  BY InitType
<1>2. \A k \in Keys : command[k].cstate = "ABSENT" /\ command[k].astate = "ABSENT"
  BY DEF Init, NewCommand
<1>3. \A t \in ToolKeys : tool[t].state = "ABSENT"
  BY DEF Init
<1>4. SessionNotAhead
  <2>1. \A s \in Sessions : session[s].version = 0 /\ session[s].user \in Users
    BY MembershipAssumption DEF Init, MemberInit
  <2>2. \A u \in Users : member[u].version \in Nat
    BY <1>1 DEF TypeOK, MemberTypeOK, Members, Member
  <2> QED BY <2>1, <2>2 DEF SessionNotAhead
<1> QED BY <1>1, <1>2, <1>3, <1>4
        DEF IInv, StatesAgree, ApproverKnown, AcceptedOnKey, OneToolEach, AcceptedAsApproved

LEMMA AcceptedAsApprovedKept ==
  ASSUME IInv, [Next]_vars, NEW t \in ToolKeys, tool'[t].state = "accepted"
  PROVE  /\ tool'[t].approval \in Keys
         /\ LET c == command'[tool'[t].approval]
            IN  /\ c.payload = tool'[t].payload /\ c.policy = tool'[t].policy
                /\ c.astate \in {"APPROVED", "SUPERSEDED"} /\ c.by # NoUser
<1> DEFINE k == tool'[t].approval
           c == command[k]
<1>1. /\ k \in Keys
      /\ c.payload = tool'[t].payload /\ c.policy = tool'[t].policy
      /\ c.astate \in {"APPROVED", "SUPERSEDED"} /\ c.by # NoUser
  <2>1. CASE tool[t].state = "accepted" /\ tool'[t] = tool[t]
    BY <2>1 DEF IInv, AcceptedOnKey, AcceptedAsApproved
  <2>2. CASE tool[t].state # "accepted"
    <3>1. k \in Keys /\ c.astate = "APPROVED"
          /\ c.payload = tool'[t].payload /\ c.policy = tool'[t].policy
      BY <2>2, ToolStep
    <3>2. c.by # NoUser
      BY <3>1, ApprovalsAssumption DEF IInv, ApproverKnown
    <3> QED BY <3>1, <3>2
  <2> QED BY <2>1, <2>2, ToolStep
<1>2. Kept(c, command'[k])
  BY <1>1, NextKept
<1> QED BY <1>1, <1>2 DEF Kept

LEMMA OneToolEachKept == ASSUME IInv, [Next]_vars PROVE OneToolEach'
<1> SUFFICES ASSUME NEW t \in ToolKeys, NEW u \in ToolKeys,
                    tool'[t].state = "accepted", tool'[u].state = "accepted",
                    tool'[t].approval = tool'[u].approval, t # u
             PROVE  FALSE
  BY DEF OneToolEach
<1>1. CASE tool[t].state = "accepted" /\ tool'[t] = tool[t]
           /\ tool[u].state = "accepted" /\ tool'[u] = tool[u]
  BY <1>1 DEF IInv, OneToolEach
<1>2. CASE tool[t].state # "accepted"
  BY <1>2, ToolStep DEF Unused
<1>3. CASE tool[u].state # "accepted"
  BY <1>3, ToolStep DEF Unused
<1> QED BY <1>1, <1>2, <1>3, ToolStep

LEMMA NextIInv == IInv /\ [Next]_vars => IInv'
<1> SUFFICES ASSUME IInv, [Next]_vars PROVE IInv'
  OBVIOUS
<1>1. TypeOK'
  BY NextType DEF IInv
<1>2. StatesAgree' /\ ApproverKnown'
  BY NextKept DEF Kept, Agree, StatesAgree, ApproverKnown
<1>3. AcceptedOnKey' /\ AcceptedAsApproved'
  BY AcceptedAsApprovedKept DEF AcceptedOnKey, AcceptedAsApproved
<1> QED BY <1>1, <1>2, <1>3, OneToolEachKept, SessionNotAheadKept DEF IInv

LEMMA SpecIInv == Spec => []IInv
BY InitIInv, NextIInv, PTL DEF Spec

\* The state of a command and the state of its approval never disagree, whichever
\* of decide, expire_due_approvals and supersede comes first.
THEOREM StatesNeverDisagree == Spec => []StatesAgree
<1>1. IInv => StatesAgree
  BY DEF IInv
<1> QED BY <1>1, SpecIInv, PTL

\* However many tool commands name an approval, submit_demo_tool accepts at most
\* one of them.
THEOREM ApprovalsUsedOnce == Spec => []ApprovalUsedOnce
<1>1. IInv => ApprovalUsedOnce
  BY AtMostOne DEF IInv
<1> QED BY <1>1, SpecIInv, PTL

\* What submit_demo_tool accepted carries the payload that was approved, although
\* the command may be superseded after that.
THEOREM ToolsAreApproved == Spec => []AcceptedAsApproved
<1>1. IInv => AcceptedAsApproved
  BY DEF IInv
<1> QED BY <1>1, SpecIInv, PTL

-----------------------------------------------------------------------------
(* Action properties *)

\* submit_demo_tool accepts on the authority of that moment: the approver is still a
\* member with the capability, and the approval is unexpired.
THEOREM ToolsOnCurrentAuthority == Spec => AcceptedOnCurrentAuthority
<1>1. ASSUME IInv, [Next]_vars
      PROVE  [\A t \in ToolKeys :
                tool[t].state # "accepted" /\ tool'[t].state = "accepted" =>
                  LET c == command[tool'[t].approval]
                  IN  /\ c.astate = "APPROVED" /\ c.left > 0
                      /\ member[c.by].status = "active" /\ Capable(c.by)]_vars
  BY <1>1, ToolStep
<1> QED BY <1>1, SpecIInv, PTL DEF Spec, AcceptedOnCurrentAuthority

\* A decision that lands in a row was Permitted at that moment.
LEMMA DecidedByUser ==
  ASSUME IInv, NEW s \in Sessions, NEW k \in Keys, NEW b \in BOOLEAN, MayDecide(s, k),
         DecidedRow(s, k, b).astate \in {"APPROVED", "REJECTED"}
  PROVE  /\ command[k].left > 0
         /\ member[DecidedRow(s, k, b).by].status = "active"
         /\ Capable(DecidedRow(s, k, b).by)
<1>1. command[k] \in Command
  BY DEF IInv, TypeOK, Commands
<1>2. command[k].left # 0
  BY <1>1 DEF DecidedRow, Command
<1>3. DecidedRow(s, k, b).by = session[s].user
  BY <1>1, <1>2 DEF DecidedRow, Command
<1> QED BY <1>1, <1>2, <1>3 DEF MayDecide, Permitted, Current, Command

LEMMA DecisionStep ==
  ASSUME IInv, [Next]_vars, NEW i \in Keys,
         command[i].astate # command'[i].astate, command'[i].astate \in {"APPROVED", "REJECTED"}
  PROVE  /\ command[i].left > 0
         /\ member[command'[i].by].status = "active" /\ Capable(command'[i].by)
<1>0. command \in [Keys -> Command] /\ command[i] \in Command
  BY DEF IInv, TypeOK, Commands
<1>1. ASSUME NEW s \in Sessions, NEW k \in Keys, NEW b \in BOOLEAN, MayDecide(s, k),
             command' = [command EXCEPT ![k] = DecidedRow(s, k, b)]
      PROVE  /\ command[i].left > 0
             /\ member[command'[i].by].status = "active" /\ Capable(command'[i].by)
  <2>1. i = k /\ command'[i] = DecidedRow(s, k, b)
    BY <1>0, <1>1
  <2> QED BY <1>1, <2>1, DecidedByUser
<1>2. CASE Approve
  <2>1. ASSUME NEW s \in Sessions, NEW k \in Keys, NEW b \in BOOLEAN, Decide(s, k, b)
        PROVE  /\ command[i].left > 0
               /\ member[command'[i].by].status = "active" /\ Capable(command'[i].by)
    BY <1>1, <2>1 DEF Decide
  <2>2. ASSUME NEW r \in Requests, FinishDecision(r)
        PROVE  /\ command[i].left > 0
               /\ member[command'[i].by].status = "active" /\ Capable(command'[i].by)
    <3>1. request[r].session \in Sessions /\ request[r].key \in Keys
          /\ request[r].approve \in BOOLEAN
      BY DEF IInv, TypeOK, Request
    <3> QED BY <1>1, <2>2, <3>1 DEF FinishDecision
  <2> QED BY <1>2, <2>1, <2>2 DEF Approve, IssueNonce, ConfirmDecision
<1>3. CASE Propose
  <2>1. PICK s \in Sessions, k \in Keys, p \in Payloads :
          \/ CreateCommand(s, k, p)
          \/ \E v \in Policies : RequestApproval(s, k, p, v)
          \/ \E k2 \in Keys : Supersede(s, k, k2, p)
    BY <1>3 DEF Propose
  <2>2. \A j \in Keys : /\ Created(j, p) \in Command
                        /\ Created(j, p) = command[j] \/ Created(j, p).astate = "PENDING"
    <3> TAKE j \in Keys
    <3>1. Created(j, p) \in Command
      BY CreatedType DEF IInv, TypeOK
    <3>2. CASE command[j].cstate = "ABSENT"
      BY <3>1, <3>2, NewCommandType DEF Created, Command
    <3> QED BY <3>1, <3>2 DEF Created
  <2>3. \A j \in Keys, v \in Policies :
          LET d == [Created(j, p) EXCEPT !.policy = v]
          IN  d.astate = command[j].astate \/ d.astate = "PENDING"
    BY <2>2 DEF Command
  <2>4. \A j \in Keys :
          LET d == [Created(j, p) EXCEPT !.replaces = k]
          IN  d.astate = command[j].astate \/ d.astate = "PENDING"
    BY <2>2 DEF Command
  <2>5. CASE CreateCommand(s, k, p)
    BY <1>0, <2>2, <2>5 DEF CreateCommand
  <2>6. ASSUME NEW v \in Policies, RequestApproval(s, k, p, v) PROVE FALSE
    <3>1. command' = [command EXCEPT ![k] = [Created(k, p) EXCEPT !.policy = v]]
      BY <2>6 DEF RequestApproval
    <3> QED BY <1>0, <2>3, <3>1
  <2>7. ASSUME NEW k2 \in Keys, Supersede(s, k, k2, p) PROVE FALSE
    <3> DEFINE c == [command[k] EXCEPT !.cstate = "SUPERSEDED", !.astate = "SUPERSEDED"]
               d == [Created(k2, p) EXCEPT !.replaces = k]
    <3>1. command' = [command EXCEPT ![k] = c, ![k2] = d]
      BY <2>7 DEF Supersede
    <3>2. c.astate = "SUPERSEDED"
      BY <1>0 DEF Command
    <3>3. d.astate = command[k2].astate \/ d.astate = "PENDING"
      BY <2>4
    <3> HIDE DEF c, d
    <3> QED BY <1>0, <3>1, <3>2, <3>3
  <2> QED BY <2>1, <2>5, <2>6, <2>7
<1>4. CASE ExpireDueApprovals
  <2>1. command'[i] = command[i]
        \/ command'[i] = [command[i] EXCEPT !.cstate = "EXPIRED", !.astate = "EXPIRED"]
    BY <1>4 DEF ExpireDueApprovals
  <2> QED BY <1>0, <2>1 DEF Command
<1>5. CASE Use
  <2>1. command' = command \/ \E k \in Keys : command' = [command EXCEPT ![k].prepared = "yes"]
    BY <1>5, UseStep
  <2> QED BY <1>0, <2>1 DEF Command
<1>6. CASE Tick
  <2>1. command'[i] = [command[i] EXCEPT !.left = Less(@)]
    BY <1>6 DEF Tick
  <2> QED BY <1>0, <2>1 DEF Command
<1> QED BY <1>2, <1>3, <1>4, <1>5, <1>6 DEF Next, vars

\* Whoever decides is at that step a current member with the capability, in time,
\* although the browser confirms and decides in two transactions (browser_auth.py,
\* decide).
THEOREM DecisionsHaveAuthority == Spec => DecidedWithAuthority
<1>1. ASSUME IInv, [Next]_vars
      PROVE  [\A k \in Keys :
                command[k].astate # command'[k].astate
                  /\ command'[k].astate \in {"APPROVED", "REJECTED"}
                  => /\ command[k].left > 0
                     /\ member[command'[k].by].status = "active"
                     /\ Capable(command'[k].by)]_vars
  BY <1>1, DecisionStep
<1> QED BY <1>1, SpecIInv, PTL DEF Spec, DecidedWithAuthority

\* A context whose membership version has passed is refused for good: revoking,
\* changing roles and inviting again only ever raise the version (service.py,
\* change_member_roles, revoke_member, add_member).
THEOREM StaleContextsStayStale == Spec => StaleStaysStale
<1>1. ASSUME IInv, [Next]_vars
      PROVE  [\A s \in Sessions :
                session[s].version > 0 /\ ~Current(s) => ~Current(s)']_memberVars
  <2> SUFFICES ASSUME NEW s \in Sessions, session[s].version > 0, ~Current(s), Current(s)'
               PROVE  FALSE
    OBVIOUS
  <2>1. TypeOK'
    BY <1>1, NextType DEF IInv
  <2>2. session'[s].user = session[s].user /\ session'[s].version = session[s].version
    BY <1>1, MemberSteps
  <2> DEFINE u == session[s].user
  <2>3. u \in Users /\ session[s].version \in Nat
    BY <1>1 DEF IInv, TypeOK, MemberTypeOK, BrowserSessions, Session
  <2>4. member[u].version \in Nat /\ member'[u].version \in Nat
    BY <2>1, <2>3, <1>1 DEF IInv, TypeOK, MemberTypeOK, Members, Member
  <2>5. member'[u].status = "active" /\ member'[u].version = session[s].version
    BY <2>2 DEF Current
  <2>6. session[s].version <= member[u].version
    BY <1>1 DEF IInv, SessionNotAhead
  <2>7. member'[u] = member[u]
    BY <1>1, <2>3, <2>4, <2>5, <2>6, MemberSteps
  <2> QED BY <2>5, <2>7 DEF Current
<1> QED BY <1>1, SpecIInv, PTL DEF Spec, StaleStaysStale

-----------------------------------------------------------------------------
(* Totals: the sum over a finite set grows by what is added to it, in      *)
(* whatever order the fold takes.  The library's induction takes an        *)
(* operator, so each induction is by a smallest counterexample.            *)

\* A set of natural numbers has a least one.
LEMMA LeastNat ==
  ASSUME NEW T, T \subseteq Nat, T # {}
  PROVE  \E m \in T : \A n \in T : m <= n
<1> DEFINE R == {ss \in Nat \X Nat : ss[1] < ss[2]}
<1>1. IsWellFoundedOn(R, Nat)
  BY NatLessThanWellFounded DEF OpToRel
<1>2. PICK m \in T : \A n \in T : ~(<<n, m>> \in R)
  <2> HIDE DEF R
  <2> QED BY <1>1, WFMin
<1>3. ASSUME NEW n \in T PROVE m <= n
  <2>1. m \in Nat /\ n \in Nat /\ <<n, m>> \notin R
    BY <1>2
  <2>2. <<n, m>> \in Nat \X Nat /\ <<n, m>>[1] = n /\ <<n, m>>[2] = m
    BY <2>1
  <2>3. ~(n < m)
    BY <2>1, <2>2
  <2> QED BY <2>1, <2>3
<1> QED BY <1>3

\* Of the subsets of a finite set that are in F, one has no smaller one in F.
LEMMA SmallestOf ==
  ASSUME NEW S, IsFiniteSet(S), NEW F \in SUBSET SUBSET S, F # {}
  PROVE  \E T \in F : \A U \in F : Cardinality(T) <= Cardinality(U)
<1> DEFINE N == {Cardinality(T) : T \in F}
<1>1. \A T \in F : IsFiniteSet(T) /\ Cardinality(T) \in Nat
  BY FS_Subset, FS_CardinalityType
<1>2. N \subseteq Nat /\ N # {}
  BY <1>1
<1>3. PICK m \in N : \A n \in N : m <= n
  <2> HIDE DEF N
  <2> QED BY <1>2, LeastNat
<1> QED BY <1>3

\* A set without one of its elements is smaller.
LEMMA SmallerWithout ==
  ASSUME NEW T, IsFiniteSet(T), NEW x \in T
  PROVE  /\ IsFiniteSet(T \ {x})
         /\ Cardinality(T) \in Nat /\ Cardinality(T \ {x}) \in Nat
         /\ Cardinality(T \ {x}) < Cardinality(T)
<1>1. IsFiniteSet(T \ {x}) /\ Cardinality(T \ {x}) = Cardinality(T) - 1
  BY FS_RemoveElement
<1>2. Cardinality(T) \in Nat /\ Cardinality(T \ {x}) \in Nat
  BY <1>1, FS_CardinalityType
<1> QED BY <1>1, <1>2

Picked(s) == CHOOSE x \in s : TRUE
Step(g, s) == IF s = {} THEN 0 ELSE Picked(s).amount + g[s \ {Picked(s)}]
\* The function that Total folds with, and what is to be shown of it.
Sums(S) == CHOOSE g : g = [s \in SUBSET S |-> Step(g, s)]

LEMMA PickedIn == ASSUME NEW s, s # {} PROVE Picked(s) \in s
BY DEF Picked

LEMMA TotalIsSums == ASSUME NEW S PROVE Total(S) = Sums(S)[S]
BY Zenon DEF Total, MapThenSumSet, MapThenFoldSet, Sums, Step, Picked

\* Such a function exists on the subsets up to any size,
Upto(S, n) == {s \in SUBSET S : Cardinality(s) <= n}
Summed(S, n) == \E g : g = [s \in Upto(S, n) |-> Step(g, s)]

LEMMA SummedNext ==
  ASSUME NEW S, IsFiniteSet(S), NEW n \in Nat, Summed(S, n)
  PROVE  Summed(S, n + 1)
<1>1. PICK g : g = [s \in Upto(S, n) |-> Step(g, s)]
  BY DEF Summed
<1> DEFINE h == [s \in Upto(S, n + 1) |-> Step(g, s)]
<1>2. ASSUME NEW s \in Upto(S, n + 1) PROVE Step(g, s) = Step(h, s)
  <2>1. CASE s = {}
    BY <2>1 DEF Step
  <2>2. CASE s # {}
    <3> DEFINE t == s \ {Picked(s)}
    <3>1. IsFiniteSet(s) /\ Picked(s) \in s
      BY <2>2, PickedIn, FS_Subset DEF Upto
    <3>2. Cardinality(t) < Cardinality(s) /\ Cardinality(t) \in Nat /\ Cardinality(s) \in Nat
      BY <3>1, SmallerWithout
    <3>3. Cardinality(s) <= n + 1
      BY DEF Upto
    <3>4. t \in Upto(S, n) /\ t \in Upto(S, n + 1)
      BY <3>2, <3>3 DEF Upto
    <3>5. g[t] = Step(g, t) /\ h[t] = Step(g, t)
      BY <1>1, <3>4, Zenon
    <3> QED BY <2>2, <3>5 DEF Step
  <2> QED BY <2>1, <2>2
<1>3. h = [s \in Upto(S, n + 1) |-> Step(h, s)]
  BY <1>2, Zenon
<1> QED BY <1>3, Zenon DEF Summed

LEMMA SummedAll == ASSUME NEW S, IsFiniteSet(S), NEW n \in Nat PROVE Summed(S, n)
<1> DEFINE B == {k \in Nat : ~Summed(S, k)}
<1> SUFFICES ASSUME B # {} PROVE FALSE
  OBVIOUS
<1>1. PICK m \in B : \A k \in B : m <= k
  <2>1. B \subseteq Nat
    OBVIOUS
  <2> HIDE DEF B
  <2> QED BY <2>1, LeastNat
<1>2. CASE m = 0
  <2> DEFINE g == [s \in Upto(S, 0) |-> 0]
  <2>1. \A s \in Upto(S, 0) : s = {}
    <3>1. ASSUME NEW s \in Upto(S, 0) PROVE s = {}
      <4>1. IsFiniteSet(s) /\ Cardinality(s) <= 0
        BY FS_Subset DEF Upto
      <4>2. Cardinality(s) \in Nat
        BY <4>1, FS_CardinalityType
      <4>3. Cardinality(s) = 0
        BY <4>1, <4>2
      <4> QED BY <4>1, <4>3, FS_EmptySet
    <3> QED BY <3>1
  <2>2. g = [s \in Upto(S, 0) |-> Step(g, s)]
    BY <2>1 DEF Step
  <2>3. Summed(S, 0)
    BY <2>2, Zenon DEF Summed
  <2> QED BY <1>2, <2>3
<1>3. CASE m # 0
  <2>1. m - 1 \in Nat /\ m = (m - 1) + 1 /\ ~(m <= m - 1)
    BY <1>3
  <2>2. Summed(S, m - 1)
    BY <1>1, <2>1
  <2>3. Summed(S, m)
    <3>1. Summed(S, (m - 1) + 1)
      BY <2>1, <2>2, SummedNext
    <3> QED BY <2>1, <3>1
  <2> QED BY <2>3
<1> QED BY <1>2, <1>3

\* hence on all of them, and Sums is one.
LEMMA SumsIs ==
  ASSUME NEW S, IsFiniteSet(S)
  PROVE  \A s \in SUBSET S : Sums(S)[s] = Step(Sums(S), s)
<1>1. Cardinality(S) \in Nat
  BY FS_CardinalityType
<1>2. Upto(S, Cardinality(S)) = SUBSET S
  BY FS_Subset DEF Upto
<1>3. \E g : g = [s \in SUBSET S |-> Step(g, s)]
  <2>1. Summed(S, Cardinality(S))
    BY <1>1, SummedAll
  <2> QED BY <1>2, <2>1, Zenon DEF Summed
<1>4. Sums(S) = [s \in SUBSET S |-> Step(Sums(S), s)]
  BY <1>3, Zenon DEF Sums
<1> QED BY <1>4, Zenon

\* Two of them agree where both are defined.
LEMMA SumsAgree ==
  ASSUME NEW S, IsFiniteSet(S), NEW A \in SUBSET S
  PROVE  Total(A) = Sums(S)[A]
<1> DEFINE F == {s \in SUBSET A : Sums(A)[s] # Sums(S)[s]}
<1>0. IsFiniteSet(A)
  BY FS_Subset
<1>1. ASSUME F # {} PROVE FALSE
  <2>1. PICK s \in F : \A u \in F : Cardinality(s) <= Cardinality(u)
    <3>1. F \in SUBSET SUBSET A
      OBVIOUS
    <3> HIDE DEF F
    <3> QED BY <1>0, <1>1, <3>1, SmallestOf
  <2>2. Sums(A)[s] = Step(Sums(A), s) /\ Sums(S)[s] = Step(Sums(S), s)
    BY <1>0, SumsIs
  <2>3. s # {}
    BY <2>2 DEF Step
  <2> DEFINE t == s \ {Picked(s)}
  <2>4. IsFiniteSet(s) /\ Picked(s) \in s
    BY <1>0, <2>3, PickedIn, FS_Subset
  <2>5. ~(Cardinality(s) <= Cardinality(t)) /\ t \in SUBSET A
    BY <2>4, SmallerWithout
  <2>6. Sums(A)[t] = Sums(S)[t]
    BY <2>1, <2>5
  <2>7. Step(Sums(A), s) = Step(Sums(S), s)
    BY <2>3, <2>6 DEF Step
  <2> QED BY <2>2, <2>7
<1> QED BY <1>1, TotalIsSums

\* The total of a finite set is what is picked first and the total of the rest.
LEMMA TotalPicks ==
  ASSUME NEW A, IsFiniteSet(A)
  PROVE  /\ A = {} => Total(A) = 0
         /\ A # {} => Total(A) = Picked(A).amount + Total(A \ {Picked(A)})
<1>1. Total(A) = Step(Sums(A), A)
  BY TotalIsSums, SumsIs
<1>2. ASSUME A # {} PROVE Sums(A)[A \ {Picked(A)}] = Total(A \ {Picked(A)})
  <2>1. A \ {Picked(A)} \in SUBSET A
    OBVIOUS
  <2> QED BY <2>1, SumsAgree
<1> QED BY <1>1, <1>2 DEF Step

Counted(S) == IsFiniteSet(S) /\ \A e \in S : e.amount \in Nat

LEMMA TotalType == ASSUME NEW S, Counted(S) PROVE Total(S) \in Nat
<1> DEFINE F == {s \in SUBSET S : Total(s) \notin Nat}
<1>1. ASSUME F # {} PROVE FALSE
  <2>1. PICK s \in F : \A u \in F : Cardinality(s) <= Cardinality(u)
    <3>1. F \in SUBSET SUBSET S
      OBVIOUS
    <3> HIDE DEF F
    <3> QED BY <1>1, <3>1, SmallestOf DEF Counted
  <2>2. IsFiniteSet(s)
    BY FS_Subset DEF Counted
  <2>3. s # {}
    BY <2>2, TotalPicks
  <2> DEFINE t == s \ {Picked(s)}
  <2>4. Picked(s) \in s
    BY <2>3, PickedIn
  <2>5. ~(Cardinality(s) <= Cardinality(t)) /\ t \in SUBSET S
    BY <2>2, <2>4, SmallerWithout
  <2>6. Total(t) \in Nat
    BY <2>1, <2>5
  <2>7. Picked(s).amount \in Nat
    BY <2>4 DEF Counted
  <2> QED BY <2>2, <2>3, <2>6, <2>7, TotalPicks
<1> QED BY <1>1

\* Whatever order the fold takes, one more entry adds its amount.
LEMMA TotalAdds ==
  ASSUME NEW S, NEW e, Counted(S), e.amount \in Nat, e \notin S
  PROVE  Total(S \cup {e}) = Total(S) + e.amount
<1> DEFINE A == S \cup {e}
           F == {s \in SUBSET A : \E d \in A \ s : Total(s \cup {d}) # Total(s) + d.amount}
<1>0. Counted(A)
  BY FS_AddElement DEF Counted
<1>1. ASSUME F # {} PROVE FALSE
  <2>1. PICK s \in F : \A u \in F : Cardinality(s) <= Cardinality(u)
    <3>1. F \in SUBSET SUBSET A /\ IsFiniteSet(A)
      BY <1>0 DEF Counted
    <3> HIDE DEF F, A
    <3> QED BY <1>1, <3>1, SmallestOf
  <2>2. PICK d \in A \ s : Total(s \cup {d}) # Total(s) + d.amount
    OBVIOUS
  <2> DEFINE sd == s \cup {d}
             x == Picked(sd)
  <2>3. IsFiniteSet(s) /\ IsFiniteSet(sd) /\ sd # {} /\ s \in SUBSET A
    BY <1>0, FS_Subset, FS_AddElement DEF Counted
  <2>4. Total(sd) = x.amount + Total(sd \ {x}) /\ x \in sd
    BY <2>3, TotalPicks, PickedIn
  <2>5. Total(s) \in Nat /\ d.amount \in Nat
    BY <1>0, <2>3, TotalType DEF Counted
  <2>6. CASE x = d
    <3>1. sd \ {x} = s
      BY <2>6
    <3>2. Total(sd) = d.amount + Total(s)
      BY <2>4, <2>6, <3>1
    <3> HIDE DEF x
    <3> QED BY <2>2, <2>5, <3>2
  <2>7. CASE x # d
    <3> DEFINE t == s \ {x}
    <3>1. x \in s /\ x \in A \ t /\ d \in A \ t
      BY <2>2, <2>3, <2>4, <2>7
    <3>2. ~(Cardinality(s) <= Cardinality(t)) /\ t \in SUBSET A /\ IsFiniteSet(t)
      BY <2>3, <3>1, SmallerWithout
    <3>3. Total(t \cup {d}) = Total(t) + d.amount /\ Total(t \cup {x}) = Total(t) + x.amount
      BY <2>1, <3>1, <3>2
    <3>4. sd \ {x} = t \cup {d} /\ t \cup {x} = s
      BY <2>7, <3>1
    <3>5. Total(sd) = x.amount + (Total(t) + d.amount) /\ Total(s) = Total(t) + x.amount
      BY <2>4, <3>3, <3>4
    <3>6. Total(t) \in Nat /\ x.amount \in Nat
      BY <1>0, <3>1, <3>2, TotalType DEF Counted
    <3> HIDE DEF x, t
    <3> QED BY <2>2, <2>5, <3>5, <3>6
  <2> QED BY <2>6, <2>7
<1> HIDE DEF F
<1>2. S \notin F /\ S \in SUBSET A /\ e \in A \ S
  BY <1>1
<1> QED BY <1>2 DEF F
-----------------------------------------------------------------------------
(* The budget ledger: a month's total grows by what is booked on it, and   *)
(* only as far as reserve_budget_entry lets it.                            *)


\* Every verdict of record_demo_agent_run is one of the outcomes.
LEMMA OutcomeType ==
  ASSUME NEW ask \in Ask, NEW d, NEW limits, NEW telemetry \in BOOLEAN
  PROVE  Outcome(ask, d, limits, telemetry) \in Outcomes
BY DEF Outcome, WarningOutcome, Outcomes

\* Memory between calls is blank, which is a call's shape.
LEMMA IdleIsCall == Idle \in Call
<1>1. Ask # {}
  <2>1. PICK t \in Tenants, k \in RunKeys, c \in Costs : TRUE
    BY BudgetAssumption
  <2>2. [tenant |-> t, key |-> k, cost |-> c, growth |-> TRUE] \in Ask
    BY DEF Ask
  <2> QED BY <2>2
<1>2. (CHOOSE a \in Ask : TRUE) \in Ask
  BY <1>1
<1>3. 0 \in 0..MaxPolicies /\ 0 \in 0..Days
  BY BudgetAssumption
<1> HIDE DEF Ask
<1> QED BY <1>2, <1>3 DEF Idle, Call

LEMMA InitBudgetType == BudgetInit => BudgetTypeOK
<1> SUFFICES ASSUME BudgetInit PROVE BudgetTypeOK
  OBVIOUS
<1>1. [version |-> 0, limits |-> NoLimits] \in Policy
  BY BudgetAssumption DEF Policy
<1> QED BY <1>1, IdleIsCall, BudgetAssumption DEF BudgetInit, BudgetTypeOK

LEMMA BudgetTypeStep == BudgetTypeOK /\ [BudgetNext]_budgetVars => BudgetTypeOK'
<1> SUFFICES ASSUME BudgetTypeOK, [BudgetNext]_budgetVars PROVE BudgetTypeOK'
  OBVIOUS
<1>1. ASSUME NEW t \in Tenants, NEW limits \in LimitSets, SetDemoBudgetPolicy(t, limits)
      PROVE  BudgetTypeOK'
  <2>1. policy[t] \in Policy /\ policy[t].version < MaxPolicies
    BY <1>1 DEF SetDemoBudgetPolicy, BudgetTypeOK
  <2>2. [version |-> policy[t].version + 1, limits |-> limits] \in Policy
    BY <2>1, BudgetAssumption DEF Policy
  <2>3. policy' = [policy EXCEPT ![t] = [version |-> policy[t].version + 1, limits |-> limits]]
    BY <1>1 DEF SetDemoBudgetPolicy
  <2> QED BY <1>1, <2>2, <2>3 DEF SetDemoBudgetPolicy, BudgetTypeOK
<1>2. ASSUME NEW c \in Callers, NEW ask \in Ask, NEW version \in 1..MaxPolicies, BeginRun(c, ask, version)
      PROVE  BudgetTypeOK'
  <2>1. [busy |-> TRUE, ask |-> ask, policy |-> version, day |-> today] \in Call
    BY BudgetAssumption DEF Call, BudgetTypeOK
  <2> QED BY <1>2, <2>1 DEF BeginRun, BudgetTypeOK
<1>3. ASSUME NEW c \in Callers, NEW telemetry \in BOOLEAN, RecordRun(c, telemetry)
      PROVE  BudgetTypeOK'
  <2> DEFINE ask == call[c].ask
             outcome == Outcome(ask, call[c].day, policy[ask.tenant].limits, telemetry)
  <2>1. ask \in Ask /\ call[c].day \in 0..Days
    BY DEF BudgetTypeOK, Call
  <2>2. outcome \in Outcomes
    BY <2>1, OutcomeType
  <2>3. runs' = runs \cup {[ask |-> ask, outcome |-> outcome]}
    BY <1>3 DEF RecordRun, Recorded
  <2>4. [tenant |-> ask.tenant, key |-> ask.key, amount |-> ask.cost, day |-> call[c].day] \in Entry
    BY <2>1 DEF Ask, Entry
  <2>5. ledger' \subseteq Entry
    BY <1>3, <2>4 DEF RecordRun, BudgetTypeOK
  <2>6. runs' \subseteq Run
    <3> HIDE DEF outcome, ask
    <3>1. [ask |-> ask, outcome |-> outcome] \in Run
      BY <2>1, <2>2 DEF Run
    <3> QED BY <2>3, <3>1 DEF BudgetTypeOK
  <2> QED BY <1>3, <2>5, <2>6, IdleIsCall DEF RecordRun, BudgetTypeOK
<1>4. ASSUME NEW c \in Callers, LeaveRun(c) PROVE BudgetTypeOK'
  BY <1>4, IdleIsCall DEF LeaveRun, BudgetTypeOK
<1>5. CASE Midnight
  BY <1>5, BudgetAssumption DEF Midnight, BudgetTypeOK
<1>6. CASE UNCHANGED budgetVars
  BY <1>6 DEF budgetVars, BudgetTypeOK
<1> QED BY <1>1, <1>2, <1>3, <1>4, <1>5, <1>6 DEF BudgetNext

\* What the platform's total of a month adds up is counted.
BooksAreCounted == IsFiniteSet(ledger)
BudgetInv == BudgetTypeOK /\ BooksAreCounted /\ CapHolds

LEMMA MonthIsCounted ==
  ASSUME BudgetTypeOK, BooksAreCounted, NEW d \in 0..Days
  PROVE  Counted(InMonth(ledger, d))
<1>1. IsFiniteSet(InMonth(ledger, d))
  BY FS_Subset DEF BooksAreCounted, InMonth
<1>2. \A e \in InMonth(ledger, d) : e.amount \in Nat
  BY BudgetAssumption DEF InMonth, BudgetTypeOK, Entry
<1> QED BY <1>1, <1>2 DEF Counted

\* The month an entry is booked on holds its amount more than before, or the same
\* if the entry was there.
LEMMA MonthGrows ==
  ASSUME BudgetTypeOK, BooksAreCounted, NEW e \in Entry, NEW d \in 0..Days
  PROVE  LET after == Total(InMonth(ledger \cup {e}, d))
         IN  /\ after \in Nat
             /\ Month(e.day) # Month(d) => after = Total(InMonth(ledger, d))
             /\ Month(e.day) = Month(d) => after <= Total(InMonth(ledger, e.day)) + e.amount
<1> DEFINE M == InMonth(ledger, d)
<1>1. Counted(M) /\ Total(M) \in Nat
  BY MonthIsCounted, TotalType
<1>2. e.amount \in Nat
  BY BudgetAssumption DEF Entry
<1>3. CASE Month(e.day) # Month(d) \/ e \in ledger
  <2>1. InMonth(ledger \cup {e}, d) = M
    BY <1>3 DEF InMonth
  <2>2. Month(e.day) = Month(d) => InMonth(ledger, e.day) = M
    BY DEF InMonth
  <2> QED BY <1>1, <1>2, <2>1, <2>2
<1>4. CASE Month(e.day) = Month(d) /\ e \notin ledger
  <2>1. InMonth(ledger \cup {e}, d) = M \cup {e} /\ e \notin M /\ InMonth(ledger, e.day) = M
    BY <1>4 DEF InMonth
  <2>2. Total(M \cup {e}) = Total(M) + e.amount
    BY <1>1, <1>2, <2>1, TotalAdds
  <2>3. Total(InMonth(ledger \cup {e}, d)) = Total(M) + e.amount
    BY <2>1, <2>2
  <2>4. Total(InMonth(ledger, e.day)) = Total(M)
    BY <2>1
  <2> HIDE DEF M
  <2> QED BY <1>1, <1>2, <1>4, <2>3, <2>4
<1> QED BY <1>3, <1>4

\* A transaction books nothing, or one entry that fits under the cap.
LEMMA BookedOne ==
  ASSUME BudgetTypeOK, NEW c \in Callers, NEW telemetry \in BOOLEAN, RecordRun(c, telemetry)
  PROVE  \/ ledger' = ledger
         \/ \E e \in Entry : /\ ledger' = ledger \cup {e}
                             /\ Total(InMonth(ledger, e.day)) + e.amount < HardCap
<1> DEFINE ask == call[c].ask
           d == call[c].day
           e == [tenant |-> ask.tenant, key |-> ask.key, amount |-> ask.cost, day |-> d]
<1>1. ask \in Ask /\ d \in 0..Days
  BY DEF BudgetTypeOK, Call
<1>2. e \in Entry
  BY <1>1 DEF Ask, Entry
<1>3. ledger' = ledger \/ (ledger' = ledger \cup {e} /\ Fits(ask, d))
  BY DEF RecordRun
<1> QED BY <1>2, <1>3 DEF Fits, PlatformTotal

LEMMA BudgetInvStep == BudgetInv /\ [BudgetNext]_budgetVars => BudgetInv'
<1> SUFFICES ASSUME BudgetInv, [BudgetNext]_budgetVars PROVE BudgetInv'
  OBVIOUS
<1>1. BudgetTypeOK'
  BY BudgetTypeStep DEF BudgetInv
<1>2. \/ ledger' = ledger
      \/ \E e \in Entry : /\ ledger' = ledger \cup {e}
                          /\ Total(InMonth(ledger, e.day)) + e.amount < HardCap
  BY BookedOne
  DEF BudgetInv, BudgetNext, SetDemoBudgetPolicy, BeginRun, LeaveRun, Midnight, budgetVars
<1>3. CASE ledger' = ledger
  BY <1>1, <1>3 DEF BudgetInv, BooksAreCounted, CapHolds, InMonth
<1>4. ASSUME NEW e \in Entry, ledger' = ledger \cup {e},
             Total(InMonth(ledger, e.day)) + e.amount < HardCap
      PROVE  BudgetInv'
  <2>1. IsFiniteSet(ledger')
    BY <1>4, FS_AddElement DEF BudgetInv, BooksAreCounted
  <2>2. ASSUME NEW d \in 0..Days PROVE Total(InMonth(ledger', d)) < HardCap
    <3>1. Total(InMonth(ledger, d)) < HardCap /\ e.day \in 0..Days /\ e.amount \in Nat
      BY BudgetAssumption DEF BudgetInv, CapHolds, Entry
    <3>2. Total(InMonth(ledger, e.day)) \in Nat
      BY <3>1, MonthIsCounted, TotalType DEF BudgetInv
    <3>3. /\ Total(InMonth(ledger', d)) \in Nat
          /\ Month(e.day) # Month(d) => Total(InMonth(ledger', d)) = Total(InMonth(ledger, d))
          /\ Month(e.day) = Month(d) =>
               Total(InMonth(ledger', d)) <= Total(InMonth(ledger, e.day)) + e.amount
      BY <1>4, MonthGrows DEF BudgetInv
    <3> QED BY <1>4, <3>1, <3>2, <3>3, BudgetAssumption
  <2>3. CapHolds'
    BY <2>2 DEF CapHolds, InMonth, Month
  <2> QED BY <1>1, <2>1, <2>3 DEF BudgetInv, BooksAreCounted
<1> QED BY <1>2, <1>3, <1>4

LEMMA InitBudgetInv == BudgetInit => BudgetInv
<1> SUFFICES ASSUME BudgetInit PROVE BudgetInv
  OBVIOUS
<1>1. ledger = {} /\ IsFiniteSet({})
  BY FS_EmptySet DEF BudgetInit
<1>2. Total({}) = 0
  BY <1>1, TotalPicks
<1>3. \A d \in 0..Days : InMonth(ledger, d) = {}
  BY <1>1 DEF InMonth
<1> QED BY <1>1, <1>2, <1>3, InitBudgetType, BudgetAssumption DEF BudgetInv, BooksAreCounted, CapHolds

LEMMA SpecBudgetInv == BudgetSpec => []BudgetInv
BY InitBudgetInv, BudgetInvStep, PTL DEF BudgetSpec

\* Policies, runs, ledger and what a call read before its transaction keep their
\* declared shape (set_demo_budget_policy, record_demo_agent_run).
THEOREM BudgetTypeCorrect == BudgetSpec => []BudgetTypeOK
<1>1. BudgetInv => BudgetTypeOK
  BY DEF BudgetInv
<1> QED BY <1>1, SpecBudgetInv, PTL

\* In no month do all tenants together reach the platform's cap: reserve_budget_entry
\* adds up what is booked inside the transaction that books, so that calls which
\* projected the same total do not add up, and a call that books on a day that is
\* over is held to that day's month.
THEOREM PlatformCapHolds == BudgetSpec => []CapHolds
<1>1. BudgetInv => CapHolds
  BY DEF BudgetInv
<1> QED BY <1>1, SpecBudgetInv, PTL

\* What is accepted as growth was projected below the warning level.
LEMMA GrowthStep ==
  ASSUME BudgetInv, NEW c \in Callers, NEW telemetry \in BOOLEAN, RecordRun(c, telemetry),
         NEW r \in runs' \ runs, r.ask.growth, r.outcome \in Accepting
  PROVE  \E e \in ledger' :
           /\ e.tenant = r.ask.tenant /\ e.key = r.ask.key
           /\ Total({f \in ledger' : Month(f.day) = Month(e.day)}) < Warning
<1> DEFINE ask == call[c].ask
           d == call[c].day
           outcome == Outcome(ask, d, policy[ask.tenant].limits, telemetry)
           e == [tenant |-> ask.tenant, key |-> ask.key, amount |-> ask.cost, day |-> d]
<1>1. ask \in Ask /\ d \in 0..Days
  BY DEF BudgetInv, BudgetTypeOK, Call
<1>2. r = [ask |-> ask, outcome |-> outcome] /\ e \in Entry
  BY <1>1 DEF RecordRun, Recorded, Ask, Entry
<1>3. ask.growth /\ outcome \in Accepting
  BY <1>2
<1>4. ledger' = ledger \cup {e}
  BY <1>3 DEF RecordRun
<1>5. ~(PlatformTotal(ask.tenant, d) + ask.cost >= Warning)
  <2> DEFINE p == PlatformTotal(ask.tenant, d) + ask.cost
  <2>1. p \in Nat
    <3>1. Total(InMonth(ledger, d)) \in Nat
      BY <1>1, MonthIsCounted, TotalType DEF BudgetInv
    <3>2. ask.cost \in Nat
      BY <1>1, BudgetAssumption DEF Ask
    <3> HIDE DEF ask, d
    <3> QED BY <3>1, <3>2 DEF PlatformTotal
  <2>2. CASE ~telemetry
    BY <1>3, <2>2 DEF Outcome, Accepting
  <2>3. CASE telemetry /\ p >= HardCap
    BY <1>3, <2>1, <2>3, BudgetAssumption DEF Outcome, Accepting
  <2>4. CASE telemetry /\ p >= Warning /\ p < HardCap
    <3>1. outcome = WarningOutcome(ask, IF OverLimit(ask, d, policy[ask.tenant].limits) THEN "BLOCKED_BUDGET" ELSE "RECORDED")
      <4> HIDE DEF d
      <4> QED BY <2>1, <2>4, BudgetAssumption DEF Outcome
    <3> QED BY <1>3, <3>1 DEF WarningOutcome, Accepting
  <2> QED BY <2>1, <2>2, <2>3, <2>4, BudgetAssumption
<1>6. Total(InMonth(ledger', d)) < Warning
  <2>1. Total(InMonth(ledger, d)) \in Nat /\ ask.cost \in Nat
    BY <1>1, MonthIsCounted, TotalType, BudgetAssumption DEF BudgetInv, Ask
  <2>2. Total(InMonth(ledger', d)) \in Nat /\ Total(InMonth(ledger', d)) <= Total(InMonth(ledger, d)) + ask.cost
    BY <1>1, <1>2, <1>4, MonthGrows DEF BudgetInv
  <2> QED BY <1>5, <2>1, <2>2, BudgetAssumption DEF PlatformTotal
<1>7. InMonth(ledger', d) = {f \in ledger' : Month(f.day) = Month(e.day)}
  BY DEF InMonth
<1> QED BY <1>2, <1>4, <1>6, <1>7

\* Growth work stops at the warning level: whatever is booked for growth leaves its
\* month below it, also when others booked since the caller decided to ask
\* (record_demo_agent_run).
THEOREM GrowthWorkYields == BudgetSpec => GrowthYields
<1> DEFINE Yields(r) ==
       r.ask.growth /\ r.outcome \in Accepting =>
         \E e \in ledger' :
           /\ e.tenant = r.ask.tenant /\ e.key = r.ask.key
           /\ Total({f \in ledger' : Month(f.day) = Month(e.day)}) < Warning
<1>1. ASSUME BudgetInv, BudgetNext, NEW r \in runs' \ runs PROVE Yields(r)
  <2>1. \E c \in Callers, telemetry \in BOOLEAN : RecordRun(c, telemetry)
    BY <1>1 DEF BudgetNext, SetDemoBudgetPolicy, BeginRun, LeaveRun, Midnight
  <2> QED BY <1>1, <2>1, GrowthStep
<1>2. BudgetInv /\ [BudgetNext]_budgetVars => [\A r \in runs' \ runs : Yields(r)]_budgetVars
  <2> HIDE DEF Yields
  <2> QED BY <1>1
<1> QED BY <1>2, SpecBudgetInv, PTL DEF BudgetSpec, GrowthYields

=============================================================================
