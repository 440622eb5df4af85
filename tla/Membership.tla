----------------------------- MODULE Membership -----------------------------
(***************************************************************************)
(* Memberships and caller contexts of one tenant                           *)
(* (packages/store_core/service.py, browser_auth.py).                      *)
(*                                                                         *)
(* A caller acts through a context that names a user and the membership    *)
(* version it was issued for; _membership refuses it once the stored       *)
(* version moved on.  Roles are reduced to what the approval rules tell    *)
(* apart: the master, a role that carries the capability of the approval   *)
(* kind at hand, and a role that does not.                                 *)
(***************************************************************************)
EXTENDS Naturals, FiniteSets

CONSTANTS
  Users, Master,   \* people, and the one bootstrap_tenant made master
  Sessions,        \* caller contexts, each backed by a browser session
  SeatLimit,       \* active memberships a tenant supports (3)
  SessionTime,     \* ttl of a session, in clock ticks
  MaxRevision      \* bound: membership version

ASSUME MembershipAssumption ==
  /\ Master \in Users
  /\ IsFiniteSet(Users)
  /\ SeatLimit \in Nat \ {0}
  /\ SessionTime \in Nat \ {0}
  /\ MaxRevision \in Nat

VARIABLES
  member,   \* memberships; version 0 where a user has none
  session   \* browser_sessions; version 0 before the session is issued

memberVars == <<member, session>>

Delegated == {"approver", "other"}
Member == [role : Delegated \cup {"master", "none"}, status : {"active", "revoked"},
           version : Nat]
Session == [user : Users, version : Nat, left : Nat]

\* the tables memberships and browser_sessions, one row per user and per session
Members == [Users -> Member]
BrowserSessions == [Sessions -> Session]

MemberInit ==
  /\ member = [u \in Users |->
       IF u = Master THEN [role |-> "master", status |-> "active", version |-> 1]
                     ELSE [role |-> "none", status |-> "revoked", version |-> 0]]
  /\ session = [s \in Sessions |-> [user |-> Master, version |-> 0, left |-> 0]]

Active == {u \in Users : member[u].status = "active"}

\* _membership: the context's user is active and the version is current
Current(s) ==
  /\ session[s].version > 0
  /\ member[session[s].user].status = "active"
  /\ member[session[s].user].version = session[s].version

IsAdmin(s) == Current(s) /\ member[session[s].user].role = "master"

\* ROLE_CAPABILITIES: the master has every capability
Capable(u) == member[u].role \in {"master", "approver"}

\* require(context, APPROVAL_CAPABILITY[kind])
Permitted(s) == Current(s) /\ Capable(session[s].user)

\* authenticate_browser_session
Authenticated(s) == session[s].left > 0 /\ Current(s)

-----------------------------------------------------------------------------
\* Mutant of Rejoined: a member who comes back starts at version 1 again.
RejoinedAfresh(u, r) == [role |-> r, status |-> "active", version |-> 1]

\* the membership add_member writes, for a newcomer or over an earlier one
Rejoined(u, r) == [role |-> r, status |-> "active", version |-> member[u].version + 1]

AddMember(s, u, r) ==
  /\ IsAdmin(s)
  /\ Cardinality(Active) < SeatLimit
  /\ member[u].version < MaxRevision
  /\ member' = [member EXCEPT ![u] = Rejoined(u, r)]
  /\ UNCHANGED session

ChangeMemberRoles(s, u, r) ==
  /\ IsAdmin(s)
  /\ member[u].version \in 1..(MaxRevision - 1)
  /\ member[u].role # "master"
  /\ member' = [member EXCEPT ![u].role = r, ![u].version = @ + 1]
  /\ UNCHANGED session

RevokeMember(s, u) ==
  /\ IsAdmin(s)
  /\ member[u].version \in 1..(MaxRevision - 1)
  /\ member[u].role # "master"
  /\ member' = [member EXCEPT ![u].status = "revoked", ![u].version = @ + 1]
  /\ UNCHANGED session

\* context_for and issue_browser_session, called after the identity check
IssueBrowserSession(s, u) ==
  /\ session[s].version = 0
  /\ member[u].status = "active"
  /\ session' = [session EXCEPT ![s] =
       [user |-> u, version |-> member[u].version, left |-> SessionTime]]
  /\ UNCHANGED member

\* the members a master may address; Master is in Users like everybody else
MemberStep ==
  \/ \E s \in Sessions, u \in Users, r \in Delegated :
       AddMember(s, u, r) \/ ChangeMemberRoles(s, u, r)
  \/ \E s \in Sessions, u \in Users : RevokeMember(s, u) \/ IssueBrowserSession(s, u)

SessionsAge == session' = [s \in Sessions |-> [session[s] EXCEPT !.left = IF @ > 0 THEN @ - 1 ELSE 0]]

-----------------------------------------------------------------------------
(* Properties *)

\* Memberships and sessions keep their declared shape.
MemberTypeOK ==
  /\ member \in Members
  /\ session \in BrowserSessions

\* A context that was refused once is refused for good: no revocation followed
\* by a new invitation or another change of roles revives it (_membership
\* compares versions, every writer of a membership moves the version on).
StaleStaysStale ==
  [][\A s \in Sessions :
       session[s].version > 0 /\ ~Current(s) => ~Current(s)']_memberVars

=============================================================================
