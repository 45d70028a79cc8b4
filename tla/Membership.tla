----------------------------- MODULE Membership -----------------------------
(***************************************************************************)
(* The membership of one community (communityDirectory.service.ts 661-1047 *)
(* over yaysCommunityMember, yaysCommunityInvite and                       *)
(* yaysCommunityJoinRequest.service.ts, with the rules of                  *)
(* communities/permissions.ts): joining, asking to join, leaving, roles,   *)
(* removals, bans and invites, and what they do to the community's chat    *)
(* group.                                                                  *)
(*                                                                         *)
(* A process is one request in a worker; pc names the next await, and the  *)
(* action of that name is the await with the code up to the next one.      *)
(* Membership rows, invites and join requests are kept; the denormalised   *)
(* member count, the publishers' list, the expiry of invites, the          *)
(* notifications and the payload a request answers with are left out.      *)
(***************************************************************************)
EXTENDS Integers, FiniteSets, Functions

CONSTANTS
  Processes,
  Users,
  Owner,          \* created the community
  Deputy,         \* of its staff at first
  DeputyRole,     \* as a moderator or an admin
  PlatformAdmins, \* by the JWT's role claim
  Invites,
  Requests,       \* ids of join requests
  Guests,         \* bound: the users who join, leave and redeem invites
  Staff,          \* bound: the users who use the other calls
  Assigned,       \* bound: the roles they try to assign
  MaxUses,        \* maxUses of every invite
  MaxCalls,       \* bound on the requests
  MaxFaults       \* bound on the deaths of workers and lost chat updates

ASSUME UsersAssumption ==
  /\ Owner \in Users /\ Deputy \in Users \ {Owner}
  /\ DeputyRole \in {"moderator", "admin"}
  /\ PlatformAdmins \subseteq Users /\ Guests \subseteq Users /\ Staff \subseteq Users
ASSUME ProcessesAssumption == IsFiniteSet(Processes)
ASSUME BoundsAssumption == MaxUses \in Nat /\ MaxCalls \in Nat /\ MaxFaults \in Nat

VARIABLES
  community,  \* its privacy and inviteOnly settings
  members,    \* the membership row of each user
  chat,       \* members of the chat group
  blocked,    \* its blockedMembers
  invites,
  requests,
  calls,      \* the request each process is in
  begun,      \* requests so far
  faults,
  admitted,   \* history: admissions by each invite, ...
  invited,    \* ... and whom each has admitted
  crossed     \* history: users whose ban and unban overlapped

vars == <<community, members, chat, blocked, invites, requests, calls, begun, faults,
          admitted, invited, crossed>>
rows == <<members, chat, blocked, invites, requests>>
history == <<admitted, invited, crossed>>

-----------------------------------------------------------------------------
(* Rows and requests.                                                      *)

NoOne == "none"
Roles == {"owner", "admin", "moderator", "member"}
ASSUME RolesAssumption == Assigned \subseteq Roles
NoMember == [ role |-> NoOne, status |-> NoOne ]
Member == {NoMember} \cup [ role : Roles, status : {"active", "left", "removed", "banned"} ]
NoInvite == [ creator |-> NoOne, uses |-> 0, revoked |-> FALSE ]
NoRequest == [ user |-> NoOne, status |-> NoOne ]

Call == [ pc : {"idle", "viewer", "membership", "invite", "invitee", "consume", "find",
                "create", "request", "decide", "enter", "admit", "chatAdd", "target",
                "status", "role", "chatRemove", "block", "unblock", "mint", "revoke"},
          op : {NoOne, "join", "leave", "approve", "reject", "accept", "remove", "ban",
                "unban", "role", "mint", "revoke"},
          actor : Users, target : Users,
          invite : Invites \cup {NoOne}, request : Requests \cup {NoOne},
          role : Roles,                    \* that "role" assigns
          viewer : Member,                 \* the actor's row, as it was read
          row : Member,                    \* the target's row, as it was read
          open : BOOLEAN,                  \* the invite was good when it was read
          banned : BOOLEAN ]               \* history: the target was, ever since it began

Idle == [ pc |-> "idle", op |-> NoOne, actor |-> Owner, target |-> Owner,
          invite |-> NoOne, request |-> NoOne, role |-> "member",
          viewer |-> NoMember, row |-> NoMember, open |-> FALSE, banned |-> FALSE ]

MembershipTypeOK ==
  /\ community \in [private : BOOLEAN, inviteOnly : BOOLEAN]
  /\ members \in [Users -> Member]
  /\ chat \subseteq Users /\ blocked \subseteq Users
  /\ invites \in [Invites -> [creator : Users \cup {NoOne}, uses : Nat,
                              revoked : BOOLEAN]]
  /\ requests \in [Requests -> {NoRequest} \cup
       [user : Users, status : {"pending", "approved", "rejected"}]]
  /\ calls \in [Processes -> Call]
  /\ begun \in 0..MaxCalls /\ faults \in 0..MaxFaults
  /\ admitted \in [Invites -> Nat] /\ invited \subseteq Invites \X Users
  /\ crossed \subseteq Users

Founders == {Owner, Deputy}

\* Guests have never been members, or have left; Staff is appointed.  inviteOnly
\* outranks private, which is not varied with it.
Init ==
  /\ community \in {c \in [private : BOOLEAN, inviteOnly : BOOLEAN] :
                      ~(c.private /\ c.inviteOnly)}
  /\ \E guest \in {NoMember, [role |-> "member", status |-> "left"]} :
       members = [u \in Users |->
         CASE u = Owner -> [role |-> "owner", status |-> "active"]
           [] u = Deputy -> [role |-> DeputyRole, status |-> "active"]
           [] OTHER -> guest]
  /\ chat = Founders /\ blocked = {}
  /\ invites \in [Invites -> {NoInvite, [NoInvite EXCEPT !.creator = Owner]}]
  /\ requests = [r \in Requests |-> NoRequest]
  /\ calls = [p \in Processes |-> Idle]
  /\ begun = 0 /\ faults = 0
  /\ admitted = [i \in Invites |-> 0] /\ invited = {}
  /\ crossed = {}

-----------------------------------------------------------------------------
(* permissions.ts.                                                         *)

Rank(role) ==
  CASE role = "owner" -> 4 [] role = "admin" -> 3 [] role = "moderator" -> 2
    [] role = "member" -> 1 [] OTHER -> 0

\* viewerFor: only an active row has a role.
RoleIn(row) == IF row.status = "active" THEN row.role ELSE NoOne

Required(op) ==
  CASE op \in {"approve", "reject", "remove", "ban", "unban", "revoke"} -> 2
    [] op = "role" -> 3
    [] op = "mint" -> 1

\* What the platform's admins may do in a community that is not theirs.
PlatformOps == {"approve", "reject", "remove", "ban", "unban", "revoke"}

can(u, row, op) ==
  /\ row.status # "banned"
  /\ \/ u \in PlatformAdmins /\ op \in PlatformOps
     \/ Rank(RoleIn(row)) >= Required(op)

\* On oneself, or strictly downward.
canActOnMember(c, row) ==
  \/ c.actor = c.target
  \/ /\ row.role # "owner" /\ c.viewer.status # "banned"
     /\ \/ c.actor \in PlatformAdmins
        \/ Rank(RoleIn(c.viewer)) >= 2 /\ Rank(RoleIn(c.viewer)) > Rank(row.role)

canAssignRole(c) ==
  /\ c.role # "owner"
  /\ IF c.actor \in PlatformAdmins THEN c.role # "admin"
     ELSE IF c.role = "admin" THEN RoleIn(c.viewer) = "owner"
     ELSE Rank(RoleIn(c.viewer)) >= 3

\* Where join() goes: refused, a request, or straight in.
\* (Slip: inviteOnly is not looked at.)
joinability_slip(row) ==
  CASE row.status \in {"active", "banned"} -> "idle"
    [] row.status \notin {"active", "banned"} /\ community.private -> "find"
    [] OTHER -> "enter"
joinability(row) ==
  CASE row.status \in {"active", "banned"} \/ community.inviteOnly -> "idle"
    [] row.status \notin {"active", "banned"} /\ ~community.inviteOnly
       /\ community.private -> "find"
    [] OTHER -> "enter"

-----------------------------------------------------------------------------
(* Requests begin, go on and end.                                          *)

At(p, pc) == calls[p].pc = pc
Put(p, call) == calls' = [calls EXCEPT ![p] = IF call.pc = "idle" THEN Idle ELSE call]
Goto(p, pc) == Put(p, [calls[p] EXCEPT !.pc = pc])
On(u) == {p \in Processes : ~At(p, "idle") /\ calls[p].target = u}
Opposes(op) == CASE op = "ban" -> {"unban"} [] op = "unban" -> {"ban"} [] OTHER -> {}

Begin(p, call) ==
  /\ At(p, "idle")
  /\ begun < MaxCalls
  /\ begun' = begun + 1
  /\ Put(p, [call EXCEPT !.banned = members[call.target].status = "banned"])
  /\ crossed' = IF \E q \in On(call.target) : calls[q].op \in Opposes(call.op)
                THEN crossed \cup {call.target} ELSE crossed
  /\ UNCHANGED <<community, rows, faults, admitted, invited>>

Ask(p, op, pc, actor, target) ==
  Begin(p, [Idle EXCEPT !.op = op, !.pc = pc, !.actor = actor, !.target = target])

Join(p, u) == Ask(p, "join", "viewer", u, u)
Leave(p, u) == Ask(p, "leave", "membership", u, u)
RemoveMember(p, u, target, op) == Ask(p, op, "viewer", u, target)
Unban(p, u, target) == Ask(p, "unban", "viewer", u, target)
SetRole(p, u, target, role) ==
  Begin(p, [Idle EXCEPT !.op = "role", !.pc = "viewer", !.actor = u, !.target = target,
                        !.role = role])
Decide(p, u, r, op) ==
  /\ requests[r] # NoRequest
  /\ Begin(p, [Idle EXCEPT !.op = op, !.pc = "viewer", !.actor = u,
                           !.target = requests[r].user, !.request = r])
MintInvite(p, u, i) ==
  /\ invites[i] = NoInvite
  /\ Begin(p, [Idle EXCEPT !.op = "mint", !.pc = "viewer", !.actor = u, !.target = u,
                           !.invite = i])
RevokeInvite(p, u, i) ==
  /\ invites[i] # NoInvite
  /\ Begin(p, [Idle EXCEPT !.op = "revoke", !.pc = "viewer", !.actor = u, !.target = u,
                           !.invite = i])
AcceptInvite(p, u, i) ==
  /\ invites[i] # NoInvite
  /\ Begin(p, [Idle EXCEPT !.op = "accept", !.pc = "invite", !.actor = u, !.target = u,
                           !.invite = i])

\* The actor's row is read, and the capability the request needs is checked.
Viewer(p) ==
  /\ At(p, "viewer")
  /\ LET c == calls[p]
         row == members[c.actor]
         allowed == CASE c.op \in {"join", "revoke"} -> TRUE [] OTHER -> can(c.actor, row, c.op)
         next == CASE c.op = "join" -> joinability(row)
                   [] c.op \in {"approve", "reject"} -> "request"
                   [] c.op \in {"remove", "ban", "role"} -> "target"
                   [] c.op = "unban" -> "status"
                   [] c.op = "mint" -> "mint"
                   [] c.op = "revoke" -> "invite"
     IN Put(p, [c EXCEPT !.viewer = row, !.pc = IF allowed THEN next ELSE "idle"])
  /\ UNCHANGED <<community, rows, begun, faults, history>>

\* Every write of a membership row.
WriteMember(u, row) == members' = [members EXCEPT ![u] = row]

\* The other requests see whether the ban still stands, and p goes on.
Proceed(p, pc, u, row) ==
  calls' = [q \in Processes |->
    CASE q = p -> IF pc = "idle" THEN Idle
                  ELSE [calls[p] EXCEPT !.pc = pc, !.banned = @ /\ row.status = "banned"]
      [] q # p /\ q \in On(u) -> [calls[q] EXCEPT !.banned = @ /\ row.status = "banned"]
      [] OTHER -> calls[q]]

-----------------------------------------------------------------------------
(* Joining: members.join() and addToChat().                                *)

\* The row is read; a banned one is left as it is, and the caller goes on.
\* (Slip: a banned row is reactivated like any other.)
Enter_slip(p) ==
  /\ At(p, "enter")
  /\ Put(p, [calls[p] EXCEPT !.row = members[calls[p].target], !.pc = "admit"])
  /\ UNCHANGED <<community, rows, begun, faults, history>>
Enter(p) ==
  /\ At(p, "enter")
  /\ LET row == members[calls[p].target] IN
       Put(p, [calls[p] EXCEPT !.row = row,
                               !.pc = IF row.status = "banned" THEN "chatAdd" ELSE "admit"])
  /\ UNCHANGED <<community, rows, begun, faults, history>>

\* A row that was there is made active, whatever it says by now, and keeps its
\* role; a new one meets the unique index.
Admit(p) ==
  /\ At(p, "admit")
  /\ LET c == calls[p]
         u == c.target
         row == IF c.row = NoMember THEN [role |-> "member", status |-> "active"]
                                    ELSE [members[u] EXCEPT !.status = "active"]
     IN IF c.row = NoMember /\ members[u] # NoMember
        THEN Put(p, Idle) /\ UNCHANGED <<members, admitted, invited>>
        ELSE /\ WriteMember(u, row)
             /\ Proceed(p, "chatAdd", u, row)
             /\ IF c.op = "accept"
                THEN /\ admitted' = [admitted EXCEPT ![c.invite] = @ + 1]
                     /\ invited' = invited \cup {<<c.invite, u>>}
                ELSE UNCHANGED <<admitted, invited>>
  /\ UNCHANGED <<community, chat, blocked, invites, requests, begun, faults, crossed>>

ChatAdd(p) ==
  /\ At(p, "chatAdd")
  /\ chat' = chat \cup {calls[p].target}
  /\ Put(p, Idle)
  /\ UNCHANGED <<community, members, blocked, invites, requests, begun, faults, history>>

\* requests.request(): the pending row, or a new one under the unique index.
Find(p) ==
  /\ At(p, "find")
  /\ Goto(p, IF [user |-> calls[p].target, status |-> "pending"] \in Range(requests)
             THEN "idle" ELSE "create")
  /\ UNCHANGED <<community, rows, begun, faults, history>>

Create(p) ==
  /\ At(p, "create")
  /\ LET row == [user |-> calls[p].target, status |-> "pending"] IN
       IF row \in Range(requests) THEN UNCHANGED requests
       ELSE \E r \in Requests :
              requests[r] = NoRequest /\ requests' = [requests EXCEPT ![r] = row]
  /\ Put(p, Idle)
  /\ UNCHANGED <<community, members, chat, blocked, invites, begun, faults, history>>

\* What a decision is called.  (Slip: what its notification calls it.)
Decision_slip(op) == IF op = "approve" THEN "approved" ELSE "declined"
Decision(op) == IF op = "approve" THEN "approved" ELSE "rejected"

\* decideJoinRequest: the request must be pending when it is read ...
ReadRequest(p) ==
  /\ At(p, "request")
  /\ Goto(p, IF requests[calls[p].request].status = "pending" THEN "decide" ELSE "idle")
  /\ UNCHANGED <<community, rows, begun, faults, history>>

\* ... and the write is conditional on it; an approval goes on either way.
\* (Slip: the write is not.)
DecideRequest_slip(p) ==
  /\ At(p, "decide")
  /\ LET c == calls[p] IN
       /\ requests' = [requests EXCEPT ![c.request].status = Decision(c.op)]
       /\ Goto(p, IF c.op = "approve" THEN "enter" ELSE "idle")
  /\ UNCHANGED <<community, members, chat, blocked, invites, begun, faults, history>>
DecideRequest(p) ==
  /\ At(p, "decide")
  /\ LET c == calls[p] IN
       /\ requests' = [requests EXCEPT ![c.request].status =
            IF @ = "pending" THEN Decision(c.op) ELSE @]
       /\ Goto(p, IF c.op = "approve" THEN "enter" ELSE "idle")
  /\ UNCHANGED <<community, members, chat, blocked, invites, begun, faults, history>>

-----------------------------------------------------------------------------
(* Invites.                                                                *)

Mint(p) ==
  /\ At(p, "mint")
  /\ LET c == calls[p] IN
       invites' = [invites EXCEPT ![c.invite] =
         IF @ = NoInvite THEN [NoInvite EXCEPT !.creator = c.actor] ELSE @]
  /\ Put(p, Idle)
  /\ UNCHANGED <<community, members, chat, blocked, requests, begun, faults, history>>

\* byCode, for acceptInvite and for revokeInvite.
ReadInvite(p) ==
  /\ At(p, "invite")
  /\ LET c == calls[p]
         i == invites[c.invite]
         mine == i.creator = c.actor \/ can(c.actor, c.viewer, "revoke")
     IN CASE c.op = "accept" ->
               Put(p, [c EXCEPT !.pc = "invitee", !.open = ~i.revoked /\ i.uses < MaxUses])
          [] c.op = "revoke" -> Goto(p, IF mine THEN "revoke" ELSE "idle")
  /\ UNCHANGED <<community, rows, begun, faults, history>>

Revoke(p) ==
  /\ At(p, "revoke")
  /\ invites' = [invites EXCEPT ![calls[p].invite].revoked = TRUE]
  /\ Put(p, Idle)
  /\ UNCHANGED <<community, members, chat, blocked, requests, begun, faults, history>>

\* acceptInvite's own look at the membership.
Invitee(p) ==
  /\ At(p, "invitee")
  /\ LET status == members[calls[p].actor].status IN
       Goto(p, IF status \in {"banned", "active"} \/ ~calls[p].open THEN "idle"
               ELSE "consume")
  /\ UNCHANGED <<community, rows, begun, faults, history>>

\* One use is counted, if there is one and the invite stands.
\* (Slips: without looking at the uses, or at the revocation.)
Consumable_slip(i) == ~i.revoked
Consumable_revoked_slip(i) == i.uses < MaxUses
Consumable(i) == ~i.revoked /\ i.uses < MaxUses

Consume(p) ==
  /\ At(p, "consume")
  /\ LET i == calls[p].invite IN
       IF Consumable(invites[i])
       THEN invites' = [invites EXCEPT ![i].uses = @ + 1] /\ Goto(p, "enter")
       ELSE Put(p, Idle) /\ UNCHANGED invites
  /\ UNCHANGED <<community, members, chat, blocked, requests, begun, faults, history>>

-----------------------------------------------------------------------------
(* Leaving, removals, bans and roles.                                      *)

\* leave() looks at the actor's own row.
ReadMembership(p) ==
  /\ At(p, "membership")
  /\ LET row == members[calls[p].actor] IN
       Goto(p, IF row.status = "active" /\ row.role # "owner" THEN "status" ELSE "idle")
  /\ UNCHANGED <<community, rows, begun, faults, history>>

\* removeMember and setRole look at the target's.
ReadTarget(p) ==
  /\ At(p, "target")
  /\ LET c == calls[p]
         row == members[c.target]
         fit == IF c.op = "role" THEN row.status = "active" /\ canAssignRole(c)
                ELSE row # NoMember
         next == IF c.op = "role" THEN "role" ELSE "status"
     IN Goto(p, IF fit /\ canActOnMember(c, row) THEN next ELSE "idle")
  /\ UNCHANGED <<community, rows, begun, faults, history>>

WriteRole(p) ==
  /\ At(p, "role")
  /\ LET c == calls[p]  row == [members[c.target] EXCEPT !.role = c.role] IN
       WriteMember(c.target, row) /\ Proceed(p, "idle", c.target, row)
  /\ UNCHANGED <<community, chat, blocked, invites, requests, begun, faults,
                 admitted, invited, crossed>>

\* setStatus; without a row it matches nothing.
WriteStatus(p) ==
  /\ At(p, "status")
  /\ LET c == calls[p]
         status == CASE c.op = "ban" -> "banned" [] c.op = "remove" -> "removed"
                     [] OTHER -> "left"
         row == IF members[c.target] = NoMember THEN NoMember
                ELSE [members[c.target] EXCEPT !.status = status]
     IN /\ WriteMember(c.target, row)
        /\ Proceed(p, IF c.op = "unban" THEN "unblock" ELSE "chatRemove", c.target, row)
  /\ UNCHANGED <<community, chat, blocked, invites, requests, begun, faults,
                 admitted, invited, crossed>>

\* What follows the removal from the chat group.  (Slip: a ban does not block.)
AfterChatRemove_slip(op) == "idle"
AfterChatRemove(op) == IF op = "ban" THEN "block" ELSE "idle"

ChatRemove(p) ==
  /\ At(p, "chatRemove")
  /\ chat' = chat \ {calls[p].target}
  /\ Goto(p, AfterChatRemove(calls[p].op))
  /\ UNCHANGED <<community, members, blocked, invites, requests, begun, faults, history>>

Block(p) ==
  /\ At(p, "block")
  /\ blocked' = blocked \cup {calls[p].target}
  /\ Put(p, Idle)
  /\ UNCHANGED <<community, members, chat, invites, requests, begun, faults, history>>

Unblock(p) ==
  /\ At(p, "unblock")
  /\ blocked' = blocked \ {calls[p].target}
  /\ Put(p, Idle)
  /\ UNCHANGED <<community, members, chat, invites, requests, begun, faults, history>>

\* The worker dies, or a database call throws.
Die(p) ==
  /\ ~At(p, "idle")
  /\ faults < MaxFaults
  /\ faults' = faults + 1
  /\ Put(p, Idle)
  /\ UNCHANGED <<community, rows, begun, history>>

\* A chat update throws, which is swallowed.
ChatFails(p) ==
  /\ calls[p].pc \in {"chatAdd", "chatRemove", "block", "unblock"}
  /\ faults < MaxFaults
  /\ faults' = faults + 1
  /\ Goto(p, IF At(p, "chatRemove") THEN AfterChatRemove(calls[p].op) ELSE "idle")
  /\ UNCHANGED <<community, rows, begun, history>>

Next ==
  \/ \E p \in Processes, u \in Guests :
       \/ Join(p, u) \/ Leave(p, u)
       \/ \E i \in Invites : AcceptInvite(p, u, i)
  \/ \E p \in Processes, u \in Staff :
       \/ \E target \in Users :
            \/ Unban(p, u, target)
            \/ \E op \in {"remove", "ban"} : RemoveMember(p, u, target, op)
            \/ \E role \in Assigned : SetRole(p, u, target, role)
       \/ \E r \in Requests, op \in {"approve", "reject"} : Decide(p, u, r, op)
       \/ \E i \in Invites : MintInvite(p, u, i) \/ RevokeInvite(p, u, i)
  \/ \E p \in Processes :
       \/ Viewer(p) \/ Enter(p) \/ Admit(p) \/ ChatAdd(p) \/ Find(p) \/ Create(p)
       \/ ReadRequest(p) \/ DecideRequest(p) \/ Mint(p) \/ ReadInvite(p) \/ Revoke(p)
       \/ Invitee(p) \/ Consume(p) \/ ReadMembership(p) \/ ReadTarget(p) \/ WriteRole(p)
       \/ WriteStatus(p) \/ ChatRemove(p) \/ Block(p) \/ Unblock(p)
       \/ Die(p) \/ ChatFails(p)

Spec == Init /\ [][Next]_vars

-----------------------------------------------------------------------------
(* Properties.                                                             *)

\* "Two people racing on the last slot of a 1-use invite cannot both be admitted"
\* (yaysCommunityInvite.service.ts:59): an invite admits no more than its uses, and
\* its uses stay within maxUses, with leaving, coming back and dying workers.
InviteLimit ==
  \A i \in Invites : admitted[i] <= invites[i].uses /\ invites[i].uses <= MaxUses

\* A revoked invite counts no further use, though it was good when the request that
\* redeems it read it (yaysCommunityInvite.service.ts:67).
RevokedIsClosed ==
  [][\A i \in Invites : invites[i].revoked => invites'[i] = invites[i]]_vars

\* Of a user at most one request is pending, and one that was decided keeps its
\* first decision, however its reviewers race (yaysCommunityJoinRequest.service.ts:85).
DecisionIsFinal ==
  [][/\ \A r, s \in Requests : requests'[r].status = "pending" /\ requests'[s] = requests'[r]
          => r = s
     /\ \A r \in Requests : requests[r].status \in {"approved", "rejected"}
          => requests'[r] = requests[r]]_vars

\* Into a private or invite-only community nobody comes but by an invite or a
\* request that was decided (permissions.ts:198).
ClosedMeansAsked ==
  community.private \/ community.inviteOnly =>
    \A u \in Users \ Founders : members[u].status = "active" =>
      \/ \E i \in Invites : <<i, u>> \in invited
      \/ \E r \in Requests : requests[r].user = u /\ requests[r].status # "pending"

\* A ban that stood since before a request began, and still stands, is not undone by
\* its joining (yaysCommunityMember.service.ts:39, communityDirectory.service.ts:1010).
BanIsHeeded ==
  \A p \in Processes : At(p, "admit") => ~calls[p].banned

\* Whoever is banned is silent in the chat group once the ban is through: not a
\* member of it or blocked in it, even if a request that raced with the ban added
\* them again (communityDirectory.service.ts:901).  An unban that overlaps the ban,
\* a death or a lost chat update may break it.
BannedIsSilent ==
  \A u \in Users \ crossed :
    members[u].status = "banned" /\ faults = 0
      /\ (\A p \in On(u) : calls[p].op # "ban")
    => u \notin chat \/ u \in blocked
=============================================================================
