-------------------------- MODULE Membership_proofs --------------------------
(***************************************************************************)
(* Theorems about Membership, for any number of requests in flight, users, *)
(* invites and join requests, whoever is a guest, of the staff or an admin *)
(* of the platform, and any bounds.                                        *)
(*                                                                         *)
(* A request writes on what it read several awaits before.  The invariant  *)
(* says what of that still holds when it writes, whatever other requests   *)
(* did in between.                                                         *)
(***************************************************************************)
EXTENDS Membership, FiniteSetTheorems, TLAPS

-----------------------------------------------------------------------------
(* What is true of a request in flight.                                    *)

Closed == community.private \/ community.inviteOnly

\* Which operation may be at which await.
OpOK(c) ==
  /\ c.pc = "membership" => c.op = "leave"
  /\ c.pc = "invite" => c.op \in {"accept", "revoke"}
  /\ c.pc \in {"invitee", "consume"} => c.op = "accept"
  /\ c.pc = "viewer" => c.op \notin {NoOne, "leave", "accept"}
  /\ c.pc \in {"request", "decide"} => c.op \in {"approve", "reject"}
  /\ c.pc \in {"enter", "admit", "chatAdd"} => c.op \in {"join", "approve", "accept"}
  /\ c.pc = "target" => c.op \in {"remove", "ban", "role"}
  /\ c.pc = "status" => c.op \in {"leave", "remove", "ban", "unban"}
  /\ c.pc = "role" => c.op = "role"
  /\ c.pc = "chatRemove" => c.op \in {"leave", "remove", "ban"}
  /\ c.pc = "block" => c.op = "ban"
  /\ c.pc = "unblock" => c.op = "unban"

\* Whom and what it is about.
ArgsOK(c) ==
  /\ c.op \in {"join", "leave", "accept"} => c.target = c.actor
  /\ c.op = "accept" => c.invite \in Invites
  /\ c.op \in {"approve", "reject"} => /\ c.request \in Requests
                                       /\ requests[c.request] # NoRequest
                                       /\ requests[c.request].user = c.target

\* What it has read and still knows.
KnowsOK(c) ==
  /\ c.banned => members[c.target].status = "banned"
  /\ c.pc = "admit" => ~c.banned /\ (c.row # NoMember => members[c.target] # NoMember)
  /\ c.pc \in {"enter", "admit"} =>
       /\ c.op = "join" => ~Closed
       /\ c.op = "approve" => requests[c.request].status \in {"approved", "rejected"}
  /\ c.pc = "role" => members[c.target] # NoMember

CallOK(c) == c.pc # "idle" => OpOK(c) /\ ArgsOK(c) /\ KnowsOK(c)

\* Of a user at most one request is pending.
OnePending ==
  \A r, s \in Requests :
    requests[r].status = "pending" /\ requests[s] = requests[r] => r = s

USE UsersAssumption, BoundsAssumption

-----------------------------------------------------------------------------
(* Calls, rows and how they change.                                        *)

LEMMA CallFields ==
  ASSUME NEW c \in Call
  PROVE  /\ c.actor \in Users /\ c.target \in Users
         /\ c.invite \in Invites \cup {NoOne} /\ c.request \in Requests \cup {NoOne}
         /\ c.role \in Roles
  BY DEF Call

LEMMA IdleIsACall == Idle \in Call
  BY DEF Idle, Call, NoMember, Member, NoOne, Roles

LEMMA BannedTypeOK ==
  ASSUME NEW c \in Call, NEW b \in BOOLEAN
  PROVE  [c EXCEPT !.banned = b] \in Call
  BY DEF Call

\* Rows stay.
RowsStay == \A u \in Users : members[u] # NoMember => members'[u] # NoMember

\* Requests stay as they were decided.
RequestsStay ==
  \A r \in Requests : /\ requests[r] # NoRequest => /\ requests'[r] # NoRequest
                                                    /\ requests'[r].user = requests[r].user
                      /\ requests[r].status \in {"approved", "rejected"}
                           => requests'[r] = requests[r]

LEMMA CallStaysOK ==
  ASSUME NEW c \in Call, CallOK(c), RowsStay, RequestsStay, UNCHANGED community,
         c.banned => members'[c.target].status = "banned"
  PROVE  CallOK(c)'
<1>. SUFFICES ASSUME c.pc # "idle" PROVE ArgsOK(c)' /\ KnowsOK(c)'
  BY DEF CallOK, OpOK
<1>1. ArgsOK(c) /\ KnowsOK(c) /\ OpOK(c)
  BY DEF CallOK
<1>2. c.op \in {"approve", "reject"} => requests'[c.request].user = requests[c.request].user
  BY <1>1 DEF ArgsOK, RequestsStay
<1>3. ArgsOK(c)'
  BY <1>1, <1>2 DEF ArgsOK, RequestsStay
<1>4. KnowsOK(c)'
  BY <1>1, CallFields DEF KnowsOK, ArgsOK, RowsStay, RequestsStay, Closed
<1>. QED BY <1>3, <1>4

CallsOK == calls \in [Processes -> Call] /\ \A p \in Processes : CallOK(calls[p])

LEMMA IdleIsOK == CallOK(Idle)'
  BY DEF CallOK, Idle

LEMMA PutKeeps ==
  ASSUME CallsOK, NEW p \in Processes, NEW call \in Call, Put(p, call), CallOK(call)',
         RequestsStay, UNCHANGED <<community, members>>
  PROVE  CallsOK'
<1>1. RowsStay
  BY DEF RowsStay
<1>2. calls' \in [Processes -> Call]
  BY IdleIsACall DEF CallsOK, Put
<1>3. ASSUME NEW q \in Processes PROVE CallOK(calls[q])'
  <2>1. CASE q = p
    <3>1. calls'[q] = call \/ calls'[q] = Idle
      BY <2>1 DEF CallsOK, Put
    <3>. QED BY <3>1, IdleIsOK
  <2>2. CASE q # p
    <3>1. calls'[q] = calls[q] /\ calls[q] \in Call /\ CallOK(calls[q])
      BY <2>2 DEF CallsOK, Put
    <3>2. calls[q].banned => members[calls[q].target].status = "banned" \/ calls[q].pc = "idle"
      BY <3>1 DEF CallOK, KnowsOK
    <3>3. CASE calls[q].pc = "idle"
      BY <3>1, <3>3 DEF CallOK
    <3>4. CASE calls[q].pc # "idle"
      BY <1>1, <3>1, <3>2, <3>4, CallStaysOK
    <3>. QED BY <3>3, <3>4
  <2>. QED BY <2>1, <2>2
<1>. QED BY <1>2, <1>3 DEF CallsOK

\* A request goes on to pc, or ends.
LEMMA GotoKeeps ==
  ASSUME CallsOK, NEW p \in Processes, NEW pc, Goto(p, pc), RequestsStay,
         UNCHANGED <<community, members>>,
         NEW c \in Call, c = calls[p],
         \/ pc = "idle"
         \/ [c EXCEPT !.pc = pc] \in Call /\ CallOK([c EXCEPT !.pc = pc])'
  PROVE  CallsOK'
<1>1. CASE pc = "idle"
  <2>1. Put(p, Idle)
    BY <1>1 DEF Goto, Put, CallsOK, Call, Idle
  <2>. QED BY <2>1, PutKeeps, IdleIsACall, IdleIsOK
<1>2. CASE [c EXCEPT !.pc = pc] \in Call /\ CallOK([c EXCEPT !.pc = pc])'
  <2>1. Put(p, [c EXCEPT !.pc = pc])
    BY DEF Goto
  <2>. QED BY <1>2, <2>1, PutKeeps
<1>. QED BY <1>1, <1>2

\* A request that begins.
Fresh(call) ==
  /\ OpOK(call) /\ ArgsOK(call) /\ ~call.banned
  /\ call.pc \in {"viewer", "membership", "invite"}

LEMMA BeginKeeps ==
  ASSUME CallsOK, NEW p \in Processes, NEW call \in Call, Begin(p, call),
         Fresh(call)
  PROVE  CallsOK'
<1>. PICK new : new = [call EXCEPT !.banned = members[call.target].status = "banned"]
  OBVIOUS
<1>1. new \in Call
  BY DEF Call
<1>2. CallOK(new)'
  BY DEF Fresh, Begin, rows, CallOK, OpOK, ArgsOK, KnowsOK, Call
<1>3. RequestsStay /\ UNCHANGED <<community, members>> /\ Put(p, new)
  BY DEF Begin, rows, RequestsStay
<1>. QED BY <1>1, <1>2, <1>3, PutKeeps

Begins(p) ==
  \/ \E u \in Users :
       \/ Join(p, u) \/ Leave(p, u)
       \/ \E target \in Users :
            \/ Unban(p, u, target)
            \/ \E op \in {"remove", "ban"} : RemoveMember(p, u, target, op)
            \/ \E role \in Roles : SetRole(p, u, target, role)
       \/ \E i \in Invites : AcceptInvite(p, u, i) \/ MintInvite(p, u, i) \/ RevokeInvite(p, u, i)
       \/ \E r \in Requests, op \in {"approve", "reject"} : Decide(p, u, r, op)

LEMMA BeginsABegin ==
  ASSUME MembershipTypeOK, NEW p \in Processes, Begins(p)
  PROVE  \E call \in Call : Begin(p, call) /\ Fresh(call)
<1>. PICK u \in Users :
       \/ Join(p, u) \/ Leave(p, u)
       \/ \E target \in Users :
            \/ Unban(p, u, target)
            \/ \E op \in {"remove", "ban"} : RemoveMember(p, u, target, op)
            \/ \E role \in Roles : SetRole(p, u, target, role)
       \/ \E i \in Invites : AcceptInvite(p, u, i) \/ MintInvite(p, u, i) \/ RevokeInvite(p, u, i)
       \/ \E r \in Requests, op \in {"approve", "reject"} : Decide(p, u, r, op)
  BY DEF Begins
<1>1. ASSUME NEW target \in Users, NEW op, NEW pc, Ask(p, op, pc, u, target),
             \/ op = "join" /\ pc = "viewer" /\ target = u
             \/ op = "leave" /\ pc = "membership" /\ target = u
             \/ op \in {"remove", "ban", "unban"} /\ pc = "viewer"
      PROVE  \E call \in Call : Begin(p, call) /\ Fresh(call)
  <2>0. PICK call : call = [Idle EXCEPT !.op = op, !.pc = pc, !.actor = u, !.target = target]
    OBVIOUS
  <2>1. call \in Call /\ Fresh(call)
    BY ZenonT(40), <1>1, <2>0, IdleIsACall DEF Call, Idle, Fresh, OpOK, ArgsOK, NoOne
  <2>2. Begin(p, call)
    BY <1>1, <2>0, Zenon DEF Ask
  <2>. QED BY <2>1, <2>2
<1>2. ASSUME NEW target \in Users, NEW role \in Roles, SetRole(p, u, target, role)
      PROVE  \E call \in Call : Begin(p, call) /\ Fresh(call)
  <2>0. PICK call : call = [Idle EXCEPT !.op = "role", !.pc = "viewer", !.actor = u,
                                     !.target = target, !.role = role]
    OBVIOUS
  <2>1. call \in Call /\ Fresh(call)
    BY ZenonT(40), <1>2, <2>0, IdleIsACall DEF Call, Idle, Fresh, OpOK, ArgsOK, NoOne
  <2>2. Begin(p, call)
    BY <1>2, <2>0, Zenon DEF SetRole
  <2>. QED BY <2>1, <2>2
<1>3. ASSUME NEW i \in Invites, NEW op, NEW pc,
             Begin(p, [Idle EXCEPT !.op = op, !.pc = pc, !.actor = u, !.target = u,
                                   !.invite = i]),
             \/ op = "accept" /\ pc = "invite"
             \/ op \in {"mint", "revoke"} /\ pc = "viewer"
      PROVE  \E call \in Call : Begin(p, call) /\ Fresh(call)
  <2>0. PICK call : call = [Idle EXCEPT !.op = op, !.pc = pc, !.actor = u, !.target = u,
                                     !.invite = i]
    OBVIOUS
  <2>1. call \in Call /\ Fresh(call)
    BY ZenonT(40), <1>3, <2>0, IdleIsACall DEF Call, Idle, Fresh, OpOK, ArgsOK, NoOne
  <2>2. Begin(p, call)
    BY <1>3, <2>0, Zenon
  <2>. QED BY <2>1, <2>2
<1>4. ASSUME NEW r \in Requests, NEW op \in {"approve", "reject"}, Decide(p, u, r, op)
      PROVE  \E call \in Call : Begin(p, call) /\ Fresh(call)
  <2>0. PICK call : call = [Idle EXCEPT !.op = op, !.pc = "viewer", !.actor = u,
                                     !.target = requests[r].user, !.request = r]
    OBVIOUS
  <2>1. requests[r] # NoRequest /\ requests[r].user \in Users
    BY <1>4 DEF Decide, MembershipTypeOK
  <2>2. call \in Call /\ Fresh(call)
    BY ZenonT(40), <2>0, <2>1, IdleIsACall DEF Call, Idle, Fresh, OpOK, ArgsOK, NoOne
  <2>3. Begin(p, call)
    BY <1>4, <2>0, Zenon DEF Decide
  <2>. QED BY <2>2, <2>3
<1>. QED BY <1>1, <1>2, <1>3, <1>4 DEF Join, Leave, Unban, RemoveMember, AcceptInvite, MintInvite, RevokeInvite

LEMMA BeginsKeeps ==
  ASSUME MembershipTypeOK, CallsOK, NEW p \in Processes, Begins(p)
  PROVE  CallsOK'
  BY BeginsABegin, BeginKeeps

\* The steps that read, or write something else than a membership.
LEMMA QuietStepKeeps ==
  ASSUME MembershipTypeOK, CallsOK, NEW p \in Processes,
         \/ Viewer(p) \/ Enter(p) \/ ChatAdd(p) \/ Find(p) \/ Create(p)
         \/ ReadRequest(p) \/ DecideRequest(p) \/ Mint(p) \/ ReadInvite(p) \/ Revoke(p)
         \/ Invitee(p) \/ Consume(p) \/ ReadMembership(p) \/ ReadTarget(p)
         \/ ChatRemove(p) \/ Block(p) \/ Unblock(p) \/ Die(p) \/ ChatFails(p)
  PROVE  CallsOK'
<1>. PICK c \in Call : c = calls[p]
  BY DEF CallsOK
<1>0. CallOK(c)
  BY DEF CallsOK
<1>1. CASE Viewer(p)
  <2>. DEFINE row == members[c.actor]
              allowed == CASE c.op \in {"join", "revoke"} -> TRUE [] OTHER -> can(c.actor, row, c.op)
              next == CASE c.op = "join" -> joinability(row)
                        [] c.op \in {"approve", "reject"} -> "request"
                        [] c.op \in {"remove", "ban", "role"} -> "target"
                        [] c.op = "unban" -> "status"
                        [] c.op = "mint" -> "mint"
                        [] c.op = "revoke" -> "invite"
  <2>0. Put(p, [c EXCEPT !.viewer = row, !.pc = IF allowed THEN next ELSE "idle"])
    BY <1>1, Zenon DEF Viewer
  <2>. HIDE DEF row
  <2>x. PICK pc : pc = IF allowed THEN next ELSE "idle"
    OBVIOUS
  <2>a. c.op \in {"join", "approve", "reject", "remove", "ban", "unban", "role", "mint", "revoke"}
    BY <1>0, <1>1 DEF Viewer, At, CallOK, OpOK, ArgsOK, Call, NoOne
  <2>1. /\ pc \in {"idle", "find", "enter", "request", "target", "status", "mint", "invite"}
        /\ pc = "find" => c.op = "join"
        /\ pc = "enter" => c.op = "join" /\ ~Closed
        /\ pc = "request" => c.op \in {"approve", "reject"}
        /\ pc = "target" => c.op \in {"remove", "ban", "role"}
        /\ pc = "status" => c.op = "unban"
        /\ pc = "invite" => c.op = "revoke"
    BY <2>x, <2>a DEF joinability, Closed, MembershipTypeOK
  <2>2. PICK new : new = [c EXCEPT !.viewer = row, !.pc = pc]
    OBVIOUS
  <2>b. row \in Member
    BY CallFields DEF MembershipTypeOK, row
  <2>3. new \in Call
    BY ZenonT(40), <2>1, <2>2, <2>b DEF Call
  <2>4. CallOK(new)'
    BY <1>0, <1>1, <2>1, <2>2 DEF Viewer, At, rows, Call, CallOK, OpOK, ArgsOK, KnowsOK, Closed
  <2>5. Put(p, new)
    BY <2>0, <2>x, <2>2, Zenon
  <2>. QED BY <1>1, <2>3, <2>4, <2>5, PutKeeps DEF Viewer, rows, RequestsStay
<1>2. CASE Enter(p)
  <2>1. PICK pc : /\ Put(p, [c EXCEPT !.row = members[c.target], !.pc = pc])
                  /\ pc = IF members[c.target].status = "banned" THEN "chatAdd" ELSE "admit"
    BY <1>2, Zenon DEF Enter
  <2>2. PICK new : new = [c EXCEPT !.row = members[c.target], !.pc = pc]
    OBVIOUS
  <2>3. new \in Call
    BY ZenonT(40), <2>1, <2>2, CallFields DEF Call, MembershipTypeOK
  <2>4. CallOK(new)'
    BY <1>0, <1>2, <2>1, <2>2 DEF Enter, At, rows, Call, CallOK, OpOK, ArgsOK, KnowsOK, Closed
  <2>5. Put(p, new)
    BY <2>1, <2>2, Zenon
  <2>. QED BY <1>2, <2>3, <2>4, <2>5, PutKeeps DEF Enter, rows, RequestsStay
<1>3. CASE Create(p)
  <2>1. \/ requests' = requests
        \/ \E r \in Requests : \E row :
             requests[r] = NoRequest /\ requests' = [requests EXCEPT ![r] = row]
    BY <1>3 DEF Create
  <2>2. RequestsStay
    BY <2>1 DEF RequestsStay, NoRequest, NoOne, MembershipTypeOK
  <2>3. Put(p, Idle) /\ UNCHANGED <<community, members>>
    BY <1>3 DEF Create
  <2>. QED BY <2>2, <2>3, PutKeeps, IdleIsACall, IdleIsOK
<1>4. CASE DecideRequest(p)
  <2>1. /\ c.request \in Requests /\ requests[c.request] # NoRequest
        /\ c.op \in {"approve", "reject"} /\ requests[c.request].user = c.target
    BY <1>0, <1>4 DEF DecideRequest, At, CallOK, OpOK, ArgsOK
  <2>2. /\ \A r \in Requests \ {c.request} : requests'[r] = requests[r]
        /\ requests'[c.request].user = requests[c.request].user
        /\ requests'[c.request].status \in {"approved", "rejected"}
        /\ requests[c.request].status \in {"approved", "rejected"}
             => requests'[c.request] = requests[c.request]
    BY <1>4, <2>1 DEF DecideRequest, Decision, MembershipTypeOK, NoRequest, NoOne
  <2>3. RequestsStay /\ UNCHANGED <<community, members>>
    BY <1>4, <2>1, <2>2 DEF DecideRequest, RequestsStay, NoRequest, NoOne
  <2>4. PICK pc : Goto(p, pc) /\ pc = IF c.op = "approve" THEN "enter" ELSE "idle"
    BY <1>4, Zenon DEF DecideRequest
  <2>5. pc # "idle" => [c EXCEPT !.pc = pc] \in Call /\ CallOK([c EXCEPT !.pc = pc])'
    BY ZenonT(40), <1>0, <1>4, <2>1, <2>2, <2>3, <2>4
       DEF DecideRequest, At, Call, CallOK, OpOK, ArgsOK, KnowsOK, RequestsStay
  <2>. QED BY <2>3, <2>4, <2>5, GotoKeeps
<1>5. CASE ReadTarget(p)
  <2>1. PICK pc : /\ Goto(p, pc)
                  /\ pc \in {"idle", "role", "status"}
                  /\ pc = "role" => /\ c.op = "role"
                                    /\ members[c.target].status = "active"
                  /\ pc = "status" => c.op # "role"
    BY <1>5 DEF ReadTarget
  <2>2. RequestsStay /\ UNCHANGED <<community, members>>
    BY <1>5 DEF ReadTarget, rows, RequestsStay
  <2>3. pc # "idle" => [c EXCEPT !.pc = pc] \in Call /\ CallOK([c EXCEPT !.pc = pc])'
    <3>. SUFFICES ASSUME pc # "idle"
                  PROVE  [c EXCEPT !.pc = pc] \in Call /\ CallOK([c EXCEPT !.pc = pc])'
      OBVIOUS
    <3>1. PICK new : new = [c EXCEPT !.pc = pc]
      OBVIOUS
    <3>2. /\ new \in Call /\ new.pc = pc /\ new.op = c.op /\ new.actor = c.actor
          /\ new.target = c.target /\ new.invite = c.invite /\ new.request = c.request
          /\ new.role = c.role /\ new.banned = c.banned
      BY <1>0, <2>1, <3>1 DEF Call
    <3>3. /\ c.pc = "target" /\ c.op \in {"remove", "ban", "role"}
          /\ c.banned => members[c.target].status = "banned"
      BY <1>0, <1>5 DEF ReadTarget, At, CallOK, OpOK, KnowsOK
    <3>4. pc = "role" => members[c.target] # NoMember
      BY <2>1 DEF NoMember, NoOne
    <3>5. OpOK(new)' /\ ArgsOK(new)'
      BY <2>1, <3>2, <3>3 DEF OpOK, ArgsOK
    <3>6. KnowsOK(new)'
      BY <2>1, <2>2, <3>2, <3>3, <3>4 DEF KnowsOK
    <3>. QED BY <3>1, <3>2, <3>5, <3>6 DEF CallOK
  <2>. QED BY <2>1, <2>2, <2>3, GotoKeeps
<1>6. CASE ReadInvite(p)
  <2>1. CASE c.op = "accept"
    <3>1. PICK open \in BOOLEAN : Put(p, [c EXCEPT !.pc = "invitee", !.open = open])
      BY <1>6, <2>1 DEF ReadInvite
    <3>2. [c EXCEPT !.pc = "invitee", !.open = open] \in Call
      BY DEF Call
    <3>3. CallOK([c EXCEPT !.pc = "invitee", !.open = open])'
      BY <1>0, <1>6, <2>1 DEF ReadInvite, At, rows, Call, CallOK, OpOK, ArgsOK, KnowsOK
    <3>. QED BY <1>6, <3>1, <3>2, <3>3, PutKeeps DEF ReadInvite, rows, RequestsStay
  <2>2. CASE c.op = "revoke"
    <3>1. PICK pc : Goto(p, pc) /\ pc \in {"idle", "revoke"}
      BY <1>6, <2>2 DEF ReadInvite
    <3>2. [c EXCEPT !.pc = pc] \in Call /\ CallOK([c EXCEPT !.pc = pc])'
      BY <1>0, <1>6, <2>2, <3>1 DEF ReadInvite, At, rows, Call, CallOK, OpOK, ArgsOK, KnowsOK
    <3>. QED BY <1>6, <3>1, <3>2, GotoKeeps DEF ReadInvite, rows, RequestsStay
  <2>. QED BY <1>0, <1>6, <2>1, <2>2 DEF ReadInvite, At, CallOK, OpOK
<1>7. CASE Find(p) \/ ReadRequest(p) \/ Invitee(p) \/ Consume(p) \/ ReadMembership(p)
           \/ ChatRemove(p) \/ ChatFails(p)
  <2>. DEFINE Onward(pc) ==
         \/ pc = "idle"
         \/ pc = "create" /\ c.pc = "find"
         \/ pc = "decide" /\ c.pc = "request"
         \/ pc = "consume" /\ c.pc = "invitee"
         \/ pc = "enter" /\ c.pc = "consume"
         \/ pc = "status" /\ c.pc = "membership"
         \/ pc = "block" /\ c.pc = "chatRemove" /\ c.op = "ban"
  <2>0. CASE Put(p, Idle)
    <3>1. RequestsStay /\ UNCHANGED <<community, members>>
      BY <1>7 DEF Find, ReadRequest, Invitee, Consume, ReadMembership, ChatRemove, ChatFails,
                  rows, RequestsStay
    <3>. QED BY <2>0, <3>1, PutKeeps, IdleIsACall, IdleIsOK
  <2>1. ASSUME ~Put(p, Idle) PROVE \E pc : Goto(p, pc) /\ Onward(pc)
    <3>1. Find(p) => Goto(p, "idle") \/ (Goto(p, "create") /\ c.pc = "find")
      BY DEF Find, At
    <3>2. ReadRequest(p) => Goto(p, "idle") \/ (Goto(p, "decide") /\ c.pc = "request")
      BY DEF ReadRequest, At
    <3>3. Invitee(p) => Goto(p, "idle") \/ (Goto(p, "consume") /\ c.pc = "invitee")
      BY DEF Invitee, At
    <3>4. Consume(p) => Goto(p, "enter") /\ c.pc = "consume"
      BY <2>1 DEF Consume, At
    <3>5. ReadMembership(p) => Goto(p, "idle") \/ (Goto(p, "status") /\ c.pc = "membership")
      BY DEF ReadMembership, At
    <3>6. ChatRemove(p) \/ ChatFails(p) =>
            Goto(p, "idle") \/ (Goto(p, "block") /\ c.pc = "chatRemove" /\ c.op = "ban")
      BY DEF ChatRemove, ChatFails, AfterChatRemove, At
    <3>. QED BY <1>7, <3>1, <3>2, <3>3, <3>4, <3>5, <3>6
  <2>. SUFFICES ASSUME ~Put(p, Idle) PROVE CallsOK'
    BY <2>0
  <2>x. PICK pc : Goto(p, pc) /\ Onward(pc)
    BY <2>1
  <2>2. RequestsStay /\ UNCHANGED <<community, members>>
    BY <1>7 DEF Find, ReadRequest, Invitee, Consume, ReadMembership, ChatRemove, ChatFails,
                rows, RequestsStay
  <2>3. pc # "idle" => [c EXCEPT !.pc = pc] \in Call /\ CallOK([c EXCEPT !.pc = pc])'
    <3>. SUFFICES ASSUME pc # "idle"
                  PROVE  [c EXCEPT !.pc = pc] \in Call /\ CallOK([c EXCEPT !.pc = pc])'
      OBVIOUS
    <3>1. [c EXCEPT !.pc = pc] \in Call
      BY <2>x DEF Call
    <3>2. c.pc # "idle" /\ OpOK(c) /\ ArgsOK(c) /\ KnowsOK(c)
      BY <1>0, <2>x DEF CallOK
    <3>3. PICK d : d = [c EXCEPT !.pc = pc]
      OBVIOUS
    <3>4. /\ d.pc = pc /\ d.op = c.op /\ d.target = c.target /\ d.actor = c.actor
          /\ d.invite = c.invite /\ d.request = c.request /\ d.banned = c.banned
      BY <3>3 DEF Call
    <3>5. OpOK(d)
      BY <2>x, <3>2, <3>4 DEF OpOK
    <3>6. ArgsOK(d)'
      BY <3>2, <3>4, <2>2 DEF ArgsOK, RequestsStay
    <3>7. KnowsOK(d)'
      BY <2>x, <3>2, <3>4, <2>2 DEF OpOK, KnowsOK
    <3>8. CallOK(d)'
      BY <3>5, <3>6, <3>7 DEF CallOK, OpOK
    <3>. QED BY <3>1, <3>3, <3>8
  <2>. QED BY <2>x, <2>2, <2>3, GotoKeeps
<1>8. CASE ChatAdd(p) \/ Mint(p) \/ Revoke(p) \/ Block(p) \/ Unblock(p) \/ Die(p)
  <2>1. Put(p, Idle) /\ RequestsStay /\ UNCHANGED <<community, members>>
    BY <1>8 DEF ChatAdd, Mint, Revoke, Block, Unblock, Die, rows, RequestsStay
  <2>. QED BY <2>1, PutKeeps, IdleIsACall, IdleIsOK
<1>. QED BY <1>1, <1>2, <1>3, <1>4, <1>5, <1>6, <1>7, <1>8

\* A request writes its target's row, and goes on.
LEMMA WriteKeeps ==
  ASSUME MembershipTypeOK, CallsOK, NEW p \in Processes, NEW c \in Call, c = calls[p],
         c.pc # "idle", NEW row \in Member, NEW pc, Proceed(p, pc, c.target, row),
         members' = [members EXCEPT ![c.target] = row],
         RowsStay, UNCHANGED <<community, requests>>,
         \/ pc = "idle"
         \/ pc = "chatAdd" /\ c.op \in {"join", "approve", "accept"}
         \/ pc = "chatRemove" /\ c.op \in {"leave", "remove", "ban"}
         \/ pc = "unblock" /\ c.op = "unban"
  PROVE  CallsOK'
<1>0. /\ c.target \in Users /\ members'[c.target] = row
      /\ \A u \in Users \ {c.target} : members'[u] = members[u]
  BY CallFields DEF MembershipTypeOK
<1>1. RequestsStay
  BY DEF RequestsStay
<1>2. ASSUME NEW q \in Processes, q # p PROVE calls'[q] \in Call /\ CallOK(calls[q])'
  <2>. DEFINE b == calls[q].banned /\ row.status = "banned"
  <2>1. calls[q] \in Call /\ CallOK(calls[q]) /\ b \in BOOLEAN
    BY DEF CallsOK
  <2>2. CASE q \in On(c.target)
    <3>1. PICK new : new = [calls[q] EXCEPT !.banned = b]
      OBVIOUS
    <3>2. calls'[q] = new
      BY <1>2, <2>2, <3>1 DEF Proceed
    <3>3. new \in Call
      BY <2>1, <3>1, BannedTypeOK
    <3>4. /\ new.pc = calls[q].pc /\ new.op = calls[q].op /\ new.target = calls[q].target
          /\ new.actor = calls[q].actor /\ new.row = calls[q].row /\ new.role = calls[q].role
          /\ new.invite = calls[q].invite /\ new.request = calls[q].request
      BY <2>1, <3>1 DEF Call
    <3>5. new.banned => calls[q].banned /\ row.status = "banned"
      BY <2>1, <3>1 DEF Call
    <3>6. CallOK(new)
      BY <2>1, <3>4, <3>5 DEF CallOK, OpOK, ArgsOK, KnowsOK
    <3>7. calls[q].target = c.target
      BY <2>2 DEF On
    <3>8. CallOK(new)'
      BY <1>0, <1>1, <3>3, <3>4, <3>5, <3>6, <3>7, CallStaysOK
    <3>. QED BY <3>2, <3>3, <3>8
  <2>3. CASE q \notin On(c.target)
    <3>1. calls'[q] = calls[q]
      BY <1>2, <2>3 DEF Proceed
    <3>2. CASE calls[q].pc = "idle"
      BY <2>1, <3>1, <3>2 DEF CallOK
    <3>3. CASE calls[q].pc # "idle"
      <4>1. calls[q].target # c.target
        BY <2>3, <3>3 DEF On, At
      <4>2. calls[q].banned => members'[calls[q].target].status = "banned"
        BY <1>0, <2>1, <3>3, <4>1, CallFields DEF CallOK, KnowsOK
      <4>. QED BY <1>1, <2>1, <3>1, <4>2, CallStaysOK
    <3>. QED BY <3>2, <3>3
  <2>. QED BY <2>2, <2>3
<1>3. calls'[p] \in Call /\ CallOK(calls[p])'
  <2>1. CASE pc = "idle"
    <3>1. calls'[p] = Idle
      BY <2>1 DEF Proceed
    <3>. QED BY <3>1, IdleIsACall, IdleIsOK
  <2>2. CASE pc # "idle"
    <3>. DEFINE b == c.banned /\ row.status = "banned"
    <3>0. b \in BOOLEAN
      OBVIOUS
    <3>1. PICK new : new = [c EXCEPT !.pc = pc, !.banned = b]
      OBVIOUS
    <3>2. calls'[p] = new
      BY <2>2, <3>1 DEF Proceed, Call
    <3>. HIDE DEF b
    <3>3. new \in Call
      <4>1. PICK moved : moved = [c EXCEPT !.pc = pc]
        OBVIOUS
      <4>2. moved \in Call
        BY <2>2, <4>1 DEF Call
      <4>3. new = [moved EXCEPT !.banned = b]
        BY <3>1, <4>1 DEF Call
      <4>. QED BY <3>0, <4>2, <4>3, BannedTypeOK
    <3>4. /\ new.pc = pc /\ new.op = c.op /\ new.target = c.target
          /\ new.actor = c.actor /\ new.invite = c.invite /\ new.request = c.request
          /\ new.banned = b
      BY <3>1 DEF Call
    <3>5. ArgsOK(c)
      BY DEF CallsOK, CallOK
    <3>6. OpOK(new) /\ ArgsOK(new)'
      BY <2>2, <3>4, <3>5 DEF OpOK, ArgsOK
    <3>7. KnowsOK(new)'
      BY ZenonT(40), <1>0, <2>2, <3>4 DEF KnowsOK, b
    <3>8. CallOK(new)'
      BY <3>6, <3>7 DEF CallOK, OpOK
    <3>. QED BY <3>2, <3>3, <3>8
  <2>. QED BY <2>1, <2>2
<1>. QED BY <1>2, <1>3 DEF CallsOK, Proceed

\* What the writes of a membership row make of it.
LEMMA StatusWritten ==
  ASSUME NEW row \in Member, row # NoMember,
         NEW status \in {"active", "left", "removed", "banned"},
         NEW new, new = [row EXCEPT !.status = status]
  PROVE  new \in Member \ {NoMember} /\ new.role = row.role /\ new.status = status
  BY DEF Member, NoMember, NoOne, Roles

LEMMA RoleWritten ==
  ASSUME NEW row \in Member, row # NoMember, NEW role \in Roles,
         NEW new, new = [row EXCEPT !.role = role]
  PROVE  new \in Member \ {NoMember} /\ new.role = role /\ new.status = row.status
  BY DEF Member, NoMember, NoOne, Roles

\* A step writes the row of the target of p.
Writes(p, c, row, pc) ==
  /\ c = calls[p] /\ c.pc \in {"admit", "role", "status"}
  /\ row \in Member
  /\ WriteMember(c.target, row)
  /\ Proceed(p, pc, c.target, row)
  /\ members[c.target] # NoMember => row # NoMember
  /\ UNCHANGED <<community, chat, blocked, invites, requests, begun, faults, crossed>>

LEMMA AdmitWrites ==
  ASSUME MembershipTypeOK, CallsOK, NEW p \in Processes, Admit(p)
  PROVE  \E c \in Call :
           /\ c = calls[p] /\ CallOK(c) /\ c.pc = "admit"
           /\ \/ /\ Put(p, Idle)
                 /\ UNCHANGED <<community, rows, begun, faults, history>>
              \/ \E row \in Member :
                   /\ Writes(p, c, row, "chatAdd")
                   /\ row.status = "active" /\ (members[c.target] # NoMember => row.role = members[c.target].role)
                   /\ IF c.op = "accept"
                      THEN /\ admitted' = [admitted EXCEPT ![c.invite] = @ + 1]
                           /\ invited' = invited \cup {<<c.invite, c.target>>}
                      ELSE UNCHANGED <<admitted, invited>>
<1>1. PICK c \in Call : c = calls[p] /\ CallOK(c) /\ c.pc = "admit"
  BY DEF CallsOK, Admit, At
<1>2. CASE c.row = NoMember /\ members[c.target] # NoMember
  BY <1>1, <1>2 DEF Admit, rows, history
<1>3. CASE ~(c.row = NoMember /\ members[c.target] # NoMember)
  <2>0. c.target \in Users /\ members[c.target] \in Member
    BY CallFields DEF MembershipTypeOK
  <2>1. PICK row : row = IF c.row = NoMember THEN [role |-> "member", status |-> "active"]
                                         ELSE [members[c.target] EXCEPT !.status = "active"]
    OBVIOUS
  <2>2. c.row # NoMember => members[c.target] # NoMember
    BY <1>1 DEF CallOK, KnowsOK
  <2>3. row \in Member \ {NoMember} /\ row.status = "active"
    <3>1. CASE c.row = NoMember
      BY <2>1, <3>1 DEF Member, NoMember, Roles, NoOne
    <3>2. CASE c.row # NoMember
      BY <2>0, <2>1, <2>2, <3>2, StatusWritten
    <3>. QED BY <3>1, <3>2
  <2>4. members[c.target] # NoMember => row.role = members[c.target].role
    BY <1>3, <2>0, <2>1, <2>2, StatusWritten
  <2>5. /\ WriteMember(c.target, row) /\ Proceed(p, "chatAdd", c.target, row)
        /\ IF c.op = "accept"
           THEN /\ admitted' = [admitted EXCEPT ![c.invite] = @ + 1]
                /\ invited' = invited \cup {<<c.invite, c.target>>}
           ELSE UNCHANGED <<admitted, invited>>
    BY <1>1, <1>3, <2>1, Zenon DEF Admit
  <2>6. UNCHANGED <<community, chat, blocked, invites, requests, begun, faults, crossed>>
    BY DEF Admit
  <2>. QED BY <1>1, <2>3, <2>4, <2>5, <2>6 DEF Writes
<1>. QED BY <1>2, <1>3

LEMMA RoleWrites ==
  ASSUME MembershipTypeOK, CallsOK, NEW p \in Processes, WriteRole(p)
  PROVE  \E c \in Call, row \in Member :
           /\ CallOK(c) /\ c.pc = "role" /\ c.op = "role"
           /\ Writes(p, c, row, "idle")
           /\ row.status = members[c.target].status
           /\ UNCHANGED <<admitted, invited>>
<1>1. PICK c \in Call : c = calls[p] /\ CallOK(c) /\ c.pc = "role"
  BY DEF CallsOK, WriteRole, At
<1>2. PICK row : row = [members[c.target] EXCEPT !.role = c.role]
  OBVIOUS
<1>3. members[c.target] \in Member \ {NoMember} /\ c.role \in Roles /\ c.op = "role"
  BY <1>1, CallFields DEF MembershipTypeOK, CallOK, OpOK, KnowsOK
<1>4. row \in Member \ {NoMember} /\ row.role = c.role /\ row.status = members[c.target].status
  BY <1>2, <1>3, RoleWritten
<1>5. WriteMember(c.target, row) /\ Proceed(p, "idle", c.target, row)
  BY <1>1, <1>2, Zenon DEF WriteRole
<1>6. UNCHANGED <<community, chat, blocked, invites, requests, begun, faults, crossed, admitted, invited>>
  BY DEF WriteRole
<1>. QED BY <1>1, <1>3, <1>4, <1>5, <1>6 DEF Writes

LEMMA StatusWrites ==
  ASSUME MembershipTypeOK, CallsOK, NEW p \in Processes, WriteStatus(p)
  PROVE  \E c \in Call, row \in Member :
           /\ CallOK(c) /\ c.pc = "status"
           /\ Writes(p, c, row, IF c.op = "unban" THEN "unblock" ELSE "chatRemove")
           /\ \/ row = members[c.target] /\ row = NoMember
              \/ row.status = CASE c.op = "ban" -> "banned" [] c.op = "remove" -> "removed"
                                [] OTHER -> "left"
           /\ row.role = members[c.target].role
           /\ UNCHANGED <<admitted, invited>>
<1>1. PICK c \in Call : c = calls[p] /\ CallOK(c) /\ c.pc = "status"
  BY DEF CallsOK, WriteStatus, At
<1>2. PICK status : status = CASE c.op = "ban" -> "banned" [] c.op = "remove" -> "removed"
                               [] OTHER -> "left"
  OBVIOUS
<1>3. PICK row : row = IF members[c.target] = NoMember THEN NoMember
                       ELSE [members[c.target] EXCEPT !.status = status]
  OBVIOUS
<1>4. members[c.target] \in Member /\ status \in {"active", "left", "removed", "banned"}
  BY <1>2, CallFields DEF MembershipTypeOK
<1>5. /\ row \in Member /\ row.role = members[c.target].role
      /\ members[c.target] # NoMember => row # NoMember /\ row.status = status
      /\ members[c.target] = NoMember => row = NoMember
  BY <1>3, <1>4, StatusWritten
<1>6. /\ WriteMember(c.target, row)
      /\ Proceed(p, IF c.op = "unban" THEN "unblock" ELSE "chatRemove", c.target, row)
  BY <1>1, <1>2, <1>3, Zenon DEF WriteStatus
<1>7. UNCHANGED <<community, chat, blocked, invites, requests, begun, faults, crossed, admitted, invited>>
  BY DEF WriteStatus
<1>8. Writes(p, c, row, IF c.op = "unban" THEN "unblock" ELSE "chatRemove")
  BY <1>1, <1>5, <1>6, <1>7 DEF Writes
<1>. QED BY <1>1, <1>2, <1>5, <1>7, <1>8

LEMMA WritesKeep ==
  ASSUME MembershipTypeOK, CallsOK, NEW p \in Processes, NEW c \in Call, NEW row \in Member,
         NEW pc, Writes(p, c, row, pc),
         \/ pc = "idle"
         \/ pc = "chatAdd" /\ c.op \in {"join", "approve", "accept"}
         \/ pc = "chatRemove" /\ c.op \in {"leave", "remove", "ban"}
         \/ pc = "unblock" /\ c.op = "unban"
  PROVE  CallsOK'
<1>1. RowsStay
  BY CallFields DEF Writes, WriteMember, RowsStay, MembershipTypeOK
<1>. QED BY <1>1, WriteKeeps DEF Writes, WriteMember

LEMMA MemberStepKeeps ==
  ASSUME MembershipTypeOK, CallsOK, NEW p \in Processes,
         Admit(p) \/ WriteRole(p) \/ WriteStatus(p)
  PROVE  CallsOK'
<1>1. CASE Admit(p)
  <2>1. PICK c \in Call :
           /\ CallOK(c) /\ c.pc = "admit"
           /\ \/ Put(p, Idle) /\ UNCHANGED <<community, rows, begun, faults, history>>
              \/ \E row \in Member : Writes(p, c, row, "chatAdd")
    BY <1>1, AdmitWrites
  <2>2. c.op \in {"join", "approve", "accept"}
    BY <2>1 DEF CallOK, OpOK
  <2>3. CASE Put(p, Idle) /\ UNCHANGED <<community, rows, begun, faults, history>>
    BY <2>3, PutKeeps, IdleIsACall, IdleIsOK DEF rows, RequestsStay
  <2>. QED BY <2>1, <2>2, <2>3, WritesKeep
<1>2. CASE WriteRole(p)
  BY <1>2, RoleWrites, WritesKeep
<1>3. CASE WriteStatus(p)
  <2>1. PICK c \in Call, row \in Member :
           /\ CallOK(c) /\ c.pc = "status"
           /\ Writes(p, c, row, IF c.op = "unban" THEN "unblock" ELSE "chatRemove")
    BY <1>3, StatusWrites
  <2>2. c.op \in {"leave", "remove", "ban", "unban"}
    BY <2>1 DEF CallOK, OpOK
  <2>3. CASE c.op = "unban"
    BY <2>1, <2>3, WritesKeep
  <2>4. CASE c.op # "unban"
    BY <2>1, <2>2, <2>4, WritesKeep
  <2>. QED BY <2>3, <2>4
<1>. QED BY <1>1, <1>2, <1>3

\* The kinds of steps there are.
QuietStep(p) ==
  \/ Viewer(p) \/ Enter(p) \/ ChatAdd(p) \/ Find(p) \/ Create(p)
  \/ ReadRequest(p) \/ DecideRequest(p) \/ Mint(p) \/ ReadInvite(p) \/ Revoke(p)
  \/ Invitee(p) \/ Consume(p) \/ ReadMembership(p) \/ ReadTarget(p)
  \/ ChatRemove(p) \/ Block(p) \/ Unblock(p) \/ Die(p) \/ ChatFails(p)
MemberStep(p) == Admit(p) \/ WriteRole(p) \/ WriteStatus(p)

LEMMA NextIsAStep ==
  ASSUME [Next]_vars
  PROVE  \/ \E p \in Processes : Begins(p) \/ QuietStep(p) \/ MemberStep(p)
         \/ UNCHANGED vars
<1>1. CASE UNCHANGED vars
  BY <1>1
<1>2. ASSUME NEW p \in Processes, NEW u \in Guests,
             Join(p, u) \/ Leave(p, u) \/ \E i \in Invites : AcceptInvite(p, u, i)
      PROVE  Begins(p)
  BY <1>2 DEF Begins
<1>3. ASSUME NEW p \in Processes, NEW u \in Staff,
             \/ \E target \in Users :
                  \/ Unban(p, u, target)
                  \/ \E op \in {"remove", "ban"} : RemoveMember(p, u, target, op)
                  \/ \E role \in Assigned : SetRole(p, u, target, role)
             \/ \E r \in Requests, op \in {"approve", "reject"} : Decide(p, u, r, op)
             \/ \E i \in Invites : MintInvite(p, u, i) \/ RevokeInvite(p, u, i)
      PROVE  Begins(p)
  BY <1>3, RolesAssumption DEF Begins
<1>. QED BY <1>1, <1>2, <1>3 DEF Next, QuietStep, MemberStep

LEMMA NextCallsOK ==
  ASSUME MembershipTypeOK, CallsOK, [Next]_vars
  PROVE  CallsOK'
<1>1. CASE UNCHANGED vars
  BY <1>1 DEF vars, CallsOK, CallOK, OpOK, ArgsOK, KnowsOK, Closed
<1>2. ASSUME NEW p \in Processes, Begins(p) \/ QuietStep(p) \/ MemberStep(p)
      PROVE  CallsOK'
  BY <1>2, BeginsKeeps, QuietStepKeeps, MemberStepKeeps DEF QuietStep, MemberStep
<1>. QED BY <1>1, <1>2, NextIsAStep

-----------------------------------------------------------------------------
(* Type correctness.                                                       *)

LEMMA BeginsOnly ==
  ASSUME MembershipTypeOK, NEW p \in Processes, Begins(p)
  PROVE  /\ begun < MaxCalls /\ begun' = begun + 1
         /\ \E u \in Users : crossed' \in {crossed, crossed \cup {u}}
         /\ UNCHANGED <<community, rows, faults, admitted, invited>>
  BY BeginsABegin, CallFields DEF Begin

\* The rest of the types.
RowsTypeOK ==
  /\ community \in [private : BOOLEAN, inviteOnly : BOOLEAN]
  /\ members \in [Users -> Member]
  /\ chat \subseteq Users /\ blocked \subseteq Users
  /\ invites \in [Invites -> [creator : Users \cup {NoOne}, uses : Nat,
                              revoked : BOOLEAN]]
  /\ requests \in [Requests -> {NoRequest} \cup
       [user : Users, status : {"pending", "approved", "rejected"}]]
  /\ begun \in 0..MaxCalls /\ faults \in 0..MaxFaults
  /\ admitted \in [Invites -> Nat] /\ invited \subseteq Invites \X Users
  /\ crossed \subseteq Users

LEMMA BeginsRowsTypeOK ==
  ASSUME MembershipTypeOK, NEW p \in Processes, Begins(p)
  PROVE  RowsTypeOK'
  BY BeginsOnly DEF MembershipTypeOK, RowsTypeOK, rows

LEMMA QuietRowsTypeOK ==
  ASSUME MembershipTypeOK, CallsOK, NEW p \in Processes, QuietStep(p)
  PROVE  RowsTypeOK'
<1>. PICK c \in Call : c = calls[p] /\ CallOK(c)
  BY DEF CallsOK
<1>1. CASE UNCHANGED <<community, rows, begun, faults, admitted, invited, crossed>>
  BY <1>1 DEF MembershipTypeOK, RowsTypeOK, rows
<1>2. CASE ChatAdd(p) \/ ChatRemove(p) \/ Block(p) \/ Unblock(p)
  BY <1>2, CallFields DEF ChatAdd, ChatRemove, Block, Unblock, MembershipTypeOK, RowsTypeOK, history
<1>3. CASE Create(p)
  <2>1. \/ requests' = requests
        \/ \E r \in Requests : requests' = [requests EXCEPT ![r] = [user |-> c.target, status |-> "pending"]]
    BY <1>3 DEF Create
  <2>2. UNCHANGED <<community, members, chat, blocked, invites, begun, faults, history>>
    BY <1>3 DEF Create
  <2>. QED BY <2>1, <2>2, CallFields DEF MembershipTypeOK, RowsTypeOK, history
<1>4. CASE DecideRequest(p)
  <2>1. c.request \in Requests /\ requests[c.request] # NoRequest
    BY <1>4 DEF DecideRequest, At, CallOK, OpOK, ArgsOK
  <2>2. requests'[c.request] \in [user : Users, status : {"pending", "approved", "rejected"}]
    BY <1>4, <2>1 DEF DecideRequest, Decision, MembershipTypeOK
  <2>. QED BY <1>4, <2>1, <2>2 DEF DecideRequest, MembershipTypeOK, RowsTypeOK, history
<1>5. CASE Mint(p) \/ Revoke(p) \/ Consume(p)
  <2>1. invites' \in [Invites -> [creator : Users \cup {NoOne}, uses : Nat, revoked : BOOLEAN]]
    <3>1. CASE Mint(p)
      BY <3>1, CallFields DEF Mint, NoInvite, NoOne, MembershipTypeOK
    <3>2. CASE Revoke(p)
      <4>1. invites' = [invites EXCEPT ![c.invite].revoked = TRUE]
        BY <3>2 DEF Revoke
      <4>2. CASE c.invite \in Invites
        <5>1. PICK i : i = [invites[c.invite] EXCEPT !.revoked = TRUE]
          OBVIOUS
        <5>2. invites[c.invite] \in [creator : Users \cup {NoOne}, uses : Nat, revoked : BOOLEAN]
          BY <4>2 DEF MembershipTypeOK
        <5>3. i \in [creator : Users \cup {NoOne}, uses : Nat, revoked : BOOLEAN]
          BY <5>1, <5>2
        <5>4. invites' = [invites EXCEPT ![c.invite] = i]
          BY <4>1, <5>1
        <5>. QED BY <5>3, <5>4 DEF MembershipTypeOK
      <4>3. CASE c.invite \notin Invites
        BY <4>1, <4>3 DEF MembershipTypeOK
      <4>. QED BY <4>2, <4>3
    <3>3. CASE Consume(p)
      BY SMTT(20), <3>3 DEF Consume, MembershipTypeOK
    <3>. QED BY <1>5, <3>1, <3>2, <3>3
  <2>2. UNCHANGED <<community, members, chat, blocked, requests, begun, faults, history>>
    BY <1>5 DEF Mint, Revoke, Consume
  <2>. QED BY <2>1, <2>2 DEF MembershipTypeOK, RowsTypeOK, history
<1>6. CASE Die(p) \/ ChatFails(p)
  BY <1>6 DEF Die, ChatFails, MembershipTypeOK, RowsTypeOK, rows, history
<1>. QED
  BY <1>1, <1>2, <1>3, <1>4, <1>5, <1>6
     DEF QuietStep, Viewer, Enter, Find, ReadRequest, ReadInvite, Invitee, ReadMembership,
         ReadTarget, history

LEMMA WritesTypeOK ==
  ASSUME MembershipTypeOK, NEW p, NEW c \in Call, NEW row \in Member, NEW pc,
         Writes(p, c, row, pc)
  PROVE  /\ members' \in [Users -> Member]
         /\ UNCHANGED <<community, chat, blocked, invites, requests, begun, faults, crossed>>
  BY CallFields DEF Writes, WriteMember, MembershipTypeOK

LEMMA MemberRowsTypeOK ==
  ASSUME MembershipTypeOK, CallsOK, NEW p \in Processes, MemberStep(p)
  PROVE  RowsTypeOK'
<1>1. CASE Admit(p)
  <2>1. PICK c \in Call :
           /\ CallOK(c) /\ c.pc = "admit"
           /\ \/ UNCHANGED <<community, rows, begun, faults, history>>
              \/ \E row \in Member :
                   /\ Writes(p, c, row, "chatAdd")
                   /\ IF c.op = "accept"
                      THEN /\ admitted' = [admitted EXCEPT ![c.invite] = @ + 1]
                           /\ invited' = invited \cup {<<c.invite, c.target>>}
                      ELSE UNCHANGED <<admitted, invited>>
    BY <1>1, AdmitWrites
  <2>2. c.op = "accept" => c.invite \in Invites
    BY <2>1 DEF CallOK, ArgsOK
  <2>3. CASE UNCHANGED <<community, rows, begun, faults, history>>
    BY <2>3 DEF MembershipTypeOK, RowsTypeOK, rows, history
  <2>4. ASSUME NEW row \in Member, Writes(p, c, row, "chatAdd"),
               IF c.op = "accept"
                      THEN /\ admitted' = [admitted EXCEPT ![c.invite] = @ + 1]
                           /\ invited' = invited \cup {<<c.invite, c.target>>}
                      ELSE UNCHANGED <<admitted, invited>>
        PROVE  RowsTypeOK'
    <3>1. admitted' \in [Invites -> Nat] /\ invited' \subseteq Invites \X Users
      <4>1. CASE c.op = "accept"
        <5>1. <<c.invite, c.target>> \in Invites \X Users
          BY <2>2, <4>1, CallFields
        <5>. QED BY <2>4, <4>1, <5>1 DEF MembershipTypeOK
      <4>2. CASE c.op # "accept"
        BY <2>4, <4>2 DEF MembershipTypeOK
      <4>. QED BY <4>1, <4>2
    <3>2. /\ members' \in [Users -> Member]
          /\ UNCHANGED <<community, chat, blocked, invites, requests, begun, faults, crossed>>
      BY <2>4, WritesTypeOK
    <3>. QED BY <3>1, <3>2 DEF MembershipTypeOK, RowsTypeOK
  <2>. QED BY <2>1, <2>3, <2>4
<1>2. CASE WriteRole(p)
  BY <1>2, RoleWrites, WritesTypeOK DEF MembershipTypeOK, RowsTypeOK
<1>3. CASE WriteStatus(p)
  BY <1>3, StatusWrites, WritesTypeOK DEF MembershipTypeOK, RowsTypeOK
<1>. QED BY <1>1, <1>2, <1>3 DEF MemberStep

LEMMA NextTypeOK ==
  ASSUME MembershipTypeOK, CallsOK, [Next]_vars
  PROVE  MembershipTypeOK'
<1>1. CASE UNCHANGED vars
  BY <1>1 DEF vars, MembershipTypeOK
<1>2. CASE \E p \in Processes : Begins(p) \/ QuietStep(p) \/ MemberStep(p)
  <2>1. RowsTypeOK'
    BY <1>2, BeginsRowsTypeOK, QuietRowsTypeOK, MemberRowsTypeOK
  <2>2. calls' \in [Processes -> Call]
    BY NextCallsOK DEF CallsOK
  <2>. QED BY <2>1, <2>2 DEF MembershipTypeOK, RowsTypeOK
<1>. QED BY <1>1, <1>2, NextIsAStep

-----------------------------------------------------------------------------
(* What a step may make of the requests, the invites and the members.      *)

LEMMA NextRequests ==
  ASSUME MembershipTypeOK, CallsOK, [Next]_vars
  PROVE  \/ requests' = requests
         \/ \E r \in Requests : \E row :
              /\ requests[r] = NoRequest /\ row \notin Range(requests)
              /\ row.status = "pending" /\ requests' = [requests EXCEPT ![r] = row]
         \/ \E r \in Requests, decision \in {"approved", "rejected"} :
              /\ requests[r].status = "pending"
              /\ requests' = [requests EXCEPT ![r].status = decision]
<1>1. CASE UNCHANGED requests
  BY <1>1
<1>2. ASSUME NEW p \in Processes, Create(p), requests' # requests
      PROVE  \E r \in Requests : \E row :
               /\ requests[r] = NoRequest /\ row \notin Range(requests)
               /\ row.status = "pending" /\ requests' = [requests EXCEPT ![r] = row]
  BY <1>2 DEF Create
<1>3. ASSUME NEW p \in Processes, DecideRequest(p), requests' # requests
      PROVE  \E r \in Requests, decision \in {"approved", "rejected"} :
               /\ requests[r].status = "pending"
               /\ requests' = [requests EXCEPT ![r].status = decision]
  <2>1. PICK c \in Call : c = calls[p] /\ CallOK(c) /\ c.pc = "decide"
    BY <1>3 DEF CallsOK, DecideRequest, At
  <2>2. c.request \in Requests
    BY <2>1 DEF CallOK, OpOK, ArgsOK
  <2>3. requests' = [requests EXCEPT ![c.request].status =
                       IF @ = "pending" THEN Decision(c.op) ELSE @]
    BY <1>3, <2>1 DEF DecideRequest
  <2>4. requests[c.request].status = "pending"
    BY <1>3, <2>2, <2>3 DEF MembershipTypeOK, NoRequest
  <2>5. PICK decision \in {"approved", "rejected"} : decision = Decision(c.op)
    BY DEF Decision
  <2>6. requests' = [requests EXCEPT ![c.request].status = decision]
    BY <2>3, <2>4, <2>5
  <2>. QED BY <2>2, <2>4, <2>6
<1>4. ASSUME NEW p \in Processes, QuietStep(p), ~Create(p), ~DecideRequest(p)
      PROVE  UNCHANGED requests
  BY <1>4
     DEF QuietStep, rows, Viewer, Enter, ChatAdd, Find, ReadRequest, Mint, ReadInvite,
         Revoke, Invitee, Consume, ReadMembership, ReadTarget, ChatRemove, Block, Unblock,
         Die, ChatFails
<1>5. ASSUME NEW p \in Processes, Begins(p) \/ MemberStep(p) PROVE UNCHANGED requests
  BY <1>5, BeginsOnly DEF MemberStep, Admit, WriteRole, WriteStatus, rows
<1>. QED BY <1>1, <1>2, <1>3, <1>4, <1>5, NextIsAStep DEF vars

LEMMA NextDecisions ==
  ASSUME MembershipTypeOK, CallsOK, OnePending, [Next]_vars
  PROVE  /\ OnePending'
         /\ \A r \in Requests : requests[r].status \in {"approved", "rejected"}
              => requests'[r] = requests[r]
<1>1. CASE requests' = requests
  BY <1>1 DEF OnePending
<1>2. ASSUME NEW r \in Requests, NEW row, requests[r] = NoRequest, row \notin Range(requests),
             row.status = "pending", requests' = [requests EXCEPT ![r] = row]
      PROVE  /\ OnePending'
             /\ \A s \in Requests : requests[s].status \in {"approved", "rejected"}
                  => requests'[s] = requests[s]
  <2>1. requests'[r] = row /\ \A s \in Requests \ {r} : requests'[s] = requests[s] /\ requests[s] # row
    BY <1>2 DEF MembershipTypeOK, Range
  <2>. QED BY <1>2, <2>1 DEF OnePending, NoRequest, NoOne
<1>3. ASSUME NEW r \in Requests, NEW decision \in {"approved", "rejected"},
             requests[r].status = "pending",
             requests' = [requests EXCEPT ![r].status = decision]
      PROVE  /\ OnePending'
             /\ \A s \in Requests : requests[s].status \in {"approved", "rejected"}
                  => requests'[s] = requests[s]
  <2>1. requests'[r].status = decision /\ \A s \in Requests \ {r} : requests'[s] = requests[s]
    BY <1>3 DEF MembershipTypeOK, NoRequest, NoOne
  <2>. QED BY <1>3, <2>1 DEF OnePending
<1>. QED BY <1>1, <1>2, <1>3, NextRequests

LEMMA NextInvites ==
  ASSUME MembershipTypeOK, [Next]_vars
  PROVE  \A i \in Invites :
           \/ invites'[i] = invites[i]
           \/ ~invites[i].revoked
<1>1. CASE UNCHANGED invites
  BY <1>1
<1>2. ASSUME NEW p \in Processes, Mint(p) \/ Revoke(p) \/ Consume(p), NEW i \in Invites,
             invites[i].revoked
      PROVE  invites'[i] = invites[i]
  <2>0. PICK j : j = calls[p].invite
    OBVIOUS
  <2>1. CASE Mint(p)
    BY <1>2, <2>0, <2>1 DEF Mint, NoInvite, MembershipTypeOK
  <2>2. CASE Revoke(p)
    <3>1. invites' = [invites EXCEPT ![j].revoked = TRUE]
      BY <2>0, <2>2 DEF Revoke
    <3>2. invites[i] = [invites[i] EXCEPT !.revoked = TRUE]
      BY <1>2 DEF MembershipTypeOK
    <3>. QED BY <3>1, <3>2 DEF MembershipTypeOK
  <2>3. CASE Consume(p)
    BY <1>2, <2>0, <2>3 DEF Consume, Consumable, MembershipTypeOK
  <2>. QED BY <1>2, <2>1, <2>2, <2>3
<1>3. ASSUME NEW p \in Processes, QuietStep(p), ~Mint(p), ~Revoke(p), ~Consume(p)
      PROVE  UNCHANGED invites
  BY <1>3
     DEF QuietStep, rows, Viewer, Enter, ChatAdd, Find, Create, ReadRequest, DecideRequest,
         ReadInvite, Invitee, ReadMembership, ReadTarget, ChatRemove, Block, Unblock,
         Die, ChatFails
<1>4. ASSUME NEW p \in Processes, Begins(p) \/ MemberStep(p) PROVE UNCHANGED invites
  BY <1>4, BeginsOnly DEF MemberStep, Admit, WriteRole, WriteStatus, rows
<1>. QED BY <1>1, <1>2, <1>3, <1>4, NextIsAStep DEF vars

\* The writes of a row: an admission, a new role, a new status.
Admission(c, row, pc) ==
  /\ c.pc = "admit" /\ pc = "chatAdd" /\ row.status = "active"
  /\ members[c.target] # NoMember => row.role = members[c.target].role
  /\ IF c.op = "accept"
     THEN /\ admitted' = [admitted EXCEPT ![c.invite] = @ + 1]
          /\ invited' = invited \cup {<<c.invite, c.target>>}
     ELSE UNCHANGED <<admitted, invited>>

NewRole(c, row, pc) ==
  /\ c.pc = "role" /\ pc = "idle" /\ row.status = members[c.target].status
  /\ UNCHANGED <<admitted, invited>>

NewStatus(c, row, pc) ==
  /\ c.pc = "status" /\ pc = IF c.op = "unban" THEN "unblock" ELSE "chatRemove"
  /\ row.role = members[c.target].role
  /\ \/ row = members[c.target] /\ row = NoMember
     \/ row.status = CASE c.op = "ban" -> "banned" [] c.op = "remove" -> "removed"
                       [] OTHER -> "left"
  /\ UNCHANGED <<admitted, invited>>

LEMMA MemberStepIsAWrite ==
  ASSUME MembershipTypeOK, CallsOK, NEW p \in Processes, MemberStep(p)
  PROVE  \/ Put(p, Idle) /\ UNCHANGED <<community, rows, begun, faults, history>>
         \/ \E c \in Call, row \in Member : \E pc :
              /\ Writes(p, c, row, pc) /\ CallOK(c)
              /\ Admission(c, row, pc) \/ NewRole(c, row, pc) \/ NewStatus(c, row, pc)
<1>1. CASE Admit(p)
  BY <1>1, AdmitWrites DEF Admission
<1>2. CASE WriteRole(p)
  BY <1>2, RoleWrites DEF NewRole
<1>3. CASE WriteStatus(p)
  BY <1>3, StatusWrites DEF NewStatus
<1>. QED BY <1>1, <1>2, <1>3 DEF MemberStep

LEMMA NextMembers ==
  ASSUME MembershipTypeOK, CallsOK, [Next]_vars
  PROVE  \/ UNCHANGED <<members, admitted, invited>>
         \/ \E p \in Processes, c \in Call, row \in Member : \E pc :
              /\ Writes(p, c, row, pc) /\ CallOK(c)
              /\ Admission(c, row, pc) \/ NewRole(c, row, pc) \/ NewStatus(c, row, pc)
<1>1. CASE UNCHANGED <<members, admitted, invited>>
  BY <1>1
<1>2. ASSUME NEW p \in Processes, MemberStep(p),
             ~UNCHANGED <<members, admitted, invited>>
      PROVE  \E c \in Call, row \in Member : \E pc :
               /\ Writes(p, c, row, pc) /\ CallOK(c)
               /\ Admission(c, row, pc) \/ NewRole(c, row, pc) \/ NewStatus(c, row, pc)
  BY <1>2, MemberStepIsAWrite DEF rows, history
<1>3. ASSUME NEW p \in Processes, Begins(p) \/ QuietStep(p)
      PROVE  UNCHANGED <<members, admitted, invited>>
  <2>1. CASE Begins(p)
    BY <2>1, BeginsOnly DEF rows
  <2>2. CASE QuietStep(p)
    BY <2>2
       DEF QuietStep, rows, history, Viewer, Enter, ChatAdd, Find, Create, ReadRequest,
           DecideRequest, Mint, ReadInvite, Revoke, Invitee, Consume, ReadMembership,
           ReadTarget, ChatRemove, Block, Unblock, Die, ChatFails
  <2>. QED BY <1>3, <2>1, <2>2
<1>. QED BY <1>1, <1>2, <1>3, NextIsAStep DEF vars

\* What an admission into a closed community leaves behind.
AskedIn(u) ==
  \/ \E i \in Invites : <<i, u>> \in invited
  \/ \E r \in Requests : /\ requests[r].user = u
                         /\ requests[r].status \in {"approved", "rejected"}
MembersAsked ==
  Closed => \A u \in Users \ Founders : members[u].status = "active" => AskedIn(u)

LEMMA NextMembersAsked ==
  ASSUME MembershipTypeOK, CallsOK, OnePending, MembersAsked, [Next]_vars
  PROVE  MembersAsked'
<1>0. Closed' = Closed
  <2>1. UNCHANGED community
    BY ZenonT(40), NextIsAStep, BeginsOnly
       DEF vars, QuietStep, MemberStep, Viewer, Enter, ChatAdd, Find, Create, ReadRequest,
           DecideRequest, Mint, ReadInvite, Revoke, Invitee, Consume, ReadMembership,
           ReadTarget, ChatRemove, Block, Unblock, Die, ChatFails, Admit, WriteRole, WriteStatus
  <2>. QED BY <2>1 DEF Closed
<1>1. invited \subseteq invited'
  BY NextMembers DEF Admission, NewRole, NewStatus
<1>2. ASSUME NEW u, AskedIn(u) PROVE AskedIn(u)'
  BY <1>1, <1>2, NextDecisions DEF AskedIn
<1>3. ASSUME NEW u \in Users \ Founders, members'[u].status = "active", Closed
      PROVE  AskedIn(u)'
  <2>1. CASE members[u].status = "active"
    BY <1>2, <1>3, <2>1 DEF MembersAsked
  <2>2. CASE members[u].status # "active"
    <3>0. PICK p \in Processes, c \in Call, row \in Member : \E pc :
             /\ Writes(p, c, row, pc) /\ CallOK(c)
             /\ Admission(c, row, pc) \/ NewRole(c, row, pc) \/ NewStatus(c, row, pc)
      BY <1>3, <2>2, NextMembers
    <3>1. PICK pc : /\ Writes(p, c, row, pc) /\ CallOK(c)
                    /\ Admission(c, row, pc) \/ NewRole(c, row, pc) \/ NewStatus(c, row, pc)
      BY <3>0
    <3>2. members' = [members EXCEPT ![c.target] = row] /\ c.target \in Users
      BY <3>1, CallFields DEF Writes, WriteMember
    <3>3. c.target = u /\ row.status = "active"
      BY <1>3, <2>2, <3>2 DEF MembershipTypeOK
    <3>4. Admission(c, row, pc)
      BY <1>3, <2>2, <3>1, <3>3 DEF NewRole, NewStatus, NoMember, NoOne
    <3>5. c.op \in {"join", "approve", "accept"} /\ ArgsOK(c) /\ KnowsOK(c)
      BY <3>1, <3>4 DEF CallOK, OpOK, Admission
    <3>6. c.op # "join"
      BY <1>3, <3>4, <3>5 DEF KnowsOK, Admission
    <3>7. CASE c.op = "accept"
      BY <3>3, <3>4, <3>5, <3>7 DEF Admission, ArgsOK, AskedIn
    <3>8. CASE c.op = "approve"
      <4>1. AskedIn(u)
        BY <3>3, <3>4, <3>5, <3>8 DEF Admission, ArgsOK, KnowsOK, AskedIn
      <4>. QED BY <1>2, <4>1
    <3>. QED BY <3>5, <3>6, <3>7, <3>8
  <2>. QED BY <2>1, <2>2
<1>. QED BY <1>0, <1>3 DEF MembersAsked

-----------------------------------------------------------------------------
(* What a step does to the requests in flight.                             *)

\* A request moves on within its operation, or ends.
SameCall(c, d) == d.op = c.op /\ d.target = c.target /\ d.invite = c.invite

LEMMA PutMoves ==
  ASSUME CallsOK, NEW p \in Processes, NEW call, Put(p, call)
  PROVE  /\ \A q \in Processes \ {p} : calls'[q] = calls[q]
         /\ calls'[p] = IF call.pc = "idle" THEN Idle ELSE call
  BY DEF CallsOK, Put

LEMMA QuietMoves ==
  ASSUME CallsOK, NEW p \in Processes, QuietStep(p)
  PROVE  /\ \A q \in Processes \ {p} : calls'[q] = calls[q]
         /\ \/ calls'[p] = Idle
            \/ /\ SameCall(calls[p], calls'[p]) /\ ~At(p, "idle")
               /\ calls'[p].pc \notin {"unblock", "chatRemove"}
               /\ calls[p].pc = "chatRemove" => calls[p].op = "ban" /\ calls'[p].pc = "block"
               /\ calls[p].pc # "block"
               /\ calls'[p].op = "accept" /\ calls'[p].pc \in {"enter", "admit"} =>
                    calls[p].pc = "enter" \/ Consume(p)
<1>. PICK c \in Call : c = calls[p] /\ CallOK(c)
  BY DEF CallsOK
<1>. DEFINE Moved(d) ==
       /\ SameCall(c, d) /\ c.pc # "idle"
       /\ d.pc \notin {"unblock", "chatRemove"}
       /\ c.pc = "chatRemove" => c.op = "ban" /\ d.pc = "block"
       /\ c.pc # "block"
       /\ d.op = "accept" /\ d.pc \in {"enter", "admit"} => c.pc = "enter" \/ Consume(p)
<1>1. ASSUME NEW call, Put(p, call), call.pc = "idle" \/ Moved(call)
      PROVE  /\ \A q \in Processes \ {p} : calls'[q] = calls[q]
             /\ calls'[p] = Idle \/ Moved(calls'[p])
  BY <1>1, PutMoves
<1>2. ASSUME NEW call, NEW pc, call = [c EXCEPT !.pc = pc],
             \/ pc = "idle"
             \/ /\ c.pc \in {"viewer", "membership", "invite", "invitee", "find", "request",
                             "target"}
                /\ pc \notin {"unblock", "chatRemove", "enter", "admit"}
             \/ c.pc = "consume" /\ Consume(p) /\ pc = "enter"
             \/ c.pc = "decide" /\ c.op # "accept" /\ pc = "enter"
             \/ c.pc = "chatRemove" /\ c.op = "ban" /\ pc = "block"
      PROVE  call.pc = "idle" \/ Moved(call)
  BY <1>2 DEF Call, SameCall
<1>3. ASSUME NEW pc, Goto(p, pc),
             \/ pc = "idle"
             \/ /\ c.pc \in {"viewer", "membership", "invite", "invitee", "find", "request",
                             "target"}
                /\ pc \notin {"unblock", "chatRemove", "enter", "admit"}
             \/ c.pc = "consume" /\ Consume(p) /\ pc = "enter"
             \/ c.pc = "decide" /\ c.op # "accept" /\ pc = "enter"
             \/ c.pc = "chatRemove" /\ c.op = "ban" /\ pc = "block"
      PROVE  \E call : Put(p, call) /\ (call.pc = "idle" \/ Moved(call))
  BY <1>2, <1>3 DEF Goto
<1>. SUFFICES \E call : Put(p, call) /\ (call.pc = "idle" \/ Moved(call))
  BY <1>1 DEF At
<1>. HIDE DEF Moved
<1>0. Idle.pc = "idle"
  BY DEF Idle
<1>4. CASE ChatAdd(p) \/ Create(p) \/ Mint(p) \/ Revoke(p) \/ Block(p) \/ Unblock(p) \/ Die(p)
  BY <1>0, <1>4 DEF ChatAdd, Create, Mint, Revoke, Block, Unblock, Die
<1>5. CASE Find(p) \/ ReadRequest(p) \/ Invitee(p) \/ ReadMembership(p)
  <2>1. \E pc \in {"idle", "create", "decide", "consume", "status"} : Goto(p, pc)
    BY <1>5 DEF Find, ReadRequest, Invitee, ReadMembership
  <2>2. c.pc \in {"membership", "invitee", "find", "request"}
    BY <1>5 DEF Find, ReadRequest, Invitee, ReadMembership, At
  <2>. QED BY <1>3, <2>1, <2>2
<1>6. CASE ReadTarget(p)
  <2>1. c.pc = "target" /\ \E pc \in {"idle", "role", "status"} : Goto(p, pc)
    BY <1>6 DEF ReadTarget, At
  <2>. QED BY <1>3, <2>1
<1>7. CASE Consume(p)
  <2>1. c.pc = "consume" /\ (Put(p, Idle) \/ Goto(p, "enter"))
    BY <1>7 DEF Consume, At
  <2>. QED BY <1>0, <1>3, <1>7, <2>1
<1>8. CASE DecideRequest(p)
  <2>1. c.pc = "decide" /\ \E pc : Goto(p, pc) /\ pc = IF c.op = "approve" THEN "enter" ELSE "idle"
    BY <1>8, Zenon DEF DecideRequest, At
  <2>2. c.op # "accept"
    BY <2>1 DEF CallOK, OpOK
  <2>. QED BY <1>3, <2>1, <2>2
<1>9. CASE ChatRemove(p) \/ ChatFails(p)
  <2>1. Goto(p, "idle") \/ (Goto(p, "block") /\ c.pc = "chatRemove" /\ c.op = "ban")
    BY <1>9 DEF ChatRemove, ChatFails, AfterChatRemove, At
  <2>. QED BY <1>3, <2>1
<1>10. CASE ReadInvite(p)
  <2>0. c.pc = "invite" /\ c.op \in {"accept", "revoke"}
    BY <1>10 DEF ReadInvite, At, CallOK, OpOK
  <2>1. CASE c.op = "accept"
    <3>1. PICK call, open : Put(p, call) /\ call = [c EXCEPT !.pc = "invitee", !.open = open]
      BY <1>10, <2>1 DEF ReadInvite
    <3>2. call.pc = "invitee" /\ SameCall(c, call)
      BY <3>1 DEF Call, SameCall
    <3>. QED BY <2>0, <3>1, <3>2 DEF Moved
  <2>2. CASE c.op = "revoke"
    <3>1. \E pc \in {"idle", "revoke"} : Goto(p, pc)
      BY <1>10, <2>2 DEF ReadInvite
    <3>. QED BY <1>3, <2>0, <3>1
  <2>. QED BY <2>0, <2>1, <2>2
<1>11. CASE Viewer(p)
  <2>. DEFINE row == members[c.actor]
              allowed == CASE c.op \in {"join", "revoke"} -> TRUE [] OTHER -> can(c.actor, row, c.op)
              next == CASE c.op = "join" -> joinability(row)
                        [] c.op \in {"approve", "reject"} -> "request"
                        [] c.op \in {"remove", "ban", "role"} -> "target"
                        [] c.op = "unban" -> "status"
                        [] c.op = "mint" -> "mint"
                        [] c.op = "revoke" -> "invite"
  <2>0. Put(p, [c EXCEPT !.viewer = row, !.pc = IF allowed THEN next ELSE "idle"])
    BY <1>11, Zenon DEF Viewer
  <2>. HIDE DEF row
  <2>1. PICK pc : pc = IF allowed THEN next ELSE "idle"
    OBVIOUS
  <2>2. c.pc = "viewer" /\ c.op \in {"join", "approve", "reject", "remove", "ban", "unban",
                                    "role", "mint", "revoke"}
    BY <1>11 DEF Viewer, At, CallOK, OpOK, Call, NoOne
  <2>3. pc \notin {"unblock", "chatRemove"}
    BY <2>1, <2>2 DEF joinability
  <2>4. PICK call : call = [c EXCEPT !.viewer = row, !.pc = pc]
    OBVIOUS
  <2>5. Put(p, call)
    BY <2>0, <2>1, <2>4, Zenon
  <2>6. call.pc = pc /\ SameCall(c, call)
    BY <2>4 DEF Call, SameCall
  <2>7. c.op # "accept"
    BY <2>2
  <2>. QED BY <2>2, <2>3, <2>5, <2>6, <2>7 DEF Moved, SameCall
<1>12. CASE Enter(p)
  <2>1. PICK pc : /\ Put(p, [c EXCEPT !.row = members[c.target], !.pc = pc])
                  /\ pc = IF members[c.target].status = "banned" THEN "chatAdd" ELSE "admit"
    BY <1>12, Zenon DEF Enter
  <2>2. PICK call : call = [c EXCEPT !.row = members[c.target], !.pc = pc]
    OBVIOUS
  <2>3. call.pc = pc /\ SameCall(c, call)
    BY <2>2 DEF Call, SameCall
  <2>4. c.pc = "enter"
    BY <1>12 DEF Enter, At
  <2>5. Put(p, call)
    BY <2>1, <2>2, Zenon
  <2>. QED BY <2>1, <2>3, <2>4, <2>5 DEF Moved
<1>. QED
  BY <1>4, <1>5, <1>6, <1>7, <1>8, <1>9, <1>10, <1>11, <1>12 DEF QuietStep

LEMMA WriteMoves ==
  ASSUME CallsOK, NEW p \in Processes, NEW c \in Call, NEW row \in Member, NEW pc,
         Writes(p, c, row, pc)
  PROVE  /\ \A q \in Processes \ {p} :
              SameCall(calls[q], calls'[q]) /\ calls'[q].pc = calls[q].pc
         /\ calls'[p].pc = pc
         /\ pc = "idle" \/ SameCall(c, calls'[p])
<1>1. ASSUME NEW q \in Processes \ {p}
      PROVE  SameCall(calls[q], calls'[q]) /\ calls'[q].pc = calls[q].pc
  BY DEF Writes, Proceed, CallsOK, Call, SameCall
<1>2. CASE pc = "idle"
  BY <1>1, <1>2 DEF Writes, Proceed, Idle
<1>3. CASE pc # "idle"
  BY <1>1, <1>3 DEF Writes, Proceed, Call, SameCall
<1>. QED BY <1>1, <1>2, <1>3

-----------------------------------------------------------------------------
(* The uses of an invite: one for each admission that was or may still be. *)

Admitting(i) ==
  {p \in Processes : /\ calls[p].op = "accept" /\ calls[p].invite = i
                     /\ calls[p].pc \in {"enter", "admit"}}

InviteOK(i) ==
  /\ admitted[i] + Cardinality(Admitting(i)) <= invites[i].uses
  /\ invites[i].uses <= MaxUses

LEMMA AdmittingIsFinite ==
  ASSUME NEW i
  PROVE  /\ IsFiniteSet(Admitting(i)) /\ Cardinality(Admitting(i)) \in Nat
         /\ IsFiniteSet(Admitting(i)') /\ Cardinality(Admitting(i)') \in Nat
  BY ProcessesAssumption, FS_Subset, FS_CardinalityType DEF Admitting

LEMMA NextInviteOK ==
  ASSUME MembershipTypeOK, CallsOK, NEW i \in Invites, InviteOK(i), [Next]_vars
  PROVE  InviteOK(i)'
<1>0. admitted[i] \in Nat /\ invites[i].uses \in Nat
  BY DEF MembershipTypeOK
<1>1. CASE /\ Admitting(i)' \subseteq Admitting(i)
           /\ admitted'[i] = admitted[i] /\ invites'[i].uses = invites[i].uses
  <2>1. Cardinality(Admitting(i)') <= Cardinality(Admitting(i))
    BY <1>1, AdmittingIsFinite, FS_Subset
  <2>. QED BY <1>0, <1>1, <2>1, AdmittingIsFinite DEF InviteOK
<1>2. ASSUME NEW p \in Processes, Begins(p)
      PROVE  /\ Admitting(i)' \subseteq Admitting(i)
             /\ admitted'[i] = admitted[i] /\ invites'[i].uses = invites[i].uses
  <2>1. PICK call \in Call : Begin(p, call) /\ Fresh(call)
    BY <1>2, BeginsABegin
  <2>2. PICK new : new = [call EXCEPT !.banned = members[call.target].status = "banned"]
    OBVIOUS
  <2>3. Put(p, new) /\ new.pc \notin {"enter", "admit"}
    BY <2>1, <2>2 DEF Begin, Fresh, Call
  <2>4. Admitting(i)' \subseteq Admitting(i)
    BY <2>3, PutMoves DEF Admitting, Idle
  <2>. QED BY <1>2, <2>4, BeginsOnly DEF rows
<1>3. ASSUME NEW p \in Processes, QuietStep(p), ~Consume(p)
      PROVE  /\ Admitting(i)' \subseteq Admitting(i)
             /\ admitted'[i] = admitted[i] /\ invites'[i].uses = invites[i].uses
  <2>1. Admitting(i)' \subseteq Admitting(i)
    BY <1>3, QuietMoves DEF Admitting, SameCall, Idle
  <2>2. UNCHANGED <<admitted>>
    BY <1>3
       DEF QuietStep, history, Viewer, Enter, ChatAdd, Find, Create, ReadRequest,
           DecideRequest, Mint, ReadInvite, Revoke, Invitee, ReadMembership,
           ReadTarget, ChatRemove, Block, Unblock, Die, ChatFails
  <2>3. invites'[i].uses = invites[i].uses
    <3>1. CASE Mint(p)
      BY <3>1 DEF Mint, NoInvite, MembershipTypeOK
    <3>2. CASE Revoke(p)
      BY <3>2 DEF Revoke, MembershipTypeOK
    <3>3. CASE ~Mint(p) /\ ~Revoke(p)
      BY <1>3, <3>3
         DEF QuietStep, rows, Viewer, Enter, ChatAdd, Find, Create, ReadRequest, DecideRequest,
             ReadInvite, Invitee, ReadMembership, ReadTarget, ChatRemove, Block, Unblock,
             Die, ChatFails
    <3>. QED BY <3>1, <3>2, <3>3
  <2>. QED BY <2>1, <2>2, <2>3
<1>4. ASSUME NEW p \in Processes, Consume(p)
      PROVE  InviteOK(i)'
  <2>1. /\ \A q \in Processes \ {p} : calls'[q] = calls[q]
        /\ calls'[p] = Idle \/ SameCall(calls[p], calls'[p])
        /\ calls[p].pc = "consume" /\ UNCHANGED admitted
    BY <1>4, QuietMoves DEF QuietStep, Consume, At, history
  <2>2. CASE calls[p].invite = i /\ Consumable(invites[i])
    <3>1. invites'[i].uses = invites[i].uses + 1 /\ invites[i].uses < MaxUses
      BY <1>4, <2>2 DEF Consume, Consumable, MembershipTypeOK
    <3>2. Admitting(i)' \subseteq Admitting(i) \cup {p} /\ p \notin Admitting(i)
      BY <2>1 DEF Admitting
    <3>3. /\ IsFiniteSet(Admitting(i) \cup {p})
          /\ Cardinality(Admitting(i) \cup {p}) = Cardinality(Admitting(i)) + 1
      BY <3>2, AdmittingIsFinite, FS_AddElement
    <3>4. Cardinality(Admitting(i)') <= Cardinality(Admitting(i)) + 1
      BY <3>2, <3>3, FS_Subset
    <3>. QED BY <1>0, <2>1, <3>1, <3>4, AdmittingIsFinite DEF InviteOK
  <2>3. CASE ~(calls[p].invite = i /\ Consumable(invites[i]))
    <3>1. /\ invites'[i] = invites[i]
          /\ calls[p].invite = i => calls'[p] = Idle
      <4>1. CASE Consumable(invites[calls[p].invite])
        <5>1. invites' = [invites EXCEPT ![calls[p].invite].uses = @ + 1]
          BY <1>4, <4>1 DEF Consume
        <5>. QED BY <2>3, <4>1, <5>1 DEF MembershipTypeOK
      <4>2. CASE ~Consumable(invites[calls[p].invite])
        <5>1. Put(p, Idle) /\ invites' = invites
          BY <1>4, <4>2 DEF Consume
        <5>. QED BY <5>1, PutMoves DEF Idle
      <4>. QED BY <4>1, <4>2
    <3>2. Admitting(i)' \subseteq Admitting(i)
      BY <2>1, <3>1 DEF Admitting, SameCall, Idle
    <3>. QED BY <1>1, <2>1, <3>1, <3>2
  <2>. QED BY <2>2, <2>3
<1>5. ASSUME NEW p \in Processes, MemberStep(p)
      PROVE  InviteOK(i)'
  <2>0. invites' = invites
    BY <1>5 DEF MemberStep, Admit, WriteRole, WriteStatus
  <2>1. CASE Put(p, Idle) /\ UNCHANGED <<community, rows, begun, faults, history>>
    BY <1>1, <2>0, <2>1, PutMoves DEF Admitting, Idle, history
  <2>2. ASSUME NEW c \in Call, NEW row \in Member, NEW pc, Writes(p, c, row, pc), CallOK(c),
               Admission(c, row, pc) \/ NewRole(c, row, pc) \/ NewStatus(c, row, pc)
        PROVE  InviteOK(i)'
    <3>1. c = calls[p] /\ pc \notin {"enter", "admit"}
      BY <2>2 DEF Writes, Admission, NewRole, NewStatus
    <3>2. Admitting(i)' \subseteq Admitting(i) \ {p}
      BY <2>2, <3>1, WriteMoves DEF Admitting, SameCall
    <3>3. CASE Admission(c, row, pc) /\ c.op = "accept" /\ c.invite = i
      <4>1. p \in Admitting(i) /\ admitted'[i] = admitted[i] + 1
        BY <3>1, <3>3 DEF Admission, Admitting, MembershipTypeOK
      <4>2. /\ IsFiniteSet(Admitting(i) \ {p})
            /\ Cardinality(Admitting(i) \ {p}) = Cardinality(Admitting(i)) - 1
        BY <4>1, AdmittingIsFinite, FS_RemoveElement
      <4>3. Cardinality(Admitting(i)') <= Cardinality(Admitting(i)) - 1
        BY <3>2, <4>2, FS_Subset
      <4>. QED BY <1>0, <2>0, <4>1, <4>3, AdmittingIsFinite DEF InviteOK
    <3>4. CASE ~(Admission(c, row, pc) /\ c.op = "accept" /\ c.invite = i)
      <4>1. admitted'[i] = admitted[i]
        BY <2>2, <3>4 DEF Admission, NewRole, NewStatus, MembershipTypeOK
      <4>. QED BY <1>1, <2>0, <3>2, <4>1
    <3>. QED BY <3>3, <3>4
  <2>. QED BY <1>5, <2>1, <2>2, MemberStepIsAWrite
<1>6. CASE UNCHANGED vars
  BY <1>1, <1>6 DEF vars, Admitting
<1>. QED BY <1>1, <1>2, <1>3, <1>4, <1>5, <1>6, NextIsAStep DEF QuietStep

-----------------------------------------------------------------------------
(* A ban is followed by a block.                                           *)

InOp(q, u, op) == q \in On(u) /\ calls[q].op = op

NeverBoth ==
  \A u \in Users \ crossed, q, r \in Processes : ~(InOp(q, u, "ban") /\ InOp(r, u, "unban"))

LiftedFirst ==
  \A u \in Users \ crossed, q \in Processes :
    InOp(q, u, "unban") /\ At(q, "unblock") => members[u].status # "banned"

BlockComes ==
  faults = 0 => \A u \in Users \ crossed :
    members[u].status = "banned" =>
      \/ u \in blocked
      \/ \E q \in Processes : InOp(q, u, "ban") /\ calls[q].pc \in {"chatRemove", "block"}

Silence == NeverBoth /\ LiftedFirst /\ BlockComes

LEMMA BeginsSilence ==
  ASSUME MembershipTypeOK, CallsOK, Silence, NEW p \in Processes, Begins(p)
  PROVE  Silence'
<1>1. PICK call \in Call : Begin(p, call) /\ Fresh(call)
  BY BeginsABegin
<1>2. PICK new : new = [call EXCEPT !.banned = members[call.target].status = "banned"]
  OBVIOUS
<1>3. /\ Put(p, new) /\ SameCall(call, new) /\ new.pc = call.pc
      /\ new.pc \in {"viewer", "membership", "invite"}
  BY <1>1, <1>2 DEF Begin, Fresh, Call, SameCall
<1>4. calls'[p] = new /\ \A q \in Processes \ {p} : calls'[q] = calls[q]
  BY <1>3, PutMoves
<1>5. At(p, "idle") /\ UNCHANGED <<members, blocked, faults>>
      /\ crossed' = IF \E q \in On(call.target) : calls[q].op \in Opposes(call.op)
                    THEN crossed \cup {call.target} ELSE crossed
  BY <1>1 DEF Begin, rows
<1>6. ASSUME NEW u \in Users, NEW op
      PROVE  /\ InOp(p, u, op)' <=> call.target = u /\ call.op = op
             /\ \A q \in Processes \ {p} : InOp(q, u, op)' <=> InOp(q, u, op)
             /\ ~InOp(p, u, op)
  BY <1>3, <1>4, <1>5 DEF InOp, On, At, SameCall
<1>7. NeverBoth'
  <2>1. ASSUME NEW u \in Users \ crossed', NEW q \in Processes, NEW r \in Processes,
               InOp(q, u, "ban")', InOp(r, u, "unban")'
        PROVE  FALSE
    <3>1. u \notin crossed
      BY <1>5, <2>1
    <3>2. CASE q # p /\ r # p
      BY <1>6, <2>1, <3>1, <3>2 DEF Silence, NeverBoth
    <3>3. CASE q = p /\ r = p
      BY <1>6, <2>1, <3>3
    <3>4. CASE q = p /\ r # p
      <4>1. call.target = u /\ call.op = "ban" /\ InOp(r, u, "unban")
        BY <1>6, <2>1, <3>4
      <4>. QED BY <1>5, <2>1, <4>1 DEF InOp, Opposes
    <3>5. CASE q # p /\ r = p
      <4>1. call.target = u /\ call.op = "unban" /\ InOp(q, u, "ban")
        BY <1>6, <2>1, <3>5
      <4>. QED BY <1>5, <2>1, <4>1 DEF InOp, Opposes
    <3>. QED BY <3>2, <3>3, <3>4, <3>5
  <2>. QED BY <2>1 DEF NeverBoth
<1>8. LiftedFirst'
  <2>1. ASSUME NEW u \in Users \ crossed', NEW q \in Processes, InOp(q, u, "unban")',
               calls'[q].pc = "unblock"
        PROVE  members'[u].status # "banned"
    <3>1. u \notin crossed
      BY <1>5, <2>1
    <3>2. q # p
      BY <1>3, <1>4, <2>1
    <3>3. InOp(q, u, "unban") /\ At(q, "unblock")
      BY <1>4, <1>6, <2>1, <3>2 DEF At
    <3>4. members[u].status # "banned"
      BY <2>1, <3>1, <3>3 DEF Silence, LiftedFirst
    <3>. QED BY <1>5, <3>4
  <2>. QED BY <2>1 DEF LiftedFirst, At
<1>9. BlockComes'
  <2>1. ASSUME NEW u \in Users \ crossed', faults = 0, members[u].status = "banned", u \notin blocked
        PROVE  \E q \in Processes : InOp(q, u, "ban")' /\ calls'[q].pc \in {"chatRemove", "block"}
    <3>1. PICK q \in Processes : InOp(q, u, "ban") /\ calls[q].pc \in {"chatRemove", "block"}
      BY <1>5, <2>1 DEF Silence, BlockComes
    <3>2. q # p
      BY <1>5, <3>1 DEF At
    <3>. QED BY <1>4, <1>6, <3>1, <3>2
  <2>. QED BY <1>5, <2>1 DEF BlockComes
<1>. QED BY <1>7, <1>8, <1>9 DEF Silence

LEMMA QuietSilence ==
  ASSUME MembershipTypeOK, CallsOK, Silence, NEW p \in Processes, QuietStep(p)
  PROVE  Silence'
<1>1. /\ \A q \in Processes \ {p} : calls'[q] = calls[q]
      /\ \/ calls'[p] = Idle
         \/ /\ SameCall(calls[p], calls'[p]) /\ ~At(p, "idle")
            /\ calls'[p].pc \notin {"unblock", "chatRemove"}
            /\ calls[p].pc = "chatRemove" => calls[p].op = "ban" /\ calls'[p].pc = "block"
            /\ calls[p].pc # "block"
  BY QuietMoves
<1>2. UNCHANGED <<members, crossed>>
  BY DEF QuietStep, rows, history, Viewer, Enter, ChatAdd, Find, Create, ReadRequest,
         DecideRequest, Mint, ReadInvite, Revoke, Invitee, Consume, ReadMembership,
         ReadTarget, ChatRemove, Block, Unblock, Die, ChatFails
<1>3. ASSUME NEW q \in Processes, NEW u \in Users, NEW op, InOp(q, u, op)'
      PROVE  InOp(q, u, op) /\ calls'[q].pc \in {"unblock", "chatRemove"} => calls[q].pc = calls'[q].pc
  BY <1>1, <1>3 DEF InOp, On, At, SameCall, Idle
<1>4. NeverBoth'
  BY <1>1, <1>2, <1>3 DEF Silence, NeverBoth, InOp, On, At, SameCall, Idle
<1>5. LiftedFirst'
  BY <1>1, <1>2 DEF Silence, LiftedFirst, InOp, On, At, SameCall, Idle
<1>6. ASSUME NEW u \in Users \ crossed', faults' = 0, members'[u].status = "banned"
      PROVE  \/ u \in blocked'
             \/ \E q \in Processes : InOp(q, u, "ban")' /\ calls'[q].pc \in {"chatRemove", "block"}
  <2>1. faults = 0 /\ ~Die(p) /\ ~ChatFails(p)
    <3>1. ~Die(p) /\ ~ChatFails(p)
      BY <1>6 DEF MembershipTypeOK, Die, ChatFails
    <3>2. faults' = faults
      BY <3>1 DEF QuietStep, Viewer, Enter, ChatAdd, Find, Create, ReadRequest, DecideRequest,
         Mint, ReadInvite, Revoke, Invitee, Consume, ReadMembership, ReadTarget, ChatRemove,
         Block, Unblock
    <3>. QED BY <1>6, <3>1, <3>2
  <2>2. CASE u \in blocked
    <3>1. CASE Unblock(p)
      <4>1. calls[p].pc = "unblock" /\ calls[p].op = "unban"
        BY <3>1 DEF Unblock, At, CallsOK, CallOK, OpOK
      <4>2. calls[p].target # u
        BY <1>2, <1>6, <4>1 DEF Silence, LiftedFirst, InOp, On, At
      <4>. QED BY <2>2, <3>1, <4>2 DEF Unblock
    <3>2. CASE ~Unblock(p)
      BY <2>2, <3>2 DEF QuietStep, rows, Viewer, Enter, ChatAdd, Find, Create, ReadRequest,
         DecideRequest, Mint, ReadInvite, Revoke, Invitee, Consume, ReadMembership,
         ReadTarget, ChatRemove, Block, Die, ChatFails
    <3>. QED BY <3>1, <3>2
  <2>3. CASE u \notin blocked
    <3>1. PICK q \in Processes : InOp(q, u, "ban") /\ calls[q].pc \in {"chatRemove", "block"}
      BY <1>2, <1>6, <2>1, <2>3 DEF Silence, BlockComes
    <3>2. CASE q # p
      BY <1>1, <3>1, <3>2 DEF InOp, On, At
    <3>3. CASE q = p /\ calls[p].pc = "block"
      <4>1. Block(p)
        BY <2>1, <3>3 DEF QuietStep, Viewer, Enter, ChatAdd, Find, Create, ReadRequest,
         DecideRequest, Mint, ReadInvite, Revoke, Invitee, Consume, ReadMembership,
         ReadTarget, ChatRemove, Unblock, At
      <4>. QED BY <3>1, <3>3, <4>1 DEF Block, InOp, On
    <3>4. CASE q = p /\ calls[p].pc = "chatRemove"
      <4>1. ChatRemove(p)
        BY <2>1, <3>4 DEF QuietStep, Viewer, Enter, ChatAdd, Find, Create, ReadRequest,
         DecideRequest, Mint, ReadInvite, Revoke, Invitee, Consume, ReadMembership,
         ReadTarget, Block, Unblock, At
      <4>2. PICK call : Put(p, call) /\ call = [calls[p] EXCEPT !.pc = "block"]
        BY <3>1, <3>4, <4>1 DEF ChatRemove, AfterChatRemove, Goto, InOp
      <4>3. call.pc = "block" /\ SameCall(calls[p], call)
        BY <4>2 DEF CallsOK, Call, SameCall
      <4>. QED BY ZenonT(40), <3>1, <3>4, <4>2, <4>3, PutMoves DEF InOp, On, At, SameCall
    <3>. QED BY <3>1, <3>2, <3>3, <3>4
  <2>. QED BY <2>2, <2>3
<1>. QED BY <1>4, <1>5, <1>6 DEF Silence, BlockComes

LEMMA MemberSilence ==
  ASSUME MembershipTypeOK, CallsOK, Silence, NEW p \in Processes, MemberStep(p)
  PROVE  Silence'
<1>1. CASE Put(p, Idle) /\ UNCHANGED <<community, rows, begun, faults, history>>
  <2>1. /\ \A q \in Processes \ {p} : calls'[q] = calls[q]
        /\ calls'[p] = Idle /\ UNCHANGED <<members, blocked, faults, crossed>>
    BY <1>1, PutMoves DEF rows, history, Idle
  <2>2. calls[p].pc \in {"admit", "role", "status"}
    BY DEF MemberStep, Admit, WriteRole, WriteStatus, At
  <2>. QED BY <2>1, <2>2 DEF Silence, NeverBoth, LiftedFirst, BlockComes, InOp, On, At, Idle
<1>2. ASSUME NEW c \in Call, NEW row \in Member, NEW pc, Writes(p, c, row, pc), CallOK(c),
             Admission(c, row, pc) \/ NewRole(c, row, pc) \/ NewStatus(c, row, pc)
      PROVE  Silence'
  <2>1. /\ c = calls[p] /\ c.pc \in {"admit", "role", "status"} /\ c.target \in Users
        /\ members'[c.target] = row
        /\ \A u \in Users \ {c.target} : members'[u] = members[u]
        /\ UNCHANGED <<blocked, faults, crossed>>
    BY <1>2, CallFields DEF Writes, WriteMember, MembershipTypeOK
  <2>2. ASSUME NEW q \in Processes, NEW u \in Users, NEW op, q # p
        PROVE  (InOp(q, u, op)' <=> InOp(q, u, op)) /\ calls'[q].pc = calls[q].pc
    BY <1>2, <2>2, WriteMoves DEF InOp, On, At, SameCall
  <2>3. ASSUME NEW u \in Users, NEW op
        PROVE  /\ InOp(p, u, op)' => InOp(p, u, op)
               /\ InOp(p, u, op) => c.target = u /\ c.op = op
               /\ c.target = u /\ c.op = op /\ pc # "idle" => InOp(p, u, op)'
    BY <1>2, <2>1, WriteMoves DEF InOp, On, At, SameCall
  <2>4. calls'[p].pc = pc
    BY <1>2, WriteMoves
  <2>5. NeverBoth'
    BY <2>1, <2>2, <2>3 DEF Silence, NeverBoth
  <2>6. row.status = "banned" =>
          \/ members[c.target].status = "banned" /\ pc = "idle" /\ c.op # "unban" /\ c.pc = "role"
          \/ c.op = "ban" /\ pc = "chatRemove"
    BY <1>2 DEF Admission, NewRole, NewStatus, CallOK, OpOK, NoMember, NoOne
  <2>7. LiftedFirst'
    <3>1. ASSUME NEW u \in Users \ crossed, NEW q \in Processes, InOp(q, u, "unban")',
                 calls'[q].pc = "unblock", members'[u].status = "banned"
          PROVE  FALSE
      <4>1. CASE q = p
        BY <2>1, <2>3, <2>4, <2>6, <3>1, <4>1
      <4>2. CASE q # p
        <5>1. InOp(q, u, "unban") /\ calls[q].pc = "unblock"
          BY <2>2, <3>1, <4>2
        <5>2. members[u].status # "banned"
          BY <3>1, <5>1 DEF Silence, LiftedFirst, At
        <5>3. u = c.target /\ c.op = "ban" /\ pc = "chatRemove"
          BY <2>1, <2>6, <3>1, <5>2
        <5>4. InOp(p, u, "ban")
          BY <2>3, <5>3
        <5>. QED BY <3>1, <5>1, <5>4 DEF Silence, NeverBoth
      <4>. QED BY <4>1, <4>2
    <3>. QED BY <2>1, <3>1 DEF LiftedFirst, At
  <2>8. ASSUME NEW u \in Users \ crossed, faults = 0, members'[u].status = "banned", u \notin blocked
        PROVE  \E q \in Processes : InOp(q, u, "ban")' /\ calls'[q].pc \in {"chatRemove", "block"}
    <3>1. CASE u = c.target /\ c.op = "ban" /\ pc = "chatRemove"
      BY <2>3, <2>4, <3>1
    <3>2. CASE ~(u = c.target /\ c.op = "ban" /\ pc = "chatRemove")
      <4>1. members[u].status = "banned"
        BY <2>1, <2>6, <2>8, <3>2
      <4>2. PICK q \in Processes : InOp(q, u, "ban") /\ calls[q].pc \in {"chatRemove", "block"}
        BY <2>8, <4>1 DEF Silence, BlockComes
      <4>3. q # p
        BY <2>1, <4>2
      <4>. QED BY <2>2, <4>2, <4>3
    <3>. QED BY <3>1, <3>2
  <2>. QED BY <2>1, <2>5, <2>7, <2>8 DEF Silence, BlockComes
<1>. QED BY <1>1, <1>2, MemberStepIsAWrite

LEMMA NextSilence ==
  ASSUME MembershipTypeOK, CallsOK, Silence, [Next]_vars
  PROVE  Silence'
<1>1. CASE UNCHANGED vars
  BY <1>1 DEF vars, Silence, NeverBoth, LiftedFirst, BlockComes, InOp, On, At
<1>. QED BY <1>1, NextIsAStep, BeginsSilence, QuietSilence, MemberSilence

-----------------------------------------------------------------------------
(* The theorems.                                                           *)

Inv ==
  /\ MembershipTypeOK /\ CallsOK /\ OnePending /\ MembersAsked /\ Silence
  /\ \A i \in Invites : InviteOK(i)

LEMMA InitInv == Init => Inv
<1>. SUFFICES ASSUME Init PROVE Inv
  OBVIOUS
<1>1. MembershipTypeOK
  <2>1. members \in [Users -> Member]
    <3>1. PICK guest \in {NoMember, [role |-> "member", status |-> "left"]} :
             members = [u \in Users |->
               CASE u = Owner -> [role |-> "owner", status |-> "active"]
                 [] u = Deputy -> [role |-> DeputyRole, status |-> "active"]
                 [] OTHER -> guest]
      BY DEF Init
    <3>2. /\ [role |-> "owner", status |-> "active"] \in Member
          /\ [role |-> DeputyRole, status |-> "active"] \in Member
          /\ guest \in Member
      BY DEF Member, NoMember, NoOne, Roles
    <3>. QED BY <3>1, <3>2
  <2>2. /\ chat \subseteq Users /\ blocked \subseteq Users /\ crossed \subseteq Users
        /\ invited \subseteq Invites \X Users /\ admitted \in [Invites -> Nat]
        /\ begun \in 0..MaxCalls /\ faults \in 0..MaxFaults
        /\ community \in [private : BOOLEAN, inviteOnly : BOOLEAN]
    BY DEF Init, Founders
  <2>3. invites \in [Invites -> [creator : Users \cup {NoOne}, uses : Nat, revoked : BOOLEAN]]
    <3>1. /\ NoInvite \in [creator : Users \cup {NoOne}, uses : Nat, revoked : BOOLEAN]
          /\ [NoInvite EXCEPT !.creator = Owner]
               \in [creator : Users \cup {NoOne}, uses : Nat, revoked : BOOLEAN]
      BY DEF NoInvite
    <3>. QED BY <3>1 DEF Init
  <2>4. calls \in [Processes -> Call]
    BY IdleIsACall DEF Init
  <2>5. requests \in [Requests -> {NoRequest} \cup
          [user : Users, status : {"pending", "approved", "rejected"}]]
    BY DEF Init
  <2>. QED BY <2>1, <2>2, <2>3, <2>4, <2>5 DEF MembershipTypeOK
<1>2. CallsOK
  BY IdleIsACall DEF Init, CallsOK, CallOK, Idle
<1>3. OnePending
  BY DEF Init, OnePending, NoRequest, NoOne
<1>4. MembersAsked
  BY DEF Init, MembersAsked, Founders, NoMember, NoOne
<1>5. Silence
  BY DEF Init, Silence, NeverBoth, LiftedFirst, BlockComes, InOp, On, At, Idle, NoMember, NoOne
<1>6. ASSUME NEW i \in Invites PROVE InviteOK(i)
  <2>1. Admitting(i) = {} /\ admitted[i] = 0
    BY DEF Init, Admitting, Idle
  <2>2. invites[i].uses = 0
    BY DEF Init, NoInvite
  <2>. QED BY <2>1, <2>2, FS_EmptySet DEF InviteOK
<1>. QED BY <1>1, <1>2, <1>3, <1>4, <1>5, <1>6 DEF Inv

LEMMA Invariant == Spec => []Inv
<1>1. Inv /\ [Next]_vars => Inv'
  BY NextTypeOK, NextCallsOK, NextDecisions, NextMembersAsked, NextSilence,
     NextInviteOK DEF Inv
<1>. QED BY InitInv, <1>1, PTL DEF Spec

\* Every variable stays in its type.
THEOREM TypeCorrect == Spec => []MembershipTypeOK
<1>1. Inv => MembershipTypeOK
  BY DEF Inv
<1>. QED BY <1>1, Invariant, PTL

\* An invite admits no more than its uses, and its uses stay within maxUses, however
\* many people redeem it at once.
THEOREM InvitesAreLimited == Spec => []InviteLimit
<1>1. Inv => InviteLimit
  BY AdmittingIsFinite DEF Inv, InviteOK, InviteLimit, MembershipTypeOK
<1>. QED BY <1>1, Invariant, PTL

\* A revoked invite does not change any more.
THEOREM RevocationIsFinal == Spec => RevokedIsClosed
<1>1. Inv /\ [Next]_vars =>
        [\A i \in Invites : invites[i].revoked => invites'[i] = invites[i]]_vars
  BY NextInvites DEF Inv
<1>. QED BY <1>1, Invariant, PTL DEF Spec, RevokedIsClosed

\* A join request is decided once, and no user has two that pend.
THEOREM DecisionsAreFinal == Spec => DecisionIsFinal
<1>1. Inv /\ [Next]_vars =>
        [/\ \A r, s \in Requests : requests'[r].status = "pending" /\ requests'[s] = requests'[r]
              => r = s
         /\ \A r \in Requests : requests[r].status \in {"approved", "rejected"}
              => requests'[r] = requests[r]]_vars
  BY NextDecisions DEF Inv, OnePending
<1>. QED BY <1>1, Invariant, PTL DEF Spec, DecisionIsFinal

\* Nobody is in a closed community who was not invited or did not ask.
THEOREM ClosedStaysClosed == Spec => []ClosedMeansAsked
<1>1. Inv => ClosedMeansAsked
  BY DEF Inv, MembersAsked, AskedIn, Closed, ClosedMeansAsked
<1>. QED BY <1>1, Invariant, PTL

\* A ban that stands from before a request to after its reads is not undone by it.
THEOREM BansAreHeeded == Spec => []BanIsHeeded
<1>1. Inv => BanIsHeeded
  BY DEF Inv, CallsOK, CallOK, KnowsOK, BanIsHeeded, At
<1>. QED BY <1>1, Invariant, PTL

\* A ban that is through silences, whatever raced with it.
THEOREM BannedAreSilent == Spec => []BannedIsSilent
<1>1. Inv => BannedIsSilent
  BY DEF Inv, Silence, BlockComes, InOp, BannedIsSilent
<1>. QED BY <1>1, Invariant, PTL
=============================================================================
