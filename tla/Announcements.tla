--------------------------- MODULE Announcements ---------------------------
(***************************************************************************)
(* The announcements of one community (communityDirectory.service.ts       *)
(* 1212-1420 over yaysCommunityAnnouncement.service.ts): drafting,         *)
(* approval, the sweep that publishes what is due, and the fan-out over    *)
(* the members, each of whom is told through deliver().                    *)
(*                                                                         *)
(* The module composes with NotificationDelivery: a process is one request *)
(* in a worker, and while its fan-out tells a member it is in a call of    *)
(* deliver().  The roster is what listActive() pages over: the active      *)
(* members in the order they joined.  Texts, links, the read receipts and  *)
(* who may draft and approve are left out.                                 *)
(***************************************************************************)
EXTENDS NotificationDelivery, SequencesExt

CONSTANTS
  Announcements, \* their dedupe keys
  Publisher,     \* the member who drafts them
  Targeted,      \* the users of the audience (a region, or everybody)
  PageSize,      \* members listed at a time: 500 in the code
  MaxMoves,      \* bound on what the users do: leave, join, change settings
  Restless       \* the users who change their settings and phones

ASSUME AnnouncementsAssumption ==
  Announcements \subseteq Keys \ (Conversations \cup Criticals)
ASSUME AudienceAssumption ==
  /\ IsFiniteSet(Users) /\ Publisher \in Users
  /\ Targeted \subseteq Users /\ Restless \subseteq Users
ASSUME PageAssumption == PageSize \in Nat \ {0} /\ MaxMoves \in Nat

VARIABLES
  status,         \* of each announcement
  waits,          \* its scheduledFor is still to come
  deliveredCount, \* the denominator of its read rate
  roster,         \* the active members by joinedAt
  recent,         \* those of them whose joinedAt a join() has set meanwhile
  fan,            \* where the request of each process is
  moves,          \* times they did so far
  stayed,         \* history: members ever since the fan-out began
  shifts          \* history: rows that left their place during the fan-out

announcementVars == <<status, waits, deliveredCount, roster, recent, fan, moves, stayed, shifts>>
vars == <<deliveryVars, announcementVars>>

-----------------------------------------------------------------------------
NoAnnouncement == "none"
Statuses == {"absent", "pending_approval", "scheduled", "published", "rejected"}

Request == [ pc : {"idle", "approve", "reject", "claim", "page", "members", "count"},
             due : SUBSET Announcements,   \* the sweep's list
             announcement : Announcements \cup {NoAnnouncement},
             skip : Nat,
             members : Seq(Users),         \* the rest of the page
             last : BOOLEAN,               \* the page was short
             delivered : Nat,
             later : BOOLEAN ]             \* the schedule the approver read

NoRequest == [ pc |-> "idle", due |-> {}, announcement |-> NoAnnouncement, skip |-> 0,
               members |-> <<>>, last |-> FALSE, delivered |-> 0, later |-> FALSE ]

AnnouncementsTypeOK ==
  /\ DeliveryTypeOK
  /\ status \in [Announcements -> Statuses]
  /\ waits \in [Announcements -> BOOLEAN]
  /\ deliveredCount \in [Announcements -> Nat]
  /\ roster \in Seq(Users) /\ recent \subseteq Users
  /\ fan \in [Processes -> Request]
  /\ moves \in 0..MaxMoves
  /\ stayed \in [Announcements -> SUBSET Users]
  /\ shifts \in [Announcements -> 0..MaxMoves]

\* Whoever publishes joined first, as the owner who created the community did.
InitialRoster == <<Publisher>> \o SetToSeq(Users \ {Publisher})

Init ==
  /\ DeliveryInit
  /\ status = [a \in Announcements |-> "absent"]
  /\ waits = [a \in Announcements |-> FALSE]
  /\ deliveredCount = [a \in Announcements |-> 0]
  /\ roster = InitialRoster /\ recent = {}
  /\ fan = [p \in Processes |-> NoRequest]
  /\ moves = 0
  /\ stayed = [a \in Announcements |-> {}]
  /\ shifts = [a \in Announcements |-> 0]

In(p, pc) == fan[p].pc = pc
Continue(p, request) == fan' = [fan EXCEPT ![p] = request]
Free(p) == fan[p] = NoRequest /\ deliveries[p] = Idle

\* The fan-out of an announcement begins, in what a sweep has still to do.
BeginFanOut(p, a, due) ==
  /\ Continue(p, [NoRequest EXCEPT !.pc = "page", !.announcement = a, !.due = due])
  /\ stayed' = [stayed EXCEPT ![a] = ToSet(roster)]

\* What a request does once an announcement is dealt with: the sweep's next one.
NextDue(due) ==
  IF due = {} THEN NoRequest ELSE [NoRequest EXCEPT !.pc = "claim", !.due = due]

-----------------------------------------------------------------------------
(* Drafting and approval.                                                  *)

\* Where an announcement starts.  (Slip: a status that no query looks for.)
initialStatus_slip(verified, actorIsStaff, scheduledFor) ==
  CASE verified /\ ~actorIsStaff -> "pending"
    [] ~(verified /\ ~actorIsStaff) /\ scheduledFor -> "scheduled"
    [] OTHER -> "published"
initialStatus(verified, actorIsStaff, scheduledFor) ==
  CASE verified /\ ~actorIsStaff -> "pending_approval"
    [] ~(verified /\ ~actorIsStaff) /\ scheduledFor -> "scheduled"
    [] OTHER -> "published"

publishAnnouncement(p, a, verified, actorIsStaff, scheduledFor) ==
  /\ Free(p)
  /\ status[a] = "absent"
  /\ Publisher \in ToSet(roster)
  /\ LET first == initialStatus(verified, actorIsStaff, scheduledFor) IN
       /\ status' = [status EXCEPT ![a] = first]
       /\ IF first = "published" THEN BeginFanOut(p, a, {})
                                 ELSE UNCHANGED <<fan, stayed>>
  /\ waits' = [waits EXCEPT ![a] = scheduledFor]
  /\ UNCHANGED <<deliveryVars, deliveredCount, roster, recent, moves, shifts>>

TimePasses(a) ==
  /\ waits[a]
  /\ waits' = [waits EXCEPT ![a] = FALSE]
  /\ UNCHANGED <<deliveryVars, status, deliveredCount, roster, recent, fan, moves, stayed, shifts>>

\* approveAnnouncement: byAnnouncementId finds it pending.
ReadPending(p, a, approve) ==
  /\ Free(p)
  /\ status[a] = "pending_approval"
  /\ Continue(p, [NoRequest EXCEPT !.pc = IF approve THEN "approve" ELSE "reject",
                                   !.announcement = a, !.later = waits[a]])
  /\ UNCHANGED <<deliveryVars, status, waits, deliveredCount, roster, recent, moves, stayed, shifts>>

\* approve() writes, if it is pending still, the status chosen when it was read.
\* (Slip: the fan-out does not look at whether it wrote.)
Approve_slip(p) ==
  /\ In(p, "approve")
  /\ LET a == fan[p].announcement
         next == IF fan[p].later THEN "scheduled" ELSE "published"
     IN /\ status' = [status EXCEPT ![a] = IF @ = "pending_approval" THEN next ELSE @]
        /\ IF next = "published" THEN BeginFanOut(p, a, {})
                                 ELSE Continue(p, NoRequest) /\ UNCHANGED stayed
  /\ UNCHANGED <<deliveryVars, waits, deliveredCount, roster, recent, moves, shifts>>
Approve(p) ==
  /\ In(p, "approve")
  /\ LET a == fan[p].announcement
         next == IF fan[p].later THEN "scheduled" ELSE "published"
     IN IF status[a] = "pending_approval"
        THEN /\ status' = [status EXCEPT ![a] = next]
             /\ IF next = "published" THEN BeginFanOut(p, a, {})
                                      ELSE Continue(p, NoRequest) /\ UNCHANGED stayed
        ELSE Continue(p, NoRequest) /\ UNCHANGED <<status, stayed>>
  /\ UNCHANGED <<deliveryVars, waits, deliveredCount, roster, recent, moves, shifts>>

\* reject(), likewise.  (Slip: it writes whatever the status is.)
Reject_slip(p) ==
  /\ In(p, "reject")
  /\ status' = [status EXCEPT ![fan[p].announcement] = "rejected"]
  /\ Continue(p, NoRequest)
  /\ UNCHANGED <<deliveryVars, waits, deliveredCount, roster, recent, moves, stayed, shifts>>
Reject(p) ==
  /\ In(p, "reject")
  /\ LET a == fan[p].announcement IN
       status' = [status EXCEPT ![a] = IF @ = "pending_approval" THEN "rejected" ELSE @]
  /\ Continue(p, NoRequest)
  /\ UNCHANGED <<deliveryVars, waits, deliveredCount, roster, recent, moves, stayed, shifts>>

-----------------------------------------------------------------------------
(* publishDue(): by a sweep, and by every read of the community.           *)

\* due(): what is scheduled and has come due.
Due == {a \in Announcements : status[a] = "scheduled" /\ ~waits[a]}

\* The list is read; without anything due the call is over.
Sweep(p) ==
  /\ Free(p)
  /\ Continue(p, NextDue(Due))
  /\ UNCHANGED <<deliveryVars, status, waits, deliveredCount, roster, recent, moves, stayed, shifts>>

\* markPublished() claims a row that is scheduled still.  (Slip: whatever it is.)
markPublished_slip(p) ==
  \E a \in fan[p].due :
    /\ In(p, "claim")
    /\ status' = [status EXCEPT ![a] = "published"]
    /\ BeginFanOut(p, a, fan[p].due \ {a})
    /\ UNCHANGED <<deliveryVars, waits, deliveredCount, roster, recent, moves, shifts>>
markPublished(p) ==
  \E a \in fan[p].due :
    /\ In(p, "claim")
    /\ IF status[a] = "scheduled"
       THEN /\ status' = [status EXCEPT ![a] = "published"]
            /\ BeginFanOut(p, a, fan[p].due \ {a})
       ELSE Continue(p, NextDue(fan[p].due \ {a})) /\ UNCHANGED <<status, stayed>>
    /\ UNCHANGED <<deliveryVars, waits, deliveredCount, roster, recent, moves, shifts>>

-----------------------------------------------------------------------------
(* fanOut().                                                               *)

\* The rows skip+1 .. skip+PageSize of the roster.
PageOf(skip) ==
  SubSeq(roster, skip + 1, IF skip + PageSize < Len(roster) THEN skip + PageSize
                                                            ELSE Len(roster))

\* listActive.
Page(p) ==
  /\ In(p, "page")
  /\ LET r == fan[p]  page == PageOf(r.skip) IN
       Continue(p, [r EXCEPT !.pc = IF page = <<>> THEN "count" ELSE "members",
                             !.members = page, !.last = Len(page) < PageSize])
  /\ UNCHANGED <<deliveryVars, status, waits, deliveredCount, roster, recent, moves, stayed, shifts>>

\* The next page starts PageSize rows further on.  (Slip: one row further still.)
NextPage_slip(r) == [r EXCEPT !.pc = "page", !.skip = @ + PageSize + 1]
NextPage(r) == [r EXCEPT !.pc = "page", !.skip = @ + PageSize]

\* The next member of the page is passed over, counted, or counted and told.
TellMember(p) ==
  /\ In(p, "members")
  /\ deliveries[p] = Idle
  /\ LET r == fan[p] IN
       IF r.members = <<>>
       THEN /\ Continue(p, IF r.last THEN [r EXCEPT !.pc = "count"] ELSE NextPage(r))
            /\ UNCHANGED deliveryVars
       ELSE LET u == Head(r.members) IN
            /\ Continue(p, [r EXCEPT !.members = Tail(@),
                                     !.delivered = IF u \in Targeted THEN @ + 1 ELSE @])
            /\ IF u \in Targeted \ {Publisher}
               THEN Deliver(p, u, r.announcement) ELSE UNCHANGED deliveryVars
  /\ UNCHANGED <<status, waits, deliveredCount, roster, recent, moves, stayed, shifts>>

setDelivered(p) ==
  /\ In(p, "count")
  /\ deliveredCount' = [deliveredCount EXCEPT ![fan[p].announcement] = fan[p].delivered]
  /\ Continue(p, NextDue(fan[p].due))
  /\ UNCHANGED <<deliveryVars, status, waits, roster, recent, moves, stayed, shifts>>

-----------------------------------------------------------------------------
(* The members, the chat and the workers meanwhile.                        *)

FannedOut(a) == \E p \in Processes : fan[p].announcement = a /\ fan[p].pc \in {"page", "members"}

\* The roster without the row of u, if u has one, and what a fan-out that is under
\* way sees of it: the rows behind move forward.
Without(u) == {RemoveAt(roster, i) : i \in {j \in DOMAIN roster : roster[j] = u}}
Shift ==
  shifts' = [a \in Announcements |-> IF FannedOut(a) THEN shifts[a] + 1 ELSE shifts[a]]

\* leave(), removeMember().
Leave(u) ==
  /\ moves < MaxMoves
  /\ moves' = moves + 1
  /\ roster' \in Without(u)
  /\ stayed' = [a \in Announcements |-> stayed[a] \ {u}]
  /\ Shift
  /\ recent' = recent \ {u}
  /\ UNCHANGED <<deliveryVars, status, waits, deliveredCount, fan>>

\* join() sets the joinedAt of whoever has a row, an active member's too when an
\* approval follows an accepted invite or two accepts race.  The date is the one its
\* update was built at, so the row comes anywhere after those no join() has touched.
Join(u) ==
  /\ moves < MaxMoves
  /\ moves' = moves + 1
  /\ \E rest \in IF u \in ToSet(roster) THEN Without(u) ELSE {roster} :
     \E i \in 1..(Len(rest) + 1) :
       /\ \A j \in i..Len(rest) : rest[j] \in recent
       /\ roster' = InsertAt(rest, i, u)
  /\ recent' = recent \cup {u}
  /\ IF u \in ToSet(roster) THEN Shift ELSE UNCHANGED shifts
  /\ UNCHANGED <<deliveryVars, status, waits, deliveredCount, fan, stayed>>

\* The call of deliver() that the fan-out is in goes on or throws.
InDelivery(p) ==
  /\ DeliveryStep(p) \/ DeliverThrows(p)
  /\ UNCHANGED announcementVars

ChangeSettings(u) ==
  /\ moves < MaxMoves
  /\ moves' = moves + 1
  /\ \/ \E preference \in Preference : SetPreferences(u, preference)
     \/ \E phone \in Phones : Register(u, phone) \/ Unregister(u, phone)
  /\ UNCHANGED <<status, waits, deliveredCount, roster, recent, fan, stayed, shifts>>

\* The worker dies, or a call of the request outside deliver() throws.
Die(p) ==
  /\ ~Free(p)
  /\ faults < MaxFaults
  /\ faults' = faults + 1
  /\ Become(p, Idle)
  /\ Continue(p, NoRequest)
  /\ UNCHANGED <<inbox, preferences, phones, pushed,
                 status, waits, deliveredCount, roster, recent, moves, stayed, shifts>>

RequestStep(p) ==
  \/ Approve(p) \/ Reject(p) \/ markPublished(p) \/ Page(p) \/ TellMember(p)
  \/ setDelivered(p) \/ InDelivery(p)

Next ==
  \/ \E p \in Processes : RequestStep(p) \/ Sweep(p) \/ Die(p)
  \/ \E p \in Processes, a \in Announcements :
       \/ \E verified, actorIsStaff, scheduledFor \in BOOLEAN :
            publishAnnouncement(p, a, verified, actorIsStaff, scheduledFor)
       \/ \E approve \in BOOLEAN : ReadPending(p, a, approve)
  \/ \E a \in Announcements : TimePasses(a)
  \/ \E u \in Users : Leave(u) \/ Join(u)
  \/ \E u \in Restless : ChangeSettings(u)

\* Every call returns or throws, and the community keeps being read.
Fairness ==
  /\ \A p \in Processes : WF_vars(RequestStep(p))
  /\ SF_vars(\E p \in Processes : Sweep(p))

Spec == Init /\ [][Next]_vars /\ Fairness

-----------------------------------------------------------------------------
(* Properties.                                                             *)

InFanOut(a) == \E p \in Processes : fan[p].announcement = a
Missed(a) == {u \in stayed[a] \cap (Targeted \ {Publisher}) : inbox[<<u, a>>] = NoRow}

\* "One push per announcement per member, however many sweeps run"
\* (communityDirectory.service.ts:1360), on each phone of the member, with any
\* number of sweeps and approvals racing and whatever dies.
OnePushPerAnnouncement ==
  \A u \in Users, a \in Announcements, phone \in Phones : pushed[<<u, a, phone>>] <= 1

\* The pages of a fan-out move under it when members leave, or when join() gives an
\* active member a new joinedAt and with it a new place: each such row costs at most
\* one member the announcement (communityDirectory.service.ts:1331, whose comment
\* calls a broadcast that misses members "quietly wrong"), and the count that the
\* read rate divides by is no less than the members it was sent to.
MissesAreBounded ==
  \A a \in Announcements :
    status[a] = "published" /\ ~InFanOut(a) /\ faults = 0 =>
      /\ Cardinality(Missed(a)) <= shifts[a]
      /\ Cardinality({u \in Users : inbox[<<u, a>>] # NoRow}) <= deliveredCount[a]

\* What a reviewer rejected, or nobody has approved yet, is told to nobody, however
\* approvals, rejections and sweeps of it race (communityDirectory.service.ts:1276).
UnpublishedIsSilent ==
  \A u \in Users, a \in Announcements : inbox[<<u, a>>] # NoRow => status[a] = "published"

\* "The status guard is in the query so two sweeps racing on the same row cannot both
\* fan out" (yaysCommunityAnnouncement.service.ts:82): whatever races or dies, an
\* announcement is on the air once and is told to its audience alone, while it is on
\* the air and never after.
Promise == INSTANCE Broadcast WITH
  Audience <- Targeted \ {Publisher},
  onAir <- {a \in Announcements :
             \E p \in Processes : fan[p].pc \in {"page", "members", "count"}
                                  /\ fan[p].announcement = a},
  told <- {r \in Users \X Announcements : inbox[r] # NoRow}
ImplementsBroadcast == Promise!Spec

\* An announcement that has come due is published and told to its whole audience
\* but for the bounded misses, if nothing dies (communityDirectory.service.ts:1403).
GoesOut ==
  \A a \in Announcements :
    (status[a] = "scheduled" /\ ~waits[a])
      ~> (faults > 0 \/ (status[a] = "published" /\ ~InFanOut(a)))
=============================================================================
