------------------------ MODULE Announcements_proofs ------------------------
(***************************************************************************)
(* Theorems about Announcements, for any number of requests and sweeps in  *)
(* flight, announcements, members, phones, pages and faults.  They rest on *)
(* the invariant of NotificationDelivery, which the composition keeps, and *)
(* on there being one fan-out of an announcement: a process publishes what *)
(* nobody had published, and then it alone tells the members.              *)
(*                                                                         *)
(* That a fan-out reaches its audience rests on a second invariant, that   *)
(* says of every fan-out in progress whom it has still to come to: those   *)
(* without a row are among them, but for one for each row that moved.        *)
(***************************************************************************)
EXTENDS Announcements, NotificationDelivery_proofs, FiniteSetTheorems, SequenceTheorems

USE AudienceAssumption, PageAssumption

-----------------------------------------------------------------------------
(* The inductive invariant.                                                *)

\* Where a request fans an announcement out.
FanStages == {"page", "members", "count"}

\* What a request is busy with.
FanOK(r) ==
  /\ r.pc \in FanStages => r.announcement \in Announcements /\ status[r.announcement] = "published"
  /\ r.pc \in {"approve", "reject"} => r.announcement \in Announcements

\* The call of deliver() a fan-out is in is about its announcement.
CallIsTheFanOuts ==
  \A p \in Processes :
    deliveries[p].pc # "idle" => /\ fan[p].pc = "members"
                                 /\ deliveries[p].key = fan[p].announcement

FanOutIsSingle ==
  \A p, q \in Processes :
    (fan[p].pc \in FanStages /\ fan[q].pc \in FanStages
       /\ fan[p].announcement = fan[q].announcement) => p = q

\* Before it has tried them, the phones know nothing of what a delivery tells.
Untold(d) ==
  /\ d.pc \in {"preferences", "record"} => inbox[<<d.user, d.key>>] = NoRow
  /\ d.pc = "devices" => \A f \in Phones : pushed[<<d.user, d.key, f>>] = 0
  /\ d.pc \in {"send", "disable"} => \A f \in d.left : pushed[<<d.user, d.key, f>>] = 0

FansOK == \A p \in Processes : FanOK(fan[p])
AllUntold == \A p \in Processes : Untold(deliveries[p])

AnnouncementInv ==
  /\ FansOK /\ CallIsTheFanOuts /\ FanOutIsSingle
  /\ AllUntold /\ OnePushPerAnnouncement /\ UnpublishedIsSilent

TypesOK == AnnouncementsTypeOK /\ \A a \in Announcements : shifts[a] <= moves

\* The composed invariant.
IInv == TypesOK /\ DeliveryInv /\ AnnouncementInv

-----------------------------------------------------------------------------
(* What a sequence keeps when a member comes or goes.                      *)

\* The members of a sequence after its first n.
After(s, n) == {s[i] : i \in (n + 1)..Len(s)}

LEMMA AfterTyped ==
  ASSUME NEW s \in Seq(Users), NEW n \in Nat
  PROVE  /\ After(s, n) \subseteq ToSet(s) /\ ToSet(s) \subseteq Users
         /\ After(s, 0) = ToSet(s) /\ Len(s) \in Nat
<1>1. Len(s) \in Nat /\ DOMAIN s = 1..Len(s)
  BY LenProperties
<1>2. \A i \in 1..Len(s) : s[i] \in Users
  BY ElementOfSeq
<1>. QED BY <1>1, <1>2 DEF After, ToSet

\* Who comes in moves those behind one place back: the part after n loses nobody.
LEMMA InsertAfter ==
  ASSUME NEW s \in Seq(Users), NEW u \in Users, NEW i \in 1..(Len(s) + 1), NEW n \in Nat
  PROVE  /\ InsertAt(s, i, u) \in Seq(Users)
         /\ After(s, n) \subseteq After(InsertAt(s, i, u), n)
         /\ ToSet(s) \cup {u} \subseteq ToSet(InsertAt(s, i, u))
<1>. DEFINE t == InsertAt(s, i, u)
            front == SubSeq(s, 1, i - 1)
            back == SubSeq(s, i, Len(s))
            head == front \o <<u>>
<1>1. /\ Len(s) \in Nat /\ i \in Int /\ 1 <= i /\ i <= Len(s) + 1
      /\ \A j \in 1..Len(s) : s[j] \in Users
  BY LenProperties, ElementOfSeq
<1>2. /\ front \in Seq(Users) /\ Len(front) = i - 1
      /\ \A j \in 1..(i - 1) : front[j] = s[j]
  BY <1>1, SubSeqProperties
<1>3. /\ back \in Seq(Users) /\ Len(back) = Len(s) - i + 1
      /\ \A j \in 1..(Len(s) - i + 1) : back[j] = s[i + j - 1]
  BY <1>1, SubSeqProperties
<1>. HIDE DEF front, back
<1>4. /\ head \in Seq(Users) /\ Len(head) = i /\ head[i] = u
      /\ \A j \in 1..(i - 1) : head[j] = s[j]
  <2>1. <<u>> \in Seq(Users) /\ Len(<<u>>) = 1 /\ <<u>>[1] = u
    OBVIOUS
  <2>2. /\ head \in Seq(Users) /\ Len(head) = Len(front) + 1
        /\ \A j \in 1..(Len(front) + 1) :
             head[j] = IF j <= Len(front) THEN front[j] ELSE <<u>>[j - Len(front)]
    BY <1>2, <2>1, ConcatProperties
  <2>. QED BY <1>1, <1>2, <2>1, <2>2
<1>5. t = head \o back
  BY DEF InsertAt, front, back
<1>. HIDE DEF head, t
<1>6. /\ t \in Seq(Users) /\ Len(t) = Len(s) + 1
      /\ \A j \in 1..(Len(s) + 1) : t[j] = IF j <= i THEN head[j] ELSE back[j - i]
  <2>1. /\ head \o back \in Seq(Users) /\ Len(head \o back) = Len(head) + Len(back)
        /\ \A j \in 1..(Len(head) + Len(back)) :
             (head \o back)[j] = IF j <= Len(head) THEN head[j] ELSE back[j - Len(head)]
    BY <1>3, <1>4, ConcatProperties
  <2>2. Len(head) + Len(back) = Len(s) + 1
    BY <1>1, <1>3, <1>4
  <2>. QED BY <1>4, <1>5, <2>1, <2>2
<1>7. /\ t[i] = u /\ \A j \in 1..Len(s) : j < i => t[j] = s[j]
      /\ \A j \in 1..Len(s) : ~(j < i) => t[j + 1] = s[j]
  <2>1. t[i] = u /\ \A j \in 1..Len(s) : j < i => t[j] = s[j]
    BY <1>1, <1>4, <1>6
  <2>2. ASSUME NEW j \in 1..Len(s), ~(j < i) PROVE t[j + 1] = s[j]
    <3>1. /\ j + 1 \in 1..(Len(s) + 1) /\ ~(j + 1 <= i)
          /\ (j + 1) - i \in 1..(Len(s) - i + 1) /\ i + ((j + 1) - i) - 1 = j
      BY <1>1, <2>2
    <3>2. t[j + 1] = back[(j + 1) - i]
      BY <1>6, <3>1
    <3>. QED BY <1>3, <3>1, <3>2
  <2>. QED BY <2>1, <2>2
<1>8. ASSUME NEW m \in Nat PROVE After(s, m) \subseteq After(t, m)
  <2>1. ASSUME NEW j \in (m + 1)..Len(s) PROVE s[j] \in After(t, m)
    <3>1. /\ j \in 1..Len(s) /\ j \in (m + 1)..Len(t) /\ j + 1 \in (m + 1)..Len(t)
      BY <1>1, <1>6
    <3>. QED BY <1>7, <3>1 DEF After
  <2>. QED BY <2>1 DEF After
<1>9. ToSet(s) \cup {u} \subseteq ToSet(t)
  <2>1. After(s, 0) = ToSet(s) /\ After(t, 0) = ToSet(t) /\ DOMAIN t = 1..Len(t)
    BY <1>6, AfterTyped, LenProperties
  <2>2. u \in ToSet(t)
    BY <1>1, <1>6, <1>7, <2>1 DEF ToSet
  <2>. QED BY <1>8, <2>1, <2>2
<1>. QED BY <1>6, <1>8, <1>9 DEF t

\* Who leaves moves those behind one place forward: one of them at most moves from
\* the part that begins after n to the part before it.
LEMMA RemoveAfter ==
  ASSUME NEW s \in Seq(Users), NEW i \in DOMAIN s, NEW n \in Nat
  PROVE  /\ RemoveAt(s, i) \in Seq(Users)
         /\ \E x : After(s, n) \subseteq After(RemoveAt(s, i), n) \cup {x}
         /\ ToSet(s) \subseteq ToSet(RemoveAt(s, i)) \cup {s[i]}
<1>. DEFINE t == RemoveAt(s, i)
            front == SubSeq(s, 1, i - 1)
            back == SubSeq(s, i + 1, Len(s))
<1>1. /\ Len(s) \in Nat /\ i \in 1..Len(s) /\ i \in Int
      /\ \A j \in 1..Len(s) : s[j] \in Users
  BY LenProperties, ElementOfSeq
<1>2. /\ front \in Seq(Users) /\ Len(front) = i - 1
      /\ \A j \in 1..(i - 1) : front[j] = s[j]
  BY <1>1, SubSeqProperties
<1>3. /\ back \in Seq(Users) /\ Len(back) = Len(s) - i
      /\ \A j \in 1..(Len(s) - i) : back[j] = s[i + j]
  BY <1>1, SubSeqProperties
<1>. HIDE DEF front, back
<1>4. /\ t = front \o back /\ Len(t) = Len(s) - 1 /\ t \in Seq(Users)
      /\ \A j \in 1..(Len(s) - 1) : t[j] = IF j <= i - 1 THEN front[j] ELSE back[j - (i - 1)]
  <2>1. t = front \o back
    BY DEF RemoveAt, front, back
  <2>2. /\ front \o back \in Seq(Users) /\ Len(front \o back) = Len(front) + Len(back)
        /\ \A j \in 1..(Len(front) + Len(back)) :
             (front \o back)[j] = IF j <= Len(front) THEN front[j] ELSE back[j - Len(front)]
    BY <1>2, <1>3, ConcatProperties
  <2>3. Len(front) + Len(back) = Len(s) - 1
    BY <1>1, <1>2, <1>3
  <2>. HIDE DEF t
  <2>. QED BY <1>2, <2>1, <2>2, <2>3
<1>5. \A j \in 1..(Len(s) - 1) : t[j] = IF j < i THEN s[j] ELSE s[j + 1]
  <2>1. ASSUME NEW j \in 1..(Len(s) - 1), j < i PROVE t[j] = s[j]
    BY <1>1, <1>2, <1>4, <2>1
  <2>2. ASSUME NEW j \in 1..(Len(s) - 1), ~(j < i) PROVE t[j] = s[j + 1]
    <3>1. j - (i - 1) \in 1..(Len(s) - i) /\ i + (j - (i - 1)) = j + 1
      BY <1>1, <2>2
    <3>2. t[j] = back[j - (i - 1)]
      BY <1>1, <1>4, <2>2
    <3>. QED BY <1>3, <3>1, <3>2
  <2>. QED BY <2>1, <2>2
<1>. HIDE DEF t
<1>6. ASSUME i <= n PROVE \E x : After(s, n) \subseteq After(t, n) \cup {x}
  <2>1. ASSUME NEW j \in (n + 1)..Len(s), j # n + 1 PROVE s[j] \in After(t, n)
    <3>1. /\ j - 1 \in (n + 1)..Len(t) /\ j - 1 \in 1..(Len(s) - 1)
          /\ ~(j - 1 < i) /\ (j - 1) + 1 = j
      BY <1>1, <1>4, <1>6, <2>1
    <3>2. t[j - 1] = s[j]
      BY <1>5, <3>1
    <3>. QED BY <3>1, <3>2 DEF After
  <2>2. After(s, n) \subseteq After(t, n) \cup {s[n + 1]}
    BY <2>1 DEF After
  <2>. QED BY <2>2
<1>7. ASSUME ~(i <= n) PROVE \E x : After(s, n) \subseteq After(t, n) \cup {x}
  <2>1. ASSUME NEW j \in (n + 1)..Len(s), j # i PROVE s[j] \in After(t, n)
    <3>1. CASE j < i
      <4>1. j \in (n + 1)..Len(t) /\ j \in 1..(Len(s) - 1)
        BY <1>1, <1>4, <2>1, <3>1
      <4>2. t[j] = s[j]
        BY <1>5, <3>1, <4>1
      <4>. QED BY <4>1, <4>2 DEF After
    <3>2. CASE j > i
      <4>1. /\ j - 1 \in (n + 1)..Len(t) /\ j - 1 \in 1..(Len(s) - 1)
            /\ ~(j - 1 < i) /\ (j - 1) + 1 = j
        BY <1>1, <1>4, <1>7, <2>1, <3>2
      <4>2. t[j - 1] = s[j]
        BY <1>5, <4>1
      <4>. QED BY <4>1, <4>2 DEF After
    <3>. QED BY <1>1, <2>1, <3>1, <3>2
  <2>2. After(s, n) \subseteq After(t, n) \cup {s[i]}
    BY <2>1 DEF After
  <2>. QED BY <2>2
<1>8. ToSet(s) \subseteq ToSet(t) \cup {s[i]}
  <2>1. ASSUME NEW j \in 1..Len(s), j # i PROVE s[j] \in After(t, 0)
    <3>1. CASE j < i
      <4>1. j \in 1..Len(t) /\ j \in 1..(Len(s) - 1)
        BY <1>1, <1>4, <3>1
      <4>2. t[j] = s[j]
        BY <1>5, <3>1, <4>1
      <4>. QED BY <4>1, <4>2 DEF After
    <3>2. CASE j > i
      <4>1. /\ j - 1 \in 1..Len(t) /\ j - 1 \in 1..(Len(s) - 1)
            /\ ~(j - 1 < i) /\ (j - 1) + 1 = j
        BY <1>1, <1>4, <3>2
      <4>2. t[j - 1] = s[j]
        BY <1>5, <4>1
      <4>. QED BY <4>1, <4>2 DEF After
    <3>. QED BY <1>1, <2>1, <3>1, <3>2
  <2>2. After(t, 0) = ToSet(t) /\ DOMAIN s = 1..Len(s)
    BY <1>4, AfterTyped, LenProperties
  <2>. QED BY <2>1, <2>2 DEF ToSet
<1>. QED BY <1>4, <1>6, <1>7, <1>8 DEF t

-----------------------------------------------------------------------------
(* Type correctness.                                                       *)

LEMMA NoRequestIsARequest == NoRequest \in Request
  BY EmptySeq DEF NoRequest, Request

LEMMA RequestFields ==
  ASSUME NEW r \in Request
  PROVE  /\ r.due \subseteq Announcements /\ r.skip \in Nat /\ r.members \in Seq(Users)
         /\ r.delivered \in Nat /\ r.last \in BOOLEAN /\ r.later \in BOOLEAN
         /\ r.announcement \in Announcements \cup {NoAnnouncement}
  BY DEF Request

LEMMA RosterIsASeq == InitialRoster \in Seq(Users)
<1>. DEFINE S == Users \ {Publisher}
<1>1. IsFiniteSet(S)
  BY FS_Subset
<1>2. PICK n \in Nat : ExistsBijection(1..n, S) /\ Cardinality(S) = n
  BY <1>1, FS_CardinalityType
<1>3. \E f \in [1..Cardinality(S) -> S] : IsInjective(f)
  <2>1. PICK f : f \in Bijection(1..n, S)
    BY <1>2 DEF ExistsBijection
  <2>. QED BY <1>2, <2>1 DEF Bijection, Injection, IsInjective
<1>4. SetToSeq(S) \in [1..Cardinality(S) -> S]
  BY <1>3 DEF SetToSeq
<1>5. SetToSeq(S) \in Seq(S)
  BY <1>2, <1>4, SeqDef, Zenon
<1>6. SetToSeq(S) \in Seq(Users) /\ <<Publisher>> \in Seq(Users)
  BY <1>5, SeqMonotonic
<1>. QED BY <1>6, ConcatProperties DEF InitialRoster

LEMMA InitAnnouncementsTyped == Init => TypesOK
<1>. SUFFICES ASSUME Init PROVE TypesOK
  OBVIOUS
<1>1. DeliveryTypeOK
  BY InitTypeOK DEF Init
<1>2. roster \in Seq(Users) /\ recent \subseteq Users /\ fan \in [Processes -> Request]
  BY RosterIsASeq, NoRequestIsARequest DEF Init
<1>3. /\ status \in [Announcements -> Statuses] /\ waits \in [Announcements -> BOOLEAN]
      /\ deliveredCount \in [Announcements -> Nat] /\ stayed \in [Announcements -> SUBSET Users]
  BY DEF Init, Statuses
<1>4. /\ moves \in 0..MaxMoves /\ shifts \in [Announcements -> 0..MaxMoves]
      /\ \A a \in Announcements : shifts[a] <= moves
  BY DEF Init
<1>. QED BY <1>1, <1>2, <1>3, <1>4 DEF TypesOK, AnnouncementsTypeOK

LEMMA RosterMembers ==
  ASSUME roster \in Seq(Users)
  PROVE  ToSet(roster) \subseteq Users
  BY ElementOfSeq DEF ToSet

LEMMA NextDueTyped ==
  ASSUME NEW due \in SUBSET Announcements
  PROVE  NextDue(due) \in Request /\ NextDue(due).pc \in {"idle", "claim"}
<1>1. PICK r : r = [NoRequest EXCEPT !.pc = "claim", !.due = due]
  OBVIOUS
<1>2. r \in Request /\ r.pc = "claim"
  BY <1>1, NoRequestIsARequest DEF Request
<1>. QED BY <1>1, <1>2, NoRequestIsARequest DEF NextDue, NoRequest

\* The request that begins a fan-out.
LEMMA BeginTyped ==
  ASSUME AnnouncementsTypeOK, NEW p \in Processes, NEW a \in Announcements,
         NEW due \in SUBSET Announcements, BeginFanOut(p, a, due)
  PROVE  \E r \in Request : /\ Continue(p, r) /\ r.pc = "page" /\ r.announcement = a
                            /\ stayed' \in [Announcements -> SUBSET Users]
<1>1. PICK r : r = [NoRequest EXCEPT !.pc = "page", !.announcement = a, !.due = due]
  OBVIOUS
<1>2. r \in Request /\ r.pc = "page" /\ r.announcement = a
  BY <1>1, NoRequestIsARequest DEF Request
<1>3. ToSet(roster) \subseteq Users
  BY RosterMembers DEF AnnouncementsTypeOK
<1>. QED BY <1>1, <1>2, <1>3 DEF BeginFanOut, AnnouncementsTypeOK

-----------------------------------------------------------------------------
(* Steps of a request outside deliver().                                   *)

\* What is published stays published.
PublishedStays ==
  /\ status' \in [Announcements -> Statuses]
  /\ \A a \in Announcements : status[a] = "published" => status'[a] = "published"

LEMMA FanMoves ==
  ASSUME IInv, NEW p \in Processes, NEW new \in Request, Continue(p, new),
         UNCHANGED deliveryVars, deliveries[p].pc = "idle", PublishedStays,
         new.pc \in FanStages =>
           /\ new.announcement \in Announcements /\ status'[new.announcement] = "published"
           /\ \/ fan[p].pc \in FanStages /\ fan[p].announcement = new.announcement
              \/ status[new.announcement] # "published",
         new.pc \in {"approve", "reject"} => new.announcement \in Announcements
  PROVE  AnnouncementInv' /\ DeliveryInv' /\ fan' \in [Processes -> Request]
<1>1. fan \in [Processes -> Request] /\ FansOK /\ CallIsTheFanOuts /\ FanOutIsSingle
  BY DEF IInv, TypesOK, AnnouncementsTypeOK, AnnouncementInv
<1>2. /\ fan' \in [Processes -> Request] /\ fan'[p] = new
      /\ \A q \in Processes \ {p} : fan'[q] = fan[q]
  BY <1>1 DEF Continue
<1>3. ASSUME NEW q \in Processes PROVE FanOK(fan[q])'
  <2>1. CASE q = p
    BY <1>2, <2>1 DEF FanOK
  <2>2. CASE q # p
    <3>1. FanOK(fan[q]) /\ fan'[q] = fan[q]
      BY <1>1, <1>2, <2>2 DEF FansOK
    <3>. QED BY <3>1 DEF FanOK, PublishedStays
  <2>. QED BY <2>1, <2>2
<1>4. CallIsTheFanOuts'
  BY <1>1, <1>2 DEF CallIsTheFanOuts, deliveryVars
<1>5. FanOutIsSingle'
  <2>1. ASSUME NEW q \in Processes \ {p}, new.pc \in FanStages, fan[q].pc \in FanStages
        PROVE  fan[q].announcement # new.announcement
    BY <1>1, <2>1 DEF FansOK, FanOK, FanOutIsSingle
  <2>. QED BY <1>1, <1>2, <2>1 DEF FanOutIsSingle
<1>6. AllUntold' /\ OnePushPerAnnouncement'
  BY DEF deliveryVars, IInv, AnnouncementInv, AllUntold, Untold, OnePushPerAnnouncement
<1>7. UnpublishedIsSilent'
  BY DEF deliveryVars, IInv, AnnouncementInv, UnpublishedIsSilent, PublishedStays
<1>8. DeliveryInv'
  BY StutterKeeps DEF IInv
<1>. QED BY <1>2, <1>3, <1>4, <1>5, <1>6, <1>7, <1>8 DEF AnnouncementInv, FansOK

\* A step of a request leaves the rest of the state well typed.
LEMMA RestTyped ==
  ASSUME IInv, DeliveryInv', fan' \in [Processes -> Request],
         status' \in [Announcements -> Statuses],
         stayed' \in [Announcements -> SUBSET Users],
         waits' \in [Announcements -> BOOLEAN], deliveredCount' \in [Announcements -> Nat],
         UNCHANGED <<roster, recent, moves, shifts>>
  PROVE  TypesOK'
  BY DEF IInv, TypesOK, AnnouncementsTypeOK, DeliveryInv

LEMMA StatusOf ==
  ASSUME IInv
  PROVE  /\ status \in [Announcements -> Statuses] /\ stayed \in [Announcements -> SUBSET Users]
         /\ waits \in [Announcements -> BOOLEAN] /\ deliveredCount \in [Announcements -> Nat]
         /\ fan \in [Processes -> Request] /\ roster \in Seq(Users)
         /\ AnnouncementsTypeOK
  BY DEF IInv, TypesOK, AnnouncementsTypeOK

\* Unless its fan-out tells members, a request is in no call of deliver().
LEMMA NotInACall ==
  ASSUME IInv, NEW p \in Processes, fan[p].pc # "members"
  PROVE  deliveries[p].pc = "idle"
  BY DEF IInv, AnnouncementInv, CallIsTheFanOuts

LEMMA PublishKeeps ==
  ASSUME IInv, NEW p \in Processes, NEW a \in Announcements,
         NEW verified \in BOOLEAN, NEW actorIsStaff \in BOOLEAN, NEW scheduledFor \in BOOLEAN,
         publishAnnouncement(p, a, verified, actorIsStaff, scheduledFor)
  PROVE  IInv'
<1>. DEFINE first == initialStatus(verified, actorIsStaff, scheduledFor)
<1>1. first \in Statuses
  BY DEF initialStatus, Statuses
<1>2. /\ fan[p] = NoRequest /\ deliveries[p].pc = "idle" /\ status[a] = "absent"
      /\ status' = [status EXCEPT ![a] = first]
      /\ waits' = [waits EXCEPT ![a] = scheduledFor]
      /\ first = "published" => BeginFanOut(p, a, {})
      /\ first # "published" => UNCHANGED <<fan, stayed>>
      /\ UNCHANGED <<deliveryVars, deliveredCount, roster, recent, moves, shifts>>
  BY DEF publishAnnouncement, Free, Idle
<1>. HIDE DEF first
<1>3. PublishedStays /\ status'[a] = first
  BY <1>1, <1>2, StatusOf DEF PublishedStays
<1>4. \E r \in Request : /\ Continue(p, r)
                         /\ \/ first = "published" /\ r.pc = "page" /\ r.announcement = a
                            \/ r.pc = "idle"
                         /\ stayed' \in [Announcements -> SUBSET Users]
  <2>1. CASE first = "published"
    BY <1>2, <2>1, BeginTyped, StatusOf
  <2>2. CASE first # "published"
    <3>1. Continue(p, NoRequest) /\ NoRequest.pc = "idle"
      BY <1>2, <2>2, StatusOf DEF Continue, NoRequest
    <3>. QED BY <1>2, <2>2, <3>1, StatusOf, NoRequestIsARequest
  <2>. QED BY <2>1, <2>2
<1>5. AnnouncementInv' /\ DeliveryInv' /\ fan' \in [Processes -> Request]
  BY <1>2, <1>3, <1>4, FanMoves DEF FanStages
<1>6. TypesOK'
  BY <1>2, <1>3, <1>4, <1>5, StatusOf, RestTyped DEF PublishedStays
<1>. QED BY <1>5, <1>6 DEF IInv

LEMMA ReadPendingKeeps ==
  ASSUME IInv, NEW p \in Processes, NEW a \in Announcements, NEW approve \in BOOLEAN,
         ReadPending(p, a, approve)
  PROVE  IInv'
<1>1. PICK r : r = [NoRequest EXCEPT !.pc = IF approve THEN "approve" ELSE "reject",
                                     !.announcement = a, !.later = waits[a]]
  OBVIOUS
<1>2. waits[a] \in BOOLEAN
  BY StatusOf
<1>3. r \in Request /\ r.pc \in {"approve", "reject"} /\ r.announcement = a
  BY <1>1, <1>2, NoRequestIsARequest DEF Request
<1>4. /\ Continue(p, r) /\ deliveries[p].pc = "idle"
      /\ UNCHANGED <<deliveryVars, status, waits, deliveredCount, roster, recent, moves, stayed, shifts>>
  BY <1>1 DEF ReadPending, Free, Idle
<1>5. PublishedStays
  BY <1>4, StatusOf DEF PublishedStays
<1>6. AnnouncementInv' /\ DeliveryInv' /\ fan' \in [Processes -> Request]
  BY <1>3, <1>4, <1>5, FanMoves DEF FanStages
<1>7. TypesOK'
  BY <1>4, <1>6, StatusOf, RestTyped
<1>. QED BY <1>6, <1>7 DEF IInv

LEMMA ApproveKeeps ==
  ASSUME IInv, NEW p \in Processes, Approve(p)
  PROVE  IInv'
<1>0. PICK a : a = fan[p].announcement
  OBVIOUS
<1>1. PICK next : next = IF fan[p].later THEN "scheduled" ELSE "published"
  OBVIOUS
<1>2. /\ fan[p].pc = "approve" /\ a \in Announcements /\ next \in Statuses
      /\ deliveries[p].pc = "idle"
  BY <1>0, <1>1, NotInACall DEF Approve, In, IInv, AnnouncementInv, FansOK, FanOK, Statuses
<1>3. /\ IF status[a] = "pending_approval"
         THEN /\ status' = [status EXCEPT ![a] = next]
              /\ IF next = "published" THEN BeginFanOut(p, a, {})
                                       ELSE Continue(p, NoRequest) /\ UNCHANGED stayed
         ELSE Continue(p, NoRequest) /\ UNCHANGED <<status, stayed>>
      /\ UNCHANGED <<deliveryVars, waits, deliveredCount, roster, recent, moves, shifts>>
  BY <1>0, <1>1, Zenon DEF Approve
<1>4. PublishedStays
  BY <1>2, <1>3, StatusOf DEF PublishedStays
<1>5. \E r \in Request :
        /\ Continue(p, r)
        /\ \/ /\ r.pc = "page" /\ r.announcement = a
              /\ status[a] = "pending_approval" /\ status'[a] = "published"
           \/ r.pc = "idle"
        /\ stayed' \in [Announcements -> SUBSET Users]
  <2>1. CASE status[a] = "pending_approval" /\ next = "published"
    <3>1. BeginFanOut(p, a, {}) /\ status'[a] = "published"
      BY <1>2, <1>3, <2>1, StatusOf
    <3>. QED BY <1>2, <2>1, <3>1, BeginTyped, StatusOf
  <2>2. CASE ~(status[a] = "pending_approval" /\ next = "published")
    <3>1. Continue(p, NoRequest) /\ UNCHANGED stayed
      BY <1>3, <2>2
    <3>. QED BY <3>1, StatusOf, NoRequestIsARequest DEF NoRequest
  <2>. QED BY <2>1, <2>2
<1>6. AnnouncementInv' /\ DeliveryInv' /\ fan' \in [Processes -> Request]
  BY <1>2, <1>3, <1>4, <1>5, FanMoves DEF FanStages
<1>7. TypesOK'
  BY <1>3, <1>4, <1>5, <1>6, StatusOf, RestTyped DEF PublishedStays
<1>. QED BY <1>6, <1>7 DEF IInv

LEMMA RejectKeeps ==
  ASSUME IInv, NEW p \in Processes, Reject(p)
  PROVE  IInv'
<1>0. PICK a : a = fan[p].announcement
  OBVIOUS
<1>1. /\ fan[p].pc = "reject" /\ a \in Announcements /\ deliveries[p].pc = "idle"
  BY <1>0, NotInACall DEF Reject, In, IInv, AnnouncementInv, FansOK, FanOK
<1>2. /\ status' = [status EXCEPT ![a] = IF @ = "pending_approval" THEN "rejected" ELSE @]
      /\ Continue(p, NoRequest)
      /\ UNCHANGED <<deliveryVars, waits, deliveredCount, roster, recent, moves, stayed, shifts>>
  BY <1>0, Zenon DEF Reject
<1>3. PublishedStays
  BY <1>1, <1>2, StatusOf DEF PublishedStays, Statuses
<1>4. NoRequest \in Request /\ NoRequest.pc = "idle"
  BY NoRequestIsARequest DEF NoRequest
<1>5. AnnouncementInv' /\ DeliveryInv' /\ fan' \in [Processes -> Request]
  BY <1>1, <1>2, <1>3, <1>4, FanMoves DEF FanStages
<1>6. TypesOK'
  BY <1>2, <1>3, <1>5, StatusOf, RestTyped DEF PublishedStays
<1>. QED BY <1>5, <1>6 DEF IInv

LEMMA SweepKeeps ==
  ASSUME IInv, NEW p \in Processes, Sweep(p)
  PROVE  IInv'
<1>1. /\ Continue(p, NextDue(Due)) /\ deliveries[p].pc = "idle"
      /\ UNCHANGED <<deliveryVars, status, waits, deliveredCount, roster, recent, moves, stayed, shifts>>
  BY DEF Sweep, Free, Idle
<1>2. NextDue(Due) \in Request /\ NextDue(Due).pc \in {"idle", "claim"}
  BY NextDueTyped DEF Due
<1>3. PublishedStays
  BY <1>1, StatusOf DEF PublishedStays
<1>4. AnnouncementInv' /\ DeliveryInv' /\ fan' \in [Processes -> Request]
  BY <1>1, <1>2, <1>3, FanMoves DEF FanStages
<1>5. TypesOK'
  BY <1>1, <1>4, StatusOf, RestTyped
<1>. QED BY <1>4, <1>5 DEF IInv

LEMMA ClaimKeeps ==
  ASSUME IInv, NEW p \in Processes, markPublished(p)
  PROVE  IInv'
<1>0. PICK due : due = fan[p].due
  OBVIOUS
<1>1. PICK a \in due : markPublished(p)!(a)
  BY <1>0 DEF markPublished
<1>2. /\ fan[p].pc = "claim" /\ deliveries[p].pc = "idle"
      /\ IF status[a] = "scheduled"
         THEN status' = [status EXCEPT ![a] = "published"] /\ BeginFanOut(p, a, due \ {a})
         ELSE Continue(p, NextDue(due \ {a})) /\ UNCHANGED <<status, stayed>>
      /\ UNCHANGED <<deliveryVars, waits, deliveredCount, roster, recent, moves, shifts>>
  BY <1>0, <1>1, NotInACall DEF In
<1>3. a \in Announcements /\ due \ {a} \in SUBSET Announcements
  BY <1>0, <1>1, StatusOf, RequestFields
<1>4. PublishedStays
  BY <1>2, <1>3, StatusOf DEF PublishedStays, Statuses
<1>5. \E r \in Request :
        /\ Continue(p, r)
        /\ \/ /\ r.pc = "page" /\ r.announcement = a
              /\ status[a] = "scheduled" /\ status'[a] = "published"
           \/ r.pc \in {"idle", "claim"}
        /\ stayed' \in [Announcements -> SUBSET Users]
  <2>1. CASE status[a] = "scheduled"
    <3>1. BeginFanOut(p, a, due \ {a}) /\ status'[a] = "published"
      BY <1>2, <1>3, <2>1, StatusOf
    <3>. QED BY <1>3, <2>1, <3>1, BeginTyped, StatusOf
  <2>2. CASE status[a] # "scheduled"
    <3>1. NextDue(due \ {a}) \in Request /\ NextDue(due \ {a}).pc \in {"idle", "claim"}
      BY <1>3, NextDueTyped
    <3>. QED BY <1>2, <2>2, <3>1, StatusOf
  <2>. QED BY <2>1, <2>2
<1>6. AnnouncementInv' /\ DeliveryInv' /\ fan' \in [Processes -> Request]
  BY <1>2, <1>3, <1>4, <1>5, FanMoves DEF FanStages
<1>7. TypesOK'
  BY <1>2, <1>4, <1>5, <1>6, StatusOf, RestTyped DEF PublishedStays
<1>. QED BY <1>6, <1>7 DEF IInv

LEMMA PageOfTyped ==
  ASSUME roster \in Seq(Users), NEW skip \in Nat
  PROVE  PageOf(skip) \in Seq(Users)
<1>. DEFINE last == IF skip + PageSize < Len(roster) THEN skip + PageSize ELSE Len(roster)
<1>1. Len(roster) \in Nat
  BY LenProperties
<1>2. last \in Nat /\ last <= Len(roster)
  BY <1>1
<1>3. \A i \in (skip + 1)..last : i \in 1..Len(roster)
  BY <1>1, <1>2
<1>4. \A i \in (skip + 1)..last : roster[i] \in Users
  BY <1>3, ElementOfSeq
<1>5. SubSeq(roster, skip + 1, last) \in Seq(Users)
  BY <1>2, <1>4, SubSeqProperties
<1>. QED BY <1>5 DEF PageOf

LEMMA PageKeeps ==
  ASSUME IInv, NEW p \in Processes, Page(p)
  PROVE  IInv'
<1>0. PICK r : r = fan[p]
  OBVIOUS
<1>1. PICK page : page = PageOf(r.skip)
  OBVIOUS
<1>2. PICK new : new = [r EXCEPT !.pc = IF page = <<>> THEN "count" ELSE "members",
                                 !.members = page, !.last = Len(page) < PageSize]
  OBVIOUS
<1>3. /\ r.pc = "page" /\ Continue(p, new) /\ deliveries[p].pc = "idle"
      /\ UNCHANGED <<deliveryVars, status, waits, deliveredCount, roster, recent, moves, stayed, shifts>>
  BY <1>0, <1>1, <1>2, NotInACall DEF Page, In
<1>4. r \in Request /\ page \in Seq(Users) /\ Len(page) \in Nat
  BY <1>0, <1>1, StatusOf, RequestFields, PageOfTyped, LenProperties
<1>5. (Len(page) < PageSize) \in BOOLEAN
  OBVIOUS
<1>6. new \in Request /\ new.pc \in FanStages /\ new.announcement = r.announcement
  BY <1>2, <1>4, <1>5 DEF Request, FanStages
<1>7. r.announcement \in Announcements /\ status[r.announcement] = "published"
  BY <1>0, <1>3 DEF IInv, AnnouncementInv, FansOK, FanOK, FanStages
<1>8. PublishedStays
  BY <1>3, StatusOf DEF PublishedStays
<1>9. AnnouncementInv' /\ DeliveryInv' /\ fan' \in [Processes -> Request]
  BY <1>0, <1>3, <1>6, <1>7, <1>8, FanMoves DEF FanStages
<1>10. TypesOK'
  BY <1>3, <1>9, StatusOf, RestTyped
<1>. QED BY <1>9, <1>10 DEF IInv

LEMMA CountKeeps ==
  ASSUME IInv, NEW p \in Processes, setDelivered(p)
  PROVE  IInv'
<1>1. /\ deliveredCount' = [deliveredCount EXCEPT ![fan[p].announcement] = fan[p].delivered]
      /\ Continue(p, NextDue(fan[p].due)) /\ deliveries[p].pc = "idle"
      /\ UNCHANGED <<deliveryVars, status, waits, roster, recent, moves, stayed, shifts>>
  BY NotInACall DEF setDelivered, In
<1>2. fan[p].due \in SUBSET Announcements /\ fan[p].delivered \in Nat
  BY StatusOf, RequestFields
<1>3. NextDue(fan[p].due) \in Request /\ NextDue(fan[p].due).pc \in {"idle", "claim"}
  BY <1>2, NextDueTyped
<1>4. PublishedStays
  BY <1>1, StatusOf DEF PublishedStays
<1>5. AnnouncementInv' /\ DeliveryInv' /\ fan' \in [Processes -> Request]
  BY <1>1, <1>3, <1>4, FanMoves DEF FanStages
<1>6. deliveredCount' \in [Announcements -> Nat]
  BY <1>1, <1>2, StatusOf
<1>7. TypesOK'
  BY <1>1, <1>5, <1>6, StatusOf, RestTyped
<1>. QED BY <1>5, <1>7 DEF IInv

\* A fan-out whose call of deliver() begins.
LEMMA TellKeeps ==
  ASSUME IInv, NEW p \in Processes, NEW new \in Request, Continue(p, new),
         fan[p].pc = "members", new.pc = "members", new.announcement = fan[p].announcement,
         NEW u \in Users, Deliver(p, u, fan[p].announcement), UNCHANGED status
  PROVE  AnnouncementInv' /\ DeliveryInv' /\ fan' \in [Processes -> Request]
<1>0. PICK a : a = fan[p].announcement
  OBVIOUS
<1>1. a \in Announcements /\ a \in Keys /\ status[a] = "published"
  BY <1>0, AnnouncementsAssumption
     DEF IInv, AnnouncementInv, FansOK, FanOK, FanStages
<1>2. PICK d : d = [Idle EXCEPT !.pc = "duplicate", !.user = u, !.key = a,
                                !.muted = Muted(preferences[u], a)]
  OBVIOUS
<1>3. /\ Become(p, d) /\ UNCHANGED <<inbox, preferences, phones, pushed, faults>>
      /\ d.pc = "duplicate" /\ d.key = a
  BY <1>0, <1>2 DEF Deliver, Idle
<1>4. /\ fan' \in [Processes -> Request] /\ fan'[p] = new
      /\ \A q \in Processes \ {p} : fan'[q] = fan[q]
  BY StatusOf DEF Continue
<1>5. /\ deliveries'[p] = d
      /\ \A q \in Processes \ {p} : deliveries'[q] = deliveries[q]
  BY <1>3 DEF Become, IInv, DeliveryInv, DeliveryTypeOK
<1>6. FansOK'
  <2>1. ASSUME NEW q \in Processes PROVE FanOK(fan[q])'
    BY <1>0, <1>1, <1>4 DEF FanOK, FanStages, IInv, AnnouncementInv, FansOK
  <2>. QED BY <2>1 DEF FansOK
<1>7. CallIsTheFanOuts'
  BY <1>0, <1>3, <1>4, <1>5 DEF CallIsTheFanOuts, IInv, AnnouncementInv
<1>8. FanOutIsSingle'
  BY <1>4 DEF FanOutIsSingle, FanStages, IInv, AnnouncementInv
<1>9. AllUntold'
  <2>1. ASSUME NEW q \in Processes PROVE Untold(deliveries[q])'
    BY <1>3, <1>5 DEF Untold, IInv, AnnouncementInv, AllUntold
  <2>. QED BY <2>1 DEF AllUntold
<1>10. OnePushPerAnnouncement' /\ UnpublishedIsSilent'
  BY <1>3 DEF OnePushPerAnnouncement, UnpublishedIsSilent, IInv, AnnouncementInv
<1>11. DeliveryInv'
  BY <1>0, <1>1, CallKeeps DEF IInv
<1>. QED BY <1>4, <1>6, <1>7, <1>8, <1>9, <1>10, <1>11 DEF AnnouncementInv

LEMMA TellMemberKeeps ==
  ASSUME IInv, NEW p \in Processes, TellMember(p)
  PROVE  IInv'
<1>0. PICK r : r = fan[p]
  OBVIOUS
<1>1. /\ r.pc = "members" /\ deliveries[p] = Idle
      /\ UNCHANGED <<status, waits, deliveredCount, roster, recent, moves, stayed, shifts>>
  BY <1>0 DEF TellMember, In
<1>2. r \in Request /\ r.members \in Seq(Users) /\ r.skip \in Nat /\ r.delivered \in Nat
  BY <1>0, StatusOf, RequestFields
<1>3. r.announcement \in Announcements /\ status[r.announcement] = "published"
  BY <1>0, <1>1 DEF IInv, AnnouncementInv, FansOK, FanOK, FanStages
<1>4. PublishedStays
  BY <1>1, StatusOf DEF PublishedStays
<1>5. deliveries[p].pc = "idle"
  BY <1>1 DEF Idle
<1>6. AnnouncementInv' /\ DeliveryInv' /\ fan' \in [Processes -> Request]
  <2>1. CASE r.members = <<>>
    <3>1. PICK count : count = [r EXCEPT !.pc = "count"]
      OBVIOUS
    <3>2. PICK more : more = [r EXCEPT !.pc = "page", !.skip = @ + PageSize]
      OBVIOUS
    <3>3. /\ count \in Request /\ count.pc = "count" /\ count.announcement = r.announcement
          /\ more \in Request /\ more.pc = "page" /\ more.announcement = r.announcement
      <4>1. r.skip + PageSize \in Nat
        BY <1>2
      <4>. QED BY <1>2, <3>1, <3>2, <4>1 DEF Request
    <3>4. /\ Continue(p, count) \/ Continue(p, more)
          /\ UNCHANGED deliveryVars
      <4>1. /\ Continue(p, IF r.last THEN [r EXCEPT !.pc = "count"] ELSE NextPage(r))
            /\ UNCHANGED deliveryVars
        BY <1>0, <2>1, Zenon DEF TellMember
      <4>2. NextPage(r) = more
        BY <3>2, Zenon DEF NextPage
      <4>. QED BY <3>1, <4>1, <4>2
    <3>. QED BY <1>0, <1>1, <1>3, <1>4, <1>5, <3>3, <3>4, FanMoves DEF FanStages
  <2>2. CASE r.members # <<>>
    <3>1. PICK u : u = Head(r.members)
      OBVIOUS
    <3>2. u \in Users /\ Tail(r.members) \in Seq(Users)
      BY <1>2, <2>2, <3>1, HeadTailProperties
    <3>3. PICK new : new = [r EXCEPT !.members = Tail(@),
                                     !.delivered = IF u \in Targeted THEN @ + 1 ELSE @]
      OBVIOUS
    <3>4. new \in Request /\ new.pc = "members" /\ new.announcement = r.announcement
      <4>1. (IF u \in Targeted THEN r.delivered + 1 ELSE r.delivered) \in Nat
        BY <1>2
      <4>. QED BY <1>1, <1>2, <3>2, <3>3, <4>1 DEF Request
    <3>5. /\ Continue(p, new)
          /\ Deliver(p, u, r.announcement) \/ UNCHANGED deliveryVars
      <4>1. /\ Continue(p, [r EXCEPT !.members = Tail(@),
                                     !.delivered = IF u \in Targeted THEN @ + 1 ELSE @])
            /\ IF u \in Targeted \ {Publisher}
               THEN Deliver(p, u, r.announcement) ELSE UNCHANGED deliveryVars
        BY <1>0, <2>2, <3>1 DEF TellMember
      <4>. QED BY <3>3, <4>1
    <3>6. CASE UNCHANGED deliveryVars
      BY <1>0, <1>1, <1>3, <1>4, <1>5, <3>4, <3>5, <3>6, FanMoves DEF FanStages
    <3>7. CASE Deliver(p, u, r.announcement)
      BY <1>0, <1>1, <3>2, <3>4, <3>5, <3>7, TellKeeps
    <3>. QED BY <3>5, <3>6, <3>7
  <2>. QED BY <2>1, <2>2
<1>7. TypesOK'
  BY <1>1, <1>6, StatusOf, RestTyped
<1>. QED BY <1>6, <1>7 DEF IInv

-----------------------------------------------------------------------------
(* Steps inside deliver().                                                 *)

LEMMA IdleIsUntold == Untold(Idle)'
  BY DEF Untold, Idle

\* A delivery is about a published announcement, and no other one is about it.
LEMMA OneDeliveryEach ==
  ASSUME IInv, NEW p \in Processes, deliveries[p].pc # "idle"
  PROVE  /\ deliveries[p].key \in Announcements /\ status[deliveries[p].key] = "published"
         /\ fan[p].pc = "members" /\ deliveries[p].key = fan[p].announcement
         /\ \A q \in Processes \ {p} :
              deliveries[q].pc # "idle" => deliveries[q].key # deliveries[p].key
  BY DEF IInv, AnnouncementInv, FansOK, FanOK, FanStages, CallIsTheFanOuts, FanOutIsSingle

\* A delivery goes on: only what is about its announcement changes.
LEMMA DeliveryMoves ==
  ASSUME IInv, NEW p \in Processes, deliveries[p].pc # "idle", DeliveryInv',
         NEW new, Become(p, new), new.pc # "idle" => new.key = deliveries[p].key,
         Untold(new)', OnePushPerAnnouncement', UNCHANGED announcementVars,
         \A u \in Users, k \in Keys :
           k # deliveries[p].key =>
             /\ inbox'[<<u, k>>] = inbox[<<u, k>>]
             /\ \A f \in Phones : pushed'[<<u, k, f>>] = pushed[<<u, k, f>>]
  PROVE  IInv'
<1>1. /\ deliveries[p].key \in Announcements /\ status[deliveries[p].key] = "published"
      /\ fan[p].pc = "members" /\ deliveries[p].key = fan[p].announcement
      /\ \A q \in Processes \ {p} :
           deliveries[q].pc # "idle" => deliveries[q].key # deliveries[p].key
  BY OneDeliveryEach
<1>2. /\ deliveries'[p] = new
      /\ \A q \in Processes \ {p} : deliveries'[q] = deliveries[q]
  BY DEF Become, IInv, DeliveryInv, DeliveryTypeOK
<1>3. TypesOK'
  BY DEF IInv, TypesOK, AnnouncementsTypeOK, DeliveryInv, announcementVars
<1>4. FansOK' /\ FanOutIsSingle'
  BY DEF announcementVars, IInv, AnnouncementInv, FansOK, FanOK, FanOutIsSingle
<1>5. CallIsTheFanOuts'
  BY <1>1, <1>2 DEF announcementVars, IInv, AnnouncementInv, CallIsTheFanOuts
<1>6. ASSUME NEW q \in Processes PROVE Untold(deliveries[q])'
  <2>1. CASE q = p
    BY <1>2, <2>1 DEF Untold
  <2>2. CASE q # p
    <3>1. PICK e : e = deliveries[q]
      OBVIOUS
    <3>2. /\ deliveries'[q] = e /\ Untold(e) /\ e.user \in Users /\ e.key \in Keys
          /\ e.left \subseteq Phones
      BY <1>2, <2>2, <3>1, OneDelivery DEF IInv, AnnouncementInv, AllUntold, DeliveryInv
    <3>3. CASE e.pc = "idle"
      BY <3>2, <3>3 DEF Untold
    <3>4. CASE e.pc # "idle"
      <4>1. e.key # deliveries[p].key
        BY <1>1, <2>2, <3>1, <3>4
      <4>2. /\ inbox'[<<e.user, e.key>>] = inbox[<<e.user, e.key>>]
            /\ \A f \in Phones : pushed'[<<e.user, e.key, f>>] = pushed[<<e.user, e.key, f>>]
        BY <3>2, <4>1
      <4>3. \A f \in e.left : f \in Phones
        BY <3>2
      <4>4. Untold(e)'
        BY <3>2, <4>2, <4>3 DEF Untold
      <4>. QED BY <3>2, <4>4
    <3>. QED BY <3>3, <3>4
  <2>. QED BY <2>1, <2>2
<1>7. UnpublishedIsSilent'
  BY <1>1, AnnouncementsAssumption
     DEF UnpublishedIsSilent, announcementVars, IInv, AnnouncementInv
<1>. QED BY <1>3, <1>4, <1>5, <1>6, <1>7 DEF IInv, AnnouncementInv, AllUntold

LEMMA QuietMoves ==
  ASSUME IInv, NEW p \in Processes, deliveries[p].pc # "idle", DeliveryInv',
         NEW new, Become(p, new), new.pc # "idle" => new.key = deliveries[p].key,
         Untold(new)', UNCHANGED <<inbox, pushed>>, UNCHANGED announcementVars
  PROVE  IInv'
<1>1. OnePushPerAnnouncement'
  BY DEF OnePushPerAnnouncement, IInv, AnnouncementInv
<1>. QED BY <1>1, DeliveryMoves

LEMMA NextAttemptUntold ==
  ASSUME NEW d \in Delivery, d.pc \in {"send", "disable"}, Untold(d)'
  PROVE  Untold(NextAttempt(d))' /\ NextAttempt(d).key = d.key /\ NextAttempt(d).pc # "idle"
<1>. DEFINE more == [d EXCEPT !.pc = "send"]
            done == [d EXCEPT !.pc = "update", !.outcome = FanOutOutcome(d.ok)]
<1>1. more.pc = "send" /\ more.user = d.user /\ more.key = d.key /\ more.left = d.left
  BY DEF Delivery
<1>2. done.pc = "update" /\ done.key = d.key
  BY DEF Delivery
<1>3. Untold(more)'
  BY <1>1 DEF Untold
<1>4. Untold(done)'
  BY <1>2 DEF Untold
<1>5. NextAttempt(d) = more \/ NextAttempt(d) = done
  BY DEF NextAttempt
<1>. HIDE DEF more, done
<1>. QED BY <1>1, <1>2, <1>3, <1>4, <1>5

LEMMA CheckUntold ==
  ASSUME IInv, NEW p \in Processes, DuplicateCheck(p) \/ ReadPreferences(p), DeliveryInv',
         UNCHANGED announcementVars
  PROVE  IInv'
<1>0. PICK d : d = deliveries[p]
  OBVIOUS
<1>1. d \in Delivery /\ Untold(d) /\ RowOf(p) = <<d.user, d.key>>
  BY <1>0, OneDelivery DEF IInv, DeliveryInv, AnnouncementInv, AllUntold, RowOf
<1>2. CASE DuplicateCheck(p)
  <2>1. PICK new : new = [d EXCEPT !.pc = "preferences"]
    OBVIOUS
  <2>2. /\ d.pc = "duplicate"
        /\ \/ Become(p, Idle)
           \/ inbox[<<d.user, d.key>>] = NoRow /\ Become(p, new)
        /\ UNCHANGED <<inbox, preferences, phones, pushed, faults>>
    BY <1>0, <1>2, <2>1 DEF DuplicateCheck, At, Goto, isDuplicate
  <2>3. new.pc = "preferences" /\ new.user = d.user /\ new.key = d.key
    BY <1>1, <2>1 DEF Delivery
  <2>4. CASE Become(p, Idle)
    <3>1. Idle.pc = "idle"
      BY DEF Idle
    <3>. QED BY <1>0, <2>2, <2>4, <3>1, IdleIsUntold, QuietMoves
  <2>5. CASE inbox[<<d.user, d.key>>] = NoRow /\ Become(p, new)
    <3>1. Untold(new)'
      BY <2>2, <2>3, <2>5 DEF Untold
    <3>. QED BY <1>0, <2>2, <2>3, <2>5, <3>1, QuietMoves
  <2>. QED BY <2>2, <2>4, <2>5
<1>3. CASE ReadPreferences(p)
  <2>1. PICK new : new = [d EXCEPT !.pc = "record",
                                   !.suppression = suppressionFor(preferences[d.user], d.key)]
    OBVIOUS
  <2>2. /\ d.pc = "preferences" /\ Become(p, new)
        /\ UNCHANGED <<inbox, preferences, phones, pushed, faults>>
    BY <1>0, <1>3, <2>1 DEF ReadPreferences, At
  <2>3. new.pc = "record" /\ new.user = d.user /\ new.key = d.key
    BY <1>1, <2>1 DEF Delivery
  <2>4. Untold(new)'
    BY <1>1, <2>2, <2>3 DEF Untold
  <2>. QED BY <1>0, <2>2, <2>3, <2>4, QuietMoves
<1>. QED BY <1>2, <1>3

LEMMA RecordUntold ==
  ASSUME IInv, NEW p \in Processes, Record(p) \/ LoseRecord(p), DeliveryInv',
         UNCHANGED announcementVars
  PROVE  IInv'
<1>0. PICK d : d = deliveries[p]
  OBVIOUS
<1>1. /\ d \in Delivery /\ Untold(d) /\ RowOf(p) = <<d.user, d.key>>
      /\ d.user \in Users /\ d.key \in Keys
  BY <1>0, OneDelivery DEF IInv, DeliveryInv, AnnouncementInv, AllUntold, RowOf
<1>2. PICK new : new = [d EXCEPT !.pc = "devices"]
  OBVIOUS
<1>3. new.pc = "devices" /\ new.user = d.user /\ new.key = d.key
  BY <1>1, <1>2 DEF Delivery
<1>4. /\ d.pc = "record" /\ inbox[<<d.user, d.key>>] = NoRow
      /\ Become(p, new) \/ Become(p, Idle)
      /\ UNCHANGED <<preferences, phones, pushed, faults>>
  BY <1>0, <1>1, <1>2 DEF Record, LoseRecord, AfterRecord, Goto, At, Untold
<1>5. Record(p)
  BY <1>1, <1>4 DEF LoseRecord
<1>6. \A u \in Users, k \in Keys : k # d.key => inbox'[<<u, k>>] = inbox[<<u, k>>]
  BY <1>1, <1>5 DEF Record, IInv, DeliveryInv, DeliveryTypeOK
<1>7. \A f \in Phones : pushed[<<d.user, d.key, f>>] = 0
  <2>1. ~Reached(d.user, d.key)
    BY <1>1, <1>4 DEF IInv, DeliveryInv, RowsOK, RowOK
  <2>2. \A f \in Phones : pushed[<<d.user, d.key, f>>] \in Nat
    BY <1>1 DEF IInv, DeliveryInv, DeliveryTypeOK
  <2>. QED BY <2>1, <2>2 DEF Reached
<1>8. Untold(new)'
  BY <1>3, <1>4, <1>7 DEF Untold
<1>9. OnePushPerAnnouncement'
  BY <1>4 DEF OnePushPerAnnouncement, IInv, AnnouncementInv
<1>10. Idle.pc = "idle"
  BY DEF Idle
<1>11. CASE Become(p, new)
  BY <1>0, <1>3, <1>4, <1>6, <1>8, <1>9, <1>11, DeliveryMoves
<1>12. CASE Become(p, Idle)
  BY <1>0, <1>4, <1>6, <1>9, <1>10, <1>12, IdleIsUntold, DeliveryMoves
<1>. QED BY <1>4, <1>11, <1>12

LEMMA DevicesUntold ==
  ASSUME IInv, NEW p \in Processes, ReadDevices(p) \/ Disable(p), DeliveryInv',
         UNCHANGED announcementVars
  PROVE  IInv'
<1>0. PICK d : d = deliveries[p]
  OBVIOUS
<1>1. d \in Delivery /\ Untold(d) /\ phones[d.user] \subseteq Phones
  BY <1>0, OneDelivery DEF IInv, DeliveryInv, DeliveryTypeOK, AnnouncementInv, AllUntold
<1>2. CASE ReadDevices(p)
  <2>1. PICK none : none = [d EXCEPT !.pc = "update", !.outcome = "no_devices"]
    OBVIOUS
  <2>2. PICK some : some = [d EXCEPT !.pc = "send", !.left = phones[d.user]]
    OBVIOUS
  <2>3. /\ d.pc = "devices"
        /\ Become(p, none) \/ Become(p, some)
        /\ UNCHANGED <<inbox, preferences, phones, pushed, faults>>
    BY <1>0, <1>2, <2>1, <2>2 DEF ReadDevices, At
  <2>4. none.pc = "update" /\ none.key = d.key
    BY <1>1, <2>1 DEF Delivery
  <2>5. /\ some.pc = "send" /\ some.user = d.user /\ some.key = d.key
        /\ some.left \subseteq Phones
    BY <1>1, <2>2 DEF Delivery
  <2>6. Untold(none)'
    BY <2>4 DEF Untold
  <2>7. Untold(some)'
    BY <1>1, <2>3, <2>5 DEF Untold
  <2>. QED BY <1>0, <2>3, <2>4, <2>5, <2>6, <2>7, QuietMoves
<1>3. CASE Disable(p)
  <2>1. PICK new : new = [d EXCEPT !.gone = {}]
    OBVIOUS
  <2>2. /\ Become(p, NextAttempt(new)) /\ d.pc = "disable"
        /\ UNCHANGED <<inbox, preferences, pushed, faults>>
    BY <1>0, <1>3, <2>1, Zenon DEF Disable, At
  <2>3. /\ new \in Delivery /\ new.pc = d.pc /\ new.user = d.user /\ new.key = d.key
        /\ new.left = d.left
    BY <1>1, <2>1 DEF Delivery
  <2>4. Untold(new)'
    BY <1>1, <2>2, <2>3 DEF Untold
  <2>5. Untold(NextAttempt(new))' /\ NextAttempt(new).key = d.key
    BY <2>2, <2>3, <2>4, NextAttemptUntold
  <2>. QED BY <1>0, <2>2, <2>5, QuietMoves
<1>. QED BY <1>2, <1>3

LEMMA SendUntold ==
  ASSUME IInv, NEW p \in Processes, Send(p), DeliveryInv', UNCHANGED announcementVars
  PROVE  IInv'
<1>0. PICK d : d = deliveries[p]
  OBVIOUS
<1>1. /\ d \in Delivery /\ Untold(d) /\ d.user \in Users /\ d.key \in Keys
      /\ d.left \subseteq Phones
  BY <1>0, OneDelivery DEF IInv, DeliveryInv, AnnouncementInv, AllUntold
<1>2. PICK phone \in d.left : Send(p)!(phone)
  BY <1>0 DEF Send
<1>3. PICK rest : rest = [d EXCEPT !.left = @ \ {phone}]
  OBVIOUS
<1>4. PICK done : done = [rest EXCEPT !.ok = TRUE]
  OBVIOUS
<1>5. PICK bad : bad = [rest EXCEPT !.pc = "disable", !.gone = {phone}]
  OBVIOUS
<1>6. /\ rest \in Delivery /\ rest.pc = d.pc /\ rest.user = d.user /\ rest.key = d.key
      /\ rest.left = d.left \ {phone}
  BY <1>1, <1>3 DEF Delivery
<1>7. /\ done \in Delivery /\ done.pc = d.pc /\ done.user = d.user /\ done.key = d.key
      /\ done.left = d.left \ {phone}
  BY <1>4, <1>6 DEF Delivery
<1>8. /\ bad.pc = "disable" /\ bad.user = d.user /\ bad.key = d.key
      /\ bad.left = d.left \ {phone}
  BY <1>5, <1>6 DEF Delivery
<1>9. /\ d.pc = "send"
      /\ \/ /\ Become(p, NextAttempt(done))
            /\ pushed' = [pushed EXCEPT ![<<d.user, d.key, phone>>] = @ + 1]
         \/ Become(p, NextAttempt(rest)) /\ UNCHANGED pushed
         \/ Become(p, bad) /\ UNCHANGED pushed
      /\ UNCHANGED <<inbox, preferences, phones, faults>>
  <2>1. /\ d.pc = "send"
        /\ \/ /\ Become(p, NextAttempt(done))
              /\ pushed' = [pushed EXCEPT ![<<rest.user, rest.key, phone>>] = @ + 1]
           \/ Become(p, NextAttempt(rest)) /\ UNCHANGED pushed
           \/ Become(p, bad) /\ UNCHANGED pushed
        /\ UNCHANGED <<inbox, preferences, phones, faults>>
    BY <1>0, <1>2, <1>3, <1>4, <1>5, Zenon DEF At
  <2>. QED BY <1>6, <2>1
<1>10. \A f \in d.left : pushed[<<d.user, d.key, f>>] = 0
  BY <1>1, <1>9 DEF Untold
<1>11. CASE Become(p, NextAttempt(done)) /\ pushed' = [pushed EXCEPT ![<<d.user, d.key, phone>>] = @ + 1]
  <2>1. /\ pushed'[<<d.user, d.key, phone>>] = 1
        /\ \A u \in Users, k \in Keys, f \in Phones :
             ~(u = d.user /\ k = d.key /\ f = phone) => pushed'[<<u, k, f>>] = pushed[<<u, k, f>>]
    BY <1>1, <1>10, <1>11 DEF IInv, DeliveryInv, DeliveryTypeOK
  <2>2. \A f \in d.left \ {phone} : pushed'[<<d.user, d.key, f>>] = 0
    BY <1>1, <1>10, <2>1
  <2>3. Untold(done)'
    BY <1>7, <1>9, <2>2 DEF Untold
  <2>4. /\ Untold(NextAttempt(done))' /\ NextAttempt(done).key = d.key
        /\ NextAttempt(done).pc # "idle"
    BY <1>7, <1>9, <2>3, NextAttemptUntold
  <2>5. OnePushPerAnnouncement'
    <3>1. SUFFICES ASSUME NEW u \in Users, NEW a \in Announcements, NEW f \in Phones
                   PROVE  pushed'[<<u, a, f>>] <= 1
      BY DEF OnePushPerAnnouncement
    <3>2. a \in Keys /\ pushed[<<u, a, f>>] <= 1
      BY AnnouncementsAssumption DEF OnePushPerAnnouncement, IInv, AnnouncementInv
    <3>. QED BY <2>1, <3>2
  <2>6. \A u \in Users, k \in Keys :
          k # d.key => /\ inbox'[<<u, k>>] = inbox[<<u, k>>]
                       /\ \A f \in Phones : pushed'[<<u, k, f>>] = pushed[<<u, k, f>>]
    BY <1>9, <2>1
  <2>. QED BY <1>0, <1>9, <1>11, <2>4, <2>5, <2>6, DeliveryMoves
<1>12. CASE UNCHANGED pushed
  <2>1. Untold(rest)' /\ Untold(bad)'
    BY <1>6, <1>8, <1>9, <1>10, <1>12 DEF Untold
  <2>2. Untold(NextAttempt(rest))' /\ NextAttempt(rest).key = d.key
    BY <1>6, <1>9, <2>1, NextAttemptUntold
  <2>3. CASE Become(p, NextAttempt(rest))
    BY <1>0, <1>9, <1>12, <2>2, <2>3, QuietMoves
  <2>4. CASE Become(p, bad)
    BY <1>0, <1>8, <1>9, <1>12, <2>1, <2>4, QuietMoves
  <2>. QED BY <1>9, <1>11, <2>3, <2>4
<1>. QED BY <1>9, <1>11, <1>12

LEMMA UpdateUntold ==
  ASSUME IInv, NEW p \in Processes, UpdateOutcome(p), DeliveryInv', UNCHANGED announcementVars
  PROVE  IInv'
<1>1. /\ deliveries[p].pc = "update" /\ Become(p, Idle) /\ UNCHANGED pushed
      /\ inbox' = [inbox EXCEPT ![<<deliveries[p].user, deliveries[p].key>>]
                          = deliveries[p].outcome]
  BY DEF UpdateOutcome, At, RowOf
<1>2. \A u \in Users, k \in Keys : k # deliveries[p].key => inbox'[<<u, k>>] = inbox[<<u, k>>]
  BY <1>1 DEF IInv, DeliveryInv, DeliveryTypeOK
<1>3. OnePushPerAnnouncement'
  BY <1>1 DEF OnePushPerAnnouncement, IInv, AnnouncementInv
<1>4. Idle.pc = "idle"
  BY DEF Idle
<1>. QED BY <1>1, <1>2, <1>3, <1>4, IdleIsUntold, DeliveryMoves

LEMMA InDeliveryKeeps ==
  ASSUME IInv, NEW p \in Processes, InDelivery(p)
  PROVE  IInv'
<1>1. UNCHANGED announcementVars
  BY DEF InDelivery
<1>2. CASE DeliveryStep(p)
  <2>1. DeliveryInv'
    BY <1>2, StepKeeps DEF IInv
  <2>. QED BY <1>1, <1>2, <2>1, CheckUntold, RecordUntold, DevicesUntold, SendUntold, UpdateUntold
           DEF DeliveryStep
<1>3. CASE DeliverThrows(p)
  <2>1. DeliveryInv' /\ deliveries[p].pc # "idle" /\ Become(p, Idle) /\ UNCHANGED <<inbox, pushed>>
    BY <1>3, FaultKeeps DEF IInv, DeliverThrows
  <2>2. Idle.pc = "idle"
    BY DEF Idle
  <2>. QED BY <1>1, <2>1, <2>2, IdleIsUntold, QuietMoves
<1>. QED BY <1>2, <1>3 DEF InDelivery

-----------------------------------------------------------------------------
(* The faults, the members and the clock.                                  *)

LEMMA DieKeeps ==
  ASSUME IInv, NEW p \in Processes, Die(p)
  PROVE  IInv'
<1>1. /\ faults < MaxFaults /\ faults' = faults + 1 /\ Become(p, Idle)
      /\ Continue(p, NoRequest)
      /\ UNCHANGED <<inbox, preferences, phones, pushed>>
      /\ UNCHANGED <<status, waits, deliveredCount, roster, recent, moves, stayed, shifts>>
  BY DEF Die
<1>2. DeliveryInv'
  BY <1>1, FaultKeeps DEF IInv
<1>3. /\ fan' \in [Processes -> Request] /\ fan'[p] = NoRequest
      /\ \A q \in Processes \ {p} : fan'[q] = fan[q]
  BY <1>1, StatusOf, NoRequestIsARequest DEF Continue
<1>4. /\ deliveries'[p] = Idle
      /\ \A q \in Processes \ {p} : deliveries'[q] = deliveries[q]
  BY <1>1 DEF Become, IInv, DeliveryInv, DeliveryTypeOK
<1>5. NoRequest.pc = "idle" /\ Idle.pc = "idle"
  BY DEF NoRequest, Idle
<1>6. TypesOK'
  BY <1>1, <1>2, <1>3, StatusOf, RestTyped
<1>7. FansOK' /\ CallIsTheFanOuts' /\ FanOutIsSingle'
  BY <1>1, <1>3, <1>4, <1>5
     DEF FansOK, FanOK, CallIsTheFanOuts, FanOutIsSingle, FanStages, IInv, AnnouncementInv
<1>8. ASSUME NEW q \in Processes PROVE Untold(deliveries[q])'
  BY <1>1, <1>4, <1>5 DEF Untold, IInv, AnnouncementInv, AllUntold
<1>9. OnePushPerAnnouncement' /\ UnpublishedIsSilent'
  BY <1>1 DEF OnePushPerAnnouncement, UnpublishedIsSilent, IInv, AnnouncementInv
<1>. QED BY <1>2, <1>6, <1>7, <1>8, <1>9 DEF IInv, AnnouncementInv, AllUntold

\* What touches neither the requests nor the rows.
LEMMA AsideKeeps ==
  ASSUME IInv, TypesOK', UNCHANGED <<deliveryVars, fan, status>>
  PROVE  IInv'
<1>1. DeliveryInv'
  BY StutterKeeps DEF IInv
<1>2. AnnouncementInv'
  BY DEF deliveryVars, IInv, AnnouncementInv, FansOK, FanOK, CallIsTheFanOuts, FanOutIsSingle,
         AllUntold, Untold, OnePushPerAnnouncement, UnpublishedIsSilent
<1>. QED BY <1>1, <1>2 DEF IInv

LEMMA RosterKeeps ==
  ASSUME IInv, NEW u \in Users, Leave(u) \/ Join(u)
  PROVE  IInv'
<1>1. /\ moves < MaxMoves /\ moves' = moves + 1
      /\ UNCHANGED <<deliveryVars, status, waits, deliveredCount, fan>>
  BY DEF Leave, Join
<1>2. moves \in 0..MaxMoves /\ moves' \in 0..MaxMoves
  BY <1>1, StatusOf DEF AnnouncementsTypeOK
<1>3. roster' \in Seq(Users)
  <2>1. roster \in Seq(Users)
    BY StatusOf
  <2>2. ASSUME NEW rest \in Without(u) PROVE rest \in Seq(Users)
    BY <2>1, <2>2, RemoveAfter DEF Without
  <2>3. CASE Leave(u)
    BY <2>2, <2>3 DEF Leave
  <2>4. CASE Join(u)
    <3>1. PICK rest \in IF u \in ToSet(roster) THEN Without(u) ELSE {roster} :
            \E i \in 1..(Len(rest) + 1) : roster' = InsertAt(rest, i, u)
      BY <2>4 DEF Join
    <3>2. rest \in Seq(Users)
      BY <2>1, <2>2, <3>1
    <3>. QED BY <3>1, <3>2, InsertAfter
  <2>. QED BY <2>3, <2>4
<1>4. stayed' \in [Announcements -> SUBSET Users] /\ recent' \subseteq Users
  BY StatusOf DEF Leave, Join, AnnouncementsTypeOK
<1>5. /\ shifts' \in [Announcements -> 0..MaxMoves]
      /\ \A a \in Announcements : shifts'[a] <= moves'
  <2>1. shifts \in [Announcements -> 0..MaxMoves] /\ \A a \in Announcements : shifts[a] <= moves
    BY StatusOf DEF AnnouncementsTypeOK, IInv, TypesOK
  <2>2. \/ UNCHANGED shifts
        \/ shifts' = [a \in Announcements |-> IF FannedOut(a) THEN shifts[a] + 1 ELSE shifts[a]]
    BY DEF Leave, Join, Shift
  <2>. QED BY <1>1, <1>2, <2>1, <2>2
<1>6. DeliveryTypeOK'
  BY <1>1, StutterKeeps DEF IInv, DeliveryInv
<1>7. TypesOK'
  BY <1>1, <1>2, <1>3, <1>4, <1>5, <1>6, StatusOf DEF TypesOK, AnnouncementsTypeOK
<1>. QED BY <1>1, <1>7, AsideKeeps

LEMMA ClockKeeps ==
  ASSUME IInv, NEW a \in Announcements, TimePasses(a)
  PROVE  IInv'
<1>1. /\ waits' = [waits EXCEPT ![a] = FALSE]
      /\ UNCHANGED <<deliveryVars, status, deliveredCount, roster, recent, fan, moves, stayed, shifts>>
  BY DEF TimePasses
<1>2. DeliveryInv'
  BY <1>1, StutterKeeps DEF IInv
<1>3. TypesOK'
  BY <1>1, <1>2, StatusOf, RestTyped
<1>. QED BY <1>1, <1>3, AsideKeeps

LEMMA SettingsKeep ==
  ASSUME IInv, NEW u \in Users, ChangeSettings(u)
  PROVE  IInv'
<1>1. /\ moves < MaxMoves /\ moves' = moves + 1
      /\ UNCHANGED <<status, waits, deliveredCount, roster, recent, fan, stayed, shifts>>
  BY DEF ChangeSettings
<1>2. DeliveryInv'
  BY UserKeeps DEF ChangeSettings, IInv
<1>3. TypesOK'
  <2>1. moves \in 0..MaxMoves /\ moves' \in 0..MaxMoves
    BY <1>1, StatusOf DEF AnnouncementsTypeOK
  <2>2. shifts \in [Announcements -> 0..MaxMoves] /\ \A a \in Announcements : shifts[a] <= moves
    BY StatusOf DEF AnnouncementsTypeOK, IInv, TypesOK
  <2>3. \A a \in Announcements : shifts[a] <= moves'
    BY <1>1, <2>1, <2>2
  <2>. QED BY <1>1, <1>2, <2>1, <2>2, <2>3, StatusOf DEF TypesOK, AnnouncementsTypeOK, DeliveryInv
<1>4. UNCHANGED <<inbox, pushed>> /\ \A p \in Processes :
        /\ deliveries'[p].pc = deliveries[p].pc /\ deliveries'[p].user = deliveries[p].user
        /\ deliveries'[p].key = deliveries[p].key /\ deliveries'[p].left = deliveries[p].left
  <2>1. ASSUME NEW preference \in Preference, SetPreferences(u, preference),
               NEW p \in Processes
        PROVE  /\ deliveries'[p].pc = deliveries[p].pc /\ deliveries'[p].user = deliveries[p].user
               /\ deliveries'[p].key = deliveries[p].key /\ deliveries'[p].left = deliveries[p].left
    <3>1. deliveries[p] \in Delivery
      BY OneDelivery DEF IInv, DeliveryInv
    <3>2. PICK silenced : silenced = [deliveries[p] EXCEPT !.muted = FALSE]
      OBVIOUS
    <3>3. /\ silenced.pc = deliveries[p].pc /\ silenced.user = deliveries[p].user
          /\ silenced.key = deliveries[p].key /\ silenced.left = deliveries[p].left
      BY <3>1, <3>2 DEF Delivery
    <3>4. deliveries'[p] = silenced \/ deliveries'[p] = deliveries[p]
      BY <2>1, <3>2 DEF SetPreferences
    <3>. QED BY <3>3, <3>4
  <2>. QED BY <2>1 DEF ChangeSettings, SetPreferences, Register, Unregister
<1>5. FansOK' /\ CallIsTheFanOuts' /\ FanOutIsSingle'
  BY <1>1, <1>4
     DEF IInv, AnnouncementInv, FansOK, FanOK, CallIsTheFanOuts, FanOutIsSingle
<1>6. ASSUME NEW p \in Processes PROVE Untold(deliveries[p])'
  BY <1>4 DEF Untold, IInv, AnnouncementInv, AllUntold
<1>7. OnePushPerAnnouncement' /\ UnpublishedIsSilent'
  BY <1>1, <1>4 DEF OnePushPerAnnouncement, UnpublishedIsSilent, IInv, AnnouncementInv
<1>. QED BY <1>2, <1>3, <1>5, <1>6, <1>7 DEF IInv, AnnouncementInv, AllUntold

LEMMA InitGives == Init => IInv
<1>. SUFFICES ASSUME Init PROVE DeliveryInv /\ AnnouncementInv
  BY InitAnnouncementsTyped DEF IInv
<1>1. DeliveryInv
  BY InitKeeps DEF Init
<1>2. NoRequest.pc = "idle" /\ Idle.pc = "idle"
  BY DEF NoRequest, Idle
<1>3. \A p \in Processes : fan[p] = NoRequest /\ deliveries[p] = Idle
  BY DEF Init, DeliveryInit
<1>4. FansOK /\ CallIsTheFanOuts /\ FanOutIsSingle
  BY <1>2, <1>3 DEF FansOK, FanOK, CallIsTheFanOuts, FanOutIsSingle, FanStages
<1>5. AllUntold
  BY <1>2, <1>3 DEF AllUntold, Untold
<1>6. ASSUME NEW u \in Users, NEW a \in Announcements
      PROVE  inbox[<<u, a>>] = NoRow /\ \A f \in Phones : pushed[<<u, a, f>>] <= 1
  BY AnnouncementsAssumption DEF Init, DeliveryInit
<1>7. OnePushPerAnnouncement /\ UnpublishedIsSilent
  BY <1>6 DEF OnePushPerAnnouncement, UnpublishedIsSilent
<1>. QED BY <1>1, <1>4, <1>5, <1>7 DEF AnnouncementInv

LEMMA NextKeeps ==
  ASSUME IInv, [Next]_vars
  PROVE  IInv'
<1>1. CASE UNCHANGED vars
  <2>1. TypesOK'
    BY <1>1, StutterKeeps
       DEF vars, announcementVars, IInv, TypesOK, AnnouncementsTypeOK, DeliveryInv
  <2>. QED BY <1>1, <2>1, AsideKeeps DEF vars, announcementVars
<1>2. ASSUME NEW p \in Processes, RequestStep(p) PROVE IInv'
  BY <1>2, ApproveKeeps, RejectKeeps, ClaimKeeps, PageKeeps, TellMemberKeeps, CountKeeps,
     InDeliveryKeeps DEF RequestStep
<1>3. ASSUME NEW p \in Processes, Sweep(p) \/ Die(p) PROVE IInv'
  BY <1>3, SweepKeeps, DieKeeps
<1>4. ASSUME NEW p \in Processes, NEW a \in Announcements, NEW approve \in BOOLEAN,
             ReadPending(p, a, approve)
      PROVE  IInv'
  BY <1>4, ReadPendingKeeps
<1>5. ASSUME NEW p \in Processes, NEW a \in Announcements,
             NEW verified \in BOOLEAN, NEW actorIsStaff \in BOOLEAN, NEW scheduledFor \in BOOLEAN,
             publishAnnouncement(p, a, verified, actorIsStaff, scheduledFor)
      PROVE  IInv'
  BY <1>5, PublishKeeps
<1>6. ASSUME NEW a \in Announcements, TimePasses(a) PROVE IInv'
  BY <1>6, ClockKeeps
<1>7. ASSUME NEW u \in Users, Leave(u) \/ Join(u) PROVE IInv'
  BY <1>7, RosterKeeps
<1>8. ASSUME NEW u \in Restless, ChangeSettings(u) PROVE IInv'
  BY <1>8, SettingsKeep
<1>. QED BY <1>1, <1>2, <1>3, <1>4, <1>5, <1>6, <1>7, <1>8 DEF Next

LEMMA AnnouncementsInvariant == Spec => []IInv
<1>1. Init => IInv
  BY InitGives
<1>2. IInv /\ [Next]_vars => IInv'
  BY NextKeeps
<1>. QED BY <1>1, <1>2, PTL DEF Spec

-----------------------------------------------------------------------------
(* Who has still to be told.                                               *)

\* The members of the roster after its first n.
Beyond(n) == After(roster, n)

\* Whom a request has still to come to, by its page and the pages after it.
Listed(r) ==
  CASE r.pc = "page" -> Beyond(r.skip)
    [] r.pc = "members" ->
         ToSet(r.members) \cup IF r.last THEN {} ELSE Beyond(r.skip + PageSize)
    [] OTHER -> {}

\* Who is in a call of deliver() that has not come to its row.
BeforeItsRow == {"duplicate", "preferences", "record"}
OnTheWay(p) == IF deliveries[p].pc \in BeforeItsRow THEN {deliveries[p].user} ELSE {}
ToCome(p) == Listed(fan[p]) \cup OnTheWay(p)

Told(a) == {u \in Users : inbox[<<u, a>>] # NoRow}

\* A fan-out answers for everybody who stayed: those without a row are still to
\* come, but for one for each row that left its place.
Fans(p, a) == fan[p].pc \in FanStages /\ fan[p].announcement = a

Covers(p, a) ==
  /\ Cardinality(Missed(a) \ ToCome(p)) <= shifts[a]
  /\ Cardinality(Told(a) \cup OnTheWay(p)) <= fan[p].delivered

Settled(a) ==
  /\ Cardinality(Missed(a)) <= shifts[a]
  /\ Cardinality(Told(a)) <= deliveredCount[a]

Accounted(a) ==
  /\ \A p \in Processes : Fans(p, a) => Covers(p, a)
  /\ status[a] = "published" /\ (\A p \in Processes : ~Fans(p, a)) => Settled(a)

\* Who stayed is on the roster; and unless something failed all are accounted for.
MissInv ==
  /\ \A a \in Announcements : stayed[a] \subseteq ToSet(roster)
  /\ faults = 0 => \A a \in Announcements : Accounted(a)

-----------------------------------------------------------------------------
(* Sets of users, and the pages of the roster.                             *)

LEMMA NoMore ==
  ASSUME NEW S \in SUBSET Users, NEW T \in SUBSET S
  PROVE  Cardinality(S) \in Nat /\ Cardinality(T) \in Nat /\ Cardinality(T) <= Cardinality(S)
<1>1. IsFiniteSet(S)
  BY FS_Subset
<1>2. IsFiniteSet(T)
  BY <1>1, FS_Subset
<1>. QED BY <1>1, <1>2, FS_Subset, FS_CardinalityType

LEMMA OneMore ==
  ASSUME NEW S \in SUBSET Users, NEW x, NEW T \in SUBSET (S \cup {x})
  PROVE  /\ Cardinality(S) \in Nat /\ Cardinality(T) \in Nat
         /\ Cardinality(T) <= Cardinality(S) + 1
<1>1. IsFiniteSet(S)
  BY FS_Subset
<1>2. IsFiniteSet(S \cup {x}) /\ Cardinality(S \cup {x}) <= Cardinality(S) + 1
  <2>1. /\ IsFiniteSet(S \cup {x})
        /\ Cardinality(S \cup {x}) = IF x \in S THEN Cardinality(S) ELSE Cardinality(S) + 1
    BY <1>1, FS_AddElement
  <2>2. Cardinality(S) \in Nat
    BY <1>1, FS_CardinalityType
  <2>. QED BY <2>1, <2>2
<1>3. IsFiniteSet(T) /\ Cardinality(T) <= Cardinality(S \cup {x})
  BY <1>2, FS_Subset
<1>. QED BY <1>1, <1>2, <1>3, FS_CardinalityType

\* A page and what is beyond it are all there is; an empty page is followed by
\* nobody, and so is a short one.
LEMMA PageCovers ==
  ASSUME roster \in Seq(Users), NEW skip \in Nat
  PROVE  /\ Beyond(skip) \subseteq ToSet(PageOf(skip)) \cup Beyond(skip + PageSize)
         /\ PageOf(skip) = <<>> => Beyond(skip) = {}
         /\ Len(PageOf(skip)) < PageSize => Beyond(skip + PageSize) = {}
<1>. DEFINE last == IF skip + PageSize < Len(roster) THEN skip + PageSize ELSE Len(roster)
            page == SubSeq(roster, skip + 1, last)
<1>1. Len(roster) \in Nat /\ \A i \in 1..Len(roster) : roster[i] \in Users
  BY LenProperties, ElementOfSeq
<1>2. last \in Nat /\ last <= Len(roster) /\ last <= skip + PageSize
  BY <1>1
<1>3. last = skip + PageSize \/ last = Len(roster)
  OBVIOUS
<1>4. page = PageOf(skip)
  BY DEF PageOf
<1>5. \A i \in (skip + 1)..last : roster[i] \in Users
  BY <1>1, <1>2
<1>. HIDE DEF last
<1>6. /\ Len(page) = IF skip + 1 <= last THEN last - skip ELSE 0
      /\ \A i \in 1..(last - skip) : page[i] = roster[skip + i]
      /\ page \in Seq(Users)
  <2>1. /\ Len(page) = IF skip + 1 <= last THEN last - (skip + 1) + 1 ELSE 0
        /\ \A i \in 1..(last - (skip + 1) + 1) : page[i] = roster[(skip + 1) + i - 1]
        /\ page \in Seq(Users)
    BY <1>2, <1>5, SubSeqProperties
  <2>2. last - (skip + 1) + 1 = last - skip /\ \A i \in Int : (skip + 1) + i - 1 = skip + i
    BY <1>2
  <2>. QED BY <2>1, <2>2
<1>. HIDE DEF page
<1>7. ASSUME NEW j \in (skip + 1)..Len(roster)
      PROVE  roster[j] \in ToSet(page) \cup Beyond(skip + PageSize)
  <2>1. CASE j <= last
    <3>1. j - skip \in 1..(last - skip) /\ skip + (j - skip) = j /\ j - skip \in 1..Len(page)
      BY <1>1, <1>2, <1>6, <2>1
    <3>2. page[j - skip] = roster[j] /\ DOMAIN page = 1..Len(page)
      BY <1>6, <3>1, LenProperties
    <3>. QED BY <3>1, <3>2 DEF ToSet
  <2>2. CASE j > last
    <3>1. j \in (skip + PageSize + 1)..Len(roster)
      BY <1>1, <1>2, <1>3, <2>2
    <3>. QED BY <3>1 DEF Beyond, After
  <2>. QED BY <1>1, <1>2, <2>1, <2>2
<1>8. ASSUME page = <<>> PROVE Beyond(skip) = {}
  <2>1. Len(page) = 0
    BY <1>8
  <2>2. ~(skip + 1 <= last)
    BY <1>2, <1>6, <2>1
  <2>3. Len(roster) <= skip
    BY <1>1, <1>2, <1>3, <2>2
  <2>4. (skip + 1)..Len(roster) = {}
    BY <1>1, <2>3
  <2>. QED BY <2>4 DEF Beyond, After
<1>9. ASSUME Len(page) < PageSize PROVE Beyond(skip + PageSize) = {}
  <2>1. Len(roster) <= skip + PageSize
    BY <1>1, <1>2, <1>3, <1>6, <1>9
  <2>2. (skip + PageSize + 1)..Len(roster) = {}
    BY <1>1, <2>1
  <2>. QED BY <2>2 DEF Beyond, After
<1>. QED BY <1>4, <1>7, <1>8, <1>9 DEF Beyond, After

LEMMA HeadOfPage ==
  ASSUME NEW s \in Seq(Users)
  PROVE  /\ s = <<>> => ToSet(s) = {}
         /\ s # <<>> => ToSet(s) \subseteq {Head(s)} \cup ToSet(Tail(s))
<1>1. CASE s = <<>>
  BY <1>1 DEF ToSet
<1>2. CASE s # <<>>
  <2>1. /\ Len(s) \in Nat \ {0} /\ DOMAIN s = 1..Len(s) /\ Head(s) = s[1]
        /\ Tail(s) \in Seq(Users) /\ Len(Tail(s)) = Len(s) - 1
        /\ \A i \in 1..Len(Tail(s)) : Tail(s)[i] = s[i + 1]
    BY <1>2, LenProperties, EmptySeq, HeadTailProperties
  <2>2. DOMAIN Tail(s) = 1..(Len(s) - 1)
    BY <2>1, LenProperties
  <2>3. ASSUME NEW j \in 1..Len(s), j # 1 PROVE s[j] \in ToSet(Tail(s))
    <3>1. j - 1 \in 1..(Len(s) - 1) /\ (j - 1) + 1 = j
      BY <2>1, <2>3
    <3>. QED BY <2>1, <2>2, <3>1 DEF ToSet
  <2>. QED BY <1>2, <2>1, <2>3 DEF ToSet
<1>. QED BY <1>1, <1>2

-----------------------------------------------------------------------------
(* What a step must do to keep one announcement accounted for.             *)

\* A step that does not touch what is known of an announcement.
Same(a) ==
  /\ stayed'[a] = stayed[a] /\ shifts'[a] = shifts[a] /\ deliveredCount'[a] = deliveredCount[a]
  /\ \A u \in Users : inbox'[<<u, a>>] = NoRow <=> inbox[<<u, a>>] = NoRow

LEMMA SameCounts ==
  ASSUME NEW a \in Announcements, Same(a), stayed[a] \subseteq Users
  PROVE  Missed(a)' = Missed(a) /\ Told(a)' = Told(a)
  BY DEF Same, Missed, Told

LEMMA CountedAreUsers ==
  ASSUME IInv, NEW a \in Announcements
  PROVE  /\ stayed[a] \subseteq Users /\ Missed(a) \subseteq Users /\ Told(a) \subseteq Users
         /\ shifts[a] \in Nat /\ deliveredCount[a] \in Nat
         /\ \A p \in Processes : OnTheWay(p) \subseteq Users
<1>1. stayed[a] \subseteq Users /\ shifts[a] \in Nat /\ deliveredCount[a] \in Nat
  BY StatusOf DEF AnnouncementsTypeOK
<1>2. \A p \in Processes : deliveries[p].user \in Users
  BY OneDelivery DEF IInv, DeliveryInv
<1>. QED BY <1>1, <1>2 DEF Missed, Told, OnTheWay

\* The fan-out goes on: of those that had to come nobody is lost, and who is told
\* was about to be.
LEMMA CoversStays ==
  ASSUME IInv, NEW p \in Processes, NEW a \in Announcements, Covers(p, a),
         (Missed(a) \ ToCome(p))' \subseteq Missed(a) \ ToCome(p),
         (Told(a) \cup OnTheWay(p))' \subseteq Told(a) \cup OnTheWay(p),
         shifts'[a] = shifts[a], fan'[p].delivered = fan[p].delivered
  PROVE  Covers(p, a)'
<1>1. Missed(a) \ ToCome(p) \in SUBSET Users /\ Told(a) \cup OnTheWay(p) \in SUBSET Users
  BY CountedAreUsers
<1>2. /\ Cardinality(Missed(a) \ ToCome(p)) \in Nat
      /\ Cardinality((Missed(a) \ ToCome(p))') \in Nat
      /\ Cardinality((Missed(a) \ ToCome(p))') <= Cardinality(Missed(a) \ ToCome(p))
  BY <1>1, NoMore
<1>3. /\ Cardinality(Told(a) \cup OnTheWay(p)) \in Nat
      /\ Cardinality((Told(a) \cup OnTheWay(p))') \in Nat
      /\ Cardinality((Told(a) \cup OnTheWay(p))') <= Cardinality(Told(a) \cup OnTheWay(p))
  BY <1>1, NoMore
<1>4. shifts[a] \in Nat /\ fan[p].delivered \in Nat
  BY CountedAreUsers, StatusOf, RequestFields
<1>5. Cardinality((Missed(a) \ ToCome(p))') <= shifts'[a]
  BY <1>2, <1>4 DEF Covers
<1>6. Cardinality((Told(a) \cup OnTheWay(p))') <= fan'[p].delivered
  BY <1>3, <1>4 DEF Covers
<1>. QED BY <1>5, <1>6 DEF Covers, Beyond

\* One process moves, and accounts for what it fans out; the others' announcements
\* and the settled ones it does not touch.
LEMMA OneMoves ==
  ASSUME IInv, IInv', NEW p \in Processes, UNCHANGED roster,
         \A q \in Processes \ {p} : fan'[q] = fan[q] /\ deliveries'[q] = deliveries[q],
         NEW a \in Announcements, Accounted(a),
         Fans(p, a)' => Covers(p, a)',
         Fans(p, a) /\ ~Fans(p, a)' => Settled(a)',
         ~Fans(p, a) /\ ~Fans(p, a)' =>
           Same(a) /\ (status'[a] = "published" => status[a] = "published")
  PROVE  Accounted(a)'
<1>1. FanOutIsSingle /\ FanOutIsSingle'
  BY DEF IInv, AnnouncementInv
<1>2. stayed[a] \subseteq Users
  BY CountedAreUsers
<1>3. ASSUME NEW q \in Processes, Fans(q, a)' PROVE Covers(q, a)'
  <2>1. CASE q = p
    BY <1>3, <2>1
  <2>2. CASE q # p
    <3>1. fan'[q] = fan[q] /\ deliveries'[q] = deliveries[q]
      BY <2>2
    <3>2. Fans(q, a)
      BY <1>3, <3>1 DEF Fans
    <3>3. ~Fans(p, a)
      BY <1>1, <2>2, <3>2 DEF Fans, FanOutIsSingle
    <3>4. ~Fans(p, a)'
      BY <1>1, <1>3, <2>2 DEF Fans, FanOutIsSingle
    <3>5. Same(a) /\ Missed(a)' = Missed(a) /\ Told(a)' = Told(a)
      BY <1>2, <3>3, <3>4, SameCounts
    <3>6. ToCome(q)' = ToCome(q) /\ OnTheWay(q)' = OnTheWay(q)
      BY <3>1 DEF ToCome, Listed, OnTheWay, Beyond
    <3>7. Covers(q, a)
      BY <3>2 DEF Accounted
    <3>. QED BY <3>1, <3>5, <3>6, <3>7 DEF Covers, Beyond, Same
  <2>. QED BY <2>1, <2>2
<1>4. ASSUME status'[a] = "published", \A q \in Processes : ~Fans(q, a)' PROVE Settled(a)'
  <2>1. CASE Fans(p, a)
    BY <1>4, <2>1
  <2>2. CASE ~Fans(p, a)
    <3>1. Same(a) /\ Missed(a)' = Missed(a) /\ Told(a)' = Told(a) /\ status[a] = "published"
      BY <1>2, <1>4, <2>2, SameCounts
    <3>2. \A q \in Processes : ~Fans(q, a)
      BY <1>4, <2>2 DEF Fans
    <3>3. Settled(a)
      BY <3>1, <3>2 DEF Accounted
    <3>. QED BY <3>1, <3>3 DEF Settled, Same
  <2>. QED BY <2>1, <2>2
<1>. QED BY <1>3, <1>4 DEF Accounted

\* What leaves the roster, the rows and the requests alone.
LEMMA AsideAccounts ==
  ASSUME IInv, NEW a \in Announcements, Accounted(a), Same(a),
         UNCHANGED <<roster, fan, status>>,
         \A p \in Processes : deliveries'[p].pc = deliveries[p].pc
                              /\ deliveries'[p].user = deliveries[p].user
  PROVE  Accounted(a)'
<1>1. Missed(a)' = Missed(a) /\ Told(a)' = Told(a)
  BY CountedAreUsers, SameCounts
<1>2. ASSUME NEW p \in Processes
      PROVE  ToCome(p)' = ToCome(p) /\ OnTheWay(p)' = OnTheWay(p) /\ Fans(p, a)' = Fans(p, a)
  BY DEF ToCome, Listed, OnTheWay, Beyond, Fans
<1>. QED BY <1>1, <1>2 DEF Accounted, Covers, Settled, Beyond, Same

-----------------------------------------------------------------------------
(* The steps of a request.                                                 *)

LEMMA ContinueGives ==
  ASSUME IInv, NEW p \in Processes, NEW new, Continue(p, new), UNCHANGED deliveryVars
  PROVE  /\ fan'[p] = new
         /\ \A q \in Processes \ {p} : fan'[q] = fan[q] /\ deliveries'[q] = deliveries[q]
         /\ OnTheWay(p)' = OnTheWay(p)
  BY StatusOf DEF Continue, deliveryVars, OnTheWay

\* Somebody the fan-out is in no call for is not on the way.
LEMMA NobodyOnTheWay ==
  ASSUME NEW p \in Processes, deliveries[p].pc = "idle"
  PROVE  OnTheWay(p) = {}
  BY DEF OnTheWay, BeforeItsRow

\* A step before a fan-out or after it.
LEMMA OutsideAccounts ==
  ASSUME IInv, IInv', NEW p \in Processes, NEW new, Continue(p, new),
         fan[p].pc \notin FanStages, new.pc \notin FanStages,
         UNCHANGED <<deliveryVars, roster, stayed, shifts, deliveredCount>>,
         NEW a \in Announcements, Accounted(a),
         status'[a] = "published" => status[a] = "published"
  PROVE  Accounted(a)'
<1>1. ~Fans(p, a) /\ ~Fans(p, a)'
  BY ContinueGives DEF Fans
<1>2. Same(a)
  BY DEF Same, deliveryVars
<1>3. \A q \in Processes \ {p} : fan'[q] = fan[q] /\ deliveries'[q] = deliveries[q]
  BY ContinueGives
<1>. QED BY <1>1, <1>2, <1>3, OneMoves

\* The fan-out begins: all that stayed are on the pages to come.
LEMMA BeginAccounts ==
  ASSUME IInv, IInv', NEW p \in Processes, fan[p].pc \notin FanStages,
         NEW b \in Announcements, NEW due, BeginFanOut(p, b, due),
         status[b] # "published", deliveries[p].pc = "idle",
         UNCHANGED <<deliveryVars, roster, shifts, deliveredCount>>,
         NEW a \in Announcements, Accounted(a),
         a # b => status'[a] = status[a]
  PROVE  Accounted(a)'
<1>1. PICK r : r = [NoRequest EXCEPT !.pc = "page", !.announcement = b, !.due = due]
  OBVIOUS
<1>2. /\ r.pc = "page" /\ r.announcement = b /\ r.skip = 0 /\ r.delivered = 0
      /\ Continue(p, r) /\ stayed' = [stayed EXCEPT ![b] = ToSet(roster)]
  BY <1>1 DEF BeginFanOut, NoRequest
<1>3. /\ fan'[p] = r /\ OnTheWay(p) = {} /\ OnTheWay(p)' = {}
      /\ \A q \in Processes \ {p} : fan'[q] = fan[q] /\ deliveries'[q] = deliveries[q]
  BY <1>2, ContinueGives, NobodyOnTheWay
<1>4. ~Fans(p, a) /\ (Fans(p, a)' <=> a = b)
  BY <1>2, <1>3 DEF Fans, FanStages
<1>5. ASSUME a = b PROVE Covers(p, a)'
  <2>1. stayed'[a] = ToSet(roster) /\ roster' = roster
    BY <1>2, <1>5, StatusOf
  <2>2. ToCome(p)' = ToSet(roster)
    <3>1. ToCome(p)' = After(roster, 0)
      BY <1>2, <1>3, <2>1 DEF ToCome, Listed, Beyond
    <3>. QED BY <3>1, StatusOf, AfterTyped
  <2>3. (Missed(a) \ ToCome(p))' = {}
    BY <2>1, <2>2 DEF Missed
  <2>4. (Told(a) \cup OnTheWay(p))' = {}
    <3>1. \A u \in Users : inbox[<<u, a>>] = NoRow
      BY <1>5 DEF IInv, AnnouncementInv, UnpublishedIsSilent
    <3>. QED BY <1>3, <3>1 DEF Told, deliveryVars
  <2>5. shifts[a] \in Nat /\ Cardinality({}) = 0
    BY CountedAreUsers, FS_EmptySet
  <2>6. Cardinality((Missed(a) \ ToCome(p))') <= shifts'[a]
    BY <2>3, <2>5
  <2>7. fan'[p].delivered = 0 /\ fan'[p].pc = "page"
    BY <1>2, <1>3
  <2>8. Cardinality((Told(a) \cup OnTheWay(p))') <= fan'[p].delivered
    BY <2>4, <2>5, <2>7
  <2>. QED BY <2>6, <2>7, <2>8 DEF Covers
<1>6. a # b => Same(a) /\ status'[a] = status[a]
  BY <1>2, StatusOf DEF Same, deliveryVars
<1>. QED BY <1>3, <1>4, <1>5, <1>6, OneMoves

LEMMA PublishAccounts ==
  ASSUME IInv, IInv', NEW p \in Processes, NEW b \in Announcements,
         NEW verified \in BOOLEAN, NEW actorIsStaff \in BOOLEAN, NEW scheduledFor \in BOOLEAN,
         publishAnnouncement(p, b, verified, actorIsStaff, scheduledFor),
         NEW a \in Announcements, Accounted(a)
  PROVE  Accounted(a)'
<1>. DEFINE first == initialStatus(verified, actorIsStaff, scheduledFor)
<1>1. /\ fan[p] = NoRequest /\ deliveries[p].pc = "idle" /\ status[b] = "absent"
      /\ status' = [status EXCEPT ![b] = first]
      /\ first = "published" => BeginFanOut(p, b, {})
      /\ first # "published" => UNCHANGED <<fan, stayed>>
      /\ UNCHANGED <<deliveryVars, deliveredCount, roster, recent, moves, shifts>>
  BY DEF publishAnnouncement, Free, Idle
<1>. HIDE DEF first
<1>2. NoRequest.pc = "idle" /\ fan[p].pc \notin FanStages
  BY <1>1 DEF NoRequest, FanStages
<1>3. CASE first = "published"
  BY <1>1, <1>2, <1>3, StatusOf, BeginAccounts
<1>4. CASE first # "published"
  <2>1. Continue(p, NoRequest)
    BY <1>1, <1>4, StatusOf DEF Continue
  <2>2. status'[a] = "published" => status[a] = "published"
    BY <1>1, <1>4, StatusOf
  <2>. QED BY <1>1, <1>2, <1>4, <2>1, <2>2, OutsideAccounts DEF FanStages
<1>. QED BY <1>3, <1>4

LEMMA ApproveAccounts ==
  ASSUME IInv, IInv', NEW p \in Processes, Approve(p), NEW a \in Announcements, Accounted(a)
  PROVE  Accounted(a)'
<1>0. PICK b : b = fan[p].announcement
  OBVIOUS
<1>1. PICK next : next = IF fan[p].later THEN "scheduled" ELSE "published"
  OBVIOUS
<1>2. /\ fan[p].pc = "approve" /\ b \in Announcements /\ deliveries[p].pc = "idle"
      /\ fan[p].pc \notin FanStages
  BY <1>0, NotInACall DEF Approve, In, IInv, AnnouncementInv, FansOK, FanOK, FanStages
<1>3. /\ IF status[b] = "pending_approval"
         THEN /\ status' = [status EXCEPT ![b] = next]
              /\ IF next = "published" THEN BeginFanOut(p, b, {})
                                       ELSE Continue(p, NoRequest) /\ UNCHANGED stayed
         ELSE Continue(p, NoRequest) /\ UNCHANGED <<status, stayed>>
      /\ UNCHANGED <<deliveryVars, waits, deliveredCount, roster, recent, moves, shifts>>
  BY <1>0, <1>1, Zenon DEF Approve
<1>4. CASE status[b] = "pending_approval" /\ next = "published"
  <2>1. BeginFanOut(p, b, {}) /\ (a # b => status'[a] = status[a])
    BY <1>3, <1>4, StatusOf
  <2>. QED BY <1>2, <1>3, <1>4, <2>1, BeginAccounts
<1>5. CASE ~(status[b] = "pending_approval" /\ next = "published")
  <2>1. Continue(p, NoRequest) /\ UNCHANGED stayed /\ NoRequest.pc \notin FanStages
    BY <1>3, <1>5 DEF NoRequest, FanStages
  <2>2. status'[a] = "published" => status[a] = "published"
    BY <1>3, <1>5, StatusOf
  <2>. QED BY <1>2, <1>3, <2>1, <2>2, OutsideAccounts
<1>. QED BY <1>4, <1>5

LEMMA ClaimAccounts ==
  ASSUME IInv, IInv', NEW p \in Processes, markPublished(p), NEW a \in Announcements,
         Accounted(a)
  PROVE  Accounted(a)'
<1>0. PICK due : due = fan[p].due
  OBVIOUS
<1>1. PICK b \in due : markPublished(p)!(b)
  BY <1>0 DEF markPublished
<1>2. /\ fan[p].pc = "claim" /\ deliveries[p].pc = "idle"
      /\ IF status[b] = "scheduled"
         THEN status' = [status EXCEPT ![b] = "published"] /\ BeginFanOut(p, b, due \ {b})
         ELSE Continue(p, NextDue(due \ {b})) /\ UNCHANGED <<status, stayed>>
      /\ UNCHANGED <<deliveryVars, waits, deliveredCount, roster, recent, moves, shifts>>
  BY <1>0, <1>1, NotInACall DEF In
<1>3. b \in Announcements /\ due \ {b} \in SUBSET Announcements /\ fan[p].pc \notin FanStages
  BY <1>0, <1>1, <1>2, StatusOf, RequestFields DEF FanStages
<1>4. CASE status[b] = "scheduled"
  <2>1. BeginFanOut(p, b, due \ {b}) /\ (a # b => status'[a] = status[a])
    BY <1>2, <1>3, <1>4, StatusOf
  <2>. QED BY <1>2, <1>3, <1>4, <2>1, BeginAccounts
<1>5. CASE status[b] # "scheduled"
  <2>1. NextDue(due \ {b}).pc \in {"idle", "claim"}
    BY <1>3, NextDueTyped
  <2>. QED BY <1>2, <1>3, <1>5, <2>1, OutsideAccounts DEF FanStages
<1>. QED BY <1>4, <1>5

LEMMA AsidesAccount ==
  ASSUME IInv, IInv', NEW p \in Processes, NEW a \in Announcements, Accounted(a),
         \/ Reject(p) \/ Sweep(p)
         \/ \E b \in Announcements, approve \in BOOLEAN : ReadPending(p, b, approve)
  PROVE  Accounted(a)'
<1>1. \/ fan[p].pc = "reject"
      \/ fan[p] = NoRequest
  BY DEF Reject, Sweep, ReadPending, Free, In
<1>2. fan[p].pc \notin FanStages
  BY <1>1 DEF FanStages, NoRequest
<1>3. UNCHANGED <<deliveryVars, roster, stayed, shifts, deliveredCount>>
  BY DEF Reject, Sweep, ReadPending
<1>4. status'[a] = "published" => status[a] = "published"
  <2>1. CASE Reject(p)
    <3>1. PICK b : b = fan[p].announcement
      OBVIOUS
    <3>2. status' = [status EXCEPT ![b] = IF @ = "pending_approval" THEN "rejected" ELSE @]
      BY <2>1, <3>1, Zenon DEF Reject
    <3>. QED BY <3>2, StatusOf
  <2>2. CASE UNCHANGED status
    BY <2>2
  <2>. QED BY <2>1, <2>2 DEF Sweep, ReadPending
<1>5. \E new : Continue(p, new) /\ new.pc \notin FanStages
  <2>1. CASE Reject(p)
    BY <2>1 DEF Reject, NoRequest, FanStages
  <2>2. CASE Sweep(p)
    <3>1. NextDue(Due).pc \in {"idle", "claim"}
      BY NextDueTyped DEF Due
    <3>. QED BY <2>2, <3>1 DEF Sweep, FanStages
  <2>3. ASSUME NEW b \in Announcements, NEW approve \in BOOLEAN, ReadPending(p, b, approve)
        PROVE  \E new : Continue(p, new) /\ new.pc \notin FanStages
    <3>1. PICK r : r = [NoRequest EXCEPT !.pc = IF approve THEN "approve" ELSE "reject",
                                         !.announcement = b, !.later = waits[b]]
      OBVIOUS
    <3>2. r.pc \notin FanStages
      BY <3>1 DEF NoRequest, FanStages
    <3>. QED BY <2>3, <3>1, <3>2 DEF ReadPending
  <2>. QED BY <2>1, <2>2, <2>3
<1>. QED BY <1>2, <1>3, <1>4, <1>5, OutsideAccounts

\* The page that was listed is to be told, and the pages beyond it are to come.
LEMMA PageAccounts ==
  ASSUME IInv, IInv', NEW p \in Processes, Page(p), NEW a \in Announcements, Accounted(a)
  PROVE  Accounted(a)'
<1>0. PICK r : r = fan[p]
  OBVIOUS
<1>1. PICK page : page = PageOf(r.skip)
  OBVIOUS
<1>2. PICK new : new = [r EXCEPT !.pc = IF page = <<>> THEN "count" ELSE "members",
                                 !.members = page, !.last = Len(page) < PageSize]
  OBVIOUS
<1>3. /\ r.pc = "page" /\ Continue(p, new)
      /\ UNCHANGED <<deliveryVars, status, deliveredCount, roster, stayed, shifts>>
  BY <1>0, <1>1, <1>2 DEF Page, In
<1>4. r \in Request /\ r.skip \in Nat /\ roster \in Seq(Users)
  BY <1>0, StatusOf, RequestFields
<1>5. /\ new.pc = IF page = <<>> THEN "count" ELSE "members"
      /\ new.members = page /\ new.skip = r.skip /\ new.delivered = r.delivered
      /\ new.last = (Len(page) < PageSize) /\ new.announcement = r.announcement
  BY <1>2, <1>4 DEF Request
<1>6. /\ fan'[p] = new /\ OnTheWay(p)' = OnTheWay(p)
      /\ \A q \in Processes \ {p} : fan'[q] = fan[q] /\ deliveries'[q] = deliveries[q]
  BY <1>3, ContinueGives
<1>7. Fans(p, a)' <=> Fans(p, a)
  BY <1>0, <1>3, <1>5, <1>6 DEF Fans, FanStages
<1>8. Same(a) /\ Missed(a)' = Missed(a) /\ Told(a)' = Told(a)
  BY <1>3, CountedAreUsers, SameCounts DEF Same, deliveryVars
<1>9. ASSUME Fans(p, a) PROVE Covers(p, a)'
  <2>1. Covers(p, a)
    BY <1>9 DEF Accounted
  <2>2. /\ Beyond(r.skip) \subseteq ToSet(page) \cup Beyond(r.skip + PageSize)
        /\ page = <<>> => Beyond(r.skip) = {}
        /\ Len(page) < PageSize => Beyond(r.skip + PageSize) = {}
    BY <1>1, <1>4, PageCovers
  <2>3. Listed(r) = Beyond(r.skip)
    BY <1>3 DEF Listed
  <2>4. Listed(fan[p])' =
          IF page = <<>> THEN {}
          ELSE ToSet(page) \cup IF Len(page) < PageSize THEN {} ELSE Beyond(r.skip + PageSize)
    BY <1>3, <1>5, <1>6 DEF Listed, Beyond
  <2>5. ToCome(p) \subseteq ToCome(p)'
    BY <1>0, <1>6, <2>2, <2>3, <2>4 DEF ToCome
  <2>. QED BY <1>0, <1>3, <1>5, <1>6, <1>8, <2>1, <2>5, CoversStays
<1>. QED BY <1>3, <1>6, <1>7, <1>8, <1>9, OneMoves

\* One more is counted, and told or about to be.
LEMMA CoversGrows ==
  ASSUME IInv, NEW p \in Processes, NEW a \in Announcements, Covers(p, a), NEW u \in Users,
         (Missed(a) \ ToCome(p))' \subseteq Missed(a) \ ToCome(p),
         (Told(a) \cup OnTheWay(p))' \subseteq Told(a) \cup OnTheWay(p) \cup {u},
         shifts'[a] = shifts[a], fan'[p].delivered = fan[p].delivered + 1
  PROVE  Covers(p, a)'
<1>1. Missed(a) \ ToCome(p) \in SUBSET Users /\ Told(a) \cup OnTheWay(p) \in SUBSET Users
  BY CountedAreUsers
<1>2. /\ Cardinality(Missed(a) \ ToCome(p)) \in Nat
      /\ Cardinality((Missed(a) \ ToCome(p))') \in Nat
      /\ Cardinality((Missed(a) \ ToCome(p))') <= Cardinality(Missed(a) \ ToCome(p))
  BY <1>1, NoMore
<1>3. /\ Cardinality(Told(a) \cup OnTheWay(p)) \in Nat
      /\ Cardinality((Told(a) \cup OnTheWay(p))') \in Nat
      /\ Cardinality((Told(a) \cup OnTheWay(p))') <= Cardinality(Told(a) \cup OnTheWay(p)) + 1
  BY <1>1, OneMore
<1>4. shifts[a] \in Nat /\ fan[p].delivered \in Nat
  BY CountedAreUsers, StatusOf, RequestFields
<1>5. Cardinality((Missed(a) \ ToCome(p))') <= shifts'[a]
  BY <1>2, <1>4 DEF Covers
<1>6. Cardinality((Told(a) \cup OnTheWay(p))') <= fan'[p].delivered
  BY <1>3, <1>4 DEF Covers
<1>. QED BY <1>5, <1>6 DEF Covers, Beyond

\* The page is done: the next one begins where it ended, and after the last one
\* there is nobody.
LEMMA PageEndAccounts ==
  ASSUME IInv, IInv', NEW p \in Processes, TellMember(p), fan[p].members = <<>>,
         NEW a \in Announcements, Accounted(a)
  PROVE  Accounted(a)'
<1>0. PICK r : r = fan[p]
  OBVIOUS
<1>1. PICK count : count = [r EXCEPT !.pc = "count"]
  OBVIOUS
<1>2. PICK more : more = [r EXCEPT !.pc = "page", !.skip = @ + PageSize]
  OBVIOUS
<1>3. NextPage(r) = more
  BY <1>2, Zenon DEF NextPage
<1>4. PICK new : new = IF r.last THEN count ELSE more
  OBVIOUS
<1>5. /\ r.pc = "members" /\ Continue(p, new)
      /\ UNCHANGED <<deliveryVars, status, deliveredCount, roster, stayed, shifts>>
  <2>1. Continue(p, IF r.last THEN [r EXCEPT !.pc = "count"] ELSE NextPage(r))
    BY <1>0, Zenon DEF TellMember
  <2>2. Continue(p, new)
    BY <1>1, <1>3, <1>4, <2>1
  <2>. QED BY <1>0, <2>2 DEF TellMember, In
<1>6. r \in Request /\ r.skip \in Nat /\ roster \in Seq(Users)
  BY <1>0, StatusOf, RequestFields
<1>7. /\ count.pc = "count" /\ count.delivered = r.delivered
      /\ count.announcement = r.announcement
      /\ more.pc = "page" /\ more.delivered = r.delivered
      /\ more.announcement = r.announcement /\ more.skip = r.skip + PageSize
  BY <1>1, <1>2, <1>6 DEF Request
<1>8. /\ fan'[p] = new /\ OnTheWay(p)' = OnTheWay(p)
      /\ \A q \in Processes \ {p} : fan'[q] = fan[q] /\ deliveries'[q] = deliveries[q]
  BY <1>5, ContinueGives
<1>9. Fans(p, a)' <=> Fans(p, a)
  BY <1>0, <1>4, <1>5, <1>7, <1>8 DEF Fans, FanStages
<1>10. Same(a) /\ Missed(a)' = Missed(a) /\ Told(a)' = Told(a)
  BY <1>5, CountedAreUsers, SameCounts DEF Same, deliveryVars
<1>11. ASSUME Fans(p, a) PROVE Covers(p, a)'
  <2>1. Covers(p, a)
    BY <1>11 DEF Accounted
  <2>2. Listed(r) = IF r.last THEN {} ELSE Beyond(r.skip + PageSize)
    BY <1>0, <1>5, <1>6, HeadOfPage DEF Listed, Request
  <2>3. Listed(fan[p])' = IF r.last THEN {} ELSE Beyond(r.skip + PageSize)
    BY <1>4, <1>5, <1>7, <1>8 DEF Listed, Beyond
  <2>4. (Missed(a) \ ToCome(p))' \subseteq Missed(a) \ ToCome(p)
    BY <1>0, <1>8, <1>10, <2>2, <2>3 DEF ToCome
  <2>5. fan'[p].delivered = fan[p].delivered
    BY <1>0, <1>4, <1>7, <1>8
  <2>. QED BY <1>5, <1>8, <1>10, <2>1, <2>4, <2>5, CoversStays
<1>. QED BY <1>5, <1>8, <1>9, <1>10, <1>11, OneMoves

\* The next member of the page is told, or has no need to be.
LEMMA TellOneAccounts ==
  ASSUME IInv, IInv', NEW p \in Processes, TellMember(p), fan[p].members # <<>>,
         NEW a \in Announcements, Accounted(a)
  PROVE  Accounted(a)'
<1>0. PICK r : r = fan[p]
  OBVIOUS
<1>1. PICK u : u = Head(r.members)
  OBVIOUS
<1>2. PICK new : new = [r EXCEPT !.members = Tail(@),
                                 !.delivered = IF u \in Targeted THEN @ + 1 ELSE @]
  OBVIOUS
<1>3. /\ r.pc = "members" /\ deliveries[p] = Idle /\ deliveries[p].pc = "idle"
      /\ Continue(p, new)
      /\ IF u \in Targeted \ {Publisher}
         THEN Deliver(p, u, r.announcement) ELSE UNCHANGED deliveryVars
      /\ UNCHANGED <<status, deliveredCount, roster, stayed, shifts>>
  <2>1. /\ Continue(p, [r EXCEPT !.members = Tail(@),
                                 !.delivered = IF u \in Targeted THEN @ + 1 ELSE @])
        /\ IF u \in Targeted \ {Publisher}
           THEN Deliver(p, u, r.announcement) ELSE UNCHANGED deliveryVars
    BY <1>0, <1>1 DEF TellMember
  <2>. QED BY <1>0, <1>2, <2>1 DEF TellMember, In, Idle
<1>4. /\ r \in Request /\ r.skip \in Nat /\ roster \in Seq(Users) /\ r.members \in Seq(Users)
      /\ u \in Users
  <2>1. r \in Request /\ r.skip \in Nat /\ roster \in Seq(Users) /\ r.members \in Seq(Users)
    BY <1>0, StatusOf, RequestFields
  <2>. QED BY <1>0, <1>1, <2>1, HeadTailProperties
<1>5. /\ new.pc = r.pc /\ new.members = Tail(r.members) /\ new.skip = r.skip
      /\ new.delivered = (IF u \in Targeted THEN r.delivered + 1 ELSE r.delivered)
      /\ new.last = r.last /\ new.announcement = r.announcement
  BY <1>2, <1>4 DEF Request
<1>6. /\ fan'[p] = new
      /\ \A q \in Processes \ {p} : fan'[q] = fan[q]
  BY <1>3, StatusOf DEF Continue
<1>7. /\ UNCHANGED inbox
      /\ u \in Targeted \ {Publisher} => OnTheWay(p)' = {u}
      /\ u \notin Targeted \ {Publisher} => OnTheWay(p)' = {}
      /\ \A q \in Processes \ {p} : deliveries'[q] = deliveries[q]
  <2>1. CASE u \in Targeted \ {Publisher}
    <3>1. PICK d : d = [Idle EXCEPT !.pc = "duplicate", !.user = u, !.key = r.announcement,
                                    !.muted = Muted(preferences[u], r.announcement)]
      OBVIOUS
    <3>2. Become(p, d) /\ UNCHANGED inbox /\ d.pc = "duplicate" /\ d.user = u
      BY <1>3, <2>1, <3>1 DEF Deliver, Idle
    <3>3. deliveries'[p] = d /\ \A q \in Processes \ {p} : deliveries'[q] = deliveries[q]
      BY <3>2 DEF Become, IInv, DeliveryInv, DeliveryTypeOK
    <3>. QED BY <2>1, <3>2, <3>3 DEF OnTheWay, BeforeItsRow
  <2>2. CASE u \notin Targeted \ {Publisher}
    BY <1>3, <2>2, NobodyOnTheWay DEF deliveryVars, OnTheWay
  <2>. QED BY <2>1, <2>2
<1>8. OnTheWay(p) = {}
  BY <1>3, NobodyOnTheWay
<1>9. Fans(p, a)' <=> Fans(p, a)
  BY <1>0, <1>5, <1>6 DEF Fans
<1>10. Same(a) /\ Missed(a)' = Missed(a) /\ Told(a)' = Told(a)
  BY <1>3, <1>7, CountedAreUsers, SameCounts DEF Same
<1>11. ASSUME Fans(p, a) PROVE Covers(p, a)'
  <2>1. Covers(p, a)
    BY <1>11 DEF Accounted
  <2>. DEFINE rest == IF r.last THEN {} ELSE Beyond(r.skip + PageSize)
  <2>2. Listed(r) = ToSet(r.members) \cup rest
    BY <1>3 DEF Listed
  <2>3. Listed(fan[p])' = ToSet(Tail(r.members)) \cup rest
    BY <1>3, <1>5, <1>6 DEF Listed, Beyond
  <2>. HIDE DEF rest
  <2>4. ToSet(r.members) \subseteq {u} \cup ToSet(Tail(r.members))
    BY <1>0, <1>1, <1>4, HeadOfPage
  <2>5. u \in Missed(a) => u \in Targeted \ {Publisher}
    BY DEF Missed
  <2>6. (Missed(a) \ ToCome(p))' \subseteq Missed(a) \ ToCome(p)
    BY <1>0, <1>7, <1>8, <1>10, <2>2, <2>3, <2>4, <2>5 DEF ToCome
  <2>7. (Told(a) \cup OnTheWay(p))' \subseteq Told(a) \cup OnTheWay(p) \cup {u}
    BY <1>7, <1>10
  <2>8. CASE u \in Targeted
    BY <1>0, <1>3, <1>4, <1>5, <1>6, <2>1, <2>6, <2>7, <2>8, CoversGrows
  <2>9. CASE u \notin Targeted
    <3>1. (Told(a) \cup OnTheWay(p))' \subseteq Told(a) \cup OnTheWay(p)
      BY <1>7, <1>10, <2>9
    <3>. QED BY <1>0, <1>3, <1>5, <1>6, <2>1, <2>6, <2>9, <3>1, CoversStays
  <2>. QED BY <2>8, <2>9
<1>. QED BY <1>3, <1>6, <1>7, <1>9, <1>10, <1>11, OneMoves

\* The fan-out is over: nobody is to come any more, and the count is written.
LEMMA CountAccounts ==
  ASSUME IInv, IInv', NEW p \in Processes, setDelivered(p), NEW a \in Announcements,
         Accounted(a)
  PROVE  Accounted(a)'
<1>0. PICK b : b = fan[p].announcement
  OBVIOUS
<1>1. PICK new : new = NextDue(fan[p].due)
  OBVIOUS
<1>2. /\ fan[p].pc = "count" /\ Continue(p, new) /\ deliveries[p].pc = "idle"
      /\ deliveredCount' = [deliveredCount EXCEPT ![b] = fan[p].delivered]
      /\ UNCHANGED <<deliveryVars, status, roster, stayed, shifts>>
  BY <1>0, <1>1, NotInACall DEF setDelivered, In
<1>3. new.pc \in {"idle", "claim"}
  BY <1>1, NextDueTyped, StatusOf, RequestFields
<1>4. /\ fan'[p] = new
      /\ \A q \in Processes \ {p} : fan'[q] = fan[q] /\ deliveries'[q] = deliveries[q]
  BY <1>2, ContinueGives
<1>5. ~Fans(p, a)' /\ (Fans(p, a) <=> a = b)
  BY <1>0, <1>2, <1>3, <1>4 DEF Fans, FanStages
<1>6. ASSUME a = b PROVE Settled(a)'
  <2>1. Covers(p, a)
    BY <1>5, <1>6 DEF Accounted
  <2>2. OnTheWay(p) = {} /\ ToCome(p) = {}
    BY <1>2, NobodyOnTheWay DEF ToCome, Listed
  <2>3. Cardinality(Missed(a)) <= shifts[a] /\ Cardinality(Told(a)) <= fan[p].delivered
    <3>1. Missed(a) \ ToCome(p) = Missed(a) /\ Told(a) \cup OnTheWay(p) = Told(a)
      BY <2>2
    <3>. QED BY <2>1, <3>1 DEF Covers
  <2>4. deliveredCount'[a] = fan[p].delivered /\ shifts'[a] = shifts[a]
    BY <1>2, <1>6, StatusOf
  <2>5. Missed(a)' = Missed(a) /\ Told(a)' = Told(a)
    BY <1>2 DEF Missed, Told, deliveryVars
  <2>. QED BY <2>3, <2>4, <2>5 DEF Settled
<1>7. a # b => Same(a)
  BY <1>2, StatusOf DEF Same, deliveryVars
<1>. QED BY <1>2, <1>4, <1>5, <1>6, <1>7, OneMoves

-----------------------------------------------------------------------------
(* The steps of deliver().                                                 *)

\* What a step of a call does to its row: it comes to it, or is past it already.
RowMoves(d, new) ==
  /\ \A u \in Users, k \in Keys :
       ~(u = d.user /\ k = d.key) => inbox'[<<u, k>>] = inbox[<<u, k>>]
  /\ new.pc # "idle" => new.user = d.user
  /\ \/ /\ d.pc \in BeforeItsRow /\ new.pc \in BeforeItsRow
        /\ inbox'[<<d.user, d.key>>] = inbox[<<d.user, d.key>>]
     \/ /\ d.pc \in BeforeItsRow \/ inbox[<<d.user, d.key>>] # NoRow
        /\ new.pc \notin BeforeItsRow /\ inbox'[<<d.user, d.key>>] # NoRow

LEMMA StepMovesRow ==
  ASSUME IInv, NEW p \in Processes, DeliveryStep(p)
  PROVE  /\ deliveries[p].pc # "idle" /\ UNCHANGED faults
         /\ \E new : Become(p, new) /\ RowMoves(deliveries[p], new)
<1>0. PICK d : d = deliveries[p]
  OBVIOUS
<1>1. /\ d \in Delivery /\ KnowsOK(d) /\ RowOf(p) = <<d.user, d.key>>
      /\ d.user \in Users /\ d.key \in Keys
      /\ inbox \in [Users \X Keys -> Outcomes \cup {NoRow}]
  BY <1>0, OneDelivery DEF IInv, DeliveryInv, DeliveriesKnow, DeliveryTypeOK, RowOf
<1>2. Idle.pc = "idle" /\ Idle.pc \notin BeforeItsRow
  BY DEF Idle, BeforeItsRow
<1>3. CASE DuplicateCheck(p)
  <2>1. PICK new : new = [d EXCEPT !.pc = "preferences"]
    OBVIOUS
  <2>2. /\ d.pc = "duplicate" /\ UNCHANGED <<inbox, faults>>
        /\ \/ inbox[<<d.user, d.key>>] # NoRow /\ Become(p, Idle)
           \/ Become(p, new)
    BY <1>0, <1>1, <1>3, <2>1 DEF DuplicateCheck, At, Goto, isDuplicate
  <2>3. new.pc = "preferences" /\ new.user = d.user
    BY <1>1, <2>1 DEF Delivery
  <2>. QED BY <1>0, <1>2, <2>2, <2>3 DEF RowMoves, BeforeItsRow
<1>4. CASE ReadPreferences(p)
  <2>1. PICK new : new = [d EXCEPT !.pc = "record",
                                   !.suppression = suppressionFor(preferences[d.user], d.key)]
    OBVIOUS
  <2>2. d.pc = "preferences" /\ Become(p, new) /\ UNCHANGED <<inbox, faults>>
    BY <1>0, <1>4, <2>1 DEF ReadPreferences, At
  <2>3. new.pc = "record" /\ new.user = d.user
    BY <1>1, <2>1 DEF Delivery
  <2>. QED BY <1>0, <2>2, <2>3 DEF RowMoves, BeforeItsRow
<1>5. CASE Record(p) \/ LoseRecord(p)
  <2>1. PICK new : new = [d EXCEPT !.pc = "devices"]
    OBVIOUS
  <2>2. new.pc = "devices" /\ new.user = d.user
    BY <1>1, <2>1 DEF Delivery
  <2>3. /\ d.pc = "record" /\ UNCHANGED faults
        /\ Become(p, new) \/ Become(p, Idle)
    BY <1>0, <1>5, <2>1 DEF Record, LoseRecord, AfterRecord, Goto, At
  <2>4. /\ inbox'[<<d.user, d.key>>] # NoRow
        /\ \A u \in Users, k \in Keys :
             ~(u = d.user /\ k = d.key) => inbox'[<<u, k>>] = inbox[<<u, k>>]
    <3>1. CASE LoseRecord(p)
      BY <1>1, <3>1 DEF LoseRecord
    <3>2. CASE Record(p)
      <4>1. PICK s : s = IF d.suppression = NoRow THEN "delivered" ELSE d.suppression
        OBVIOUS
      <4>2. s # NoRow
        BY <4>1 DEF NoRow
      <4>3. inbox' = [inbox EXCEPT ![<<d.user, d.key>>] = s]
        BY <1>0, <1>1, <3>2, <4>1 DEF Record
      <4>. QED BY <1>1, <4>2, <4>3
    <3>. QED BY <1>5, <3>1, <3>2
  <2>. QED BY <1>0, <1>2, <2>2, <2>3, <2>4 DEF RowMoves, BeforeItsRow
<1>6. ASSUME d.pc \in FanningOut, UNCHANGED <<inbox, faults>>,
             NEW new, Become(p, new), new.pc \notin BeforeItsRow, new.user = d.user
      PROVE  /\ deliveries[p].pc # "idle" /\ UNCHANGED faults
             /\ \E e : Become(p, e) /\ RowMoves(deliveries[p], e)
  <2>1. inbox[<<d.user, d.key>>] # NoRow
    BY <1>1, <1>6 DEF KnowsOK
  <2>. QED BY <1>0, <1>6, <2>1 DEF RowMoves, FanningOut
<1>7. ASSUME NEW e \in Delivery
      PROVE  NextAttempt(e).pc \notin BeforeItsRow /\ NextAttempt(e).user = e.user
  BY DEF NextAttempt, Delivery, BeforeItsRow
<1>8. CASE ReadDevices(p)
  <2>1. PICK none : none = [d EXCEPT !.pc = "update", !.outcome = "no_devices"]
    OBVIOUS
  <2>2. PICK some : some = [d EXCEPT !.pc = "send", !.left = phones[d.user]]
    OBVIOUS
  <2>3. /\ d.pc = "devices" /\ UNCHANGED <<inbox, faults>>
        /\ Become(p, none) \/ Become(p, some)
    BY <1>0, <1>8, <2>1, <2>2 DEF ReadDevices, At
  <2>4. /\ none.pc = "update" /\ some.pc = "send"
        /\ none.user = d.user /\ some.user = d.user
    BY <1>1, <2>1, <2>2 DEF Delivery
  <2>. QED BY <1>6, <2>3, <2>4 DEF FanningOut, BeforeItsRow
<1>9. CASE Send(p)
  <2>1. PICK phone \in d.left : Send(p)!(phone)
    BY <1>0, <1>9 DEF Send
  <2>2. PICK rest : rest = [d EXCEPT !.left = @ \ {phone}]
    OBVIOUS
  <2>3. PICK done : done = [rest EXCEPT !.ok = TRUE]
    OBVIOUS
  <2>4. PICK bad : bad = [rest EXCEPT !.pc = "disable", !.gone = {phone}]
    OBVIOUS
  <2>5. /\ d.pc = "send" /\ UNCHANGED <<inbox, faults>>
        /\ Become(p, NextAttempt(done)) \/ Become(p, NextAttempt(rest)) \/ Become(p, bad)
    BY <1>0, <2>1, <2>2, <2>3, <2>4, Zenon DEF At
  <2>6. rest \in Delivery /\ rest.user = d.user
    BY <1>1, <2>2 DEF Delivery
  <2>7. /\ done \in Delivery /\ bad.pc = "disable"
        /\ done.user = d.user /\ bad.user = d.user
    BY <2>3, <2>4, <2>6 DEF Delivery
  <2>. QED BY <1>6, <1>7, <2>5, <2>6, <2>7 DEF FanningOut, BeforeItsRow
<1>10. CASE Disable(p)
  <2>1. PICK new : new = [d EXCEPT !.gone = {}]
    OBVIOUS
  <2>2. d.pc = "disable" /\ Become(p, NextAttempt(new)) /\ UNCHANGED <<inbox, faults>>
    BY <1>0, <1>10, <2>1, Zenon DEF Disable, At
  <2>3. new \in Delivery /\ new.user = d.user
    BY <1>1, <2>1 DEF Delivery
  <2>. QED BY <1>6, <1>7, <2>2, <2>3 DEF FanningOut
<1>11. CASE UpdateOutcome(p)
  <2>1. /\ d.pc = "update" /\ Become(p, Idle) /\ UNCHANGED faults
        /\ inbox' = [inbox EXCEPT ![<<d.user, d.key>>] = d.outcome]
    BY <1>0, <1>1, <1>11 DEF UpdateOutcome, At
  <2>2. d.outcome # NoRow /\ inbox[<<d.user, d.key>>] # NoRow
    BY <1>1, <2>1 DEF KnowsOK, FanningOut, NoRow
  <2>3. /\ inbox'[<<d.user, d.key>>] # NoRow
        /\ \A u \in Users, k \in Keys :
             ~(u = d.user /\ k = d.key) => inbox'[<<u, k>>] = inbox[<<u, k>>]
    BY <1>1, <2>1, <2>2
  <2>. QED BY <1>0, <1>2, <2>1, <2>2, <2>3 DEF RowMoves
<1>. QED BY <1>3, <1>4, <1>5, <1>8, <1>9, <1>10, <1>11 DEF DeliveryStep

LEMMA DeliveryAccounts ==
  ASSUME IInv, IInv', NEW p \in Processes, DeliveryStep(p), UNCHANGED announcementVars,
         NEW a \in Announcements, Accounted(a)
  PROVE  Accounted(a)'
<1>0. PICK d : d = deliveries[p]
  OBVIOUS
<1>1. PICK new : Become(p, new) /\ RowMoves(d, new)
  BY <1>0, StepMovesRow
<1>2. /\ d.key = fan[p].announcement /\ fan[p].pc = "members"
      /\ d.user \in Users /\ d.key \in Keys /\ a \in Keys
  BY <1>0, StepMovesRow, OneDeliveryEach, OneDelivery, AnnouncementsAssumption
     DEF IInv, DeliveryInv
<1>3. /\ deliveries'[p] = new
      /\ \A q \in Processes \ {p} : fan'[q] = fan[q] /\ deliveries'[q] = deliveries[q]
  BY <1>1 DEF Become, announcementVars, IInv, DeliveryInv, DeliveryTypeOK
<1>4. UNCHANGED <<status, deliveredCount, roster, fan, stayed, shifts>>
  BY DEF announcementVars
<1>5. (Fans(p, a)' <=> Fans(p, a)) /\ (Fans(p, a) <=> a = d.key)
  BY <1>2, <1>4 DEF Fans, FanStages
<1>6. a # d.key => Same(a)
  BY <1>1, <1>2, <1>4 DEF Same, RowMoves
<1>7. ASSUME a = d.key PROVE Covers(p, a)'
  <2>1. Covers(p, a)
    BY <1>5, <1>7 DEF Accounted
  <2>2. Listed(fan[p])' = Listed(fan[p])
    BY <1>4 DEF Listed, Beyond
  <2>3. OnTheWay(p) = (IF d.pc \in BeforeItsRow THEN {d.user} ELSE {})
    BY <1>0 DEF OnTheWay
  <2>4. OnTheWay(p)' = (IF new.pc \in BeforeItsRow THEN {new.user} ELSE {})
    BY <1>3 DEF OnTheWay
  <2>5. \A u \in Users : u # d.user => inbox'[<<u, a>>] = inbox[<<u, a>>]
    BY <1>1, <1>2 DEF RowMoves
  <2>6. inbox[<<d.user, a>>] # NoRow => inbox'[<<d.user, a>>] # NoRow
    BY <1>1, <1>7 DEF RowMoves
  <2>7. Missed(a)' \subseteq Missed(a) /\ Missed(a) \subseteq Users
    <3>1. stayed[a] \subseteq Users
      BY CountedAreUsers
    <3>. QED BY <1>4, <2>5, <2>6, <3>1 DEF Missed
  <2>8. d.user \in OnTheWay(p) => d.user \in OnTheWay(p)' \/ d.user \notin Missed(a)'
    BY <1>1, <1>7, <2>3, <2>4 DEF RowMoves, BeforeItsRow, Missed
  <2>9. (Missed(a) \ ToCome(p))' \subseteq Missed(a) \ ToCome(p)
    BY <2>2, <2>3, <2>7, <2>8 DEF ToCome
  <2>10. OnTheWay(p)' \subseteq OnTheWay(p)
    BY <1>1, <2>3, <2>4 DEF RowMoves, BeforeItsRow
  <2>11. Told(a)' \subseteq Told(a) \cup {d.user}
    BY <2>5 DEF Told
  <2>12. d.user \in Told(a)' => d.user \in Told(a) \cup OnTheWay(p)
    BY <1>1, <1>2, <1>7, <2>3 DEF Told, RowMoves
  <2>13. (Told(a) \cup OnTheWay(p))' \subseteq Told(a) \cup OnTheWay(p)
    BY <2>10, <2>11, <2>12
  <2>. QED BY <1>4, <2>1, <2>9, <2>13, CoversStays
<1>. QED BY <1>3, <1>4, <1>5, <1>6, <1>7, OneMoves

-----------------------------------------------------------------------------
(* The roster, the clock and the settings.                                 *)

\* Who leaves or joins takes at most one from what is to come, and none if not there.
LEMMA RowsShift ==
  ASSUME IInv, NEW u \in Users, Leave(u) \/ Join(u), NEW n \in Nat
  PROVE  /\ \E x : Beyond(n) \subseteq Beyond(n)' \cup {x}
         /\ u \notin ToSet(roster) => Beyond(n) \subseteq Beyond(n)'
         /\ ToSet(roster) \subseteq ToSet(roster') \cup {u}
         /\ Join(u) => u \in ToSet(roster')
<1>1. roster \in Seq(Users)
  BY StatusOf
<1>2. ASSUME NEW rest \in Without(u)
      PROVE  /\ rest \in Seq(Users) /\ u \in ToSet(roster)
             /\ \E x : Beyond(n) \subseteq After(rest, n) \cup {x}
             /\ ToSet(roster) \subseteq ToSet(rest) \cup {u}
  <2>1. PICK i \in DOMAIN roster : roster[i] = u /\ rest = RemoveAt(roster, i)
    BY <1>2 DEF Without
  <2>2. /\ rest \in Seq(Users) /\ \E x : After(roster, n) \subseteq After(rest, n) \cup {x}
        /\ ToSet(roster) \subseteq ToSet(rest) \cup {u}
    BY <1>1, <2>1, RemoveAfter
  <2>3. u \in ToSet(roster)
    BY <2>1 DEF ToSet
  <2>. QED BY <2>2, <2>3 DEF Beyond
<1>3. CASE Leave(u)
  <2>1. roster' \in Without(u) /\ ~Join(u)
    BY <1>3, <1>2 DEF Leave, Join
  <2>. QED BY <1>2, <2>1 DEF Beyond
<1>4. CASE Join(u)
  <2>1. PICK rest \in IF u \in ToSet(roster) THEN Without(u) ELSE {roster} :
          \E i \in 1..(Len(rest) + 1) : roster' = InsertAt(rest, i, u)
    BY <1>4 DEF Join
  <2>2. rest \in Seq(Users)
    BY <1>1, <1>2, <2>1
  <2>3. After(rest, n) \subseteq Beyond(n)' /\ ToSet(rest) \cup {u} \subseteq ToSet(roster')
    BY <2>1, <2>2, InsertAfter DEF Beyond
  <2>4. CASE u \in ToSet(roster)
    BY <1>2, <2>1, <2>3, <2>4
  <2>5. CASE u \notin ToSet(roster)
    BY <2>1, <2>3, <2>5 DEF Beyond
  <2>. QED BY <2>4, <2>5
<1>. QED BY <1>3, <1>4

\* A row that leaves its place may take one from what is to come: the member after the
\* cursor, whom it moves into the page that is done, or the one whose row it is.
LEMMA RosterAccounts ==
  ASSUME IInv, IInv', NEW u \in Users, Leave(u) \/ Join(u),
         NEW a \in Announcements, Accounted(a)
  PROVE  Accounted(a)'
<1>1. /\ stayed'[a] \subseteq stayed[a]
      /\ shifts'[a] = IF u \in ToSet(roster) /\ FannedOut(a) THEN shifts[a] + 1 ELSE shifts[a]
      /\ UNCHANGED <<deliveryVars, status, deliveredCount, fan>>
  <2>1. CASE Leave(u)
    <3>1. u \in ToSet(roster)
      BY <2>1 DEF Leave, Without, ToSet
    <3>. QED BY <2>1, <3>1, StatusOf DEF Leave, Shift
  <2>2. CASE Join(u)
    BY <2>2 DEF Join, Shift
  <2>. QED BY <2>1, <2>2
<1>2. shifts[a] \in Nat /\ Missed(a) \subseteq Users
  BY CountedAreUsers
<1>3. Told(a)' = Told(a) /\ Missed(a)' \subseteq Missed(a)
  BY <1>1 DEF Told, Missed, deliveryVars
<1>4. ASSUME NEW q \in Processes, Fans(q, a)' PROVE Covers(q, a)'
  <2>0. PICK r : r = fan[q]
    OBVIOUS
  <2>1. Fans(q, a) /\ Covers(q, a) /\ fan'[q] = r /\ OnTheWay(q)' = OnTheWay(q)
    BY <1>1, <1>4, <2>0 DEF Fans, Accounted, OnTheWay, deliveryVars
  <2>2. r.skip \in Nat /\ r.skip + PageSize \in Nat
    BY <2>0, StatusOf, RequestFields
  <2>3. Cardinality((Told(a) \cup OnTheWay(q))') <= fan'[q].delivered
    BY <1>3, <2>0, <2>1 DEF Covers
  <2>4. /\ \E x : Listed(r) \subseteq Listed(fan[q])' \cup {x}
        /\ u \notin ToSet(roster) \/ ~FannedOut(a) => Listed(r) \subseteq Listed(fan[q])'
    <3>1. CASE r.pc \in {"page", "members"}
      <4>1. PICK n \in Nat : n = IF r.pc = "page" THEN r.skip ELSE r.skip + PageSize
        BY <2>2
      <4>2. FannedOut(a)
        BY <2>0, <2>1, <3>1 DEF FannedOut, Fans
      <4>3. /\ \E x : Beyond(n) \subseteq Beyond(n)' \cup {x}
            /\ u \notin ToSet(roster) => Beyond(n) \subseteq Beyond(n)'
        BY RowsShift
      <4>4. CASE r.pc = "page"
        <5>1. Listed(r) = Beyond(n) /\ Listed(fan[q])' = Beyond(n)'
          BY <2>1, <4>1, <4>4 DEF Listed, Beyond
        <5>. QED BY <4>2, <4>3, <5>1
      <4>5. CASE r.pc = "members"
        <5>1. /\ Listed(r) = ToSet(r.members) \cup IF r.last THEN {} ELSE Beyond(n)
              /\ Listed(fan[q])' = ToSet(r.members) \cup IF r.last THEN {} ELSE Beyond(n)'
          BY <2>1, <4>1, <4>5 DEF Listed, Beyond
        <5>. QED BY <4>2, <4>3, <5>1
      <4>. QED BY <3>1, <4>4, <4>5
    <3>2. CASE r.pc \notin {"page", "members"}
      BY <2>1, <3>2 DEF Listed
    <3>. QED BY <3>1, <3>2
  <2>5. Missed(a) \ ToCome(q) \in SUBSET Users /\ Cardinality(Missed(a) \ ToCome(q)) <= shifts[a]
    BY <1>2, <2>1 DEF Covers
  <2>6. CASE u \in ToSet(roster) /\ FannedOut(a)
    <3>1. PICK x : Listed(r) \subseteq Listed(fan[q])' \cup {x}
      BY <2>4
    <3>2. (Missed(a) \ ToCome(q))' \subseteq (Missed(a) \ ToCome(q)) \cup {x}
      BY <1>3, <2>0, <2>1, <3>1 DEF ToCome
    <3>3. /\ Cardinality(Missed(a) \ ToCome(q)) \in Nat
          /\ Cardinality((Missed(a) \ ToCome(q))') \in Nat
          /\ Cardinality((Missed(a) \ ToCome(q))') <= Cardinality(Missed(a) \ ToCome(q)) + 1
      BY <2>5, <3>2, OneMore
    <3>4. Cardinality((Missed(a) \ ToCome(q))') <= shifts'[a]
      BY <1>1, <1>2, <2>5, <2>6, <3>3
    <3>. QED BY <2>3, <3>4 DEF Covers
  <2>7. CASE ~(u \in ToSet(roster) /\ FannedOut(a))
    <3>1. (Missed(a) \ ToCome(q))' \subseteq Missed(a) \ ToCome(q)
      BY <1>3, <2>0, <2>1, <2>4, <2>7 DEF ToCome
    <3>2. /\ Cardinality(Missed(a) \ ToCome(q)) \in Nat
          /\ Cardinality((Missed(a) \ ToCome(q))') \in Nat
          /\ Cardinality((Missed(a) \ ToCome(q))') <= Cardinality(Missed(a) \ ToCome(q))
      BY <2>5, <3>1, NoMore
    <3>3. Cardinality((Missed(a) \ ToCome(q))') <= shifts'[a]
      BY <1>1, <1>2, <2>5, <2>7, <3>2
    <3>. QED BY <2>3, <3>3 DEF Covers
  <2>. QED BY <2>6, <2>7
<1>5. ASSUME status'[a] = "published", \A q \in Processes : ~Fans(q, a)' PROVE Settled(a)'
  <2>1. Settled(a)
    BY <1>1, <1>5 DEF Accounted, Fans
  <2>2. /\ Cardinality(Missed(a)) \in Nat /\ Cardinality(Missed(a)') \in Nat
        /\ Cardinality(Missed(a)') <= Cardinality(Missed(a))
    BY <1>2, <1>3, NoMore
  <2>3. Cardinality(Missed(a)') <= shifts'[a]
    BY <1>1, <1>2, <2>1, <2>2 DEF Settled
  <2>. QED BY <1>1, <1>3, <2>1, <2>3 DEF Settled
<1>. QED BY <1>4, <1>5 DEF Accounted

LEMMA ClockAccounts ==
  ASSUME IInv, NEW a \in Announcements, Accounted(a),
         (\E b \in Announcements : TimePasses(b)) \/ UNCHANGED vars
  PROVE  Accounted(a)'
<1>1. UNCHANGED <<deliveryVars, status, deliveredCount, roster, fan, stayed, shifts>>
  BY DEF TimePasses, vars, announcementVars
<1>. QED BY <1>1, AsideAccounts DEF Same, deliveryVars

\* Settings and phones leave the calls of deliver() where they are.
LEMMA SettingsLeaveCalls ==
  ASSUME IInv, NEW u \in Users, ChangeSettings(u), NEW p \in Processes
  PROVE  /\ UNCHANGED <<inbox, faults>>
         /\ deliveries'[p].pc = deliveries[p].pc /\ deliveries'[p].user = deliveries[p].user
<1>1. ASSUME NEW preference \in Preference, SetPreferences(u, preference)
      PROVE  deliveries'[p].pc = deliveries[p].pc /\ deliveries'[p].user = deliveries[p].user
  <2>1. deliveries[p] \in Delivery
    BY OneDelivery DEF IInv, DeliveryInv
  <2>2. PICK silenced : silenced = [deliveries[p] EXCEPT !.muted = FALSE]
    OBVIOUS
  <2>3. silenced.pc = deliveries[p].pc /\ silenced.user = deliveries[p].user
    BY <2>1, <2>2 DEF Delivery
  <2>4. deliveries'[p] = silenced \/ deliveries'[p] = deliveries[p]
    BY <1>1, <2>2 DEF SetPreferences
  <2>. QED BY <2>3, <2>4
<1>. QED BY <1>1 DEF ChangeSettings, SetPreferences, Register, Unregister

LEMMA SettingsAccount ==
  ASSUME IInv, NEW u \in Users, ChangeSettings(u), NEW a \in Announcements, Accounted(a)
  PROVE  Accounted(a)'
<1>1. UNCHANGED <<inbox, status, deliveredCount, roster, fan, stayed, shifts>>
  BY DEF ChangeSettings, SetPreferences, Register, Unregister
<1>. QED BY <1>1, SettingsLeaveCalls, AsideAccounts DEF Same

-----------------------------------------------------------------------------
(* Every step.                                                             *)

\* What a process does outside the faults.
LEMMA ProcessAccounts ==
  ASSUME IInv, IInv', NEW p \in Processes, RequestStep(p) \/ Sweep(p), faults' = faults,
         NEW a \in Announcements, Accounted(a)
  PROVE  Accounted(a)'
<1>1. CASE InDelivery(p)
  <2>1. ~DeliverThrows(p)
    BY DEF DeliverThrows, IInv, DeliveryInv, DeliveryTypeOK
  <2>. QED BY <1>1, <2>1, DeliveryAccounts DEF InDelivery
<1>2. CASE TellMember(p)
  BY <1>2, PageEndAccounts, TellOneAccounts
<1>. QED BY <1>1, <1>2, ApproveAccounts, AsidesAccount, ClaimAccounts, PageAccounts, CountAccounts
         DEF RequestStep

\* A fault is counted, and nothing else changes the count.
LEMMA FaultsAreCounted ==
  ASSUME IInv, [Next]_vars
  PROVE  /\ faults' = faults \/ faults' = faults + 1
         /\ \A p \in Processes : Die(p) => faults' # faults
<1>1. faults \in Nat
  BY DEF IInv, DeliveryInv, DeliveryTypeOK
<1>2. ASSUME UNCHANGED vars PROVE faults' = faults
  BY <1>2 DEF vars, deliveryVars
<1>3. ASSUME NEW p \in Processes, RequestStep(p)
      PROVE  faults' = faults \/ faults' = faults + 1
  <2>1. CASE InDelivery(p)
    BY <2>1, StepMovesRow DEF InDelivery, DeliverThrows
  <2>2. CASE ~InDelivery(p)
    BY <1>3, <2>2 DEF RequestStep, Approve, Reject, markPublished, Page, TellMember,
                      setDelivered, Deliver, deliveryVars
  <2>. QED BY <2>1, <2>2
<1>4. ASSUME NEW p \in Processes, Sweep(p) \/ Die(p)
      PROVE  faults' = faults \/ faults' = faults + 1
  BY <1>4 DEF Sweep, Die, deliveryVars
<1>5. ASSUME NEW p \in Processes, NEW a \in Announcements,
             \/ \E verified, actorIsStaff, scheduledFor \in BOOLEAN :
                  publishAnnouncement(p, a, verified, actorIsStaff, scheduledFor)
             \/ \E approve \in BOOLEAN : ReadPending(p, a, approve)
      PROVE  faults' = faults
  BY <1>5 DEF publishAnnouncement, ReadPending, deliveryVars
<1>6. ASSUME NEW u \in Users, Leave(u) \/ Join(u) \/ ChangeSettings(u)
      PROVE  faults' = faults
  BY <1>6 DEF Leave, Join, ChangeSettings, SetPreferences, Register, Unregister, deliveryVars
<1>7. ASSUME NEW a \in Announcements, TimePasses(a) PROVE faults' = faults
  BY <1>7 DEF TimePasses, deliveryVars
<1>8. faults' = faults \/ faults' = faults + 1
  BY <1>2, <1>3, <1>4, <1>5, <1>6, <1>7 DEF Next
<1>9. ASSUME NEW p \in Processes, Die(p) PROVE faults' # faults
  BY <1>1, <1>9 DEF Die
<1>. QED BY <1>8, <1>9

LEMMA NextAccounts ==
  ASSUME IInv, IInv', [Next]_vars, faults' = faults, NEW a \in Announcements, Accounted(a),
         stayed[a] \subseteq ToSet(roster)
  PROVE  Accounted(a)'
<1>1. CASE UNCHANGED vars
  BY <1>1, ClockAccounts
<1>2. ASSUME NEW p \in Processes, RequestStep(p) \/ Sweep(p) PROVE Accounted(a)'
  BY <1>2, ProcessAccounts
<1>3. \A p \in Processes : ~Die(p)
  BY FaultsAreCounted
<1>4. ASSUME NEW p \in Processes, NEW b \in Announcements, NEW approve \in BOOLEAN,
             ReadPending(p, b, approve)
      PROVE  Accounted(a)'
  BY <1>4, AsidesAccount
<1>5. ASSUME NEW p \in Processes, NEW b \in Announcements,
             NEW verified \in BOOLEAN, NEW actorIsStaff \in BOOLEAN, NEW scheduledFor \in BOOLEAN,
             publishAnnouncement(p, b, verified, actorIsStaff, scheduledFor)
      PROVE  Accounted(a)'
  BY <1>5, PublishAccounts
<1>6. ASSUME NEW b \in Announcements, TimePasses(b) PROVE Accounted(a)'
  BY <1>6, ClockAccounts
<1>7. ASSUME NEW u \in Users, Leave(u) \/ Join(u) PROVE Accounted(a)'
  BY <1>7, RosterAccounts
<1>8. ASSUME NEW u \in Restless, ChangeSettings(u) PROVE Accounted(a)'
  BY <1>8, SettingsAccount
<1>. QED BY <1>1, <1>2, <1>3, <1>4, <1>5, <1>6, <1>7, <1>8 DEF Next

\* Who stayed is on the roster.
LEMMA StayedStays ==
  ASSUME IInv, [Next]_vars, NEW a \in Announcements, stayed[a] \subseteq ToSet(roster)
  PROVE  stayed'[a] \subseteq ToSet(roster')
<1>0. roster \in Seq(Users) /\ stayed \in [Announcements -> SUBSET Users]
  BY StatusOf
<1>1. ASSUME UNCHANGED roster,
             UNCHANGED stayed \/ \E b : stayed' = [stayed EXCEPT ![b] = ToSet(roster)]
      PROVE  stayed'[a] \subseteq ToSet(roster')
  BY <1>0, <1>1
<1>2. CASE UNCHANGED vars
  BY <1>1, <1>2 DEF vars, announcementVars
<1>3. ASSUME NEW p \in Processes, RequestStep(p) \/ Sweep(p) \/ Die(p)
      PROVE  stayed'[a] \subseteq ToSet(roster')
  <2>1. CASE InDelivery(p)
    BY <1>1, <2>1 DEF InDelivery, announcementVars
  <2>2. CASE Reject(p) \/ Page(p) \/ TellMember(p) \/ setDelivered(p) \/ Sweep(p) \/ Die(p)
    BY <1>1, <2>2 DEF Reject, Page, TellMember, setDelivered, Sweep, Die
  <2>3. CASE Approve(p)
    BY <1>1, <2>3 DEF Approve, BeginFanOut
  <2>4. CASE markPublished(p)
    BY <1>1, <2>4 DEF markPublished, BeginFanOut
  <2>. QED BY <1>3, <2>1, <2>2, <2>3, <2>4 DEF RequestStep
<1>4. ASSUME NEW p \in Processes, NEW b \in Announcements,
             \/ \E verified, actorIsStaff, scheduledFor \in BOOLEAN :
                  publishAnnouncement(p, b, verified, actorIsStaff, scheduledFor)
             \/ \E approve \in BOOLEAN : ReadPending(p, b, approve)
      PROVE  stayed'[a] \subseteq ToSet(roster')
  BY <1>1, <1>4 DEF publishAnnouncement, ReadPending, BeginFanOut
<1>5. ASSUME NEW b \in Announcements, TimePasses(b) PROVE stayed'[a] \subseteq ToSet(roster')
  BY <1>1, <1>5 DEF TimePasses
<1>6. ASSUME NEW u \in Users, ChangeSettings(u) PROVE stayed'[a] \subseteq ToSet(roster')
  BY <1>1, <1>6 DEF ChangeSettings
<1>7. ASSUME NEW u \in Users, Leave(u) \/ Join(u) PROVE stayed'[a] \subseteq ToSet(roster')
  <2>1. ToSet(roster) \subseteq ToSet(roster') \cup {u} /\ (Join(u) => u \in ToSet(roster'))
    <3>1. 0 \in Nat
      OBVIOUS
    <3>. QED BY <1>7, <3>1, RowsShift
  <2>2. CASE Leave(u)
    BY <1>0, <2>1, <2>2 DEF Leave
  <2>3. CASE Join(u)
    BY <2>1, <2>3 DEF Join
  <2>. QED BY <1>7, <2>2, <2>3
<1>. QED BY <1>2, <1>3, <1>4, <1>5, <1>6, <1>7 DEF Next

LEMMA MissInvKept ==
  ASSUME IInv, IInv', MissInv, [Next]_vars
  PROVE  MissInv'
<1>1. ASSUME NEW a \in Announcements PROVE stayed'[a] \subseteq ToSet(roster')
  BY StayedStays DEF MissInv
<1>2. ASSUME faults' = 0, NEW a \in Announcements PROVE Accounted(a)'
  <2>1. faults \in Nat
    BY DEF IInv, DeliveryInv, DeliveryTypeOK
  <2>2. faults = 0 /\ faults' = faults
    BY <1>2, <2>1, FaultsAreCounted
  <2>. QED BY <2>2, NextAccounts DEF MissInv
<1>. QED BY <1>1, <1>2 DEF MissInv

LEMMA NobodyMissedYet == Init => MissInv
<1>. SUFFICES ASSUME Init, NEW a \in Announcements
              PROVE  stayed[a] \subseteq ToSet(roster) /\ Accounted(a)
  BY DEF MissInv
<1>1. stayed[a] = {} /\ status[a] # "published" /\ \A p \in Processes : ~Fans(p, a)
  BY DEF Init, NoRequest, Fans, FanStages
<1>. QED BY <1>1 DEF Accounted

LEMMA AccountsInvariant == Spec => []MissInv
<1>1. Init => MissInv
  BY NobodyMissedYet
<1>2. IInv /\ IInv' /\ MissInv /\ [Next]_vars => MissInv'
  BY MissInvKept
<1>. QED BY <1>1, <1>2, AnnouncementsInvariant, PTL DEF Spec

-----------------------------------------------------------------------------
(* What an announcement shows: the refinement of Broadcast.                *)

OnAir == {a \in Announcements : \E p \in Processes : Fans(p, a)}
ToldOf == {r \in Users \X Announcements : inbox[r] # NoRow}

\* A call of deliver() that a fan-out is in is for somebody of the audience.
AudienceOnly ==
  \A p \in Processes : deliveries[p].pc # "idle" => deliveries[p].user \in Targeted \ {Publisher}

LEMMA WhatIsShown ==
  /\ Promise!vars = <<status, OnAir, ToldOf>>
  /\ Promise!vars' = <<status', OnAir', ToldOf'>>
  BY DEF Promise!vars, OnAir, ToldOf, Fans, FanStages

LEMMA ShowsNothing ==
  ASSUME UNCHANGED <<status, OnAir, ToldOf>>
  PROVE  [Promise!Next]_(Promise!vars)
  BY WhatIsShown

LEMMA ShowsDraft ==
  ASSUME NEW a \in Announcements, status[a] = "absent",
         NEW s \in {"pending_approval", "scheduled"}, status' = [status EXCEPT ![a] = s],
         UNCHANGED <<OnAir, ToldOf>>
  PROVE  [Promise!Next]_(Promise!vars)
<1>1. Promise!Draft(a)
  BY DEF Promise!Draft, OnAir, ToldOf, Fans, FanStages
<1>. QED BY <1>1 DEF Promise!Next

LEMMA ShowsReview ==
  ASSUME NEW a \in Announcements, status[a] = "pending_approval",
         NEW s \in {"scheduled", "rejected"}, status' = [status EXCEPT ![a] = s],
         UNCHANGED <<OnAir, ToldOf>>
  PROVE  [Promise!Next]_(Promise!vars)
<1>1. Promise!Review(a)
  BY DEF Promise!Review, OnAir, ToldOf, Fans, FanStages
<1>. QED BY <1>1 DEF Promise!Next

LEMMA ShowsPublish ==
  ASSUME NEW a \in Announcements, status[a] \in {"absent", "pending_approval", "scheduled"},
         status' = [status EXCEPT ![a] = "published"],
         OnAir' = OnAir \cup {a}, UNCHANGED ToldOf
  PROVE  [Promise!Next]_(Promise!vars)
<1>1. Promise!Publish(a)
  BY DEF Promise!Publish, OnAir, ToldOf, Fans, FanStages
<1>. QED BY <1>1 DEF Promise!Next

LEMMA ShowsTell ==
  ASSUME NEW a \in OnAir, NEW u \in Targeted \ {Publisher}, <<u, a>> \notin ToldOf,
         ToldOf' = ToldOf \cup {<<u, a>>}, UNCHANGED <<status, OnAir>>
  PROVE  [Promise!Next]_(Promise!vars)
<1>1. Promise!Tell(u, a)
  BY DEF Promise!Tell, OnAir, ToldOf, Fans, FanStages
<1>2. a \in Announcements
  BY DEF OnAir
<1>. QED BY <1>1, <1>2 DEF Promise!Next

LEMMA ShowsClose ==
  ASSUME NEW a \in OnAir, OnAir' = OnAir \ {a}, UNCHANGED <<status, ToldOf>>
  PROVE  [Promise!Next]_(Promise!vars)
<1>1. Promise!Close(a)
  BY DEF Promise!Close, OnAir, ToldOf, Fans, FanStages
<1>2. a \in Announcements
  BY DEF OnAir
<1>. QED BY <1>1, <1>2 DEF Promise!Next

\* A request that goes on puts an announcement on the air, takes it off, or neither.
LEMMA OnAirMoves ==
  ASSUME IInv, IInv', NEW p \in Processes, NEW new, Continue(p, new)
  PROVE  /\ (fan[p].pc \notin FanStages /\ new.pc \notin FanStages) => OnAir' = OnAir
         /\ (fan[p].pc \in FanStages /\ new.pc \in FanStages
               /\ new.announcement = fan[p].announcement) => OnAir' = OnAir
         /\ (fan[p].pc \notin FanStages /\ new.pc \in FanStages) =>
              OnAir' = OnAir \cup {new.announcement}
         /\ (fan[p].pc \in FanStages /\ new.pc \notin FanStages) =>
              /\ fan[p].announcement \in OnAir
              /\ OnAir' = OnAir \ {fan[p].announcement}
<1>1. fan'[p] = new /\ \A q \in Processes \ {p} : fan'[q] = fan[q]
  BY StatusOf DEF Continue
<1>2. FansOK /\ FansOK' /\ FanOutIsSingle
  BY DEF IInv, AnnouncementInv
<1>3. ASSUME NEW a \in Announcements, NEW q \in Processes \ {p}
      PROVE  Fans(q, a)' <=> Fans(q, a)
  BY <1>1 DEF Fans
<1>4. ASSUME NEW a \in Announcements
      PROVE  /\ a \in OnAir <=> Fans(p, a) \/ \E q \in Processes \ {p} : Fans(q, a)
             /\ a \in OnAir' <=> Fans(p, a)' \/ \E q \in Processes \ {p} : Fans(q, a)
  BY <1>3 DEF OnAir
<1>5. \A a : Fans(p, a)' <=> (new.pc \in FanStages /\ new.announcement = a)
  BY <1>1 DEF Fans
<1>6. /\ new.pc \in FanStages => new.announcement \in Announcements
      /\ fan[p].pc \in FanStages => fan[p].announcement \in Announcements
  BY <1>1, <1>2 DEF FansOK, FanOK
<1>7. ASSUME fan[p].pc \in FanStages, NEW q \in Processes \ {p}
      PROVE  ~Fans(q, fan[p].announcement)
  BY <1>2, <1>7 DEF FanOutIsSingle, Fans
<1>8. OnAir \subseteq Announcements /\ OnAir' \subseteq Announcements
  BY DEF OnAir
<1>9. ASSUME (fan[p].pc \notin FanStages /\ new.pc \notin FanStages)
             \/ (fan[p].pc \in FanStages /\ new.pc \in FanStages
                   /\ new.announcement = fan[p].announcement)
      PROVE  OnAir' = OnAir
  <2>1. \A a \in Announcements : a \in OnAir' <=> a \in OnAir
    BY <1>4, <1>5, <1>9 DEF Fans
  <2>. QED BY <1>8, <2>1
<1>10. ASSUME fan[p].pc \notin FanStages, new.pc \in FanStages
       PROVE  OnAir' = OnAir \cup {new.announcement}
  <2>1. \A a \in Announcements : a \in OnAir' <=> a = new.announcement \/ a \in OnAir
    BY <1>4, <1>5, <1>10 DEF Fans
  <2>. QED BY <1>6, <1>8, <1>10, <2>1
<1>11. ASSUME fan[p].pc \in FanStages, new.pc \notin FanStages
       PROVE  /\ fan[p].announcement \in OnAir
              /\ OnAir' = OnAir \ {fan[p].announcement}
  <2>1. \A a \in Announcements : a \in OnAir' <=> a # fan[p].announcement /\ a \in OnAir
    BY <1>4, <1>5, <1>7, <1>11 DEF Fans
  <2>2. fan[p].announcement \in OnAir
    BY <1>6, <1>11 DEF OnAir, Fans
  <2>. QED BY <1>8, <2>1, <2>2
<1>. QED BY <1>9, <1>10, <1>11

\* Rows that nobody writes are told of nobody else.
LEMMA ToldStays ==
  ASSUME UNCHANGED inbox
  PROVE  UNCHANGED ToldOf
  BY DEF ToldOf

-----------------------------------------------------------------------------
(* The steps.                                                              *)

\* The step that publishes puts the announcement on the air.
LEMMA BeginShows ==
  ASSUME IInv, IInv', NEW p \in Processes, fan[p].pc \notin FanStages,
         NEW b \in Announcements, NEW due, BeginFanOut(p, b, due),
         status[b] \in {"absent", "pending_approval", "scheduled"},
         status' = [status EXCEPT ![b] = "published"], UNCHANGED deliveryVars
  PROVE  [Promise!Next]_(Promise!vars)
<1>1. PICK r : r = [NoRequest EXCEPT !.pc = "page", !.announcement = b, !.due = due]
  OBVIOUS
<1>2. r.pc \in FanStages /\ r.announcement = b /\ Continue(p, r)
  BY <1>1 DEF BeginFanOut, NoRequest, FanStages
<1>3. OnAir' = OnAir \cup {b}
  BY <1>2, OnAirMoves
<1>. QED BY <1>3, ToldStays, ShowsPublish DEF deliveryVars

LEMMA PublishShows ==
  ASSUME IInv, IInv', NEW p \in Processes, NEW b \in Announcements,
         NEW verified \in BOOLEAN, NEW actorIsStaff \in BOOLEAN, NEW scheduledFor \in BOOLEAN,
         publishAnnouncement(p, b, verified, actorIsStaff, scheduledFor)
  PROVE  [Promise!Next]_(Promise!vars)
<1>. DEFINE first == initialStatus(verified, actorIsStaff, scheduledFor)
<1>1. first \in {"pending_approval", "scheduled", "published"}
  BY DEF initialStatus
<1>2. /\ fan[p] = NoRequest /\ status[b] = "absent"
      /\ status' = [status EXCEPT ![b] = first]
      /\ first = "published" => BeginFanOut(p, b, {})
      /\ first # "published" => UNCHANGED fan
      /\ UNCHANGED deliveryVars
  BY DEF publishAnnouncement, Free
<1>. HIDE DEF first
<1>3. fan[p].pc \notin FanStages
  BY <1>2 DEF NoRequest, FanStages
<1>4. CASE first = "published"
  BY <1>2, <1>3, <1>4, BeginShows
<1>5. CASE first # "published"
  <2>1. OnAir' = OnAir
    BY <1>2, <1>5 DEF OnAir, Fans
  <2>. QED BY <1>1, <1>2, <1>5, <2>1, ToldStays, ShowsDraft DEF deliveryVars
<1>. QED BY <1>4, <1>5

LEMMA ReviewShows ==
  ASSUME IInv, IInv', NEW p \in Processes, Approve(p) \/ Reject(p)
  PROVE  [Promise!Next]_(Promise!vars)
<1>0. PICK b : b = fan[p].announcement
  OBVIOUS
<1>1. PICK next : next = IF fan[p].later THEN "scheduled" ELSE "published"
  OBVIOUS
<1>2. /\ fan[p].pc \in {"approve", "reject"} /\ b \in Announcements
      /\ fan[p].pc \notin FanStages /\ NoRequest.pc \notin FanStages
      /\ UNCHANGED inbox /\ UNCHANGED deliveryVars
  BY <1>0 DEF Approve, Reject, In, IInv, AnnouncementInv, FansOK, FanOK, FanStages, NoRequest,
              deliveryVars
<1>3. ASSUME Continue(p, NoRequest) PROVE OnAir' = OnAir
  BY <1>2, <1>3, OnAirMoves
<1>4. CASE Approve(p)
  <2>1. IF status[b] = "pending_approval"
        THEN /\ status' = [status EXCEPT ![b] = next]
             /\ IF next = "published" THEN BeginFanOut(p, b, {})
                                      ELSE Continue(p, NoRequest) /\ UNCHANGED stayed
        ELSE Continue(p, NoRequest) /\ UNCHANGED <<status, stayed>>
    BY <1>0, <1>1, <1>4, Zenon DEF Approve
  <2>2. CASE status[b] = "pending_approval" /\ next = "published"
    BY <1>2, <2>1, <2>2, BeginShows
  <2>3. CASE status[b] = "pending_approval" /\ next # "published"
    <3>1. next = "scheduled" /\ status' = [status EXCEPT ![b] = next] /\ OnAir' = OnAir
      BY <1>1, <1>3, <2>1, <2>3
    <3>. QED BY <1>2, <2>3, <3>1, ToldStays, ShowsReview
  <2>4. CASE status[b] # "pending_approval"
    BY <1>2, <1>3, <2>1, <2>4, ToldStays, ShowsNothing
  <2>. QED BY <2>2, <2>3, <2>4
<1>5. CASE Reject(p)
  <2>1. /\ status' = [status EXCEPT ![b] = IF @ = "pending_approval" THEN "rejected" ELSE @]
        /\ Continue(p, NoRequest)
    BY <1>0, <1>5, Zenon DEF Reject
  <2>2. CASE status[b] = "pending_approval"
    <3>1. status' = [status EXCEPT ![b] = "rejected"]
      BY <2>1, <2>2
    <3>. QED BY <1>2, <1>3, <2>1, <2>2, <3>1, ToldStays, ShowsReview
  <2>3. CASE status[b] # "pending_approval"
    <3>1. status' = status
      BY <2>1, <2>3, StatusOf
    <3>. QED BY <1>2, <1>3, <2>1, <3>1, ToldStays, ShowsNothing
  <2>. QED BY <2>2, <2>3
<1>. QED BY <1>4, <1>5

LEMMA ClaimShows ==
  ASSUME IInv, IInv', NEW p \in Processes, markPublished(p)
  PROVE  [Promise!Next]_(Promise!vars)
<1>0. PICK due : due = fan[p].due
  OBVIOUS
<1>1. PICK b \in due : markPublished(p)!(b)
  BY <1>0 DEF markPublished
<1>2. /\ fan[p].pc = "claim"
      /\ IF status[b] = "scheduled"
         THEN status' = [status EXCEPT ![b] = "published"] /\ BeginFanOut(p, b, due \ {b})
         ELSE Continue(p, NextDue(due \ {b})) /\ UNCHANGED <<status, stayed>>
      /\ UNCHANGED deliveryVars
  BY <1>0, <1>1 DEF In
<1>3. b \in Announcements /\ due \ {b} \in SUBSET Announcements /\ fan[p].pc \notin FanStages
  BY <1>0, <1>1, <1>2, StatusOf, RequestFields DEF FanStages
<1>4. CASE status[b] = "scheduled"
  BY <1>2, <1>3, <1>4, BeginShows
<1>5. CASE status[b] # "scheduled"
  <2>1. NextDue(due \ {b}).pc \notin FanStages
    BY <1>3, NextDueTyped DEF FanStages
  <2>2. OnAir' = OnAir
    BY <1>2, <1>3, <1>5, <2>1, OnAirMoves
  <2>. QED BY <1>2, <1>5, <2>2, ToldStays, ShowsNothing DEF deliveryVars
<1>. QED BY <1>4, <1>5

\* The pages do not show.
LEMMA TellingShows ==
  ASSUME IInv, IInv', NEW p \in Processes, Page(p) \/ TellMember(p)
  PROVE  [Promise!Next]_(Promise!vars)
<1>0. PICK r : r = fan[p]
  OBVIOUS
<1>1. r \in Request
  BY <1>0, StatusOf
<1>2. UNCHANGED <<inbox, status>>
  BY DEF Page, TellMember, Deliver, deliveryVars
<1>3. \E new : /\ Continue(p, new) /\ new.pc \in FanStages
               /\ new.announcement = r.announcement
  <2>1. CASE Page(p)
    <3>1. PICK page : page = PageOf(r.skip)
      OBVIOUS
    <3>2. PICK new : new = [r EXCEPT !.pc = IF page = <<>> THEN "count" ELSE "members",
                                     !.members = page, !.last = Len(page) < PageSize]
      OBVIOUS
    <3>3. new.pc \in {"count", "members"} /\ new.announcement = r.announcement
      BY <1>1, <3>2 DEF Request
    <3>4. Continue(p, new)
      BY <1>0, <2>1, <3>1, <3>2 DEF Page
    <3>. QED BY <3>3, <3>4 DEF FanStages
  <2>2. CASE TellMember(p) /\ r.members = <<>>
    <3>1. PICK count : count = [r EXCEPT !.pc = "count"]
      OBVIOUS
    <3>2. PICK more : more = [r EXCEPT !.pc = "page", !.skip = @ + PageSize]
      OBVIOUS
    <3>3. Continue(p, IF r.last THEN [r EXCEPT !.pc = "count"] ELSE NextPage(r))
      BY <1>0, <2>2, Zenon DEF TellMember
    <3>4. NextPage(r) = more
      BY <3>2, Zenon DEF NextPage
    <3>5. Continue(p, count) \/ Continue(p, more)
      BY <3>1, <3>3, <3>4
    <3>6. /\ count.pc = "count" /\ more.pc = "page"
          /\ count.announcement = r.announcement /\ more.announcement = r.announcement
      BY <1>1, <3>1, <3>2 DEF Request
    <3>. QED BY <3>5, <3>6 DEF FanStages
  <2>3. CASE TellMember(p) /\ r.members # <<>>
    <3>1. PICK u : u = Head(r.members)
      OBVIOUS
    <3>2. PICK new : new = [r EXCEPT !.members = Tail(@),
                                     !.delivered = IF u \in Targeted THEN @ + 1 ELSE @]
      OBVIOUS
    <3>3. Continue(p, new) /\ r.pc = "members"
      BY <1>0, <2>3, <3>1, <3>2 DEF TellMember, In
    <3>4. new.pc = r.pc /\ new.announcement = r.announcement
      BY <1>1, <3>2 DEF Request
    <3>. QED BY <3>3, <3>4 DEF FanStages
  <2>. QED BY <2>1, <2>2, <2>3
<1>4. fan[p].pc \in FanStages
  BY DEF Page, TellMember, In, FanStages
<1>5. OnAir' = OnAir
  BY <1>0, <1>3, <1>4, OnAirMoves
<1>. QED BY <1>2, <1>5, ToldStays, ShowsNothing

\* The count takes the announcement off the air, and so does a death.
LEMMA EndShows ==
  ASSUME IInv, IInv', NEW p \in Processes, setDelivered(p) \/ Die(p)
  PROVE  [Promise!Next]_(Promise!vars)
<1>1. UNCHANGED <<inbox, status>>
  BY DEF setDelivered, Die, deliveryVars
<1>2. \E new : Continue(p, new) /\ new.pc \notin FanStages
  <2>1. CASE setDelivered(p)
    <3>1. NextDue(fan[p].due).pc \in {"idle", "claim"}
      BY NextDueTyped, StatusOf, RequestFields
    <3>. QED BY <2>1, <3>1 DEF setDelivered, FanStages
  <2>2. CASE Die(p)
    BY <2>2 DEF Die, NoRequest, FanStages
  <2>. QED BY <2>1, <2>2
<1>3. CASE fan[p].pc \in FanStages
  <2>1. fan[p].announcement \in OnAir /\ OnAir' = OnAir \ {fan[p].announcement}
    BY <1>2, <1>3, OnAirMoves
  <2>. QED BY <1>1, <2>1, ToldStays, ShowsClose
<1>4. CASE fan[p].pc \notin FanStages
  <2>1. OnAir' = OnAir
    BY <1>2, <1>4, OnAirMoves
  <2>. QED BY <1>1, <2>1, ToldStays, ShowsNothing
<1>. QED BY <1>3, <1>4

\* The row of a member is when the member is told.
LEMMA DeliveryShows ==
  ASSUME IInv, IInv', AudienceOnly, NEW p \in Processes, InDelivery(p)
  PROVE  [Promise!Next]_(Promise!vars)
<1>1. UNCHANGED <<status, fan>>
  BY DEF InDelivery, announcementVars
<1>2. OnAir' = OnAir
  BY <1>1 DEF OnAir, Fans
<1>3. CASE DeliverThrows(p)
  BY <1>1, <1>2, <1>3, ToldStays, ShowsNothing DEF DeliverThrows
<1>4. CASE DeliveryStep(p)
  <2>0. PICK d : d = deliveries[p]
    OBVIOUS
  <2>1. PICK new : RowMoves(d, new)
    BY <1>4, <2>0, StepMovesRow
  <2>2. /\ d.pc # "idle" /\ d.user \in Users /\ d.key \in Announcements
        /\ d.key = fan[p].announcement /\ fan[p].pc = "members"
    BY <1>4, <2>0, StepMovesRow, OneDeliveryEach, OneDelivery DEF IInv, DeliveryInv
  <2>3. d.user \in Targeted \ {Publisher}
    BY <2>0, <2>2 DEF AudienceOnly
  <2>4. d.key \in OnAir
    BY <2>2 DEF OnAir, Fans, FanStages
  <2>5. \A u \in Users, a \in Announcements :
          <<u, a>> # <<d.user, d.key>> => inbox'[<<u, a>>] = inbox[<<u, a>>]
    BY <2>1, AnnouncementsAssumption DEF RowMoves
  <2>6. inbox[<<d.user, d.key>>] # NoRow => inbox'[<<d.user, d.key>>] # NoRow
    BY <2>1 DEF RowMoves
  <2>7. \A r \in Users \X Announcements :
          r # <<d.user, d.key>> => inbox'[r] = inbox[r]
    BY <2>5
  <2>8. <<d.user, d.key>> \in Users \X Announcements
    BY <2>2
  <2>9. CASE inbox[<<d.user, d.key>>] = NoRow /\ inbox'[<<d.user, d.key>>] # NoRow
    <3>1. <<d.user, d.key>> \notin ToldOf /\ ToldOf' = ToldOf \cup {<<d.user, d.key>>}
      BY <2>7, <2>8, <2>9 DEF ToldOf
    <3>. QED BY <1>1, <1>2, <2>3, <2>4, <3>1, ShowsTell
  <2>10. CASE ~(inbox[<<d.user, d.key>>] = NoRow /\ inbox'[<<d.user, d.key>>] # NoRow)
    <3>1. ToldOf' = ToldOf
      BY <2>6, <2>7, <2>8, <2>10 DEF ToldOf
    <3>. QED BY <1>1, <1>2, <3>1, ShowsNothing
  <2>. QED BY <2>9, <2>10
<1>. QED BY <1>3, <1>4 DEF InDelivery

LEMMA AsideShows ==
  ASSUME IInv, IInv',
         \/ UNCHANGED vars
         \/ \E p \in Processes : Sweep(p)
         \/ \E p \in Processes, a \in Announcements, approve \in BOOLEAN : ReadPending(p, a, approve)
         \/ \E a \in Announcements : TimePasses(a)
         \/ \E u \in Users : Leave(u) \/ Join(u) \/ ChangeSettings(u)
  PROVE  [Promise!Next]_(Promise!vars)
<1>1. UNCHANGED <<inbox, status>>
  BY DEF vars, announcementVars, deliveryVars, Sweep, ReadPending, TimePasses, Leave, Join,
         ChangeSettings, SetPreferences, Register, Unregister
<1>2. \/ UNCHANGED fan
      \/ \E p \in Processes : /\ fan[p] = NoRequest
                             /\ \E new : Continue(p, new) /\ new.pc \notin FanStages
  <2>1. ASSUME NEW p \in Processes, Sweep(p)
        PROVE  fan[p] = NoRequest /\ \E new : Continue(p, new) /\ new.pc \notin FanStages
    <3>1. NextDue(Due).pc \in {"idle", "claim"}
      BY NextDueTyped DEF Due
    <3>. QED BY <2>1, <3>1 DEF Sweep, Free, FanStages
  <2>2. ASSUME NEW p \in Processes, NEW b \in Announcements, NEW approve \in BOOLEAN,
               ReadPending(p, b, approve)
        PROVE  fan[p] = NoRequest /\ \E new : Continue(p, new) /\ new.pc \notin FanStages
    <3>1. PICK r : r = [NoRequest EXCEPT !.pc = IF approve THEN "approve" ELSE "reject",
                                         !.announcement = b, !.later = waits[b]]
      OBVIOUS
    <3>2. r.pc \notin FanStages
      BY <3>1 DEF NoRequest, FanStages
    <3>. QED BY <2>2, <3>1, <3>2 DEF ReadPending, Free
  <2>3. CASE UNCHANGED vars \/ (\E a \in Announcements : TimePasses(a))
             \/ \E u \in Users : Leave(u) \/ Join(u) \/ ChangeSettings(u)
    BY <2>3 DEF vars, announcementVars, TimePasses, Leave, Join, ChangeSettings
  <2>. QED BY <2>1, <2>2, <2>3
<1>3. NoRequest.pc \notin FanStages
  BY DEF NoRequest, FanStages
<1>4. OnAir' = OnAir
  <2>1. CASE UNCHANGED fan
    BY <2>1 DEF OnAir, Fans
  <2>2. ASSUME NEW p \in Processes, NEW new, Continue(p, new), fan[p] = NoRequest,
               new.pc \notin FanStages
        PROVE  OnAir' = OnAir
    BY <1>3, <2>2, OnAirMoves
  <2>. QED BY <1>2, <2>1, <2>2
<1>. QED BY <1>1, <1>4, ToldStays, ShowsNothing

LEMMA NextShows ==
  ASSUME IInv, IInv', AudienceOnly, [Next]_vars
  PROVE  [Promise!Next]_(Promise!vars)
<1>1. ASSUME NEW p \in Processes, RequestStep(p) PROVE [Promise!Next]_(Promise!vars)
  BY <1>1, ReviewShows, ClaimShows, TellingShows, EndShows, DeliveryShows DEF RequestStep
<1>2. ASSUME NEW p \in Processes, Sweep(p) \/ Die(p) PROVE [Promise!Next]_(Promise!vars)
  BY <1>2, AsideShows, EndShows
<1>3. ASSUME NEW p \in Processes, NEW a \in Announcements, NEW approve \in BOOLEAN,
             ReadPending(p, a, approve)
      PROVE  [Promise!Next]_(Promise!vars)
  BY <1>3, AsideShows
<1>4. ASSUME NEW p \in Processes, NEW a \in Announcements,
             NEW verified \in BOOLEAN, NEW actorIsStaff \in BOOLEAN, NEW scheduledFor \in BOOLEAN,
             publishAnnouncement(p, a, verified, actorIsStaff, scheduledFor)
      PROVE  [Promise!Next]_(Promise!vars)
  BY <1>4, PublishShows
<1>5. ASSUME \/ UNCHANGED vars
             \/ \E a \in Announcements : TimePasses(a)
             \/ \E u \in Users : Leave(u) \/ Join(u) \/ ChangeSettings(u)
      PROVE  [Promise!Next]_(Promise!vars)
  BY <1>5, AsideShows
<1>. QED BY <1>1, <1>2, <1>3, <1>4, <1>5 DEF Next

-----------------------------------------------------------------------------
(* The audience.                                                           *)

LEMMA AudienceKept ==
  ASSUME IInv, AudienceOnly, [Next]_vars
  PROVE  AudienceOnly'
<1>1. ASSUME NEW p \in Processes, NEW new, Become(p, new),
             new.pc # "idle" => new.user \in Targeted \ {Publisher}
      PROVE  AudienceOnly'
  <2>1. deliveries'[p] = new /\ \A q \in Processes \ {p} : deliveries'[q] = deliveries[q]
    BY <1>1 DEF Become, IInv, DeliveryInv, DeliveryTypeOK
  <2>. QED BY <1>1, <2>1 DEF AudienceOnly
<1>2. CASE UNCHANGED deliveries
  BY <1>2 DEF AudienceOnly
<1>3. Idle.pc = "idle"
  BY DEF Idle
<1>4. ASSUME NEW p \in Processes, InDelivery(p) PROVE AudienceOnly'
  <2>1. CASE DeliverThrows(p)
    BY <1>1, <1>3, <2>1 DEF DeliverThrows
  <2>2. CASE DeliveryStep(p)
    <3>1. PICK new : Become(p, new) /\ RowMoves(deliveries[p], new)
      BY <2>2, StepMovesRow
    <3>2. deliveries[p].user \in Targeted \ {Publisher}
      BY <2>2, StepMovesRow DEF AudienceOnly
    <3>. QED BY <1>1, <3>1, <3>2 DEF RowMoves
  <2>. QED BY <1>4, <2>1, <2>2 DEF InDelivery
<1>5. ASSUME NEW p \in Processes, TellMember(p) PROVE AudienceOnly'
  <2>1. CASE UNCHANGED deliveryVars
    BY <1>2, <2>1 DEF deliveryVars
  <2>2. CASE ~UNCHANGED deliveryVars
    <3>1. PICK u : u = Head(fan[p].members)
      OBVIOUS
    <3>2. u \in Targeted \ {Publisher} /\ Deliver(p, u, fan[p].announcement)
      BY <1>5, <2>2, <3>1 DEF TellMember
    <3>3. PICK d : d = [Idle EXCEPT !.pc = "duplicate", !.user = u,
                                    !.key = fan[p].announcement,
                                    !.muted = Muted(preferences[u], fan[p].announcement)]
      OBVIOUS
    <3>4. Become(p, d) /\ d.user = u
      BY <3>2, <3>3 DEF Deliver, Idle
    <3>. QED BY <1>1, <3>2, <3>4
  <2>. QED BY <2>1, <2>2
<1>6. ASSUME NEW p \in Processes, Die(p) PROVE AudienceOnly'
  BY <1>1, <1>3, <1>6 DEF Die
<1>7. ASSUME NEW u \in Users, ChangeSettings(u) PROVE AudienceOnly'
  <2>1. ASSUME NEW p \in Processes
        PROVE  deliveries'[p].pc = deliveries[p].pc /\ deliveries'[p].user = deliveries[p].user
    BY <1>7, SettingsLeaveCalls
  <2>. QED BY <2>1 DEF AudienceOnly
<1>8. ASSUME NEW p \in Processes,
             Approve(p) \/ Reject(p) \/ markPublished(p) \/ Page(p) \/ setDelivered(p) \/ Sweep(p)
      PROVE  AudienceOnly'
  BY <1>2, <1>8 DEF Approve, Reject, markPublished, Page, setDelivered, Sweep, deliveryVars
<1>9. ASSUME NEW p \in Processes, NEW a \in Announcements,
             \/ \E verified, actorIsStaff, scheduledFor \in BOOLEAN :
                  publishAnnouncement(p, a, verified, actorIsStaff, scheduledFor)
             \/ \E approve \in BOOLEAN : ReadPending(p, a, approve)
      PROVE  AudienceOnly'
  BY <1>2, <1>9 DEF publishAnnouncement, ReadPending, deliveryVars
<1>10. ASSUME NEW a \in Announcements, TimePasses(a) PROVE AudienceOnly'
  BY <1>2, <1>10 DEF TimePasses, deliveryVars
<1>11. ASSUME NEW u \in Users, Leave(u) \/ Join(u) PROVE AudienceOnly'
  BY <1>2, <1>11 DEF Leave, Join, deliveryVars
<1>12. CASE UNCHANGED vars
  BY <1>2, <1>12 DEF vars, deliveryVars
<1>. QED BY <1>4, <1>5, <1>6, <1>7, <1>8, <1>9, <1>10, <1>11, <1>12 DEF Next, RequestStep

LEMMA AudienceInvariant == Spec => []AudienceOnly
<1>1. Init => AudienceOnly
  BY DEF Init, DeliveryInit, AudienceOnly, Idle
<1>2. IInv /\ AudienceOnly /\ [Next]_vars => AudienceOnly'
  BY AudienceKept
<1>. QED BY <1>1, <1>2, AnnouncementsInvariant, PTL DEF Spec

LEMMA InitShows == Init => Promise!Init
<1>. SUFFICES ASSUME Init PROVE Promise!Init
  OBVIOUS
<1>1. \A p \in Processes : fan[p].pc \notin FanStages
  BY DEF Init, NoRequest, FanStages
<1>2. \A r \in Users \X Announcements : r \in Users \X Keys /\ inbox[r] = NoRow
  BY AnnouncementsAssumption DEF Init, DeliveryInit
<1>. QED BY <1>1, <1>2 DEF Promise!Init, Init, FanStages

-----------------------------------------------------------------------------
(* The theorems.                                                           *)

\* Every variable of the composition stays in its type.
THEOREM TypeCorrect == Spec => []AnnouncementsTypeOK
<1>1. IInv => AnnouncementsTypeOK
  BY DEF IInv, TypesOK
<1>. QED BY <1>1, AnnouncementsInvariant, PTL

\* The inbox is as true under a fan-out as it is under single deliveries.
THEOREM InboxStaysTrueInFanOuts == Spec => []InboxIsTrue
<1>1. IInv => InboxIsTrue
  BY InvGives DEF IInv
<1>. QED BY <1>1, AnnouncementsInvariant, PTL

\* Each phone of a member lights up once for an announcement at most, whatever races
\* or dies.
THEOREM OnePush == Spec => []OnePushPerAnnouncement
<1>1. IInv => OnePushPerAnnouncement
  BY DEF IInv, AnnouncementInv
<1>. QED BY <1>1, AnnouncementsInvariant, PTL

\* Nobody is told of what is not published.
THEOREM SilentUntilPublished == Spec => []UnpublishedIsSilent
<1>1. IInv => UnpublishedIsSilent
  BY DEF IInv, AnnouncementInv
<1>. QED BY <1>1, AnnouncementsInvariant, PTL

\* With any roster, page size and order of departures and joins, an announcement
\* misses at most one of its audience for each row that left its place in the roster
\* while it went out, by a departure or by a join() of an active member, and its read
\* rate divides by no less than it told, unless something failed.
THEOREM MissesBounded == Spec => []MissesAreBounded
<1>1. MissInv => MissesAreBounded
  <2>. SUFFICES ASSUME MissInv, NEW a \in Announcements, status[a] = "published",
                       ~InFanOut(a), faults = 0
                PROVE  /\ Cardinality(Missed(a)) <= shifts[a]
                       /\ Cardinality({u \in Users : inbox[<<u, a>>] # NoRow}) <= deliveredCount[a]
    BY DEF MissesAreBounded
  <2>1. \A p \in Processes : ~Fans(p, a)
    BY DEF InFanOut, Fans
  <2>2. Settled(a)
    BY <2>1 DEF MissInv, Accounted
  <2>. QED BY <2>2 DEF Settled, Told
<1>. QED BY <1>1, AccountsInvariant, PTL

\* With any number of requests, sweeps, deaths, departures and pages, an announcement
\* is on the air once and is told to its audience alone, and only while it is.
THEOREM BroadcastRefinement == Spec => ImplementsBroadcast
<1>1. Init => Promise!Init
  BY InitShows
<1>2. IInv /\ IInv' /\ AudienceOnly /\ [Next]_vars => [Promise!Next]_(Promise!vars)
  BY NextShows
<1>. QED BY <1>1, <1>2, AnnouncementsInvariant, AudienceInvariant, PTL
         DEF Spec, ImplementsBroadcast, Promise!Spec
=============================================================================
