--------------------- MODULE NotificationDelivery_proofs ---------------------
(***************************************************************************)
(* Theorems about NotificationDelivery, for any number of deliveries in    *)
(* flight, users, keys, phones and faults.                                 *)
(*                                                                         *)
(* A delivery checks for duplicates, reads the settings, writes the row    *)
(* and tries the phones, each an await after the other; the invariant says *)
(* what it still knows at each of them, and which rows are true already.   *)
(***************************************************************************)
EXTENDS NotificationDelivery, TLAPS

-----------------------------------------------------------------------------
(* The inductive invariant.                                                *)

\* Where a delivery has an inbox row and tries the phones.
FanningOut == {"devices", "send", "disable", "update"}

\* What a delivery knows.
KnowsOK(d) ==
  /\ d.pc \in FanningOut =>
       /\ d.suppression = NoRow /\ ~d.muted
       /\ inbox[<<d.user, d.key>>] # NoRow
  /\ d.ok => Reached(d.user, d.key)
  /\ d.pc = "update" => /\ d.outcome \in {"delivered", "no_devices", "failed"}
                        /\ d.outcome = "delivered" => Reached(d.user, d.key)
  /\ d.muted => Muted(preferences[d.user], d.key)
  /\ d.pc = "record" /\ d.muted => d.suppression # NoRow

BeingTold(u, k) ==
  \E p \in Processes : deliveries[p].pc \in FanningOut /\ RowOf(p) = <<u, k>>

\* A row is true, or a delivery that will set its outcome is on its way.
RowOK(u, k) ==
  /\ Reached(u, k) => inbox[<<u, k>>] # NoRow
  /\ faults = 0 /\ ~BeingTold(u, k) =>
       /\ inbox[<<u, k>>] = "delivered" => Reached(u, k)
       /\ inbox[<<u, k>>] \in Suppressed => ~Reached(u, k)

DeliveriesKnow == \A p \in Processes : KnowsOK(deliveries[p])
RowsOK == \A u \in Users, k \in Keys : RowOK(u, k)
DeliveryInv == DeliveryTypeOK /\ DeliveriesKnow /\ RowsOK

USE PopulationAssumption, FaultsAssumption

-----------------------------------------------------------------------------
(* Type correctness.                                                       *)

LEMMA IdleIsADelivery == Idle \in Delivery
  BY DEF Idle, Delivery, NoRow, Suppressed, Outcomes

LEMMA PutTypeOK ==
  ASSUME DeliveryTypeOK, NEW p \in Processes, NEW d \in Delivery, Become(p, d)
  PROVE  deliveries' \in [Processes -> Delivery]
  BY DEF DeliveryTypeOK, Become

LEMMA OneDelivery ==
  ASSUME DeliveryTypeOK, NEW p \in Processes
  PROVE  /\ deliveries[p] \in Delivery
         /\ deliveries[p].user \in Users /\ deliveries[p].key \in Keys
         /\ deliveries[p].suppression \in Suppressed \cup {NoRow}
         /\ deliveries[p].left \subseteq Phones /\ deliveries[p].gone \subseteq Phones
         /\ RowOf(p) \in Users \X Keys
  BY DEF DeliveryTypeOK, Delivery, RowOf

LEMMA NextAttemptTypeOK ==
  ASSUME NEW d \in Delivery
  PROVE  NextAttempt(d) \in Delivery
  BY DEF NextAttempt, Delivery, FanOutOutcome, Outcomes

LEMMA InitTypeOK == DeliveryInit => DeliveryTypeOK
<1>. SUFFICES ASSUME DeliveryInit PROVE DeliveryTypeOK
  OBVIOUS
<1>1. inbox \in [Users \X Keys -> Outcomes \cup {NoRow}]
  BY DEF DeliveryInit
<1>2. preferences \in [Users -> Preference] /\ phones \in [Users -> SUBSET Phones]
  BY DEF DeliveryInit, Preference
<1>3. deliveries \in [Processes -> Delivery]
  BY IdleIsADelivery DEF DeliveryInit
<1>4. pushed \in [Users \X Keys \X Phones -> Nat] /\ faults \in 0..MaxFaults
  BY DEF DeliveryInit
<1>. QED BY <1>1, <1>2, <1>3, <1>4 DEF DeliveryTypeOK

LEMMA DeliverTypeOK ==
  ASSUME DeliveryTypeOK, NEW p \in Processes, NEW u \in Users, NEW k \in Keys, Deliver(p, u, k)
  PROVE  DeliveryTypeOK'
<1>1. PICK d : d = [Idle EXCEPT !.pc = "duplicate", !.user = u, !.key = k,
                                !.muted = Muted(preferences[u], k)]
  OBVIOUS
<1>2. Muted(preferences[u], k) \in BOOLEAN
  BY DEF Muted, DeliveryTypeOK, Preference
<1>3. d \in Delivery
  BY <1>1, <1>2, IdleIsADelivery DEF Delivery
<1>4. Become(p, d)
  BY <1>1 DEF Deliver
<1>. QED BY <1>3, <1>4, PutTypeOK DEF Deliver, DeliveryTypeOK

LEMMA StepTypeOK ==
  ASSUME DeliveryTypeOK, NEW p \in Processes, DeliveryStep(p)
  PROVE  DeliveryTypeOK'
<1>. DEFINE d == deliveries[p]
<1>1. d \in Delivery /\ RowOf(p) \in Users \X Keys
  BY OneDelivery
<1>2. Idle \in Delivery
  BY IdleIsADelivery
<1>3. ASSUME NEW new \in Delivery, Become(p, new), UNCHANGED <<preferences, phones, faults>>,
             inbox' \in [Users \X Keys -> Outcomes \cup {NoRow}],
             pushed' \in [Users \X Keys \X Phones -> Nat]
      PROVE  DeliveryTypeOK'
  BY <1>3, PutTypeOK DEF DeliveryTypeOK
<1>4. CASE DuplicateCheck(p)
  <2>1. PICK new : new = [d EXCEPT !.pc = "preferences"]
    OBVIOUS
  <2>2. new \in Delivery
    BY <1>1, <2>1 DEF Delivery
  <2>3. Become(p, Idle) \/ Become(p, new)
    BY <1>4, <2>1 DEF DuplicateCheck, Goto
  <2>. QED BY <1>2, <1>3, <1>4, <2>2, <2>3 DEF DuplicateCheck, DeliveryTypeOK
<1>5. CASE ReadPreferences(p)
  <2>1. PICK new : new = [d EXCEPT !.pc = "record",
                                   !.suppression = suppressionFor(preferences[d.user], d.key)]
    OBVIOUS
  <2>2. suppressionFor(preferences[d.user], d.key) \in Suppressed \cup {NoRow}
    BY DEF suppressionFor, Suppressed
  <2>3. new \in Delivery
    BY <1>1, <2>1, <2>2 DEF Delivery
  <2>4. Become(p, new)
    BY <1>5, <2>1 DEF ReadPreferences
  <2>. QED BY <1>3, <1>5, <2>3, <2>4 DEF ReadPreferences, DeliveryTypeOK
<1>6. ASSUME AfterRecord(p)
      PROVE  \E new \in Delivery : Become(p, new)
  <2>1. PICK new : new = [d EXCEPT !.pc = "devices"]
    OBVIOUS
  <2>2. new \in Delivery
    BY <1>1, <2>1 DEF Delivery
  <2>. QED BY <1>2, <1>6, <2>1, <2>2 DEF AfterRecord, Goto
<1>7. CASE Record(p)
  <2>1. d.suppression \in Suppressed \cup {NoRow}
    BY OneDelivery
  <2>2. inbox' \in [Users \X Keys -> Outcomes \cup {NoRow}]
    BY <1>1, <1>7, <2>1 DEF Record, DeliveryTypeOK, Outcomes
  <2>3. AfterRecord(p) /\ UNCHANGED <<preferences, phones, pushed, faults>>
    BY <1>7 DEF Record
  <2>. QED BY <1>3, <1>6, <2>2, <2>3 DEF DeliveryTypeOK
<1>8. CASE LoseRecord(p)
  <2>1. AfterRecord(p) /\ UNCHANGED <<inbox, preferences, phones, pushed, faults>>
    BY <1>8 DEF LoseRecord
  <2>. QED BY <1>3, <1>6, <2>1 DEF DeliveryTypeOK
<1>9. CASE ReadDevices(p)
  <2>1. PICK none : none = [d EXCEPT !.pc = "update", !.outcome = "no_devices"]
    OBVIOUS
  <2>2. PICK some : some = [d EXCEPT !.pc = "send", !.left = phones[d.user]]
    OBVIOUS
  <2>3. none \in Delivery /\ some \in Delivery
    BY <1>1, <2>1, <2>2 DEF Delivery, Outcomes, DeliveryTypeOK
  <2>4. Become(p, none) \/ Become(p, some)
    BY <1>9, <2>1, <2>2 DEF ReadDevices
  <2>. QED BY <1>3, <1>9, <2>3, <2>4 DEF ReadDevices, DeliveryTypeOK
<1>10. CASE Send(p)
  <2>1. PICK phone \in d.left : Send(p)!(phone)
    BY <1>10 DEF Send
  <2>2. PICK rest : rest = [d EXCEPT !.left = @ \ {phone}]
    OBVIOUS
  <2>3. PICK done : done = [rest EXCEPT !.ok = TRUE]
    OBVIOUS
  <2>4. PICK bad : bad = [rest EXCEPT !.pc = "disable", !.gone = {phone}]
    OBVIOUS
  <2>5. phone \in Phones /\ rest \in Delivery
    BY <1>1, <2>2, OneDelivery DEF Delivery
  <2>6. done \in Delivery /\ bad \in Delivery
    BY <2>3, <2>4, <2>5 DEF Delivery
  <2>7. /\ NextAttempt(done) \in Delivery /\ NextAttempt(rest) \in Delivery
    BY <2>5, <2>6, NextAttemptTypeOK
  <2>8. /\ \/ Become(p, NextAttempt(done)) \/ Become(p, NextAttempt(rest)) \/ Become(p, bad)
        /\ \/ pushed' = [pushed EXCEPT ![<<rest.user, rest.key, phone>>] = @ + 1]
           \/ UNCHANGED pushed
        /\ UNCHANGED <<inbox, preferences, phones, faults>>
    BY <2>1, <2>2, <2>3, <2>4, Zenon
  <2>9. pushed' \in [Users \X Keys \X Phones -> Nat]
    BY <2>8 DEF DeliveryTypeOK
  <2>. QED BY <1>3, <2>6, <2>7, <2>8, <2>9 DEF DeliveryTypeOK
<1>11. CASE Disable(p)
  <2>1. PICK new : new = [d EXCEPT !.gone = {}]
    OBVIOUS
  <2>2. new \in Delivery
    BY <1>1, <2>1 DEF Delivery
  <2>3. /\ deliveries' = [deliveries EXCEPT ![p] = NextAttempt(new)]
        /\ phones' = [phones EXCEPT ![d.user] = @ \ d.gone]
        /\ UNCHANGED <<inbox, preferences, pushed, faults>>
    BY <1>11, <2>1, Zenon DEF Disable, Become
  <2>4. NextAttempt(new) \in Delivery
    BY <2>2, NextAttemptTypeOK
  <2>. QED BY <2>3, <2>4 DEF DeliveryTypeOK
<1>12. CASE UpdateOutcome(p)
  <2>1. d.outcome \in Outcomes \cup {NoRow}
    BY <1>1 DEF Delivery
  <2>. QED BY <1>1, <1>2, <1>3, <1>12, <2>1 DEF UpdateOutcome, DeliveryTypeOK
<1>. QED
  BY <1>4, <1>5, <1>7, <1>8, <1>9, <1>10, <1>11, <1>12 DEF DeliveryStep

LEMMA ThrowTypeOK ==
  ASSUME DeliveryTypeOK, NEW p \in Processes, DeliverThrows(p)
  PROVE  DeliveryTypeOK'
  BY IdleIsADelivery, PutTypeOK DEF DeliverThrows, DeliveryTypeOK

LEMMA UserTypeOK ==
  ASSUME DeliveryTypeOK, NEW u \in Users,
         \/ \E preference \in Preference : SetPreferences(u, preference)
         \/ \E phone \in Phones : Register(u, phone) \/ Unregister(u, phone)
  PROVE  DeliveryTypeOK'
<1>1. ASSUME NEW preference \in Preference, SetPreferences(u, preference)
      PROVE  DeliveryTypeOK'
  <2>1. \A p \in Processes : /\ deliveries[p] \in Delivery
                             /\ [deliveries[p] EXCEPT !.muted = FALSE] \in Delivery
    BY ZenonT(40) DEF DeliveryTypeOK, Delivery
  <2>. QED BY <1>1, <2>1 DEF SetPreferences, DeliveryTypeOK
<1>2. ASSUME NEW phone \in Phones, Register(u, phone) \/ Unregister(u, phone)
      PROVE  DeliveryTypeOK'
  BY <1>2 DEF Register, Unregister, DeliveryTypeOK
<1>. QED BY <1>1, <1>2

-----------------------------------------------------------------------------
(* What the deliveries know.                                               *)

\* Rows and pushes are never taken back.
Grow ==
  \A u \in Users, k \in Keys : /\ inbox[<<u, k>>] # NoRow => inbox'[<<u, k>>] # NoRow
                               /\ Reached(u, k) => Reached(u, k)'

LEMMA NothingGrows ==
  ASSUME UNCHANGED <<inbox, pushed>>
  PROVE  Grow
  BY DEF Grow, Reached

LEMMA KnowsStays ==
  ASSUME NEW d \in Delivery, KnowsOK(d), Grow, UNCHANGED preferences
  PROVE  KnowsOK(d)'
<1>1. d.user \in Users /\ d.key \in Keys
  BY DEF Delivery
<1>2. inbox[<<d.user, d.key>>] # NoRow => inbox'[<<d.user, d.key>>] # NoRow
  BY <1>1 DEF Grow
<1>3. Reached(d.user, d.key) => Reached(d.user, d.key)'
  BY <1>1 DEF Grow
<1>. QED BY <1>2, <1>3 DEF KnowsOK

LEMMA IdleKnows == KnowsOK(Idle)'
  BY DEF KnowsOK, Idle, FanningOut

LEMMA PutKnows ==
  ASSUME DeliveryTypeOK, DeliveriesKnow, NEW p \in Processes, NEW new, Become(p, new),
         KnowsOK(new)', Grow, UNCHANGED preferences
  PROVE  DeliveriesKnow'
<1>1. ASSUME NEW q \in Processes PROVE KnowsOK(deliveries[q])'
  <2>1. CASE q = p
    <3>1. deliveries'[q] = new
      BY <2>1 DEF Become, DeliveryTypeOK
    <3>. QED BY <3>1
  <2>2. CASE q # p
    <3>1. deliveries'[q] = deliveries[q] /\ deliveries[q] \in Delivery /\ KnowsOK(deliveries[q])
      BY <2>2 DEF Become, DeliveryTypeOK, DeliveriesKnow
    <3>. QED BY <3>1, KnowsStays
  <2>. QED BY <2>1, <2>2
<1>. QED BY <1>1 DEF DeliveriesKnow

-----------------------------------------------------------------------------
(* The rows are true.                                                      *)

\* Who is being told by p is still told when p goes on as new.
StaysWith(p, new) ==
  deliveries[p].pc \in FanningOut =>
    new.pc \in FanningOut /\ <<new.user, new.key>> = RowOf(p)

LEMMA StillBeingTold ==
  ASSUME DeliveryTypeOK, NEW p \in Processes, NEW new, Become(p, new), StaysWith(p, new),
         NEW u \in Users, NEW k \in Keys, BeingTold(u, k)
  PROVE  BeingTold(u, k)'
<1>1. PICK q \in Processes : deliveries[q].pc \in FanningOut /\ RowOf(q) = <<u, k>>
  BY DEF BeingTold
<1>2. CASE q = p
  <2>1. deliveries'[q] = new
    BY <1>2 DEF Become, DeliveryTypeOK
  <2>. QED BY <1>1, <1>2, <2>1 DEF BeingTold, StaysWith, RowOf
<1>3. CASE q # p
  <2>1. deliveries'[q] = deliveries[q]
    BY <1>3 DEF Become, DeliveryTypeOK
  <2>. QED BY <1>1, <2>1 DEF BeingTold, RowOf
<1>. QED BY <1>2, <1>3

LEMMA QuietRows ==
  ASSUME DeliveryTypeOK, RowsOK, NEW p \in Processes, NEW new, Become(p, new),
         StaysWith(p, new), UNCHANGED <<inbox, pushed, faults>>
  PROVE  RowsOK'
<1>1. ASSUME NEW u \in Users, NEW k \in Keys PROVE RowOK(u, k)'
  <2>1. RowOK(u, k) /\ (BeingTold(u, k) => BeingTold(u, k)')
    BY StillBeingTold DEF RowsOK
  <2>. QED BY <2>1 DEF RowOK, Reached
<1>. QED BY <1>1 DEF RowsOK

LEMMA QuietKeeps ==
  ASSUME DeliveryTypeOK, DeliveriesKnow, RowsOK, NEW p \in Processes, NEW new, Become(p, new),
         KnowsOK(new)', StaysWith(p, new), UNCHANGED <<inbox, pushed, faults, preferences>>
  PROVE  DeliveriesKnow' /\ RowsOK'
  BY QuietRows, PutKnows, NothingGrows

LEMMA DeliverKeeps ==
  ASSUME DeliveryInv, NEW p \in Processes, NEW u \in Users, NEW k \in Keys, Deliver(p, u, k)
  PROVE  DeliveriesKnow' /\ RowsOK'
<1>1. PICK d : d = [Idle EXCEPT !.pc = "duplicate", !.user = u, !.key = k,
                                !.muted = Muted(preferences[u], k)]
  OBVIOUS
<1>2. /\ d.pc = "duplicate" /\ d.user = u /\ d.key = k /\ d.ok = FALSE
      /\ d.muted = Muted(preferences[u], k)
  BY <1>1 DEF Idle
<1>3. /\ Become(p, d) /\ deliveries[p] = Idle
      /\ UNCHANGED <<inbox, preferences, phones, pushed, faults>>
  BY <1>1 DEF Deliver
<1>4. KnowsOK(d)'
  BY <1>2, <1>3 DEF KnowsOK, FanningOut
<1>5. StaysWith(p, d)
  BY <1>3 DEF StaysWith, Idle, FanningOut
<1>. QED BY <1>3, <1>4, <1>5, QuietKeeps DEF DeliveryInv

LEMMA CheckKeeps ==
  ASSUME DeliveryInv, NEW p \in Processes, DuplicateCheck(p) \/ ReadPreferences(p)
  PROVE  DeliveriesKnow' /\ RowsOK'
<1>. DEFINE d == deliveries[p]
<1>1. d \in Delivery /\ KnowsOK(d)
  BY OneDelivery DEF DeliveryInv, DeliveriesKnow
<1>2. CASE DuplicateCheck(p)
  <2>1. PICK new : new = [d EXCEPT !.pc = "preferences"]
    OBVIOUS
  <2>2. /\ d.pc = "duplicate"
        /\ Become(p, Idle) \/ Become(p, new)
        /\ UNCHANGED <<inbox, preferences, phones, pushed, faults>>
    BY <1>2, <2>1 DEF DuplicateCheck, At, Goto
  <2>3. /\ new.pc = "preferences" /\ new.ok = d.ok /\ new.muted = d.muted
        /\ new.user = d.user /\ new.key = d.key
    BY <1>1, <2>1 DEF Delivery
  <2>4. KnowsOK(new)'
    BY <1>1, <2>2, <2>3 DEF KnowsOK, FanningOut, Reached
  <2>5. StaysWith(p, new) /\ StaysWith(p, Idle)
    BY <2>2 DEF StaysWith, FanningOut
  <2>. QED BY <2>2, <2>4, <2>5, IdleKnows, QuietKeeps DEF DeliveryInv
<1>3. CASE ReadPreferences(p)
  <2>1. PICK new : new = [d EXCEPT !.pc = "record",
                                   !.suppression = suppressionFor(preferences[d.user], d.key)]
    OBVIOUS
  <2>2. /\ d.pc = "preferences" /\ Become(p, new)
        /\ UNCHANGED <<inbox, preferences, phones, pushed, faults>>
    BY <1>3, <2>1 DEF ReadPreferences, At
  <2>3. /\ new.pc = "record" /\ new.ok = d.ok /\ new.muted = d.muted
        /\ new.user = d.user /\ new.key = d.key
        /\ new.suppression = suppressionFor(preferences[d.user], d.key)
    BY <1>1, <2>1 DEF Delivery
  <2>4. new.muted => new.suppression = "muted"
    BY <1>1, <2>3 DEF KnowsOK, suppressionFor
  <2>5. KnowsOK(new)'
    BY <1>1, <2>2, <2>3, <2>4 DEF KnowsOK, FanningOut, Reached, NoRow
  <2>6. StaysWith(p, new)
    BY <2>2 DEF StaysWith, FanningOut
  <2>. QED BY <2>2, <2>5, <2>6, QuietKeeps DEF DeliveryInv
<1>. QED BY <1>2, <1>3

LEMMA RecordKeeps ==
  ASSUME DeliveryInv, NEW p \in Processes, Record(p) \/ LoseRecord(p)
  PROVE  DeliveriesKnow' /\ RowsOK'
<1>. DEFINE d == deliveries[p]
<1>1. /\ d \in Delivery /\ KnowsOK(d) /\ RowOf(p) = <<d.user, d.key>>
      /\ d.user \in Users /\ d.key \in Keys /\ d.suppression \in Suppressed \cup {NoRow}
  BY OneDelivery DEF DeliveryInv, DeliveriesKnow, RowOf
<1>2. PICK new : new = [d EXCEPT !.pc = "devices"]
  OBVIOUS
<1>3. /\ new.pc = "devices" /\ new.ok = d.ok /\ new.muted = d.muted
      /\ new.user = d.user /\ new.key = d.key /\ new.suppression = d.suppression
  BY <1>1, <1>2 DEF Delivery
<1>4. /\ d.pc = "record"
      /\ \/ d.suppression = NoRow /\ Become(p, new)
         \/ d.suppression # NoRow /\ Become(p, Idle)
      /\ UNCHANGED <<preferences, phones, pushed, faults>>
  BY <1>2 DEF Record, LoseRecord, AfterRecord, Goto, At
<1>5. inbox'[<<d.user, d.key>>] # NoRow
  BY <1>1 DEF Record, LoseRecord, DeliveryInv, DeliveryTypeOK, NoRow, Suppressed
<1>6. \A u \in Users, k \in Keys : <<u, k>> # RowOf(p) => inbox'[<<u, k>>] = inbox[<<u, k>>]
  BY <1>1 DEF Record, LoseRecord, DeliveryInv, DeliveryTypeOK
<1>7. Grow
  <2>1. ASSUME NEW u \in Users, NEW k \in Keys, inbox[<<u, k>>] # NoRow
        PROVE  inbox'[<<u, k>>] # NoRow
    <3>1. CASE <<u, k>> = RowOf(p)
      BY <1>1, <1>5, <3>1
    <3>2. CASE <<u, k>> # RowOf(p)
      BY <1>6, <2>1, <3>2
    <3>. QED BY <3>1, <3>2
  <2>2. \A u \in Users, k \in Keys : Reached(u, k) => Reached(u, k)'
    BY <1>4 DEF Reached
  <2>. QED BY <2>1, <2>2 DEF Grow
<1>8. d.suppression = NoRow => KnowsOK(new)'
  BY <1>1, <1>3, <1>4, <1>5 DEF KnowsOK, FanningOut, Reached
<1>9. DeliveriesKnow'
  BY <1>4, <1>7, <1>8, IdleKnows, PutKnows DEF DeliveryInv
<1>10. StaysWith(p, new) /\ StaysWith(p, Idle)
  BY <1>4 DEF StaysWith, FanningOut
<1>11. RowsOK'
  <2>1. CASE LoseRecord(p)
    BY <1>4, <1>10, <2>1, QuietRows DEF DeliveryInv, LoseRecord
  <2>2. CASE Record(p)
    <3>1. ASSUME NEW u \in Users, NEW k \in Keys PROVE RowOK(u, k)'
      <4>1. RowOK(u, k) /\ (BeingTold(u, k) => BeingTold(u, k)')
        BY <1>4, <1>10, StillBeingTold DEF DeliveryInv, RowsOK
      <4>2. CASE <<u, k>> # RowOf(p)
        BY <1>4, <1>6, <4>1, <4>2 DEF RowOK, Reached
      <4>3. CASE <<u, k>> = RowOf(p)
        <5>1. ~Reached(u, k)
          BY <2>2, <4>1, <4>3 DEF RowOK, Record
        <5>2. ~Reached(u, k)'
          BY <1>4, <5>1 DEF Reached
        <5>3. CASE d.suppression # NoRow
          <6>1. inbox'[<<u, k>>] = d.suppression
            BY <1>1, <2>2, <4>3, <5>3 DEF Record, DeliveryInv, DeliveryTypeOK
          <6>. QED BY <1>1, <5>2, <5>3, <6>1 DEF RowOK, Suppressed
        <5>4. CASE d.suppression = NoRow
          <6>1. deliveries'[p] = new
            BY <1>4, <5>4 DEF Become, DeliveryInv, DeliveryTypeOK
          <6>2. BeingTold(u, k)'
            BY <1>1, <1>3, <4>3, <6>1 DEF BeingTold, RowOf, FanningOut
          <6>. QED BY <5>2, <6>2 DEF RowOK
        <5>. QED BY <5>3, <5>4
      <4>. QED BY <4>2, <4>3
    <3>. QED BY <3>1 DEF RowsOK
  <2>. QED BY <2>1, <2>2
<1>. QED BY <1>9, <1>11

\* The next attempt, or the end, of a fan-out that knows what it did.
LEMMA NextAttemptKnows ==
  ASSUME NEW d \in Delivery, d.pc \in {"send", "disable"}, KnowsOK(d)'
  PROVE  /\ KnowsOK(NextAttempt(d))' /\ NextAttempt(d).pc \in FanningOut
         /\ NextAttempt(d).user = d.user /\ NextAttempt(d).key = d.key
<1>. DEFINE more == [d EXCEPT !.pc = "send"]
            done == [d EXCEPT !.pc = "update", !.outcome = FanOutOutcome(d.ok)]
<1>1. /\ more.pc = "send" /\ more.user = d.user /\ more.key = d.key /\ more.ok = d.ok
      /\ more.muted = d.muted /\ more.suppression = d.suppression
  BY DEF Delivery
<1>2. /\ done.pc = "update" /\ done.user = d.user /\ done.key = d.key /\ done.ok = d.ok
      /\ done.muted = d.muted /\ done.suppression = d.suppression
      /\ done.outcome = FanOutOutcome(d.ok)
  BY DEF Delivery
<1>3. /\ FanOutOutcome(d.ok) \in {"delivered", "failed"}
      /\ FanOutOutcome(d.ok) = "delivered" => d.ok
  BY DEF FanOutOutcome
<1>4. KnowsOK(more)'
  BY <1>1 DEF KnowsOK, FanningOut
<1>5. KnowsOK(done)'
  BY <1>2, <1>3 DEF KnowsOK, FanningOut
<1>6. NextAttempt(d) = more \/ NextAttempt(d) = done
  BY DEF NextAttempt
<1>. HIDE DEF more, done
<1>. QED BY <1>1, <1>2, <1>4, <1>5, <1>6 DEF FanningOut

LEMMA DevicesKeep ==
  ASSUME DeliveryInv, NEW p \in Processes, ReadDevices(p) \/ Disable(p)
  PROVE  DeliveriesKnow' /\ RowsOK'
<1>0. PICK d : d = deliveries[p]
  OBVIOUS
<1>1. d \in Delivery /\ KnowsOK(d) /\ RowOf(p) = <<d.user, d.key>>
  BY <1>0, OneDelivery DEF DeliveryInv, DeliveriesKnow, RowOf
<1>2. CASE ReadDevices(p)
  <2>1. PICK none : none = [d EXCEPT !.pc = "update", !.outcome = "no_devices"]
    OBVIOUS
  <2>2. PICK some : some = [d EXCEPT !.pc = "send", !.left = phones[d.user]]
    OBVIOUS
  <2>3. /\ d.pc = "devices"
        /\ Become(p, none) \/ Become(p, some)
        /\ UNCHANGED <<inbox, preferences, phones, pushed, faults>>
    BY <1>0, <1>2, <2>1, <2>2 DEF ReadDevices, At
  <2>4. /\ none.pc = "update" /\ none.user = d.user /\ none.key = d.key /\ none.ok = d.ok
        /\ none.muted = d.muted /\ none.suppression = d.suppression
        /\ none.outcome = "no_devices"
    BY <1>1, <2>1 DEF Delivery
  <2>5. /\ some.pc = "send" /\ some.user = d.user /\ some.key = d.key /\ some.ok = d.ok
        /\ some.muted = d.muted /\ some.suppression = d.suppression
    BY <1>1, <2>2 DEF Delivery
  <2>6. KnowsOK(d)'
    BY <1>1, <2>3, KnowsStays, NothingGrows
  <2>7. KnowsOK(none)' /\ KnowsOK(some)'
    BY <2>3, <2>4, <2>5, <2>6 DEF KnowsOK, FanningOut
  <2>8. StaysWith(p, none) /\ StaysWith(p, some)
    BY <1>0, <1>1, <2>4, <2>5 DEF StaysWith, FanningOut
  <2>. QED BY <2>3, <2>7, <2>8, QuietKeeps DEF DeliveryInv
<1>3. CASE Disable(p)
  <2>1. PICK new : new = [d EXCEPT !.gone = {}]
    OBVIOUS
  <2>2. /\ Become(p, NextAttempt(new)) /\ d.pc = "disable"
        /\ UNCHANGED <<inbox, preferences, pushed, faults>>
    BY <1>0, <1>3, <2>1, Zenon DEF Disable, At
  <2>3. /\ new \in Delivery /\ new.pc = d.pc /\ new.user = d.user /\ new.key = d.key
        /\ new.ok = d.ok /\ new.muted = d.muted /\ new.suppression = d.suppression
    BY <1>1, <2>1 DEF Delivery
  <2>4. KnowsOK(d)'
    BY <1>1, <2>2, KnowsStays, NothingGrows
  <2>5. KnowsOK(new)'
    BY <2>2, <2>3, <2>4 DEF KnowsOK
  <2>6. /\ KnowsOK(NextAttempt(new))' /\ NextAttempt(new).pc \in FanningOut
        /\ NextAttempt(new).user = d.user /\ NextAttempt(new).key = d.key
    BY <2>2, <2>3, <2>5, NextAttemptKnows
  <2>7. StaysWith(p, NextAttempt(new))
    BY <1>0, <1>1, <2>6 DEF StaysWith
  <2>. QED BY <2>2, <2>6, <2>7, QuietKeeps DEF DeliveryInv
<1>. QED BY <1>2, <1>3

LEMMA SendKeeps ==
  ASSUME DeliveryInv, NEW p \in Processes, Send(p)
  PROVE  DeliveriesKnow' /\ RowsOK'
<1>0. PICK d : d = deliveries[p]
  OBVIOUS
<1>1. /\ d \in Delivery /\ KnowsOK(d) /\ RowOf(p) = <<d.user, d.key>>
      /\ d.user \in Users /\ d.key \in Keys /\ d.left \subseteq Phones
  BY <1>0, OneDelivery DEF DeliveryInv, DeliveriesKnow, RowOf
<1>2. PICK phone \in d.left : Send(p)!(phone)
  BY <1>0 DEF Send
<1>3. PICK rest : rest = [d EXCEPT !.left = @ \ {phone}]
  OBVIOUS
<1>4. PICK done : done = [rest EXCEPT !.ok = TRUE]
  OBVIOUS
<1>5. PICK bad : bad = [rest EXCEPT !.pc = "disable", !.gone = {phone}]
  OBVIOUS
<1>6. /\ rest \in Delivery /\ rest.pc = d.pc /\ rest.user = d.user /\ rest.key = d.key
      /\ rest.ok = d.ok /\ rest.muted = d.muted /\ rest.suppression = d.suppression
  BY <1>1, <1>3 DEF Delivery
<1>7. /\ done \in Delivery /\ done.pc = d.pc /\ done.user = d.user /\ done.key = d.key
      /\ done.ok = TRUE /\ done.muted = d.muted /\ done.suppression = d.suppression
  BY <1>4, <1>6 DEF Delivery
<1>8. /\ bad.pc = "disable" /\ bad.user = d.user /\ bad.key = d.key
      /\ bad.ok = d.ok /\ bad.muted = d.muted /\ bad.suppression = d.suppression
  BY <1>5, <1>6 DEF Delivery
<1>9. /\ d.pc = "send"
      /\ \/ /\ Become(p, NextAttempt(done))
            /\ pushed' = [pushed EXCEPT ![<<d.user, d.key, phone>>] = @ + 1]
         \/ Become(p, NextAttempt(rest)) /\ UNCHANGED pushed
         \/ Become(p, bad) /\ UNCHANGED pushed
      /\ UNCHANGED <<inbox, preferences, phones, faults>>
  <2>1. /\ d.pc = "send"
        /\ \/ /\ Become(p, NextAttempt(done))
              /\ pushed' = [pushed EXCEPT ![<<rest.user, rest.key, phone>>] = @ + 1]
           \/ Become(p, NextAttempt(rest)) /\ UNCHANGED pushed
           \/ Become(p, bad) /\ UNCHANGED pushed
        /\ UNCHANGED <<inbox, preferences, phones, faults>>
    BY <1>0, <1>2, <1>3, <1>4, <1>5, Zenon DEF At
  <2>. QED BY <1>6, <2>1
<1>10. CASE Become(p, NextAttempt(done)) /\ pushed' = [pushed EXCEPT ![<<d.user, d.key, phone>>] = @ + 1]
  <2>1. \A u \in Users, k \in Keys, f \in Phones : pushed[<<u, k, f>>] > 0 => pushed'[<<u, k, f>>] > 0
    BY <1>10 DEF DeliveryInv, DeliveryTypeOK
  <2>2. Reached(d.user, d.key)'
    <3>1. phone \in Phones /\ <<d.user, d.key, phone>> \in Users \X Keys \X Phones
      BY <1>1
    <3>2. pushed'[<<d.user, d.key, phone>>] > 0
      BY <1>10, <3>1 DEF DeliveryInv, DeliveryTypeOK
    <3>. QED BY <3>1, <3>2 DEF Reached
  <2>3. Grow
    BY <1>9, <2>1 DEF Grow, Reached
  <2>4. KnowsOK(d)'
    BY <1>1, <1>9, <2>3, KnowsStays
  <2>5. KnowsOK(done)'
    BY <1>7, <1>9, <2>2, <2>4 DEF KnowsOK
  <2>6. /\ KnowsOK(NextAttempt(done))' /\ NextAttempt(done).pc \in FanningOut
        /\ NextAttempt(done).user = d.user /\ NextAttempt(done).key = d.key
    BY <1>7, <1>9, <2>5, NextAttemptKnows
  <2>7. DeliveriesKnow'
    BY <1>9, <1>10, <2>3, <2>6, PutKnows DEF DeliveryInv
  <2>8. ASSUME NEW u \in Users, NEW k \in Keys PROVE RowOK(u, k)'
    <3>1. CASE u = d.user /\ k = d.key
      <4>1. deliveries'[p] = NextAttempt(done)
        BY <1>10 DEF Become, DeliveryInv, DeliveryTypeOK
      <4>2. BeingTold(u, k)'
        BY <2>6, <3>1, <4>1 DEF BeingTold, RowOf
      <4>3. inbox[<<u, k>>] # NoRow
        BY <1>1, <1>9, <3>1 DEF KnowsOK, FanningOut
      <4>. QED BY <1>9, <4>2, <4>3 DEF RowOK
    <3>2. CASE ~(u = d.user /\ k = d.key)
      <4>1. \A f \in Phones : pushed'[<<u, k, f>>] = pushed[<<u, k, f>>]
        BY <1>10, <3>2 DEF DeliveryInv, DeliveryTypeOK
      <4>2. Reached(u, k)' = Reached(u, k)
        BY <4>1 DEF Reached
      <4>3. StaysWith(p, NextAttempt(done))
        BY <1>0, <1>1, <2>6 DEF StaysWith
      <4>4. RowOK(u, k) /\ (BeingTold(u, k) => BeingTold(u, k)')
        BY <1>10, <4>3, StillBeingTold DEF DeliveryInv, RowsOK
      <4>. QED BY <1>9, <4>2, <4>4 DEF RowOK
    <3>. QED BY <3>1, <3>2
  <2>. QED BY <2>7, <2>8 DEF RowsOK
<1>11. CASE UNCHANGED pushed
  <2>1. KnowsOK(d)'
    BY <1>1, <1>9, <1>11, KnowsStays, NothingGrows
  <2>2. KnowsOK(rest)' /\ KnowsOK(bad)'
    BY <1>6, <1>8, <1>9, <2>1 DEF KnowsOK, FanningOut
  <2>3. /\ KnowsOK(NextAttempt(rest))' /\ NextAttempt(rest).pc \in FanningOut
        /\ NextAttempt(rest).user = d.user /\ NextAttempt(rest).key = d.key
    BY <1>6, <1>9, <2>2, NextAttemptKnows
  <2>4. StaysWith(p, NextAttempt(rest)) /\ StaysWith(p, bad)
    BY <1>0, <1>1, <1>8, <2>3 DEF StaysWith, FanningOut
  <2>6. CASE Become(p, NextAttempt(rest)) \/ Become(p, bad)
    BY <1>9, <1>11, <2>2, <2>3, <2>4, <2>6, QuietKeeps DEF DeliveryInv
  <2>. QED BY <1>9, <1>10, <2>6
<1>. QED BY <1>9, <1>10, <1>11

LEMMA UpdateKeeps ==
  ASSUME DeliveryInv, NEW p \in Processes, UpdateOutcome(p)
  PROVE  DeliveriesKnow' /\ RowsOK'
<1>0. PICK d : d = deliveries[p]
  OBVIOUS
<1>1. /\ d \in Delivery /\ KnowsOK(d) /\ RowOf(p) = <<d.user, d.key>>
      /\ d.user \in Users /\ d.key \in Keys
  BY <1>0, OneDelivery DEF DeliveryInv, DeliveriesKnow, RowOf
<1>2. /\ d.pc = "update" /\ Become(p, Idle)
      /\ inbox' = [inbox EXCEPT ![<<d.user, d.key>>] = d.outcome]
      /\ UNCHANGED <<preferences, phones, pushed, faults>>
  BY <1>0, <1>1 DEF UpdateOutcome, At
<1>3. /\ d.outcome \in {"delivered", "no_devices", "failed"}
      /\ d.outcome = "delivered" => Reached(d.user, d.key)
  BY <1>1, <1>2 DEF KnowsOK
<1>4. inbox'[<<d.user, d.key>>] = d.outcome
  BY <1>1, <1>2 DEF DeliveryInv, DeliveryTypeOK
<1>5. \A u \in Users, k \in Keys :
        ~(u = d.user /\ k = d.key) => inbox'[<<u, k>>] = inbox[<<u, k>>]
  BY <1>2 DEF DeliveryInv, DeliveryTypeOK
<1>6. \A u \in Users, k \in Keys : Reached(u, k)' = Reached(u, k)
  BY <1>2 DEF Reached
<1>7. Grow
  BY <1>3, <1>4, <1>5, <1>6 DEF Grow, NoRow
<1>8. DeliveriesKnow'
  BY <1>2, <1>7, IdleKnows, PutKnows DEF DeliveryInv
<1>9. ASSUME NEW u \in Users, NEW k \in Keys PROVE RowOK(u, k)'
  <2>1. CASE u = d.user /\ k = d.key
    BY <1>3, <1>4, <1>6, <2>1 DEF RowOK, NoRow, Suppressed
  <2>2. CASE ~(u = d.user /\ k = d.key)
    <3>1. RowOK(u, k)
      BY DEF DeliveryInv, RowsOK
    <3>2. BeingTold(u, k) => BeingTold(u, k)'
      <4>1. SUFFICES ASSUME NEW q \in Processes, deliveries[q].pc \in FanningOut,
                            RowOf(q) = <<u, k>>
                     PROVE  BeingTold(u, k)'
        BY DEF BeingTold
      <4>2. q # p
        BY <1>1, <2>2, <4>1
      <4>3. deliveries'[q] = deliveries[q]
        BY <1>2, <4>2 DEF Become, DeliveryInv, DeliveryTypeOK
      <4>. QED BY <4>1, <4>3 DEF BeingTold, RowOf
    <3>. QED BY <1>2, <1>5, <1>6, <2>2, <3>1, <3>2 DEF RowOK
  <2>. QED BY <2>1, <2>2
<1>. QED BY <1>8, <1>9 DEF RowsOK

LEMMA StepKeeps ==
  ASSUME DeliveryInv, NEW p \in Processes, DeliveryStep(p)
  PROVE  DeliveryInv'
<1>1. DeliveryTypeOK'
  BY StepTypeOK DEF DeliveryInv
<1>2. DeliveriesKnow' /\ RowsOK'
  BY CheckKeeps, RecordKeeps, DevicesKeep, SendKeeps, UpdateKeeps DEF DeliveryStep
<1>. QED BY <1>1, <1>2 DEF DeliveryInv

LEMMA CallKeeps ==
  ASSUME DeliveryInv, NEW p \in Processes, NEW u \in Users, NEW k \in Keys, Deliver(p, u, k)
  PROVE  DeliveryInv'
<1>1. DeliveryTypeOK'
  BY DeliverTypeOK DEF DeliveryInv
<1>. QED BY <1>1, DeliverKeeps DEF DeliveryInv

\* A delivery that is given up leaves its row as it is, and the fault is counted.
LEMMA FaultKeeps ==
  ASSUME DeliveryInv, NEW p \in Processes, Become(p, Idle), faults < MaxFaults,
         faults' = faults + 1, UNCHANGED <<inbox, preferences, phones, pushed>>
  PROVE  DeliveryInv'
<1>1. DeliveryTypeOK'
  BY IdleIsADelivery, PutTypeOK DEF DeliveryInv, DeliveryTypeOK
<1>2. DeliveriesKnow'
  BY NothingGrows, IdleKnows, PutKnows DEF DeliveryInv
<1>3. faults' # 0
  BY DEF DeliveryInv, DeliveryTypeOK
<1>4. RowsOK'
  BY <1>3 DEF RowsOK, RowOK, Reached, DeliveryInv
<1>. QED BY <1>1, <1>2, <1>4 DEF DeliveryInv

LEMMA UserKeeps ==
  ASSUME DeliveryInv, NEW u \in Users,
         \/ \E preference \in Preference : SetPreferences(u, preference)
         \/ \E phone \in Phones : Register(u, phone) \/ Unregister(u, phone)
  PROVE  DeliveryInv'
<1>1. DeliveryTypeOK'
  BY UserTypeOK DEF DeliveryInv
<1>2. ASSUME NEW preference \in Preference, SetPreferences(u, preference)
      PROVE  DeliveriesKnow' /\ RowsOK'
  <2>1. UNCHANGED <<inbox, pushed, faults>>
    BY <1>2 DEF SetPreferences
  <2>2. ASSUME NEW p \in Processes
        PROVE  /\ KnowsOK(deliveries[p])' /\ deliveries'[p].pc = deliveries[p].pc
               /\ RowOf(p)' = RowOf(p)
    <3>1. PICK d : d = deliveries[p]
      OBVIOUS
    <3>2. d \in Delivery /\ KnowsOK(d) /\ d.user \in Users
      BY <3>1, OneDelivery DEF DeliveryInv, DeliveriesKnow
    <3>3. PICK new : new = [d EXCEPT !.muted = FALSE]
      OBVIOUS
    <3>4. /\ new.pc = d.pc /\ new.ok = d.ok /\ new.user = d.user /\ new.key = d.key
          /\ new.suppression = d.suppression /\ new.outcome = d.outcome /\ new.muted = FALSE
      BY <3>2, <3>3 DEF Delivery
    <3>5. CASE d.user = u /\ ~Muted(preference, d.key)
      <4>1. deliveries'[p] = new
        BY <1>2, <3>1, <3>3, <3>5 DEF SetPreferences
      <4>2. KnowsOK(new)'
        BY <2>1, <3>2, <3>4 DEF KnowsOK, Reached
      <4>. QED BY <3>1, <3>4, <4>1, <4>2 DEF RowOf
    <3>6. CASE ~(d.user = u /\ ~Muted(preference, d.key))
      <4>1. deliveries'[p] = d
        BY <1>2, <3>1, <3>6 DEF SetPreferences
      <4>2. d.muted => Muted(preferences'[d.user], d.key)
        BY <1>2, <3>2, <3>6 DEF SetPreferences, KnowsOK, DeliveryInv, DeliveryTypeOK
      <4>3. KnowsOK(d)'
        BY <2>1, <3>2, <4>2 DEF KnowsOK, Reached, Muted
      <4>. QED BY <3>1, <4>1, <4>3 DEF RowOf
    <3>. QED BY <3>5, <3>6
  <2>3. \A v \in Users, k \in Keys : BeingTold(v, k) => BeingTold(v, k)'
    BY <2>2 DEF BeingTold
  <2>4. RowsOK'
    BY <2>1, <2>3 DEF RowsOK, RowOK, Reached, DeliveryInv
  <2>. QED BY <2>2, <2>4 DEF DeliveriesKnow
<1>3. ASSUME NEW phone \in Phones, Register(u, phone) \/ Unregister(u, phone)
      PROVE  DeliveriesKnow' /\ RowsOK'
  BY <1>3 DEF Register, Unregister, DeliveryInv, DeliveriesKnow, KnowsOK, RowsOK, RowOK,
              Reached, BeingTold, RowOf
<1>. QED BY <1>1, <1>2, <1>3 DEF DeliveryInv

LEMMA InitKeeps == DeliveryInit => DeliveryInv
<1>. SUFFICES ASSUME DeliveryInit PROVE DeliveriesKnow /\ RowsOK
  BY InitTypeOK DEF DeliveryInv
<1>1. KnowsOK(Idle)
  BY DEF KnowsOK, Idle, FanningOut
<1>2. \A p \in Processes : deliveries[p] = Idle
  BY DEF DeliveryInit
<1>3. DeliveriesKnow
  BY <1>1, <1>2 DEF DeliveriesKnow
<1>4. ASSUME NEW u \in Users, NEW k \in Keys
      PROVE  ~Reached(u, k) /\ inbox[<<u, k>>] = NoRow
  <2>1. \A f \in Phones : pushed[<<u, k, f>>] = 0
    BY DEF DeliveryInit
  <2>2. inbox[<<u, k>>] = NoRow
    BY DEF DeliveryInit
  <2>3. \A f \in Phones : ~(pushed[<<u, k, f>>] > 0)
    BY <2>1
  <2>. QED BY <2>2, <2>3, Zenon DEF Reached
<1>5. RowsOK
  BY <1>4 DEF RowsOK, RowOK, NoRow, Suppressed
<1>. QED BY <1>3, <1>5

LEMMA StutterKeeps == DeliveryInv /\ UNCHANGED deliveryVars => DeliveryInv'
  BY DEF deliveryVars, DeliveryInv, DeliveryTypeOK, DeliveriesKnow, KnowsOK, RowsOK, RowOK,
         Reached, BeingTold, RowOf

\* The invariant gives what the runs check.
LEMMA InvGives ==
  ASSUME DeliveryInv
  PROVE  InboxIsTrue /\ MuteIsHeeded
<1>1. ASSUME NEW u \in Users, NEW k \in Keys
      PROVE  /\ Reached(u, k) => inbox[<<u, k>>] # NoRow
             /\ faults = 0 /\ ~InFlight(u, k) =>
                  /\ inbox[<<u, k>>] = "delivered" => Reached(u, k)
                  /\ inbox[<<u, k>>] \in Suppressed => ~Reached(u, k)
  <2>1. RowOK(u, k)
    BY DEF DeliveryInv, RowsOK
  <2>2. BeingTold(u, k) => InFlight(u, k)
    BY DEF BeingTold, InFlight, FanningOut, At
  <2>. QED BY <2>1, <2>2 DEF RowOK
<1>2. InboxIsTrue
  BY <1>1 DEF InboxIsTrue
<1>3. MuteIsHeeded
  BY DEF MuteIsHeeded, DeliveryInv, DeliveriesKnow, KnowsOK, FanningOut
<1>. QED BY <1>2, <1>3

LEMMA Invariant == DeliverySpec => []DeliveryInv
<1>1. DeliveryInit => DeliveryInv
  BY InitKeeps
<1>2. ASSUME DeliveryInv, [DeliveryNext]_deliveryVars PROVE DeliveryInv'
  <2>1. CASE UNCHANGED deliveryVars
    BY <1>2, <2>1, StutterKeeps
  <2>2. ASSUME NEW p \in Processes, DeliveryStep(p) PROVE DeliveryInv'
    BY <1>2, <2>2, StepKeeps
  <2>3. ASSUME NEW p \in Processes, DeliverThrows(p) PROVE DeliveryInv'
    BY <1>2, <2>3, FaultKeeps DEF DeliverThrows
  <2>4. ASSUME NEW p \in Processes, NEW u \in Users, NEW k \in Keys,
               SendChat(p, u, k) \/ RingCallee(p, u, k)
        PROVE  DeliveryInv'
    BY <1>2, <2>4, CallKeeps DEF SendChat, RingCallee
  <2>5. ASSUME NEW u \in Users,
               \/ \E preference \in Preference : SetPreferences(u, preference)
               \/ \E phone \in Phones : Register(u, phone) \/ Unregister(u, phone)
        PROVE  DeliveryInv'
    BY <1>2, <2>5, UserKeeps
  <2>. QED BY <1>2, <2>1, <2>2, <2>3, <2>4, <2>5 DEF DeliveryNext
<1>. QED BY <1>1, <1>2, PTL DEF DeliverySpec

-----------------------------------------------------------------------------
(* The theorems.                                                           *)

\* Every variable stays in its type.
THEOREM DeliveriesTyped == DeliverySpec => []DeliveryTypeOK
<1>1. DeliveryInv => DeliveryTypeOK
  BY DEF DeliveryInv
<1>. QED BY <1>1, Invariant, PTL

\* No phone lights up for what the inbox does not know, and an outcome at rest is
\* what happened.
THEOREM InboxStaysTrue == DeliverySpec => []InboxIsTrue
  BY Invariant, InvGives, PTL

\* What was muted before a delivery began and still is never lights up a phone.
THEOREM MutesAreHeeded == DeliverySpec => []MuteIsHeeded
  BY Invariant, InvGives, PTL
=============================================================================
