------------------------ MODULE NotificationDelivery ------------------------
(***************************************************************************)
(* services/notificationDelivery.service.ts: deliver() and its fan-out to  *)
(* devices, over the inbox (yaysNotification.service.ts), the preferences  *)
(* (notificationPreference.service.ts) and the push tokens                 *)
(* (pushDevice.service.ts).                                                *)
(*                                                                         *)
(* Processes are calls of deliver() in flight in the workers; pc names the *)
(* next await.  A key is the dedupe key of an event; deliveries without    *)
(* one (test pushes) share no state with others and are left out, as are   *)
(* the texts, deep links and the read flags of the inbox.  A preference is *)
(* reduced to what suppressionFor tells apart: whether the conversations   *)
(* are muted, and whether the category is off or the hour quiet (both are  *)
(* skipped by critical events).  A phone is one (user, deviceId) row.      *)
(***************************************************************************)
EXTENDS Integers, FiniteSetsExt

CONSTANTS
  Processes,
  Users,
  Keys,          \* dedupe keys
  Conversations, \* the keys of chat messages, which carry a conversationId
  Criticals,     \* the keys of critical events: incoming calls
  Phones,        \* deviceIds
  MaxFaults      \* bound on the database errors and worker deaths

ASSUME PopulationAssumption == Users # {} /\ Keys # {}
ASSUME KeysAssumption == Conversations \subseteq Keys /\ Criticals \subseteq Keys
ASSUME FaultsAssumption == MaxFaults \in Nat

VARIABLES
  inbox,       \* the outcome in the inbox row of each user and key
  preferences, \* each user's switches
  phones,      \* each user's active push devices
  deliveries,  \* the call of deliver() each process is in
  pushed,      \* history: pushes that reached each phone, by user and key
  faults       \* database errors and deaths so far

deliveryVars == <<inbox, preferences, phones, deliveries, pushed, faults>>

-----------------------------------------------------------------------------
NoRow == "none"
Suppressed == {"muted", "switched_off"}   \* preference_off and quiet_hours
Outcomes == {"delivered", "no_devices", "failed"} \cup Suppressed

Preference == [ muted : BOOLEAN, off : BOOLEAN ]

Delivery == [ pc : {"idle", "duplicate", "preferences", "record", "devices",
                    "send", "disable", "update"},
              user : Users, key : Keys,
              suppression : Suppressed \cup {NoRow},
              outcome : Outcomes \cup {NoRow},  \* to be written by "update"
              left : SUBSET Phones,             \* devices not tried yet
              gone : SUBSET Phones,             \* the token that is to be disabled
              ok : BOOLEAN,                     \* an attempt succeeded
              muted : BOOLEAN ]                 \* history: muted ever since it began

Idle == [ pc |-> "idle", user |-> CHOOSE u \in Users : TRUE,
          key |-> CHOOSE k \in Keys : TRUE, suppression |-> NoRow,
          outcome |-> NoRow, left |-> {}, gone |-> {}, ok |-> FALSE,
          muted |-> FALSE ]

DeliveryTypeOK ==
  /\ inbox \in [Users \X Keys -> Outcomes \cup {NoRow}]
  /\ preferences \in [Users -> Preference]
  /\ phones \in [Users -> SUBSET Phones]
  /\ deliveries \in [Processes -> Delivery]
  /\ pushed \in [Users \X Keys \X Phones -> Nat]
  /\ faults \in 0..MaxFaults

DeliveryInit ==
  /\ inbox = [r \in Users \X Keys |-> NoRow]
  /\ preferences = [u \in Users |-> [muted |-> FALSE, off |-> FALSE]]
  /\ phones = [u \in Users |-> Phones]
  /\ deliveries = [p \in Processes |-> Idle]
  /\ pushed = [r \in Users \X Keys \X Phones |-> 0]
  /\ faults = 0

(* A definition whose name ends in _slip is a mistake this code could have *)
(* made in the definition that follows it; no specification uses it.       *)

\* A conversation the user muted.
Muted(preference, k) == k \in Conversations /\ preference.muted

\* Which gate stops a notification: mute outranks critical, critical the rest.
\* (Slip: the mute list is not consulted.)
suppressionFor_slip(preference, k) ==
  IF k \notin Criticals /\ preference.off THEN "switched_off" ELSE NoRow
suppressionFor(preference, k) ==
  CASE Muted(preference, k) -> "muted"
    [] ~Muted(preference, k) /\ k \notin Criticals /\ preference.off -> "switched_off"
    [] OTHER -> NoRow

\* isDuplicate: a row of the user has the key.
isDuplicate(u, k) == inbox[<<u, k>>] # NoRow

\* The outcome once the devices have been tried.  (Slip: an attempt is enough.)
FanOutOutcome_slip(ok) == "delivered"
FanOutOutcome(ok) == IF ok THEN "delivered" ELSE "failed"

At(p, pc) == deliveries[p].pc = pc
Become(p, delivery) == deliveries' = [deliveries EXCEPT ![p] = delivery]
Goto(p, pc) == Become(p, [deliveries[p] EXCEPT !.pc = pc])
RowOf(p) == <<deliveries[p].user, deliveries[p].key>>

-----------------------------------------------------------------------------
(* deliver().                                                              *)

\* The call; its first await is isDuplicate.
Deliver(p, u, k) ==
  /\ deliveries[p] = Idle
  /\ Become(p, [Idle EXCEPT !.pc = "duplicate", !.user = u, !.key = k,
                            !.muted = Muted(preferences[u], k)])
  /\ UNCHANGED <<inbox, preferences, phones, pushed, faults>>

DuplicateCheck(p) ==
  /\ At(p, "duplicate")
  /\ IF isDuplicate(deliveries[p].user, deliveries[p].key)
     THEN Become(p, Idle)
     ELSE Goto(p, "preferences")
  /\ UNCHANGED <<inbox, preferences, phones, pushed, faults>>

ReadPreferences(p) ==
  /\ At(p, "preferences")
  /\ LET d == deliveries[p] IN
       Become(p, [d EXCEPT !.pc = "record",
                           !.suppression = suppressionFor(preferences[d.user], d.key)])
  /\ UNCHANGED <<inbox, preferences, phones, pushed, faults>>

\* What a call does once it holds an inbox row, its own or the winner's.
AfterRecord(p) ==
  IF deliveries[p].suppression = NoRow THEN Goto(p, "devices") ELSE Become(p, Idle)

\* recordInbox wins the unique index (userLower, dedupeKey).
Record(p) ==
  /\ At(p, "record")
  /\ inbox[RowOf(p)] = NoRow
  /\ LET s == deliveries[p].suppression IN
       inbox' = [inbox EXCEPT ![RowOf(p)] = IF s = NoRow THEN "delivered" ELSE s]
  /\ AfterRecord(p)
  /\ UNCHANGED <<preferences, phones, pushed, faults>>

\* recordInbox loses: findOne returns the row that won, and the call goes on.
LoseRecord(p) ==
  /\ At(p, "record")
  /\ inbox[RowOf(p)] # NoRow
  /\ AfterRecord(p)
  /\ UNCHANGED <<inbox, preferences, phones, pushed, faults>>

ReadDevices(p) ==
  /\ At(p, "devices")
  /\ LET d == deliveries[p]  active == phones[d.user] IN
       Become(p, IF active = {}
                 THEN [d EXCEPT !.pc = "update", !.outcome = "no_devices"]
                 ELSE [d EXCEPT !.pc = "send", !.left = active])
  /\ UNCHANGED <<inbox, preferences, phones, pushed, faults>>

\* The next attempt of the fan-out, or the end of it.
NextAttempt(d) ==
  IF d.left # {} THEN [d EXCEPT !.pc = "send"]
  ELSE [d EXCEPT !.pc = "update", !.outcome = FanOutOutcome(d.ok)]

\* The transport took the push, refused it, or said that the token is gone.
Send(p) ==
  \E phone \in deliveries[p].left :
    /\ At(p, "send")
    /\ LET d == [deliveries[p] EXCEPT !.left = @ \ {phone}] IN
         \/ /\ Become(p, NextAttempt([d EXCEPT !.ok = TRUE]))
            /\ pushed' = [pushed EXCEPT ![<<d.user, d.key, phone>>] = @ + 1]
         \/ Become(p, NextAttempt(d)) /\ UNCHANGED pushed
         \/ /\ Become(p, [d EXCEPT !.pc = "disable", !.gone = {phone}])
            /\ UNCHANGED pushed
    /\ UNCHANGED <<inbox, preferences, phones, faults>>

\* disable() matches the device, not the token that was tried.
Disable(p) ==
  /\ At(p, "disable")
  /\ LET d == deliveries[p] IN
       /\ phones' = [phones EXCEPT ![d.user] = @ \ d.gone]
       /\ Become(p, NextAttempt([d EXCEPT !.gone = {}]))
  /\ UNCHANGED <<inbox, preferences, pushed, faults>>

UpdateOutcome(p) ==
  /\ At(p, "update")
  /\ inbox' = [inbox EXCEPT ![RowOf(p)] = deliveries[p].outcome]
  /\ Become(p, Idle)
  /\ UNCHANGED <<preferences, phones, pushed, faults>>

DeliveryStep(p) ==
  \/ DuplicateCheck(p) \/ ReadPreferences(p) \/ Record(p) \/ LoseRecord(p)
  \/ ReadDevices(p) \/ Send(p) \/ Disable(p) \/ UpdateOutcome(p)

\* A database call of deliver() throws: its callers catch and go on.
DeliverThrows(p) ==
  /\ deliveries[p].pc \in {"duplicate", "preferences", "record", "devices", "update"}
  /\ faults < MaxFaults
  /\ faults' = faults + 1
  /\ Become(p, Idle)
  /\ UNCHANGED <<inbox, preferences, phones, pushed>>

-----------------------------------------------------------------------------
(* The user's side.                                                        *)

\* update(), muteConversation() and unmuteConversation().
SetPreferences(u, preference) ==
  /\ preference # preferences[u]
  /\ preferences' = [preferences EXCEPT ![u] = preference]
  /\ deliveries' = [p \in Processes |->
       IF deliveries[p].user = u /\ ~Muted(preference, deliveries[p].key)
       THEN [deliveries[p] EXCEPT !.muted = FALSE] ELSE deliveries[p]]
  /\ UNCHANGED <<inbox, phones, pushed, faults>>

\* A phone registers its token, again or for the first time.
Register(u, phone) ==
  /\ phone \notin phones[u]
  /\ phones' = [phones EXCEPT ![u] = @ \cup {phone}]
  /\ UNCHANGED <<inbox, preferences, deliveries, pushed, faults>>

\* It signs out, or another account registers its token.
Unregister(u, phone) ==
  /\ phone \in phones[u]
  /\ phones' = [phones EXCEPT ![u] = @ \ {phone}]
  /\ UNCHANGED <<inbox, preferences, deliveries, pushed, faults>>

\* A message is sent, or sent again by a client that lost the answer: the second
\* call finds the message by its clientId and delivers the same messageId.
SendChat(p, u, k) == k \in Conversations /\ Deliver(p, u, k)

\* A call rings.
RingCallee(p, u, k) == k \in Criticals /\ Deliver(p, u, k)

DeliveryNext ==
  \/ \E p \in Processes : DeliveryStep(p) \/ DeliverThrows(p)
  \/ \E p \in Processes, u \in Users, k \in Keys : SendChat(p, u, k) \/ RingCallee(p, u, k)
  \/ \E u \in Users, preference \in Preference : SetPreferences(u, preference)
  \/ \E u \in Users, phone \in Phones : Register(u, phone) \/ Unregister(u, phone)

DeliverySpec == DeliveryInit /\ [][DeliveryNext]_deliveryVars

-----------------------------------------------------------------------------
(* Properties.                                                             *)

InFlight(u, k) == \E p \in Processes : ~At(p, "idle") /\ RowOf(p) = <<u, k>>
Reached(u, k) == \E phone \in Phones : pushed[<<u, k, phone>>] > 0

\* No phone lights up for an event the inbox does not know; and when no delivery
\* of it is in flight and nothing failed, an outcome "delivered" means that a
\* push went out and a suppressed one that none did, whichever of several racing
\* deliveries wrote the row and whatever the settings were meanwhile
\* (notificationDelivery.service.ts:101, 185).
InboxIsTrue ==
  \A u \in Users, k \in Keys :
    /\ Reached(u, k) => inbox[<<u, k>>] # NoRow
    /\ faults = 0 /\ ~InFlight(u, k) =>
         /\ inbox[<<u, k>>] = "delivered" => Reached(u, k)
         /\ inbox[<<u, k>>] \in Suppressed => ~Reached(u, k)

\* A conversation muted before a delivery began, and still muted, never lights up
\* a phone through it (notificationDelivery.service.ts:43-49).
MuteIsHeeded ==
  \A p \in Processes :
    deliveries[p].pc \in {"devices", "send", "disable", "update"} => ~deliveries[p].muted

\* "One push per message per recipient, however many times the send retries"
\* (notificationDelivery.service.ts:276), on each phone of the recipient.
OnePushPerRecipient ==
  \A u \in Users, k \in Conversations, phone \in Phones : pushed[<<u, k, phone>>] <= 1
=============================================================================
