------------------------------ MODULE Broadcast ------------------------------
(***************************************************************************)
(* What the announcements of a community promise, as one that drafts and   *)
(* one that reads them see it (communityDirectory.service.ts): each is     *)
(* published once, from a state that may be published; it goes out while   *)
(* its broadcast is on the air, to its audience; and a broadcast that is   *)
(* over, or was cut short by a death, is never on the air again.  Pages,   *)
(* sweeps and deliver() do not show.  Announcements is shown to implement  *)
(* this module.                                                            *)
(***************************************************************************)
CONSTANTS
  Announcements,
  Audience       \* the users that are to be told

VARIABLES
  status,        \* of each announcement
  onAir,         \* the announcements that are being told
  told           \* who was told what

vars == <<status, onAir, told>>

Init ==
  /\ status = [a \in Announcements |-> "absent"]
  /\ onAir = {}
  /\ told = {}

\* A moderated one waits to be approved, a scheduled one for its time.
Draft(a) ==
  /\ status[a] = "absent"
  /\ \E first \in {"pending_approval", "scheduled"} : status' = [status EXCEPT ![a] = first]
  /\ UNCHANGED <<onAir, told>>

Review(a) ==
  /\ status[a] = "pending_approval"
  /\ \E next \in {"scheduled", "rejected"} : status' = [status EXCEPT ![a] = next]
  /\ UNCHANGED <<onAir, told>>

Publish(a) ==
  /\ status[a] \in {"absent", "pending_approval", "scheduled"}
  /\ status' = [status EXCEPT ![a] = "published"]
  /\ onAir' = onAir \cup {a}
  /\ UNCHANGED told

Tell(u, a) ==
  /\ a \in onAir
  /\ <<u, a>> \notin told
  /\ told' = told \cup {<<u, a>>}
  /\ UNCHANGED <<status, onAir>>

Close(a) ==
  /\ a \in onAir
  /\ onAir' = onAir \ {a}
  /\ UNCHANGED <<status, told>>

Next ==
  \/ \E a \in Announcements : Draft(a) \/ Review(a) \/ Publish(a) \/ Close(a)
  \/ \E a \in Announcements, u \in Audience : Tell(u, a)

Spec == Init /\ [][Next]_vars
=============================================================================
