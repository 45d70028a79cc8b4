---------------------------- MODULE CallLifecycle ----------------------------
(***************************************************************************)
(* What the calls component promises about one history row, whatever the   *)
(* interleaving of devices, timers, workers and sweeps: the lifecycle of   *)
(* data/yaysCalls.ts ("ringing -> active -> ended", with four other        *)
(* outcomes) as services/yaysCall.service.ts enforces it.  YaysCall is     *)
(* shown to implement this module.                                         *)
(***************************************************************************)
CONSTANT CallIds

VARIABLES
  status,     \* "none" until the row exists, then the CallStatus of the row
  connected   \* whether connectedAt is set

vars == <<status, connected>>

Live == {"ringing", "active"}
Final == {"ended", "declined", "missed", "cancelled", "failed"}

TypeOK ==
  /\ status \in [CallIds -> {"none"} \cup Live \cup Final]
  /\ connected \in [CallIds -> BOOLEAN]

Init ==
  /\ status = [c \in CallIds |-> "none"]
  /\ connected = [c \in CallIds |-> FALSE]

\* The row is inserted once, ringing.
Place(c) ==
  /\ status[c] = "none"
  /\ status' = [status EXCEPT ![c] = "ringing"]
  /\ UNCHANGED connected

\* Only a ringing call can be answered.
Answer(c) ==
  /\ status[c] = "ringing"
  /\ status' = [status EXCEPT ![c] = "active"]
  /\ connected' = [connected EXCEPT ![c] = TRUE]

\* A live call gets one outcome; "ended" is kept for calls that connected.
Close(c, outcome) ==
  /\ status[c] \in Live
  /\ outcome = "ended" => connected[c]
  /\ status' = [status EXCEPT ![c] = outcome]
  /\ UNCHANGED connected

Next ==
  \E c \in CallIds :
    \/ Place(c)
    \/ Answer(c)
    \/ \E outcome \in Final : Close(c, outcome)

Spec == Init /\ [][Next]_vars
=============================================================================
