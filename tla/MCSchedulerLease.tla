-------------------------- MODULE MCSchedulerLease --------------------------
(* Two workers that die, lose their lease and reconnect, and one slot of a job. *)
EXTENDS SchedulerLease

CONSTANTS w1, w2
=============================================================================
