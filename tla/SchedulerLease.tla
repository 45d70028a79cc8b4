--------------------------- MODULE SchedulerLease ---------------------------
(***************************************************************************)
(* The election of the worker that registers the cron jobs (index.ts       *)
(* 396-451 and 1347-1351) and the lock each job takes for its slot         *)
(* (helpers/scheduleExactlyOnce.ts).                                       *)
(*                                                                         *)
(* Time is abstract: a lease or a slot's key may expire whenever it is     *)
(* held, and the lease of a worker that renews it only by a lapse (a pause *)
(* longer than the lease, Redis away).  The renewal (get, then pExpire)    *)
(* moves an expiry time and nothing else, and has no action of its own.    *)
(* Every connection to Redis starts a chain of election attempts; a worker *)
(* that won keeps its jobs whatever becomes of its lease.                  *)
(***************************************************************************)
EXTENDS Integers, FiniteSets

CONSTANTS
  Workers,
  MaxSlot,       \* bound on the slots (minutes, days, ...) of the job
  MaxCrashes,    \* bounds on deaths, ...
  MaxReconnects, \* ... on connections made again, ...
  MaxLost,       \* ... on answers of Redis that are lost, ...
  MaxExpiries,   \* ... on slot keys that expire, ...
  MaxLapses      \* ... and on leases that lapse or are deleted by another worker

ASSUME BoundsAssumption ==
  {MaxSlot, MaxCrashes, MaxReconnects, MaxLost, MaxExpiries, MaxLapses} \subseteq Nat

VARIABLES
  lease,    \* the ID at LEADER_KEY
  up,       \* the workers that run
  leaving,  \* those that got SIGINT or SIGTERM
  saw,      \* those of them whose get found their own ID, and whose del is to come
  attempts, \* election SETs of each worker on their way
  timers,   \* its timers that will try again
  crons,    \* its registrations of the jobs
  slot,     \* the current slot
  fired,    \* the last slot each worker fired in
  jobs,     \* its SETs of slot keys on their way
  keys,     \* the slot keys that are held
  runs,     \* history: runs of each slot
  expired,  \* history: expiries of its key
  counts    \* crashes, reconnects, lost answers and lapses so far

election == <<lease, attempts, timers, crons>>
process == <<up, leaving, saw>>
slots == <<slot, fired, jobs, keys, runs, expired>>
vars == <<election, process, slots, counts>>

-----------------------------------------------------------------------------
Slots == 1..MaxSlot
Free == "free"
Gone == "gone"   \* the ID of a worker that is dead: its pid is not used again

ASSUME NamesAssumption == Free \notin Workers /\ Gone \notin Workers

SchedulerTypeOK ==
  /\ lease \in Workers \cup {Free, Gone}
  /\ up \subseteq Workers /\ leaving \subseteq up /\ saw \subseteq leaving
  /\ attempts \in [Workers -> Nat] /\ timers \in [Workers -> Nat]
  /\ crons \in [Workers -> Nat]
  /\ slot \in 0..MaxSlot /\ fired \in [Workers -> 0..MaxSlot]
  /\ jobs \in [Workers \X Slots -> Nat]
  /\ keys \subseteq Slots
  /\ runs \in [Slots -> Nat] /\ expired \in [Slots -> 0..MaxExpiries]
  /\ counts \in [crashes : 0..MaxCrashes, reconnects : 0..MaxReconnects,
                 lost : 0..MaxLost, lapses : 0..MaxLapses]

Init ==
  /\ lease = Free
  /\ up = Workers /\ leaving = {} /\ saw = {}
  /\ attempts = [w \in Workers |-> 1]
  /\ timers = [w \in Workers |-> 0]
  /\ crons = [w \in Workers |-> 0]
  /\ slot = 0 /\ fired = [w \in Workers |-> 0]
  /\ jobs = [e \in Workers \X Slots |-> 0]
  /\ keys = {}
  /\ runs = [s \in Slots |-> 0] /\ expired = [s \in Slots |-> 0]
  /\ counts = [crashes |-> 0, reconnects |-> 0, lost |-> 0, lapses |-> 0]

Live == up \ leaving
Scheduling == {w \in Live : crons[w] > 0}

-----------------------------------------------------------------------------
(* electLeader().                                                          *)

\* The ID of a worker: host and pid.  (Slip: the host.)
IdOf_slip(w) == "host"
IdOf(w) == w

\* A SET NX gets through to the lease.  (Slip: SET without NX.)
Taken_slip == FALSE
Taken == lease # Free

\* The SET is answered: the worker leads and registers the jobs, or tries later.
Elect(w) ==
  /\ w \in up /\ attempts[w] > 0
  /\ attempts' = [attempts EXCEPT ![w] = @ - 1]
  /\ IF Taken
     THEN timers' = [timers EXCEPT ![w] = @ + 1] /\ UNCHANGED <<lease, crons>>
     ELSE /\ lease' = IdOf(w) /\ crons' = [crons EXCEPT ![w] = @ + 1]
          /\ UNCHANGED timers
  /\ UNCHANGED <<process, slots, counts>>

\* The call throws, with or without its SET having worked: it tries later.
LoseAnswer(w) ==
  /\ w \in up /\ attempts[w] > 0
  /\ counts.lost < MaxLost
  /\ counts' = [counts EXCEPT !.lost = @ + 1]
  /\ attempts' = [attempts EXCEPT ![w] = @ - 1]
  /\ timers' = [timers EXCEPT ![w] = @ + 1]
  /\ lease' \in {lease, IF Taken THEN lease ELSE IdOf(w)}
  /\ UNCHANGED <<crons, process, slots>>

Retry(w) ==
  /\ w \in up /\ timers[w] > 0
  /\ timers' = [timers EXCEPT ![w] = @ - 1]
  /\ attempts' = [attempts EXCEPT ![w] = @ + 1]
  /\ UNCHANGED <<lease, crons, process, slots, counts>>

\* Redis is back: "connect" starts one more chain of attempts.
Reconnect(w) ==
  /\ w \in up
  /\ counts.reconnects < MaxReconnects
  /\ counts' = [counts EXCEPT !.reconnects = @ + 1]
  /\ attempts' = [attempts EXCEPT ![w] = @ + 1]
  /\ UNCHANGED <<lease, timers, crons, process, slots>>

\* The lease is held, and by nobody who renews it.  (Slip: it has no expiry.)
Unrenewed_slip == FALSE
Unrenewed == lease \notin Scheduling \cup {Free}

LeaseExpires ==
  /\ Unrenewed
  /\ lease' = Free
  /\ UNCHANGED <<attempts, timers, crons, process, slots, counts>>

\* The lease of the leader lapses, which it is not told.
LeaseLapses ==
  /\ lease \in Scheduling
  /\ counts.lapses < MaxLapses
  /\ counts' = [counts EXCEPT !.lapses = @ + 1]
  /\ lease' = Free
  /\ UNCHANGED <<attempts, timers, crons, process, slots>>

\* A signal to a worker that led: release() looks at the lease ...
ReleaseRead(w) ==
  /\ w \in Scheduling
  /\ leaving' = leaving \cup {w}
  /\ saw' = IF lease = IdOf(w) THEN saw \cup {w} ELSE saw
  /\ UNCHANGED <<election, up, slots, counts>>

\* ... and deletes it, whoever's it is by then.
ReleaseDelete(w) ==
  /\ w \in saw
  /\ saw' = saw \ {w}
  /\ lease' = Free
  /\ IF lease \in Scheduling
     THEN counts.lapses < MaxLapses /\ counts' = [counts EXCEPT !.lapses = @ + 1]
     ELSE UNCHANGED counts
  /\ UNCHANGED <<attempts, timers, crons, up, leaving, slots>>

-----------------------------------------------------------------------------
(* Workers come and go.                                                    *)

Vanish(w) ==
  /\ up' = up \ {w} /\ leaving' = leaving \ {w} /\ saw' = saw \ {w}
  /\ attempts' = [attempts EXCEPT ![w] = 0]
  /\ timers' = [timers EXCEPT ![w] = 0]
  /\ crons' = [crons EXCEPT ![w] = 0]
  /\ jobs' = [e \in DOMAIN jobs |-> IF e[1] = w THEN 0 ELSE jobs[e]]
  /\ lease' = IF lease = IdOf(w) THEN Gone ELSE lease
  /\ UNCHANGED <<slot, fired, keys, runs, expired>>

Exit(w) == w \in leaving /\ Vanish(w) /\ UNCHANGED counts

Crash(w) ==
  /\ w \in up
  /\ counts.crashes < MaxCrashes
  /\ counts' = [counts EXCEPT !.crashes = @ + 1]
  /\ Vanish(w)

\* The process manager starts it again; it connects to Redis.
Start(w) ==
  /\ w \in Workers \ up
  /\ up' = up \cup {w}
  /\ attempts' = [attempts EXCEPT ![w] = 1]
  /\ UNCHANGED <<lease, timers, crons, leaving, saw, slots, counts>>

-----------------------------------------------------------------------------
(* scheduleExactlyOnce().                                                  *)

NextSlot ==
  /\ slot < MaxSlot
  /\ slot' = slot + 1
  /\ UNCHANGED <<election, process, fired, jobs, keys, runs, expired, counts>>

\* Every registration of the job fires once in a slot and sends its SET NX.
Fire(w) ==
  /\ w \in up /\ crons[w] > 0
  /\ fired[w] < slot
  /\ fired' = [fired EXCEPT ![w] = slot]
  /\ jobs' = [jobs EXCEPT ![<<w, slot>>] = @ + crons[w]]
  /\ UNCHANGED <<election, process, slot, keys, runs, expired, counts>>

\* The slot is locked by now.  (Slip: nobody looks.)
Locked_slip(s) == FALSE
Locked(s) == s \in keys

\* The SET reaches Redis, at once or after an outage; the winner runs the job.
RunJob(w, s) ==
  /\ w \in up /\ jobs[<<w, s>>] > 0
  /\ jobs' = [jobs EXCEPT ![<<w, s>>] = @ - 1]
  /\ IF Locked(s) THEN UNCHANGED <<keys, runs>>
     ELSE /\ keys' = keys \cup {s}
          /\ runs' = [runs EXCEPT ![s] = @ + 1]
  /\ UNCHANGED <<election, process, slot, fired, expired, counts>>

KeyExpires(s) ==
  /\ s \in keys
  /\ expired[s] < MaxExpiries
  /\ keys' = keys \ {s}
  /\ expired' = [expired EXCEPT ![s] = @ + 1]
  /\ UNCHANGED <<election, process, slot, fired, jobs, runs, counts>>

Next ==
  \/ \E w \in Workers :
       \/ Elect(w) \/ LoseAnswer(w) \/ Retry(w) \/ Reconnect(w)
       \/ ReleaseRead(w) \/ ReleaseDelete(w)
       \/ Exit(w) \/ Crash(w) \/ Start(w) \/ Fire(w)
       \/ \E s \in Slots : RunJob(w, s)
  \/ LeaseExpires \/ LeaseLapses \/ NextSlot
  \/ \E s \in Slots : KeyExpires(s)

\* Redis answers, timers go off, a lease nobody renews expires, a signalled worker
\* exits and the process manager starts it again.
Fairness ==
  /\ \A w \in Workers : WF_vars(Elect(w)) /\ WF_vars(Retry(w)) /\ WF_vars(Exit(w))
                        /\ WF_vars(Start(w))
  /\ WF_vars(LeaseExpires)

Spec == Init /\ [][Next]_vars /\ Fairness

-----------------------------------------------------------------------------
(* Properties.                                                             *)

\* A slot of a job runs again only after the lock of its last run has expired, with
\* any number of leaders, registrations, deaths and late SETs
\* (scheduleExactlyOnce.ts:26, index.ts:464 "only once per minute").
OneRunPerLock == \A s \in Slots : runs[s] <= 1 + expired[s]

\* While no live leader has lost its lease, one worker schedules, and registered the
\* jobs once, though workers reconnect, lose answers, exit, die and come back
\* (index.ts:441 "singleton cron jobs").
SingleScheduler ==
  counts.lapses = 0 =>
    /\ Cardinality(Scheduling) <= 1
    /\ \A w \in Scheduling : crons[w] = 1

\* When no worker schedules one will, whatever was lost and whoever died
\* (index.ts:445-449).
SomebodySchedules == (Scheduling = {}) ~> (Scheduling # {})
=============================================================================
