------------------------ MODULE SchedulerLease_proofs ------------------------
(***************************************************************************)
(* Theorems about SchedulerLease, for any number of workers, slots,        *)
(* deaths, reconnections, lost answers, expiries and lapses.               *)
(***************************************************************************)
EXTENDS SchedulerLease, FiniteSetTheorems, TLAPS

-----------------------------------------------------------------------------
(* The inductive invariants.                                               *)

\* A run of a slot sets its key, and only an expiry makes way for another.
RunsAreLocked ==
  \A s \in Slots : runs[s] = expired[s] + (IF s \in keys THEN 1 ELSE 0)

\* Who schedules holds the lease unless one has lapsed, and registered once; a
\* worker that does not run has registered nothing.
LeaseIsTheLeaders ==
  /\ \A w \in Workers \ up : crons[w] = 0
  /\ counts.lapses = 0 => \A w \in Scheduling : lease = w /\ crons[w] = 1

IInv == SchedulerTypeOK /\ RunsAreLocked /\ LeaseIsTheLeaders

USE BoundsAssumption

-----------------------------------------------------------------------------
(* Type correctness.                                                       *)

LEMMA InitTypeOK == Init => SchedulerTypeOK
  BY DEF Init, SchedulerTypeOK

LEMMA ElectionTypeOK ==
  ASSUME SchedulerTypeOK, NEW w \in Workers,
         Elect(w) \/ LoseAnswer(w) \/ Retry(w) \/ Reconnect(w)
  PROVE  SchedulerTypeOK'
<1>. USE DEF SchedulerTypeOK, process, slots, IdOf, Taken
<1>1. CASE Elect(w)
  BY <1>1 DEF Elect
<1>2. CASE LoseAnswer(w)
  BY <1>2 DEF LoseAnswer
<1>3. CASE Retry(w)
  BY <1>3 DEF Retry
<1>4. CASE Reconnect(w)
  BY <1>4 DEF Reconnect
<1>. QED BY <1>1, <1>2, <1>3, <1>4

LEMMA LeaseTypeOK ==
  ASSUME SchedulerTypeOK,
         \/ LeaseExpires \/ LeaseLapses
         \/ \E w \in Workers : ReleaseRead(w) \/ ReleaseDelete(w)
  PROVE  SchedulerTypeOK'
<1>. USE DEF SchedulerTypeOK, process, slots, election, Scheduling, Live
<1>1. CASE LeaseExpires
  BY <1>1 DEF LeaseExpires
<1>2. CASE LeaseLapses
  BY <1>2 DEF LeaseLapses
<1>3. ASSUME NEW w \in Workers, ReleaseRead(w) PROVE SchedulerTypeOK'
  BY <1>3 DEF ReleaseRead
<1>4. ASSUME NEW w \in Workers, ReleaseDelete(w) PROVE SchedulerTypeOK'
  BY <1>4 DEF ReleaseDelete
<1>. QED BY <1>1, <1>2, <1>3, <1>4

LEMMA WorkerTypeOK ==
  ASSUME SchedulerTypeOK, NEW w \in Workers, Exit(w) \/ Crash(w) \/ Start(w)
  PROVE  SchedulerTypeOK'
<1>. USE DEF SchedulerTypeOK, slots, IdOf
<1>1. CASE Exit(w)
  BY <1>1 DEF Exit, Vanish
<1>2. CASE Crash(w)
  BY <1>2 DEF Crash, Vanish
<1>3. CASE Start(w)
  BY <1>3 DEF Start
<1>. QED BY <1>1, <1>2, <1>3

LEMMA JobTypeOK ==
  ASSUME SchedulerTypeOK,
         \/ NextSlot
         \/ \E w \in Workers : Fire(w) \/ \E s \in Slots : RunJob(w, s)
         \/ \E s \in Slots : KeyExpires(s)
  PROVE  SchedulerTypeOK'
<1>. USE DEF SchedulerTypeOK, election, process
<1>1. CASE NextSlot
  BY <1>1 DEF NextSlot
<1>2. ASSUME NEW w \in Workers, Fire(w) PROVE SchedulerTypeOK'
  <2>1. slot \in Slots
    BY <1>2 DEF Fire, Slots
  <2>2. <<w, slot>> \in Workers \X Slots
    BY <2>1
  <2>. QED BY <1>2, <2>2 DEF Fire
<1>3. ASSUME NEW w \in Workers, NEW s \in Slots, RunJob(w, s) PROVE SchedulerTypeOK'
  BY <1>3 DEF RunJob
<1>4. ASSUME NEW s \in Slots, KeyExpires(s) PROVE SchedulerTypeOK'
  BY <1>4 DEF KeyExpires
<1>. QED BY <1>1, <1>2, <1>3, <1>4

LEMMA NextTypeOK == SchedulerTypeOK /\ [Next]_vars => SchedulerTypeOK'
<1>. SUFFICES ASSUME SchedulerTypeOK, [Next]_vars PROVE SchedulerTypeOK'
  OBVIOUS
<1>1. CASE Next
  BY <1>1, ElectionTypeOK, LeaseTypeOK, WorkerTypeOK, JobTypeOK DEF Next
<1>2. CASE UNCHANGED vars
  BY <1>2 DEF vars, election, process, slots, SchedulerTypeOK
<1>. QED BY <1>1, <1>2

-----------------------------------------------------------------------------
(* One run per lock.                                                       *)

LEMMA NextRunsAreLocked ==
  ASSUME SchedulerTypeOK, RunsAreLocked, [Next]_vars
  PROVE  RunsAreLocked'
<1>. USE DEF RunsAreLocked
<1>1. CASE UNCHANGED <<keys, runs, expired>>
  BY <1>1
<1>2. ASSUME NEW w \in Workers, NEW s \in Slots, RunJob(w, s) PROVE RunsAreLocked'
  BY <1>2 DEF RunJob, Locked, SchedulerTypeOK
<1>3. ASSUME NEW s \in Slots, KeyExpires(s) PROVE RunsAreLocked'
  BY <1>3 DEF KeyExpires, SchedulerTypeOK
<1>. QED
  BY <1>1, <1>2, <1>3
     DEF Next, vars, slots, Elect, LoseAnswer, Retry, Reconnect, ReleaseRead, ReleaseDelete,
         Exit, Crash, Vanish, Start, Fire, LeaseExpires, LeaseLapses, NextSlot

-----------------------------------------------------------------------------
(* One scheduler.                                                          *)

LEMMA NextLeaseIsTheLeaders ==
  ASSUME SchedulerTypeOK, LeaseIsTheLeaders, [Next]_vars
  PROVE  LeaseIsTheLeaders'
<1>. USE DEF LeaseIsTheLeaders, Scheduling, Live
<1>1. ASSUME NEW w \in Workers, Elect(w) PROVE LeaseIsTheLeaders'
  BY <1>1, NamesAssumption DEF Elect, Taken, IdOf, process, SchedulerTypeOK
<1>2. ASSUME NEW w \in Workers, LoseAnswer(w) PROVE LeaseIsTheLeaders'
  BY <1>2, NamesAssumption DEF LoseAnswer, Taken, IdOf, process, SchedulerTypeOK
<1>3. ASSUME NEW w \in Workers, Retry(w) \/ Reconnect(w) PROVE LeaseIsTheLeaders'
  BY <1>3 DEF Retry, Reconnect, process, SchedulerTypeOK
<1>4. ASSUME NEW w \in Workers, ReleaseRead(w) PROVE LeaseIsTheLeaders'
  BY <1>4 DEF ReleaseRead, election, SchedulerTypeOK
<1>5. ASSUME NEW w \in Workers, ReleaseDelete(w) PROVE LeaseIsTheLeaders'
  BY <1>5 DEF ReleaseDelete, SchedulerTypeOK
<1>6. ASSUME NEW w \in Workers, Exit(w) \/ Crash(w) PROVE LeaseIsTheLeaders'
  BY <1>6 DEF Exit, Crash, Vanish, IdOf, SchedulerTypeOK
<1>7. ASSUME NEW w \in Workers, Start(w) PROVE LeaseIsTheLeaders'
  BY <1>7 DEF Start, SchedulerTypeOK
<1>8. CASE LeaseExpires
  BY <1>8 DEF LeaseExpires, Unrenewed, process, SchedulerTypeOK
<1>9. CASE LeaseLapses
  BY <1>9 DEF LeaseLapses, process, SchedulerTypeOK
<1>10. CASE UNCHANGED <<election, process, counts>>
  BY <1>10 DEF election, process
<1>. QED
  BY <1>1, <1>2, <1>3, <1>4, <1>5, <1>6, <1>7, <1>8, <1>9, <1>10
     DEF Next, vars, NextSlot, Fire, RunJob, KeyExpires

LEMMA Invariant == Spec => []IInv
<1>1. Init => IInv
  BY InitTypeOK DEF Init, IInv, RunsAreLocked, LeaseIsTheLeaders, Scheduling, Live
<1>2. IInv /\ [Next]_vars => IInv'
  BY NextTypeOK, NextRunsAreLocked, NextLeaseIsTheLeaders DEF IInv
<1>. QED BY <1>1, <1>2, PTL DEF Spec

-----------------------------------------------------------------------------
(* The theorems.                                                           *)

\* Every variable stays in its type.
THEOREM TypeCorrect == Spec => []SchedulerTypeOK
<1>1. IInv => SchedulerTypeOK
  BY DEF IInv
<1>. QED BY <1>1, Invariant, PTL

\* Whatever leads, dies, reconnects or comes late, a slot of a job runs again only
\* after the lock of its last run expired.
THEOREM JobsRunOnce == Spec => []OneRunPerLock
<1>1. IInv => OneRunPerLock
  BY DEF IInv, RunsAreLocked, OneRunPerLock, SchedulerTypeOK
<1>. QED BY <1>1, Invariant, PTL

\* While no live leader has lost its lease there is one scheduler, and it registered
\* the jobs once.
THEOREM OneScheduler == Spec => []SingleScheduler
<1>1. ASSUME IInv, counts.lapses = 0
      PROVE  Cardinality(Scheduling) <= 1 /\ \A w \in Scheduling : crons[w] = 1
  <2>1. Scheduling \subseteq {lease} /\ \A w \in Scheduling : crons[w] = 1
    BY <1>1 DEF IInv, LeaseIsTheLeaders
  <2>2. IsFiniteSet({lease}) /\ Cardinality({lease}) = 1
    BY FS_Singleton
  <2>3. Cardinality(Scheduling) <= Cardinality({lease})
    BY <2>1, <2>2, FS_Subset
  <2>. QED BY <2>1, <2>2, <2>3
<1>2. IInv => SingleScheduler
  BY <1>1 DEF SingleScheduler
<1>. QED BY <1>2, Invariant, PTL
=============================================================================
