------------------------------ MODULE YaysCall ------------------------------
(***************************************************************************)
(* 1:1 calls: services/yaysCall.service.ts (the rows), signaling.ts (the   *)
(* socket handlers and the ring timers), yaysCallsAPI.ts (the REST         *)
(* fallback) and staleCallSweep.job.ts (the minute sweep).                 *)
(*                                                                         *)
(* The backend is a cluster of workers over one MongoDB.  Every handler is *)
(* a task that runs on one worker; between two awaits it holds only what   *)
(* it has read, and every other task may run.  A task's pc names the next  *)
(* await, so one action is one database operation together with the        *)
(* synchronous code that follows it.                                       *)
(***************************************************************************)
EXTENDS Naturals, Sequences, FiniteSets

CONSTANTS
  Users,      \* lower-cased e-mails
  CallIds,    \* client-generated call ids
  Dials,      \* the invites clients send: records [call, from, to]
  Workers,    \* the processes of the PM2 cluster
  Handlers,   \* slots for socket, request and timer handlers in flight
  Sweepers,   \* slots for scheduled sweeps in flight
  Events,     \* the kinds of events an instance lets happen
  MaxFaults,  \* bound on worker crashes and failed database calls
  Null        \* no user, no call, no worker, no invite

ASSUME DialsAssumption ==
  /\ Dials \subseteq [call : CallIds, from : Users, to : Users]
  /\ \A d \in Dials : d.from # d.to
ASSUME NullAssumption == Null \notin Users \cup CallIds \cup Workers \cup Dials
ASSUME EventsAssumption ==
  Events \subseteq {"invite", "accept", "decline", "hangup", "endCall", "failed",
                    "disconnect", "timeout"}
ASSUME MaxFaultsAssumption == MaxFaults \in Nat

VARIABLES
  calls,     \* the YaysCall collection, one row per call id
  timers,    \* ringTimers: the calls each worker holds a ring timer for
  overdue,   \* calls placed more than RING_TIMEOUT_SECONDS ago
  incoming,  \* calls whose call:incoming has been emitted
  told,      \* the outcomes emitted as call:ended, in order
  tasks,     \* the handlers in flight
  faults     \* crashes and database failures so far

vars == <<calls, timers, overdue, incoming, told, tasks, faults>>

-----------------------------------------------------------------------------
(* Rows and tasks.                                                         *)

Tasks == Handlers \cup Sweepers

Live == {"ringing", "active"}
Final == {"ended", "declined", "missed", "cancelled", "failed"}

\* endReason is left out: the code writes one reason per outcome.  timed says
\* whether durationSeconds was measured from connectedAt or written as 0.
Row == [ from : Users \cup {Null}, to : Users \cup {Null},
         status : {"none"} \cup Live \cup Final,
         connected : BOOLEAN, timed : BOOLEAN, endedBy : Users \cup {Null} ]

NoRow == [ from |-> Null, to |-> Null, status |-> "none",
           connected |-> FALSE, timed |-> FALSE, endedBy |-> Null ]

EndOps == {"decline", "hangup", "endCall", "failed"}
Ops == EndOps \cup {"idle", "invite", "accept", "disconnect", "timeout", "sweep"}

Pcs == {"idle", "busy", "dangling", "create", "ring", "accept", "party", "liveCall",
        "read", "write", "finish", "find", "next"}

Task == [ op : Ops,
          pc : Pcs,
          at : Workers \cup {Null},       \* the worker it runs on
          by : Users \cup {Null},         \* the signed-in user, or the server
          dial : Dials \cup {Null},       \* the invite being placed
          on : CallIds \cup {Null},       \* the call being answered or settled
          want : Final \cup {Null},       \* the outcome settle will write
          sawConnected : BOOLEAN,         \* connectedAt as settle read it
          todo : SUBSET CallIds,          \* stale rings still to be settled
          closed : SUBSET CallIds ]       \* the calls settle returned a row for

IdleTask == [ op |-> "idle", pc |-> "idle", at |-> Null, by |-> Null,
              dial |-> Null, on |-> Null, want |-> Null,
              sawConnected |-> FALSE, todo |-> {}, closed |-> {} ]

TypeOK ==
  /\ calls \in [CallIds -> Row]
  /\ timers \in [Workers -> SUBSET CallIds]
  /\ overdue \subseteq CallIds
  /\ incoming \subseteq CallIds
  /\ told \in [CallIds -> Seq(Final)]
  /\ tasks \in [Tasks -> Task]
  /\ faults \in 0..MaxFaults

Init ==
  /\ calls = [c \in CallIds |-> NoRow]
  /\ timers = [w \in Workers |-> {}]
  /\ overdue = {}
  /\ incoming = {}
  /\ told = [c \in CallIds |-> <<>>]
  /\ tasks = [t \in Tasks |-> IdleTask]
  /\ faults = 0

(* A definition whose name ends in _slip is a mistake this code could have *)
(* made in the definition that follows it; no specification uses it.       *)

\* The unique index on callId: a row may be inserted only once.  (Slip: no
\* index, so that the id of a finished call can be used again.)
FreeId_slip(c) == calls[c].status \notin Live
FreeId(c) == calls[c].status = "none"

\* The two ends of a row, who alone may signal about it.  (Slip: any signed-in
\* user may.)
Parties(c) == {calls[c].from, calls[c].to}
IsParty_slip(u, c) == calls[c].status # "none"
IsParty(u, c) == u \in Parties(c)

\* The filter of accept(): the callee, while the call rings.  (Slip: the status
\* left out.)
Answerable_slip(c, u) == calls[c].to = u
Answerable(c, u) == calls[c].status = "ringing" /\ calls[c].to = u

\* What settle() asks of a row when it reads it and again when it updates it.
\* (Slip: an update by callId alone.)
StillLive_slip(c) == calls[c].status # "none"
StillLive(c) == calls[c].status \in Live

\* The rows liveCallFor may return for a user.
LiveCallsFor(u) == {c \in CallIds : StillLive(c) /\ IsParty(u, c)}

At(t, pc) == tasks[t].pc = pc
Become(t, task) == tasks' = [tasks EXCEPT ![t] = task]
Goto(t, pc) == Become(t, [tasks[t] EXCEPT !.pc = pc])
Return(t) == Become(t, IdleTask)

\* A socket event, a request, a timer or the scheduler starts a task.
Begin(t, op, pc, w, u, dial, c, want) ==
  /\ tasks[t] = IdleTask
  /\ Become(t, [ op |-> op, pc |-> pc, at |-> w, by |-> u, dial |-> dial, on |-> c,
                 want |-> want, sawConnected |-> FALSE, todo |-> {}, closed |-> {} ])

\* Hanging up a call seen ringing is a cancel, otherwise a hang-up.  (Slips:
\* always a hang-up; the reason where the status belongs.)
HangUpOutcome_slip(c) == "ended"
HangUpReason_slip(c) ==
  IF calls[c].status = "ringing" THEN "caller_cancelled" ELSE "hangup"
HangUpOutcome(c) == IF calls[c].status = "ringing" THEN "cancelled" ELSE "ended"

-----------------------------------------------------------------------------
(* Placing a call: call:invite and place().                                *)

Invite(t, w, d) ==
  /\ Begin(t, "invite", "busy", w, d.from, d, Null, Null)
  /\ UNCHANGED <<calls, timers, overdue, incoming, told, faults>>

\* CalleeBusyError ends the invite.
BusyCheck(t) ==
  /\ At(t, "busy")
  /\ IF LiveCallsFor(tasks[t].dial.to) # {} THEN Return(t) ELSE Goto(t, "dangling")
  /\ UNCHANGED <<calls, timers, overdue, incoming, told, faults>>

\* A call the caller left dangling is settled as failed, by nobody.
DanglingCheck(t) ==
  /\ At(t, "dangling")
  /\ LET dangling == LiveCallsFor(tasks[t].by) IN
       \/ dangling = {} /\ Goto(t, "create")
       \/ \E c \in dangling :
            Become(t, [tasks[t] EXCEPT !.pc = "read", !.on = c, !.want = "failed"])
  /\ UNCHANGED <<calls, timers, overdue, incoming, told, faults>>

\* The unique index on callId refuses a second row: CallAlreadyExistsError.
Create(t) ==
  /\ At(t, "create")
  /\ LET d == tasks[t].dial IN
       \/ /\ FreeId(d.call)
          /\ calls' = [calls EXCEPT ![d.call] =
                [ from |-> d.from, to |-> d.to, status |-> "ringing",
                  connected |-> FALSE, timed |-> FALSE, endedBy |-> Null ]]
          /\ Goto(t, "ring")
       \/ /\ ~FreeId(d.call)
          /\ Return(t)
          /\ UNCHANGED calls
  /\ UNCHANGED <<timers, overdue, incoming, told, faults>>

\* Ring the callee's devices and start this worker's ring timer.
Ring(t) ==
  /\ At(t, "ring")
  /\ LET c == tasks[t].dial.call IN
       /\ incoming' = incoming \cup {c}
       /\ timers' = [timers EXCEPT ![tasks[t].at] = @ \cup {c}]
  /\ Return(t)
  /\ UNCHANGED <<calls, overdue, told, faults>>

-----------------------------------------------------------------------------
(* Answering: call:accept and accept().                                    *)

Accept(t, w, u, c) ==
  /\ c \in incoming
  /\ Begin(t, "accept", "accept", w, u, Null, c, Null)
  /\ UNCHANGED <<calls, timers, overdue, incoming, told, faults>>

AcceptWrite(t) ==
  /\ At(t, "accept")
  /\ LET c == tasks[t].on IN
       \/ /\ Answerable(c, tasks[t].by)
          /\ calls' = [calls EXCEPT ![c] = [@ EXCEPT !.status = "active", !.connected = TRUE]]
          /\ Goto(t, "finish")
       \/ /\ ~Answerable(c, tasks[t].by)
          /\ Return(t)
          /\ UNCHANGED calls
  /\ UNCHANGED <<timers, overdue, incoming, told, faults>>

-----------------------------------------------------------------------------
(* Ending a call: decline, hang-up, the REST fallback, failed media, a     *)
(* dropped socket, the ring timer.  All of them go through settle().       *)

End(t, op, w, u, c) ==
  /\ Begin(t, op, "party", w, u, Null, c, Null)
  /\ UNCHANGED <<calls, timers, overdue, incoming, told, faults>>

\* partiesFor(): the row is read, and the status it had decides the outcome.
Outcome(t) ==
  CASE tasks[t].op = "decline" -> "declined"
    [] tasks[t].op = "failed" -> "failed"
    [] OTHER -> HangUpOutcome(tasks[t].on)

PartyCheck(t) ==
  /\ At(t, "party")
  /\ LET c == tasks[t].on IN
       \/ /\ IsParty(tasks[t].by, c)
          /\ Become(t, [tasks[t] EXCEPT !.pc = "read", !.want = Outcome(t)])
       \/ ~IsParty(tasks[t].by, c) /\ Return(t)
  /\ UNCHANGED <<calls, timers, overdue, incoming, told, faults>>

Disconnect(t, w, u) ==
  /\ Begin(t, "disconnect", "liveCall", w, u, Null, Null, Null)
  /\ UNCHANGED <<calls, timers, overdue, incoming, told, faults>>

DisconnectRead(t) ==
  /\ At(t, "liveCall")
  /\ LET live == LiveCallsFor(tasks[t].by) IN
       \/ live = {} /\ Return(t)
       \/ \E c \in live :
            Become(t, [tasks[t] EXCEPT !.pc = "read", !.on = c, !.want = HangUpOutcome(c)])
  /\ UNCHANGED <<calls, timers, overdue, incoming, told, faults>>

\* The ring timer goes off on the worker that placed the call.
TimerFires(t, w, c) ==
  /\ c \in timers[w] /\ c \in overdue
  /\ timers' = [timers EXCEPT ![w] = @ \ {c}]
  /\ Begin(t, "timeout", "read", w, Null, Null, c, "missed")
  /\ UNCHANGED <<calls, overdue, incoming, told, faults>>

\* Where a task continues once settle() has returned.
AfterSettle(op) ==
  CASE op = "invite" -> "create"
    [] op = "sweep" -> "next"
    [] OTHER -> "finish"

\* settle(), first await: the row as it is now.
SettleRead(t) ==
  /\ At(t, "read")
  /\ LET c == tasks[t].on IN
       \/ /\ StillLive(c)
          /\ Become(t, [tasks[t] EXCEPT !.pc = "write", !.sawConnected = calls[c].connected])
       \/ ~StillLive(c) /\ Goto(t, AfterSettle(tasks[t].op))
  /\ UNCHANGED <<calls, timers, overdue, incoming, told, faults>>

\* The user recorded as the one who ended the call.
EndedBy(t) == IF tasks[t].op = "invite" THEN Null ELSE tasks[t].by

\* settle(), second await: conditional on the row being live still.
SettleWrite(t) ==
  /\ At(t, "write")
  /\ LET c == tasks[t].on IN
       \/ /\ StillLive(c)
          /\ calls' = [calls EXCEPT ![c] =
                [@ EXCEPT !.status = tasks[t].want, !.endedBy = EndedBy(t),
                          !.timed = tasks[t].sawConnected]]
          /\ Become(t, [tasks[t] EXCEPT !.pc = AfterSettle(tasks[t].op),
                                        !.sawConnected = FALSE, !.closed = @ \cup {c}])
       \/ /\ ~StillLive(c)
          /\ Goto(t, AfterSettle(tasks[t].op))
          /\ UNCHANGED calls
  /\ UNCHANGED <<timers, overdue, incoming, told, faults>>

\* The calls whose call:ended a finishing task emits: the REST fallback emits
\* nothing, and nobody is told of an outcome the task did not win.  (Slip: the
\* event is emitted whatever settle returned.)
Announced_slip(t) ==
  IF tasks[t].op \in {"accept", "endCall"} THEN {} ELSE {tasks[t].on} \ {Null}
Announced(t) ==
  IF tasks[t].op = "endCall" THEN {} ELSE tasks[t].closed

\* clearRingTimer() clears this worker's timer only; the REST fallback, the
\* timer itself and the sweep clear none.
Finish(t) ==
  /\ At(t, "finish")
  /\ LET cleared == IF tasks[t].op \in {"endCall", "timeout", "sweep"}
                    THEN {} ELSE {tasks[t].on} IN
       timers' = [timers EXCEPT ![tasks[t].at] = @ \ cleared]
  /\ told' = [c \in CallIds |->
                IF c \in Announced(t) THEN Append(told[c], tasks[t].want) ELSE told[c]]
  /\ Return(t)
  /\ UNCHANGED <<calls, overdue, incoming, faults>>

-----------------------------------------------------------------------------
(* The minute sweep: staleCallSweep and expireStaleRings().                *)

SweepStart(t, w) ==
  /\ Begin(t, "sweep", "find", w, Null, Null, Null, "missed")
  /\ UNCHANGED <<calls, timers, overdue, incoming, told, faults>>

\* Rows ringing for longer than RING_TIMEOUT_SECONDS.  (Slip: the comparison
\* with the cutoff turned round.)
StaleRings_slip == {c \in CallIds \ overdue : calls[c].status = "ringing"}
StaleRings == {c \in overdue : calls[c].status = "ringing"}

SweepFind(t) ==
  /\ At(t, "find")
  /\ Become(t, [tasks[t] EXCEPT !.pc = "next", !.todo = StaleRings])
  /\ UNCHANGED <<calls, timers, overdue, incoming, told, faults>>

SweepNext(t) ==
  /\ At(t, "next")
  /\ \/ tasks[t].todo = {} /\ Goto(t, "finish")
     \/ \E c \in tasks[t].todo :
          Become(t, [tasks[t] EXCEPT !.pc = "read", !.on = c, !.todo = @ \ {c}])
  /\ UNCHANGED <<calls, timers, overdue, incoming, told, faults>>

-----------------------------------------------------------------------------
(* Time and faults.                                                        *)

\* RING_TIMEOUT_SECONDS pass after a call was placed.
RingTimeout(c) ==
  /\ calls[c].status # "none"
  /\ c \notin overdue
  /\ overdue' = overdue \cup {c}
  /\ UNCHANGED <<calls, timers, incoming, told, tasks, faults>>

\* A worker dies: its handlers stop where they are and its timers are gone.
Crash(w) ==
  /\ faults < MaxFaults
  /\ faults' = faults + 1
  /\ timers' = [timers EXCEPT ![w] = {}]
  /\ tasks' = [t \in Tasks |-> IF tasks[t].at = w THEN IdleTask ELSE tasks[t]]
  /\ UNCHANGED <<calls, overdue, incoming, told>>

\* A database call fails, or its answer is lost, and ends the handler.
DbFails(t) ==
  /\ faults < MaxFaults
  /\ tasks[t] # IdleTask
  /\ faults' = faults + 1
  /\ Return(t)
  /\ UNCHANGED <<calls, timers, overdue, incoming, told>>

-----------------------------------------------------------------------------
Step(t) ==
  \/ BusyCheck(t) \/ DanglingCheck(t) \/ Create(t) \/ Ring(t)
  \/ AcceptWrite(t)
  \/ PartyCheck(t) \/ DisconnectRead(t)
  \/ SettleRead(t) \/ SettleWrite(t) \/ Finish(t)
  \/ SweepFind(t) \/ SweepNext(t)

Request(t, w) ==
  \/ "invite" \in Events /\ \E d \in Dials : Invite(t, w, d)
  \/ "accept" \in Events /\ \E u \in Users, c \in CallIds : Accept(t, w, u, c)
  \/ \E u \in Users, c \in CallIds, op \in EndOps \cap Events : End(t, op, w, u, c)
  \/ "disconnect" \in Events /\ \E u \in Users : Disconnect(t, w, u)
  \/ "timeout" \in Events /\ \E c \in CallIds : TimerFires(t, w, c)

Next ==
  \/ \E t \in Tasks : Step(t) \/ DbFails(t)
  \/ \E t \in Handlers, w \in Workers : Request(t, w)
  \/ \E t \in Sweepers, w \in Workers : SweepStart(t, w)
  \/ \E w \in Workers : Crash(w)
  \/ \E c \in CallIds : RingTimeout(c)

Spec == Init /\ [][Next]_vars

\* Time passes, the scheduler starts a sweep every minute on some live worker,
\* and a handler that has started runs on; no user is obliged to do anything.
Fairness ==
  /\ \A c \in CallIds : WF_vars(RingTimeout(c))
  /\ WF_vars(\E t \in Sweepers, w \in Workers : SweepStart(t, w))
  /\ \A t \in Sweepers : WF_vars(Step(t))

FairSpec == Spec /\ Fairness

-----------------------------------------------------------------------------
(* What is true of every call.                                             *)

\* A settled row is never written again: of two devices, timers or sweeps
\* racing to end a call the first one decides, and the others change nothing
\* (yaysCall.service.ts 40-48).
SettledIsFinal ==
  [][\A c \in CallIds : calls[c].status \in Final => calls'[c] = calls[c]]_vars

\* The two ends are told of a call's end at most once, and with the outcome
\* the row has, whoever raced to end it ("then exactly one outcome").
OneOutcomeTold ==
  \A c \in CallIds :
    /\ Len(told[c]) <= 1
    /\ told[c] # <<>> => told[c][1] = calls[c].status

\* A row marked "ended" is a conversation: it had connected, and its duration
\* was measured from connectedAt, though the status that chose the outcome,
\* connectedAt and the update are three separate database calls.
EndedMeansTalked ==
  \A c \in CallIds :
    calls[c].status = "ended" => calls[c].connected /\ calls[c].timed

\* Whoever is recorded as having ended a call is one of its two ends, and only
\* a missed or failed call was ended by nobody.
EndedByAParty ==
  \A c \in CallIds : calls[c].status \in Final =>
    IF calls[c].endedBy = Null THEN calls[c].status \in {"missed", "failed"}
    ELSE calls[c].endedBy \in Parties(c)

\* A call has at most one ring timer in the whole cluster, counting the one
\* about to be set and the ones that have gone off: a replayed invite never
\* rings a second time.
OneRingTimer ==
  \A c \in CallIds :
    Cardinality({w \in Workers : c \in timers[w]})
      + Cardinality({t \in Tasks : At(t, "ring") /\ tasks[t].dial.call = c})
      + Cardinality({t \in Tasks : tasks[t].op = "timeout" /\ tasks[t].on = c}) <= 1

\* The rows follow the lifecycle the component promises.
Lifecycle == INSTANCE CallLifecycle
  WITH status <- [c \in CallIds |-> calls[c].status],
       connected <- [c \in CallIds |-> calls[c].connected]
ImplementsLifecycle == Lifecycle!Spec

\* No call rings for ever, even if the worker that held its timer died: a
\* user with a stuck ringing row could not be called again.
RingResolves ==
  \A c \in CallIds : calls[c].status = "ringing" ~> calls[c].status # "ringing"

-----------------------------------------------------------------------------
(* What the comments say and the code does not do: each of these has a run *)
(* that violates it.                                                       *)

\* "Ring timeout expired with no answer" (yaysCall.service.ts 165): a missed
\* call was never answered.
MissedWasUnanswered ==
  \A c \in CallIds : calls[c].status = "missed" => ~calls[c].connected

\* "the ring never reaches someone mid-conversation" (yaysCall.service.ts 67).
NoRingMidConversation ==
  [][\A c \in incoming' \ incoming, d \in CallIds :
       d # c /\ calls[d].status = "active" => ~IsParty(calls[c].to, d)]_vars
=============================================================================
