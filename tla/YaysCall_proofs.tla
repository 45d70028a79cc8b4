--------------------------- MODULE YaysCall_proofs ---------------------------
(***************************************************************************)
(* Theorems about YaysCall, for any number of users, calls, workers,       *)
(* handlers in flight and faults.                                          *)
(*                                                                         *)
(* What a row may become depends on what the tasks in flight carry with    *)
(* them (a status read two awaits ago decides the outcome written now), so *)
(* the invariant is about the rows, the tasks and the events together.     *)
(***************************************************************************)
EXTENDS YaysCall, FiniteSetTheorems, TLAPS

-----------------------------------------------------------------------------
(* The inductive invariant.                                                *)

\* A row's columns agree: it is empty or has been placed, it has connected if
\* it is being talked on, and it has not while it rings.
RowOK(c) ==
  /\ calls[c].status = "none" => calls[c] = NoRow
  /\ calls[c].status = "ringing" => ~calls[c].connected
  /\ calls[c].status = "active" => calls[c].connected
  /\ calls[c].status = "ended" => calls[c].connected /\ calls[c].timed
  /\ calls[c].status \in Final =>
       IF calls[c].endedBy = Null THEN calls[c].status \in {"missed", "failed"}
       ELSE calls[c].endedBy \in Parties(c)

\* A task that will settle a call has an outcome in hand, one that is still
\* true of the row ("ended", if the row is still live, only for a call that
\* connected), and speaks for a party.
Settling(t) ==
  /\ tasks[t].on \in CallIds
  /\ tasks[t].want \in Final
  /\ tasks[t].want = "ended" /\ StillLive(tasks[t].on) => calls[tasks[t].on].connected
  /\ \/ tasks[t].op = "invite" /\ tasks[t].want = "failed"
     \/ tasks[t].op \in {"timeout", "sweep"} /\ tasks[t].want = "missed" /\ tasks[t].by = Null
     \/ tasks[t].op # "invite" /\ tasks[t].by \in Users /\ IsParty(tasks[t].by, tasks[t].on)

TaskOK(t) ==
  /\ tasks[t].pc \in {"read", "write"} => Settling(t)
  /\ tasks[t].pc = "write" =>
       (tasks[t].want = "ended" /\ StillLive(tasks[t].on) => tasks[t].sawConnected)
  /\ tasks[t].pc \in {"busy", "dangling", "create", "ring"} => tasks[t].op = "invite"
  /\ tasks[t].op = "invite" => tasks[t].dial \in Dials
  /\ tasks[t].pc = "accept" => tasks[t].on \in CallIds
  /\ tasks[t].pc = "party" => tasks[t].on \in CallIds
  /\ tasks[t].pc \in {"party", "liveCall"} => tasks[t].op # "invite" /\ tasks[t].by \in Users
  /\ tasks[t].pc \in {"find", "next"} => tasks[t].op = "sweep"
  /\ tasks[t].op = "sweep" => tasks[t].by = Null /\ tasks[t].want = "missed"

\* What has been told of a call is the outcome it has.
ToldTrue(c) ==
  told[c] = <<>> \/ (calls[c].status \in Final /\ told[c] = <<calls[c].status>>)

\* What a task is about to tell of a call is the outcome it has, and it has not
\* been told before.
TellsTrue(t) ==
  /\ tasks[t].pc \in {"idle", "busy", "dangling", "accept", "party", "liveCall", "find"}
       => tasks[t].closed = {}
  /\ \A c \in tasks[t].closed :
       calls[c].status \in Final /\ tasks[t].want = calls[c].status /\ told[c] = <<>>

\* At most one task is about to tell of a call.
ToldOK ==
  /\ \A c \in CallIds : ToldTrue(c)
  /\ \A t \in Tasks : TellsTrue(t)
  /\ \A t, u \in Tasks : t # u => tasks[t].closed \cap tasks[u].closed = {}

IInv ==
  /\ TypeOK
  /\ \A c \in CallIds : RowOK(c)
  /\ \A t \in Tasks : TaskOK(t)
  /\ ToldOK

-----------------------------------------------------------------------------
(* What a step does to the tasks.                                          *)

USE DEF Tasks, At

\* A task s is a task r with the fields a step may change replaced.
Moved(r, s, pc, on, want, saw, todo, closed) ==
  /\ s \in Task
  /\ s.op = r.op /\ s.at = r.at /\ s.by = r.by /\ s.dial = r.dial
  /\ s.pc = pc /\ s.on = on /\ s.want = want
  /\ s.sawConnected = saw /\ s.todo = todo /\ s.closed = closed

LEMMA GotoFields ==
  ASSUME NEW r \in Task, NEW pc \in Pcs
  PROVE  Moved(r, [r EXCEPT !.pc = pc],
               pc, r.on, r.want, r.sawConnected, r.todo, r.closed)
  BY DEF Task, Moved

LEMMA ChooseFields ==
  ASSUME NEW r \in Task, NEW pc \in Pcs, NEW on \in CallIds, NEW want \in Final
  PROVE  Moved(r, [r EXCEPT !.pc = pc, !.on = on, !.want = want],
               pc, on, want, r.sawConnected, r.todo, r.closed)
  BY DEF Task, Moved

LEMMA DecideFields ==
  ASSUME NEW r \in Task, NEW pc \in Pcs, NEW want \in Final
  PROVE  Moved(r, [r EXCEPT !.pc = pc, !.want = want],
               pc, r.on, want, r.sawConnected, r.todo, r.closed)
  BY DEF Task, Moved

LEMMA ReadFields ==
  ASSUME NEW r \in Task, NEW pc \in Pcs, NEW saw \in BOOLEAN
  PROVE  Moved(r, [r EXCEPT !.pc = pc, !.sawConnected = saw],
               pc, r.on, r.want, saw, r.todo, r.closed)
  BY DEF Task, Moved

LEMMA WriteFields ==
  ASSUME NEW r \in Task, NEW pc \in Pcs, NEW saw \in BOOLEAN, NEW closed \in SUBSET CallIds
  PROVE  Moved(r, [r EXCEPT !.pc = pc, !.sawConnected = saw, !.closed = closed],
               pc, r.on, r.want, saw, r.todo, closed)
  BY DEF Task, Moved

LEMMA FindFields ==
  ASSUME NEW r \in Task, NEW pc \in Pcs, NEW todo \in SUBSET CallIds
  PROVE  Moved(r, [r EXCEPT !.pc = pc, !.todo = todo],
               pc, r.on, r.want, r.sawConnected, todo, r.closed)
  BY DEF Task, Moved

LEMMA NextFields ==
  ASSUME NEW r \in Task, NEW pc \in Pcs, NEW on \in CallIds, NEW todo \in SUBSET CallIds
  PROVE  Moved(r, [r EXCEPT !.pc = pc, !.on = on, !.todo = todo],
               pc, on, r.want, r.sawConnected, todo, r.closed)
  BY DEF Task, Moved

LEMMA IdleIsATask == IdleTask \in Task
  BY DEF IdleTask, Task, Ops, Pcs

\* One task becomes another, and the rest stay.
Replaced(t, task) ==
  /\ tasks' \in [Tasks -> Task]
  /\ tasks'[t] = task
  /\ \A u \in Tasks \ {t} : tasks'[u] = tasks[u]

LEMMA BecomeReplaces ==
  ASSUME TypeOK, NEW t \in Tasks, NEW r \in Task, Become(t, r)
  PROVE  Replaced(t, r)
  BY DEF TypeOK, Become, Replaced

LEMMA ReturnReplaces ==
  ASSUME TypeOK, NEW t \in Tasks, Return(t)
  PROVE  Replaced(t, IdleTask)
  BY IdleIsATask, BecomeReplaces DEF Return

-----------------------------------------------------------------------------
(* Steps that leave the rows and the events alone.                         *)

\* What a task may not break by moving on its own: it carries what it should,
\* and it does not claim to have settled anything it had not settled before.
LEMMA QuietStep ==
  ASSUME IInv, NEW t \in Tasks, UNCHANGED <<calls, told>>, TypeOK',
         \A u \in Tasks \ {t} : tasks'[u] = tasks[u],
         TaskOK(t)',
         tasks'[t].closed \subseteq tasks[t].closed,
         tasks'[t].closed # {} => tasks'[t].want = tasks[t].want,
         tasks'[t].pc \in {"idle", "busy", "dangling", "accept", "party", "liveCall", "find"}
           => tasks'[t].closed = {}
  PROVE  IInv'
<1>1. \A c \in CallIds : RowOK(c)'
  BY DEF IInv, RowOK, Parties
<1>2. \A u \in Tasks : TaskOK(u)'
  <2>1. ASSUME NEW u \in Tasks \ {t} PROVE TaskOK(u)'
    BY <2>1 DEF IInv, TaskOK, Settling, StillLive, IsParty, Parties
  <2>. QED BY <2>1
<1>3. ToldOK'
  BY DEF IInv, ToldOK, ToldTrue, TellsTrue
<1>. QED
  BY <1>1, <1>2, <1>3 DEF IInv

\* A task that returns gives up what it carried.
LEMMA ReturnKeeps ==
  ASSUME IInv, NEW t \in Tasks, Return(t), UNCHANGED <<calls, told>>,
         tasks' \in [Tasks -> Task] => TypeOK'
  PROVE  IInv'
<1>1. Replaced(t, IdleTask)
  BY ReturnReplaces DEF IInv
<1>2. TaskOK(t)' /\ tasks'[t].closed = {}
  BY <1>1 DEF Replaced, TaskOK, IdleTask
<1>. QED
  BY <1>1, <1>2, QuietStep DEF Replaced

\* A task that starts carries what its kind of task should.
LEMMA BeginKeeps ==
  ASSUME IInv, NEW t \in Tasks, NEW op \in Ops, NEW pc \in Pcs, NEW w \in Workers,
         NEW u \in Users \cup {Null}, NEW dial \in Dials \cup {Null},
         NEW c \in CallIds \cup {Null}, NEW want \in Final \cup {Null},
         Begin(t, op, pc, w, u, dial, c, want), UNCHANGED <<calls, told>>,
         tasks' \in [Tasks -> Task] => TypeOK',
         \/ op = "invite" /\ pc = "busy" /\ dial \in Dials
         \/ op = "accept" /\ pc = "accept" /\ c \in CallIds
         \/ op \in EndOps /\ pc = "party" /\ c \in CallIds /\ u \in Users
         \/ op = "disconnect" /\ pc = "liveCall" /\ u \in Users
         \/ op = "timeout" /\ pc = "read" /\ u = Null /\ c \in CallIds /\ want = "missed"
         \/ op = "sweep" /\ pc = "find" /\ u = Null /\ want = "missed"
  PROVE  IInv'
<1> DEFINE new == [ op |-> op, pc |-> pc, at |-> w, by |-> u, dial |-> dial, on |-> c,
                    want |-> want, sawConnected |-> FALSE, todo |-> {}, closed |-> {} ]
<1>1. new \in Task
  BY DEF Task
<1>2. Replaced(t, new)
  BY <1>1, BecomeReplaces DEF IInv, Begin
<1>3. tasks'[t].closed = {}
  BY <1>2 DEF Replaced
<1>4. TaskOK(t)'
  BY <1>2 DEF Replaced, TaskOK, Settling, EndOps, Final
<1>. QED
  BY <1>2, <1>3, <1>4, QuietStep DEF Replaced

LEMMA RequestKeeps ==
  ASSUME IInv, NEW t \in Handlers, NEW w \in Workers, Request(t, w)
  PROVE  IInv'
<1>0. TypeOK
  BY DEF IInv
<1>1. ASSUME NEW d \in Dials, Invite(t, w, d) PROVE IInv'
  BY <1>0, <1>1, BeginKeeps, DialsAssumption DEF Invite, Ops, Pcs, TypeOK
<1>2. ASSUME NEW u \in Users, NEW c \in CallIds, Accept(t, w, u, c) PROVE IInv'
  BY <1>0, <1>2, BeginKeeps DEF Accept, Ops, Pcs, TypeOK
<1>3. ASSUME NEW u \in Users, NEW c \in CallIds, NEW op \in EndOps,
             End(t, op, w, u, c) PROVE IInv'
  BY <1>0, <1>3, BeginKeeps DEF End, Ops, Pcs, TypeOK
<1>4. ASSUME NEW u \in Users, Disconnect(t, w, u) PROVE IInv'
  BY <1>0, <1>4, BeginKeeps DEF Disconnect, Ops, Pcs, TypeOK
<1>5. ASSUME NEW c \in CallIds, TimerFires(t, w, c) PROVE IInv'
  <2>1. tasks' \in [Tasks -> Task] => TypeOK'
    BY <1>0, <1>5 DEF TimerFires, TypeOK
  <2>. QED
    BY <1>5, <2>1, BeginKeeps DEF TimerFires, Ops, Pcs, Final
<1>. QED
  BY <1>1, <1>2, <1>3, <1>4, <1>5 DEF Request

LEMMA SweepStartKeeps ==
  ASSUME IInv, NEW t \in Sweepers, NEW w \in Workers, SweepStart(t, w)
  PROVE  IInv'
<1>1. tasks' \in [Tasks -> Task] => TypeOK'
  BY DEF IInv, SweepStart, TypeOK
<1>. QED
  BY <1>1, BeginKeeps DEF SweepStart, Ops, Pcs, Final

\* A task may become r without claiming to have settled anything new.
Silent(t, r) ==
  /\ r \in Task
  /\ r.closed = tasks[t].closed
  /\ r.closed # {} => r.want = tasks[t].want
  /\ r.pc \in {"idle", "busy", "dangling", "accept", "party", "liveCall", "find"}
       => r.closed = {}

\* A task that goes on within its handler.
LEMMA MoveKeeps ==
  ASSUME IInv, NEW t \in Tasks, NEW r, Silent(t, r), Become(t, r), TaskOK(t)',
         UNCHANGED <<calls, told>>, UNCHANGED <<timers, overdue, incoming, faults>>
  PROVE  IInv'
<1>1. Replaced(t, r)
  BY BecomeReplaces DEF IInv, Silent
<1>2. TypeOK'
  BY <1>1 DEF IInv, TypeOK, Replaced
<1>. QED
  BY <1>1, <1>2, QuietStep DEF Replaced, Silent

LEMMA BusyCheckKeeps ==
  ASSUME IInv, NEW t \in Tasks, BusyCheck(t)
  PROVE  IInv'
<1>1. TypeOK /\ tasks[t] \in Task /\ TaskOK(t) /\ tasks[t].closed = {}
  BY DEF IInv, TypeOK, ToldOK, TellsTrue, BusyCheck
<1>2. CASE Return(t)
  BY <1>1, <1>2, ReturnKeeps DEF BusyCheck, TypeOK
<1>3. CASE Goto(t, "dangling")
  <2> DEFINE r == [tasks[t] EXCEPT !.pc = "dangling"]
  <2>1. Moved(tasks[t], r, "dangling", tasks[t].on, tasks[t].want, tasks[t].sawConnected,
              tasks[t].todo, tasks[t].closed)
    BY <1>1, GotoFields DEF Pcs
  <2>2. tasks'[t] = r
    BY <1>1, <1>3 DEF Goto, Become, TypeOK
  <2>3. TaskOK(t)'
    BY <1>1, <2>1, <2>2 DEF Moved, TaskOK, BusyCheck
  <2>4. Silent(t, r)
    BY <1>1, <2>1 DEF Moved, Silent
  <2>5. Become(t, r)
    BY <1>3 DEF Goto
  <2>. HIDE DEF r
  <2>. QED
    BY <2>4, <2>5, <2>3, MoveKeeps DEF BusyCheck
<1>. QED
  BY <1>2, <1>3 DEF BusyCheck

LEMMA DanglingCheckKeeps ==
  ASSUME IInv, NEW t \in Tasks, DanglingCheck(t)
  PROVE  IInv'
<1>1. TypeOK /\ tasks[t] \in Task /\ TaskOK(t) /\ tasks[t].closed = {}
  BY DEF IInv, TypeOK, ToldOK, TellsTrue, DanglingCheck
<1>2. CASE Goto(t, "create")
  <2> DEFINE r == [tasks[t] EXCEPT !.pc = "create"]
  <2>1. Moved(tasks[t], r, "create", tasks[t].on, tasks[t].want, tasks[t].sawConnected,
              tasks[t].todo, tasks[t].closed)
    BY <1>1, GotoFields DEF Pcs
  <2>2. tasks'[t] = r
    BY <1>1, <1>2 DEF Goto, Become, TypeOK
  <2>3. TaskOK(t)'
    BY <1>1, <2>1, <2>2 DEF Moved, TaskOK, DanglingCheck
  <2>4. Silent(t, r)
    BY <1>1, <2>1 DEF Moved, Silent
  <2>5. Become(t, r)
    BY <1>2 DEF Goto
  <2>. HIDE DEF r
  <2>. QED
    BY <2>4, <2>5, <2>3, MoveKeeps DEF DanglingCheck
<1>3. ASSUME NEW c \in LiveCallsFor(tasks[t].by),
             Become(t, [tasks[t] EXCEPT !.pc = "read", !.on = c, !.want = "failed"])
      PROVE  IInv'
  <2> DEFINE r == [tasks[t] EXCEPT !.pc = "read", !.on = c, !.want = "failed"]
  <2>0. c \in CallIds
    BY DEF LiveCallsFor
  <2>1. Moved(tasks[t], r, "read", c, "failed", tasks[t].sawConnected, tasks[t].todo,
              tasks[t].closed)
    BY <1>1, <2>0, ChooseFields DEF Pcs, Final
  <2>2. tasks'[t] = r
    BY <1>1, <1>3 DEF Become, TypeOK
  <2>3. TaskOK(t)'
    BY <1>1, <2>0, <2>1, <2>2 DEF Moved, TaskOK, Settling, DanglingCheck, Final
  <2>4. Silent(t, r)
    BY <1>1, <2>1 DEF Moved, Silent
  <2>5. Become(t, r)
    BY <1>3
  <2>. HIDE DEF r
  <2>. QED
    BY <2>4, <2>5, <2>3, MoveKeeps DEF DanglingCheck
<1>. QED
  BY <1>2, <1>3 DEF DanglingCheck

\* A hang-up decided by a status read now names "ended" only for a call that
\* has connected, or that can no longer be written.
LEMMA HangUpIsTrue ==
  ASSUME IInv, NEW c \in CallIds
  PROVE  /\ HangUpOutcome(c) \in Final
         /\ HangUpOutcome(c) = "ended" /\ StillLive(c) => calls[c].connected
  BY DEF IInv, RowOK, HangUpOutcome, StillLive, Live, Final

LEMMA PartyCheckKeeps ==
  ASSUME IInv, NEW t \in Tasks, PartyCheck(t)
  PROVE  IInv'
<1>1. /\ TypeOK /\ tasks[t] \in Task /\ tasks[t].closed = {}
      /\ tasks[t].on \in CallIds /\ tasks[t].by \in Users
      /\ tasks[t].op \notin {"invite", "sweep"} /\ TaskOK(t)
  BY NullAssumption DEF IInv, TypeOK, ToldOK, TellsTrue, TaskOK, PartyCheck
<1>2. CASE Return(t)
  BY <1>1, <1>2, ReturnKeeps DEF PartyCheck, TypeOK
<1>3. CASE /\ IsParty(tasks[t].by, tasks[t].on)
           /\ Become(t, [tasks[t] EXCEPT !.pc = "read", !.want = Outcome(t)])
  <2> DEFINE r == [tasks[t] EXCEPT !.pc = "read", !.want = Outcome(t)]
  <2>1. /\ Outcome(t) \in Final
        /\ Outcome(t) = "ended" /\ StillLive(tasks[t].on) => calls[tasks[t].on].connected
    BY <1>1, HangUpIsTrue DEF Outcome, Final
  <2>2. Moved(tasks[t], r, "read", tasks[t].on, Outcome(t), tasks[t].sawConnected,
              tasks[t].todo, tasks[t].closed)
    BY <1>1, <2>1, DecideFields DEF Pcs
  <2>3. tasks'[t] = r /\ calls' = calls
    BY <1>1, <1>3 DEF Become, TypeOK, PartyCheck
  <2>4. TaskOK(t)'
    BY <1>1, <1>3, <2>1, <2>2, <2>3
       DEF Moved, TaskOK, Settling, StillLive, IsParty, Parties
  <2>5. Silent(t, r)
    BY <1>1, <2>2 DEF Moved, Silent
  <2>6. Become(t, r)
    BY <1>3
  <2>. HIDE DEF r
  <2>. QED
    BY <2>5, <2>6, <2>4, MoveKeeps DEF PartyCheck
<1>. QED
  BY <1>2, <1>3 DEF PartyCheck

LEMMA DisconnectReadKeeps ==
  ASSUME IInv, NEW t \in Tasks, DisconnectRead(t)
  PROVE  IInv'
<1>1. /\ TypeOK /\ tasks[t] \in Task /\ tasks[t].closed = {}
      /\ tasks[t].by \in Users
      /\ tasks[t].op \notin {"invite", "sweep"} /\ TaskOK(t)
  BY NullAssumption DEF IInv, TypeOK, ToldOK, TellsTrue, TaskOK, DisconnectRead
<1>2. CASE Return(t)
  BY <1>1, <1>2, ReturnKeeps DEF DisconnectRead, TypeOK
<1>3. ASSUME NEW c \in LiveCallsFor(tasks[t].by),
             Become(t, [tasks[t] EXCEPT !.pc = "read", !.on = c, !.want = HangUpOutcome(c)])
      PROVE  IInv'
  <2> DEFINE r == [tasks[t] EXCEPT !.pc = "read", !.on = c, !.want = HangUpOutcome(c)]
  <2>0. c \in CallIds /\ IsParty(tasks[t].by, c)
    BY DEF LiveCallsFor
  <2>1. /\ HangUpOutcome(c) \in Final
        /\ HangUpOutcome(c) = "ended" /\ StillLive(c) => calls[c].connected
    BY <2>0, HangUpIsTrue
  <2>2. Moved(tasks[t], r, "read", c, HangUpOutcome(c), tasks[t].sawConnected,
              tasks[t].todo, tasks[t].closed)
    BY <1>1, <2>0, <2>1, ChooseFields DEF Pcs
  <2>3. tasks'[t] = r /\ calls' = calls
    BY <1>1, <1>3 DEF Become, TypeOK, DisconnectRead
  <2>4. TaskOK(t)'
    BY <1>1, <2>0, <2>1, <2>2, <2>3 DEF Moved, TaskOK, Settling, StillLive, IsParty, Parties
  <2>5. Silent(t, r)
    BY <1>1, <2>2 DEF Moved, Silent
  <2>6. Become(t, r)
    BY <1>3
  <2>. HIDE DEF r
  <2>. QED
    BY <2>5, <2>6, <2>4, MoveKeeps DEF DisconnectRead
<1>. QED
  BY <1>2, <1>3 DEF DisconnectRead

LEMMA SettleReadKeeps ==
  ASSUME IInv, NEW t \in Tasks, SettleRead(t)
  PROVE  IInv'
<1> DEFINE c == tasks[t].on
<1>1. /\ TypeOK /\ tasks[t] \in Task /\ TaskOK(t) /\ Settling(t)
      /\ c \in CallIds /\ calls[c].connected \in BOOLEAN
      /\ AfterSettle(tasks[t].op) \in {"create", "next", "finish"}
  BY DEF IInv, TypeOK, TaskOK, Settling, SettleRead, AfterSettle, Row
<1>2. CASE /\ StillLive(c)
           /\ Become(t, [tasks[t] EXCEPT !.pc = "write", !.sawConnected = calls[c].connected])
  <2> DEFINE r == [tasks[t] EXCEPT !.pc = "write", !.sawConnected = calls[c].connected]
  <2>1. Moved(tasks[t], r, "write", c, tasks[t].want, calls[c].connected, tasks[t].todo,
              tasks[t].closed)
    BY <1>1, ReadFields DEF Pcs
  <2>2. tasks'[t] = r /\ calls' = calls
    BY <1>1, <1>2 DEF Become, TypeOK, SettleRead
  <2>3. TaskOK(t)'
    BY <1>1, <2>1, <2>2 DEF Moved, TaskOK, Settling, StillLive, IsParty, Parties
  <2>4. Silent(t, r)
    BY <1>1, <2>1 DEF Moved, Silent
  <2>5. Become(t, r)
    BY <1>2
  <2>. HIDE DEF r
  <2>. QED
    BY <2>4, <2>5, <2>3, MoveKeeps DEF SettleRead
<1>3. CASE Goto(t, AfterSettle(tasks[t].op))
  <2> DEFINE r == [tasks[t] EXCEPT !.pc = AfterSettle(tasks[t].op)]
  <2>1. Moved(tasks[t], r, AfterSettle(tasks[t].op), c, tasks[t].want,
              tasks[t].sawConnected, tasks[t].todo, tasks[t].closed)
    BY <1>1, GotoFields DEF Pcs
  <2>2. tasks'[t] = r
    BY <1>1, <1>3 DEF Goto, Become, TypeOK
  <2>3. TaskOK(t)'
    BY <1>1, <2>1, <2>2 DEF Moved, TaskOK, AfterSettle
  <2>4. Silent(t, r)
    BY <1>1, <2>1 DEF Moved, Silent
  <2>5. Become(t, r)
    BY <1>3 DEF Goto
  <2>. HIDE DEF r
  <2>. QED
    BY <2>4, <2>5, <2>3, MoveKeeps DEF SettleRead
<1>. QED
  BY <1>2, <1>3 DEF SettleRead

LEMMA SweepFindKeeps ==
  ASSUME IInv, NEW t \in Tasks, SweepFind(t)
  PROVE  IInv'
<1> DEFINE r == [tasks[t] EXCEPT !.pc = "next", !.todo = StaleRings]
<1>1. TypeOK /\ tasks[t] \in Task /\ TaskOK(t) /\ tasks[t].closed = {}
  BY DEF IInv, TypeOK, ToldOK, TellsTrue, SweepFind
<1>2. Moved(tasks[t], r, "next", tasks[t].on, tasks[t].want, tasks[t].sawConnected,
            StaleRings, tasks[t].closed)
  BY <1>1, FindFields DEF Pcs, StaleRings, TypeOK
<1>3. tasks'[t] = r
  BY <1>1 DEF Become, TypeOK, SweepFind
<1>4. TaskOK(t)'
  BY <1>1, <1>2, <1>3 DEF Moved, TaskOK, SweepFind
<1>5. Silent(t, r)
  BY <1>1, <1>2 DEF Moved, Silent
<1>6. Become(t, r)
  BY DEF SweepFind
<1>. HIDE DEF r
<1>. QED
  BY <1>5, <1>6, <1>4, MoveKeeps DEF SweepFind

LEMMA SweepNextKeeps ==
  ASSUME IInv, NEW t \in Tasks, SweepNext(t)
  PROVE  IInv'
<1>1. TypeOK /\ tasks[t] \in Task /\ TaskOK(t) /\ tasks[t].todo \subseteq CallIds
  BY DEF IInv, TypeOK, Task
<1>2. CASE Goto(t, "finish")
  <2> DEFINE r == [tasks[t] EXCEPT !.pc = "finish"]
  <2>1. Moved(tasks[t], r, "finish", tasks[t].on, tasks[t].want, tasks[t].sawConnected,
              tasks[t].todo, tasks[t].closed)
    BY <1>1, GotoFields DEF Pcs
  <2>2. tasks'[t] = r
    BY <1>1, <1>2 DEF Goto, Become, TypeOK
  <2>3. TaskOK(t)'
    BY <1>1, <2>1, <2>2 DEF Moved, TaskOK, SweepNext
  <2>4. Silent(t, r)
    BY <1>1, <2>1 DEF Moved, Silent
  <2>5. Become(t, r)
    BY <1>2 DEF Goto
  <2>. HIDE DEF r
  <2>. QED
    BY <2>4, <2>5, <2>3, MoveKeeps DEF SweepNext
<1>3. ASSUME NEW c \in tasks[t].todo,
             Become(t, [tasks[t] EXCEPT !.pc = "read", !.on = c, !.todo = @ \ {c}])
      PROVE  IInv'
  <2> DEFINE r == [tasks[t] EXCEPT !.pc = "read", !.on = c, !.todo = @ \ {c}]
  <2>1. Moved(tasks[t], r, "read", c, tasks[t].want, tasks[t].sawConnected,
              tasks[t].todo \ {c}, tasks[t].closed)
    BY <1>1, NextFields DEF Pcs
  <2>2. tasks'[t] = r
    BY <1>1, <1>3 DEF Become, TypeOK
  <2>3. /\ c \in CallIds /\ tasks'[t].on = c /\ tasks'[t].pc = "read"
        /\ tasks'[t].op = "sweep" /\ tasks'[t].by = Null /\ tasks'[t].want = "missed"
    BY <1>1, <2>1, <2>2 DEF Moved, TaskOK, SweepNext
  <2>4. TaskOK(t)'
    BY <2>3 DEF TaskOK, Settling, Final
  <2>5. Silent(t, r)
    BY <1>1, <2>1 DEF Moved, Silent
  <2>6. Become(t, r)
    BY <1>3
  <2>. HIDE DEF r
  <2>. QED
    BY <2>5, <2>6, <2>4, MoveKeeps DEF SweepNext
<1>. QED
  BY <1>2, <1>3 DEF SweepNext

LEMMA RingKeeps ==
  ASSUME IInv, NEW t \in Tasks, Ring(t)
  PROVE  IInv'
<1>1. tasks' \in [Tasks -> Task] => TypeOK'
  BY DialsAssumption DEF IInv, TypeOK, TaskOK, Ring
<1>. QED
  BY <1>1, ReturnKeeps DEF Ring

LEMMA DbFailsKeeps ==
  ASSUME IInv, NEW t \in Tasks, DbFails(t)
  PROVE  IInv'
<1>1. tasks' \in [Tasks -> Task] => TypeOK'
  BY MaxFaultsAssumption DEF IInv, TypeOK, DbFails
<1>. QED
  BY <1>1, ReturnKeeps DEF DbFails

LEMMA CrashKeeps ==
  ASSUME IInv, NEW w \in Workers, Crash(w)
  PROVE  IInv'
<1>1. \A t \in Tasks : tasks'[t] = tasks[t] \/ tasks'[t] = IdleTask
  BY DEF Crash
<1>2. TypeOK'
  BY IdleIsATask, MaxFaultsAssumption DEF IInv, TypeOK, Crash
<1>3. \A c \in CallIds : RowOK(c)'
  BY DEF IInv, RowOK, Parties, Crash
<1>4. \A t \in Tasks : TaskOK(t)'
  <2>1. ASSUME NEW t \in Tasks, tasks'[t] = tasks[t] PROVE TaskOK(t)'
    BY <2>1 DEF IInv, TaskOK, Settling, StillLive, IsParty, Parties, Crash
  <2>2. ASSUME NEW t \in Tasks, tasks'[t] = IdleTask PROVE TaskOK(t)'
    BY <2>2 DEF TaskOK, IdleTask
  <2>. QED BY <1>1, <2>1, <2>2
<1>5. ToldOK'
  BY <1>1 DEF IInv, ToldOK, ToldTrue, TellsTrue, Crash, IdleTask
<1>. QED
  BY <1>2, <1>3, <1>4, <1>5 DEF IInv

LEMMA RingTimeoutKeeps ==
  ASSUME IInv, NEW c \in CallIds, RingTimeout(c)
  PROVE  IInv'
<1>1. TypeOK'
  BY DEF IInv, TypeOK, RingTimeout
<1>2. (\A k \in CallIds : RowOK(k)') /\ ToldOK'
  BY DEF IInv, RowOK, ToldOK, ToldTrue, TellsTrue, Parties, RingTimeout
<1>3. \A t \in Tasks : TaskOK(t)'
  BY DEF IInv, TaskOK, Settling, StillLive, IsParty, Parties, RingTimeout
<1>. QED
  BY <1>1, <1>2, <1>3 DEF IInv

-----------------------------------------------------------------------------
(* Steps that write a row.                                                 *)

\* The columns of the one row a step writes.
RowWritten(c, status, connected, timed, endedBy) ==
  /\ calls' \in [CallIds -> Row]
  /\ calls'[c].status = status /\ calls'[c].connected = connected
  /\ calls'[c].timed = timed /\ calls'[c].endedBy = endedBy
  /\ \A k \in CallIds \ {c} : calls'[k] = calls[k]

\* Nothing has been told, or is about to be, of a call without an outcome.
LEMMA NothingTold ==
  ASSUME IInv, NEW c \in CallIds, calls[c].status \notin Final
  PROVE  told[c] = <<>> /\ \A u \in Tasks : c \notin tasks[u].closed
  BY DEF IInv, ToldOK, ToldTrue, TellsTrue

\* So such a row may be written without a word.
LEMMA SilentWrite ==
  ASSUME IInv, NEW c \in CallIds, calls[c].status \notin Final, told' = told,
         \A k \in CallIds \ {c} : calls'[k] = calls[k],
         NEW t \in Tasks, \A u \in Tasks \ {t} : tasks'[u] = tasks[u],
         tasks'[t].closed = tasks[t].closed, tasks'[t].want = tasks[t].want,
         tasks'[t].pc \notin {"idle", "busy", "dangling", "accept", "party", "liveCall", "find"}
  PROVE  ToldOK'
<1>1. ASSUME NEW u \in Tasks
      PROVE  /\ tasks'[u].closed = tasks[u].closed
             /\ tasks'[u].want = tasks[u].want
             /\ u = t \/ tasks'[u].pc = tasks[u].pc
  OBVIOUS
<1>2. told[c] = <<>> /\ \A u \in Tasks : c \notin tasks[u].closed
  BY NothingTold
<1>3. ASSUME NEW k \in CallIds PROVE ToldTrue(k)'
  BY <1>2 DEF IInv, ToldOK, ToldTrue
<1>4. ASSUME NEW u \in Tasks PROVE TellsTrue(u)'
  <2>1. TellsTrue(u) /\ tasks[u].closed \subseteq CallIds
    BY DEF IInv, ToldOK, TypeOK, Task
  <2>2. ASSUME NEW k \in tasks'[u].closed
        PROVE  calls'[k].status \in Final /\ tasks'[u].want = calls'[k].status
                 /\ told'[k] = <<>>
    <3>1. k \in tasks[u].closed /\ k \in CallIds \ {c}
      BY <1>1, <1>2, <2>1
    <3>. QED
      BY <3>1, <1>1, <2>1 DEF TellsTrue
  <2>3. tasks'[u].pc \in {"idle", "busy", "dangling", "accept", "party", "liveCall", "find"}
          => tasks'[u].closed = {}
    BY <1>1, <2>1 DEF TellsTrue
  <2>. QED
    BY <2>2, <2>3 DEF TellsTrue
<1>. QED
  BY <1>1, <1>3, <1>4 DEF IInv, ToldOK

LEMMA AcceptedRow ==
  ASSUME NEW row \in Row
  PROVE  LET new == [row EXCEPT !.status = "active", !.connected = TRUE] IN
         /\ new \in Row
         /\ new.status = "active" /\ new.connected = TRUE
         /\ new.from = row.from /\ new.to = row.to
         /\ new.timed = row.timed /\ new.endedBy = row.endedBy
  BY DEF Row, Live

\* A new row belongs to no task that speaks for a party: before it was placed
\* the call had none.
LEMMA CreateKeeps ==
  ASSUME IInv, NEW t \in Tasks, Create(t)
  PROVE  IInv'
<1> DEFINE d == tasks[t].dial
<1>1. /\ TypeOK /\ tasks[t] \in Task /\ TaskOK(t) /\ d \in Dials
      /\ d.call \in CallIds /\ d.from \in Users /\ d.to \in Users
  BY DialsAssumption DEF IInv, TypeOK, TaskOK, Create
<1>2. CASE Return(t) /\ UNCHANGED calls
  BY <1>1, <1>2, ReturnKeeps DEF Create, TypeOK
<1>3. CASE /\ FreeId(d.call)
           /\ calls' = [calls EXCEPT ![d.call] =
                [ from |-> d.from, to |-> d.to, status |-> "ringing",
                  connected |-> FALSE, timed |-> FALSE, endedBy |-> Null ]]
           /\ Goto(t, "ring")
  <2> DEFINE r == [tasks[t] EXCEPT !.pc = "ring"]
  <2>1. Moved(tasks[t], r, "ring", tasks[t].on, tasks[t].want, tasks[t].sawConnected,
              tasks[t].todo, tasks[t].closed)
    BY <1>1, GotoFields DEF Pcs
  <2>2. Replaced(t, r)
    BY <1>1, <1>3, <2>1, BecomeReplaces DEF Goto, Moved
  <2>3. RowWritten(d.call, "ringing", FALSE, FALSE, Null)
    BY <1>1, <1>3 DEF RowWritten, TypeOK, Row, Live
  <2>4. calls[d.call] = NoRow
    BY <1>1, <1>3 DEF IInv, RowOK, FreeId
  <2>5. TypeOK'
    BY <1>1, <2>2, <2>3 DEF TypeOK, Create, Replaced, RowWritten
  <2>6. \A c \in CallIds : RowOK(c)'
    BY <1>1, <2>3 DEF IInv, RowOK, RowWritten, Parties, Final
  <2>7. \A u \in Tasks : Settling(u) /\ tasks'[u] = tasks[u] => Settling(u)'
    <3>1. ASSUME NEW u \in Tasks, Settling(u), tasks'[u] = tasks[u], tasks[u].on # d.call
          PROVE  Settling(u)'
      BY <3>1, <2>3 DEF Settling, RowWritten, StillLive, IsParty, Parties
    <3>2. ASSUME NEW u \in Tasks, Settling(u), tasks'[u] = tasks[u], tasks[u].on = d.call
          PROVE  Settling(u)'
      <4>1. ~IsParty(tasks[u].by, d.call) \/ tasks[u].by \notin Users
        BY <2>4, NullAssumption DEF IsParty, Parties, NoRow
      <4>. QED
        BY <3>2, <4>1 DEF Settling
    <3>. QED BY <3>1, <3>2
  <2>8. \A u \in Tasks : TaskOK(u)'
    <3>1. TaskOK(t)'
      BY <1>1, <2>1, <2>2 DEF Replaced, Moved, TaskOK, Create
    <3>2. ASSUME NEW u \in Tasks \ {t} PROVE TaskOK(u)'
      <4>1. tasks'[u] = tasks[u] /\ TaskOK(u)
        BY <2>2 DEF Replaced, IInv
      <4>2. tasks[u].on = d.call /\ Settling(u) => tasks[u].want # "ended"
        BY <2>4, NullAssumption DEF Settling, IsParty, Parties, NoRow
      <4>. QED
        BY <4>1, <4>2, <2>3, <2>7 DEF TaskOK, Settling, RowWritten, StillLive
    <3>. QED BY <3>1, <3>2
  <2>9. ToldOK'
    <3>1. /\ tasks'[t].closed = tasks[t].closed /\ tasks'[t].want = tasks[t].want
          /\ tasks'[t].pc = "ring"
      BY <2>1, <2>2 DEF Moved, Replaced
    <3>2. told' = told /\ calls[d.call].status \notin Final
      BY <2>4 DEF Create, NoRow, Final
    <3>. QED
      BY <1>1, <2>2, <2>3, <3>1, <3>2, SilentWrite DEF Replaced, RowWritten
  <2>. QED
    BY <2>5, <2>6, <2>8, <2>9 DEF IInv
<1>. QED
  BY <1>2, <1>3 DEF Create

\* An answered call has connected, so an "ended" in hand is true of it, and no
\* task that read it ringing has one.
LEMMA AcceptWriteKeeps ==
  ASSUME IInv, NEW t \in Tasks, AcceptWrite(t)
  PROVE  IInv'
<1> DEFINE c == tasks[t].on
<1>1. TypeOK /\ tasks[t] \in Task /\ TaskOK(t) /\ c \in CallIds
  BY DEF IInv, TypeOK, TaskOK, AcceptWrite
<1>2. CASE Return(t) /\ UNCHANGED calls
  BY <1>1, <1>2, ReturnKeeps DEF AcceptWrite, TypeOK
<1>3. CASE /\ Answerable(c, tasks[t].by)
           /\ calls' = [calls EXCEPT ![c] = [@ EXCEPT !.status = "active", !.connected = TRUE]]
           /\ Goto(t, "finish")
  <2> DEFINE r == [tasks[t] EXCEPT !.pc = "finish"]
  <2>1. Moved(tasks[t], r, "finish", c, tasks[t].want, tasks[t].sawConnected,
              tasks[t].todo, tasks[t].closed)
    BY <1>1, GotoFields DEF Pcs
  <2>2. Replaced(t, r)
    BY <1>1, <1>3, <2>1, BecomeReplaces DEF Goto, Moved
  <2>3. /\ RowWritten(c, "active", TRUE, calls[c].timed, calls[c].endedBy)
        /\ calls'[c].from = calls[c].from /\ calls'[c].to = calls[c].to
    <3>1. calls[c] \in Row
      BY <1>1 DEF TypeOK
    <3>. QED
      BY <1>1, <1>3, <3>1, AcceptedRow DEF RowWritten, TypeOK
  <2>4. calls[c].status = "ringing" /\ calls[c].connected = FALSE
    BY <1>1, <1>3 DEF IInv, RowOK, Answerable, TypeOK, Row
  <2>5. TypeOK'
    BY <1>1, <2>2, <2>3 DEF TypeOK, AcceptWrite, Replaced, RowWritten
  <2>6. \A k \in CallIds : RowOK(k)'
    BY <1>1, <2>3 DEF IInv, RowOK, RowWritten, Parties, Final
  <2>7. \A k \in CallIds : \A u \in Users : IsParty(u, k)' <=> IsParty(u, k)
    BY <2>3 DEF RowWritten, IsParty, Parties
  <2>8. \A u \in Tasks : TaskOK(u)'
    <3>1. TaskOK(t)'
      BY <1>1, <2>1, <2>2 DEF Replaced, Moved, TaskOK, AcceptWrite
    <3>2. ASSUME NEW u \in Tasks \ {t} PROVE TaskOK(u)'
      <4>1. tasks'[u] = tasks[u] /\ TaskOK(u)
        BY <2>2 DEF Replaced, IInv
      <4>2. tasks[u].on = c /\ Settling(u) => tasks[u].want # "ended"
        BY <2>4 DEF Settling, StillLive, Live
      <4>3. Settling(u) => Settling(u)'
        BY <4>1, <4>2, <2>3, <2>7 DEF Settling, RowWritten, StillLive
      <4>. QED
        BY <4>1, <4>2, <4>3, <2>3 DEF TaskOK, Settling, RowWritten, StillLive
    <3>. QED BY <3>1, <3>2
  <2>9. ToldOK'
    <3>1. /\ tasks'[t].closed = tasks[t].closed /\ tasks'[t].want = tasks[t].want
          /\ tasks'[t].pc = "finish"
      BY <2>1, <2>2 DEF Moved, Replaced
    <3>2. told' = told /\ calls[c].status \notin Final
      BY <2>4 DEF AcceptWrite, Final
    <3>. QED
      BY <1>1, <2>2, <2>3, <3>1, <3>2, SilentWrite DEF Replaced, RowWritten
  <2>. QED
    BY <2>5, <2>6, <2>8, <2>9 DEF IInv
<1>. QED
  BY <1>2, <1>3 DEF AcceptWrite

\* The first task to settle a live call decides it, and is the only one with
\* something to tell.
LEMMA SettleWriteKeeps ==
  ASSUME IInv, NEW t \in Tasks, SettleWrite(t)
  PROVE  IInv'
<1>0. tasks[t].on \in CallIds
  BY DEF IInv, TaskOK, Settling, SettleWrite
<1>c. PICK c \in CallIds : c = tasks[t].on
  BY <1>0
<1> DEFINE want == tasks[t].want
           saw == tasks[t].sawConnected
           next == AfterSettle(tasks[t].op)
<1>1. /\ TypeOK /\ tasks[t] \in Task /\ TaskOK(t) /\ Settling(t)
      /\ c = tasks[t].on /\ want \in Final /\ saw \in BOOLEAN
      /\ tasks[t].closed \subseteq CallIds
      /\ next \in {"create", "next", "finish"}
  BY <1>c DEF IInv, TypeOK, TaskOK, Settling, SettleWrite, AfterSettle, Task
<1>2. CASE Goto(t, next) /\ UNCHANGED calls
  <2> DEFINE r == [tasks[t] EXCEPT !.pc = next]
  <2>1. Moved(tasks[t], r, next, c, want, saw, tasks[t].todo, tasks[t].closed)
    BY <1>1, GotoFields DEF Pcs
  <2>2. tasks'[t] = r
    BY <1>1, <1>2 DEF Goto, Become, TypeOK
  <2>3. TaskOK(t)'
    BY <1>1, <2>1, <2>2 DEF Moved, TaskOK, AfterSettle
  <2>4. Silent(t, r)
    BY <1>1, <2>1 DEF Moved, Silent
  <2>5. Become(t, r)
    BY <1>2 DEF Goto
  <2>. HIDE DEF r
  <2>. QED
    BY <1>2, <2>4, <2>5, <2>3, MoveKeeps DEF SettleWrite
<1>3. CASE /\ StillLive(c)
           /\ calls' = [calls EXCEPT ![c] =
                [@ EXCEPT !.status = want, !.endedBy = EndedBy(t), !.timed = saw]]
           /\ Become(t, [tasks[t] EXCEPT !.pc = next, !.sawConnected = FALSE,
                                         !.closed = @ \cup {c}])
  <2> DEFINE r == [tasks[t] EXCEPT !.pc = next, !.sawConnected = FALSE,
                                   !.closed = tasks[t].closed \cup {c}]
  <2>1. Moved(tasks[t], r, next, c, want, FALSE, tasks[t].todo, tasks[t].closed \cup {c})
    BY <1>1, WriteFields DEF Pcs
  <2>2. Replaced(t, r)
    BY <1>1, <1>3, <2>1, BecomeReplaces DEF Moved
  <2>3. /\ RowWritten(c, want, calls[c].connected, saw, EndedBy(t))
        /\ calls'[c].from = calls[c].from /\ calls'[c].to = calls[c].to
    <3>1. calls[c] \in Row /\ EndedBy(t) \in Users \cup {Null}
      BY <1>1 DEF TypeOK, EndedBy, Task
    <3> DEFINE row == [calls[c] EXCEPT !.status = want, !.endedBy = EndedBy(t), !.timed = saw]
    <3>2. /\ row \in Row /\ row.status = want /\ row.connected = calls[c].connected
          /\ row.from = calls[c].from /\ row.to = calls[c].to
          /\ row.timed = saw /\ row.endedBy = EndedBy(t)
      BY <1>1, <3>1 DEF Row
    <3>3. calls' = [calls EXCEPT ![c] = row]
      BY <1>3
    <3>4. /\ calls' \in [CallIds -> Row] /\ calls'[c] = row
          /\ \A k \in CallIds \ {c} : calls'[k] = calls[k]
      BY <1>1, <3>2, <3>3 DEF TypeOK
    <3>. QED
      BY <3>2, <3>4 DEF RowWritten
  <2>4. TypeOK'
    BY <1>1, <2>2, <2>3 DEF TypeOK, SettleWrite, Replaced, RowWritten
  <2>5. \A k \in CallIds : \A u \in Users \cup {Null} : IsParty(u, k)' <=> IsParty(u, k)
    BY <2>3 DEF RowWritten, IsParty, Parties
  <2>6. \A k \in CallIds : RowOK(k)'
    <3>1. want = "ended" => calls[c].connected /\ saw
      BY <1>1, <1>3 DEF Settling, TaskOK, SettleWrite
    <3>2. IF EndedBy(t) = Null THEN want \in {"missed", "failed"}
          ELSE EndedBy(t) \in {calls[c].from, calls[c].to}
      BY <1>1, NullAssumption DEF Settling, EndedBy, IsParty, Parties
    <3>3. RowOK(c)'
      <4>1. calls'[c].status \in Final
        BY <1>1, <2>3 DEF RowWritten
      <4>2. calls'[c].status = "ended" => calls'[c].connected /\ calls'[c].timed
        BY <2>3, <3>1 DEF RowWritten
      <4>3. IF calls'[c].endedBy = Null THEN calls'[c].status \in {"missed", "failed"}
            ELSE calls'[c].endedBy \in {calls'[c].from, calls'[c].to}
        BY <2>3, <3>2 DEF RowWritten
      <4>. QED
        BY <4>1, <4>2, <4>3 DEF RowOK, Parties, Final
    <3>4. ASSUME NEW k \in CallIds \ {c} PROVE RowOK(k)'
      BY <2>3 DEF IInv, RowOK, RowWritten, Parties
    <3>. QED BY <3>3, <3>4
  <2>7. \A u \in Tasks : TaskOK(u)'
    <3>1. TaskOK(t)'
      BY <1>1, <2>1, <2>2 DEF Replaced, Moved, TaskOK, AfterSettle
    <3>2. ASSUME NEW u \in Tasks \ {t} PROVE TaskOK(u)'
      <4>1. tasks'[u] = tasks[u] /\ TaskOK(u)
        BY <2>2 DEF Replaced, IInv
      <4>2. ~StillLive(c)'
        BY <1>1, <2>3 DEF RowWritten, StillLive, Live, Final
      <4>3. Settling(u) => Settling(u)'
        BY <4>1, <4>2, <2>3, <2>5 DEF Settling, RowWritten, StillLive
      <4>. QED
        BY <4>1, <4>2, <4>3, <2>3 DEF TaskOK, Settling, RowWritten, StillLive
    <3>. QED BY <3>1, <3>2
  <2>8. ToldOK'
    <3>1. /\ tasks'[t].closed = tasks[t].closed \cup {c} /\ tasks'[t].want = want
          /\ tasks'[t].pc = next
          /\ \A u \in Tasks \ {t} : tasks'[u] = tasks[u]
      BY <2>1, <2>2 DEF Moved, Replaced
    <3>2. told[c] = <<>> /\ \A u \in Tasks : c \notin tasks[u].closed
      BY <1>1, <1>3, NothingTold DEF StillLive, Live, Final
    <3>3. /\ told' = told /\ calls'[c].status = want
          /\ \A k \in CallIds \ {c} : calls'[k] = calls[k]
      BY <2>3 DEF SettleWrite, RowWritten
    <3>4. ASSUME NEW k \in CallIds PROVE ToldTrue(k)'
      BY <3>2, <3>3 DEF IInv, ToldOK, ToldTrue
    <3>5. ASSUME NEW u \in Tasks, NEW k \in tasks'[u].closed
          PROVE  calls'[k].status \in Final /\ tasks'[u].want = calls'[k].status
                   /\ told'[k] = <<>>
      <4>1. TellsTrue(u) /\ tasks[u].closed \subseteq CallIds
        BY <1>1 DEF IInv, ToldOK, TypeOK, Task
      <4>2. CASE u = t /\ k = c
        BY <1>1, <3>1, <3>2, <3>3, <4>2
      <4>3. CASE ~(u = t /\ k = c)
        <5>1. k \in tasks[u].closed /\ k \in CallIds \ {c}
          BY <3>1, <3>2, <4>1, <4>3
        <5>. QED
          BY <5>1, <3>1, <3>3, <4>1 DEF TellsTrue
      <4>. QED BY <4>2, <4>3
    <3>6. ASSUME NEW u \in Tasks PROVE TellsTrue(u)'
      <4>1. TellsTrue(u)
        BY DEF IInv, ToldOK
      <4>2. tasks'[u].pc \in {"idle", "busy", "dangling", "accept", "party", "liveCall", "find"}
              => tasks'[u].closed = {}
        BY <1>1, <3>1, <4>1 DEF TellsTrue
      <4>. QED
        BY <3>5, <4>2 DEF TellsTrue
    <3>7. \A u, v \in Tasks : u # v => tasks'[u].closed \cap tasks'[v].closed = {}
      BY <3>1, <3>2 DEF IInv, ToldOK
    <3>. QED
      BY <3>4, <3>6, <3>7 DEF ToldOK
  <2>. QED
    BY <2>4, <2>6, <2>7, <2>8 DEF IInv
<1>. QED
  BY <1>c, <1>2, <1>3 DEF SettleWrite

\* What a finishing task tells has not been told before and is true.
LEMMA FinishKeeps ==
  ASSUME IInv, NEW t \in Tasks, Finish(t)
  PROVE  IInv'
<1>1. /\ TypeOK /\ tasks[t] \in Task /\ Announced(t) \subseteq tasks[t].closed
      /\ tasks[t].closed \subseteq CallIds
  BY DEF IInv, TypeOK, Task, Announced
<1>2. Replaced(t, IdleTask)
  BY <1>1, ReturnReplaces DEF Finish
<1>3. ASSUME NEW c \in Announced(t)
      PROVE  /\ told'[c] = <<calls[c].status>> /\ calls[c].status \in Final
             /\ told'[c] \in Seq(Final)
  <2>1. /\ c \in CallIds /\ calls[c].status \in Final
        /\ tasks[t].want = calls[c].status /\ told[c] = <<>>
    BY <1>1 DEF IInv, ToldOK, TellsTrue
  <2>2. told'[c] = Append(told[c], tasks[t].want)
    BY <2>1 DEF Finish
  <2>3. told'[c] = <<calls[c].status>>
    BY <2>1, <2>2
  <2>. QED
    BY <2>1, <2>3
<1>4. ASSUME NEW c \in CallIds \ Announced(t)
      PROVE  told'[c] = told[c]
  BY DEF Finish
<1>5. TypeOK'
  <2>1. told' \in [CallIds -> Seq(Final)]
    <3>1. told' = [c \in CallIds |-> told'[c]]
      BY DEF Finish
    <3>2. \A c \in CallIds : told'[c] \in Seq(Final)
      BY <1>1, <1>3, <1>4 DEF TypeOK
    <3>. QED BY <3>1, <3>2
  <2>. QED
    BY <1>1, <1>2, <2>1 DEF TypeOK, Finish, Replaced
<1>6. \A c \in CallIds : RowOK(c)'
  BY DEF IInv, RowOK, Parties, Finish
<1>7. \A u \in Tasks : TaskOK(u)'
  <2>1. TaskOK(t)'
    BY <1>2 DEF Replaced, TaskOK, IdleTask
  <2>2. ASSUME NEW u \in Tasks \ {t} PROVE TaskOK(u)'
    BY <1>2 DEF IInv, Replaced, TaskOK, Settling, StillLive, IsParty, Parties, Finish
  <2>. QED BY <2>1, <2>2
<1>8. ToldOK'
  <2>1. \A c \in CallIds : ToldTrue(c)'
    BY <1>3, <1>4 DEF IInv, ToldOK, ToldTrue, Finish
  <2>2. TellsTrue(t)' /\ tasks'[t].closed = {}
    BY <1>2 DEF Replaced, TellsTrue, IdleTask
  <2>3. ASSUME NEW u \in Tasks \ {t} PROVE TellsTrue(u)'
    <3>1. TellsTrue(u) /\ tasks'[u] = tasks[u] /\ tasks[u].closed \subseteq CallIds
      BY <1>1, <1>2 DEF IInv, ToldOK, Replaced, TypeOK, Task
    <3>2. tasks[u].closed \cap Announced(t) = {}
      BY <1>1 DEF IInv, ToldOK
    <3>3. \A c \in tasks[u].closed : told'[c] = told[c]
      BY <1>4, <3>1, <3>2
    <3>. QED
      BY <3>1, <3>3 DEF TellsTrue, Finish
  <2>4. \A u, v \in Tasks : u # v => tasks'[u].closed \cap tasks'[v].closed = {}
    BY <1>2, <2>2 DEF IInv, ToldOK, Replaced
  <2>. QED
    BY <2>1, <2>2, <2>3, <2>4 DEF ToldOK
<1>. QED
  BY <1>5, <1>6, <1>7, <1>8 DEF IInv

-----------------------------------------------------------------------------
(* The invariant, and what follows from it.                                *)

LEMMA IInvInit == Init => IInv
<1> SUFFICES ASSUME Init PROVE IInv
  OBVIOUS
<1>1. NoRow \in Row
  BY DEF NoRow, Row
<1>2. TypeOK
  BY <1>1, IdleIsATask, MaxFaultsAssumption DEF Init, TypeOK
<1>3. \A c \in CallIds : RowOK(c)
  BY DEF Init, RowOK, NoRow, Final
<1>4. \A t \in Tasks : TaskOK(t)
  BY DEF Init, TaskOK, IdleTask
<1>5. ToldOK
  BY DEF Init, ToldOK, ToldTrue, TellsTrue, IdleTask
<1>. QED
  BY <1>2, <1>3, <1>4, <1>5 DEF IInv

LEMMA IInvStep == IInv /\ [Next]_vars => IInv'
<1> SUFFICES ASSUME IInv, [Next]_vars PROVE IInv'
  OBVIOUS
<1>1. ASSUME NEW t \in Tasks, Step(t) PROVE IInv'
  BY <1>1, BusyCheckKeeps, DanglingCheckKeeps, CreateKeeps, RingKeeps, AcceptWriteKeeps,
     PartyCheckKeeps, DisconnectReadKeeps, SettleReadKeeps, SettleWriteKeeps, FinishKeeps,
     SweepFindKeeps, SweepNextKeeps DEF Step
<1>2. CASE UNCHANGED vars
  BY <1>2 DEF vars, IInv, TypeOK, RowOK, TaskOK, Settling, StillLive, IsParty, Parties,
     ToldOK, ToldTrue, TellsTrue
<1>. QED
  BY <1>1, <1>2, DbFailsKeeps, RequestKeeps, SweepStartKeeps, CrashKeeps, RingTimeoutKeeps
     DEF Next

THEOREM Invariance == Spec => []IInv
  BY IInvInit, IInvStep, PTL DEF Spec

\* Types.
THEOREM TypeCorrect == Spec => []TypeOK
<1>1. IInv => TypeOK
  BY DEF IInv
<1>. QED
  BY <1>1, Invariance, PTL

\* The history never calls a conversation what was not one: "ended" rows had
\* connected and were timed, whoever hung up and from whatever stale status.
THEOREM EndedCallsTalked == Spec => []EndedMeansTalked
<1>1. IInv => EndedMeansTalked
  BY DEF IInv, RowOK, EndedMeansTalked
<1>. QED
  BY <1>1, Invariance, PTL

\* Only a party is recorded as having ended a call.
THEOREM EndersAreParties == Spec => []EndedByAParty
<1>1. IInv => EndedByAParty
  BY DEF IInv, RowOK, EndedByAParty
<1>. QED
  BY <1>1, Invariance, PTL

\* Whoever races to end a call, its ends hear of one outcome: the row's.
THEOREM OneOutcome == Spec => []OneOutcomeTold
<1>1. ASSUME IInv PROVE OneOutcomeTold
  <2>1. ASSUME NEW c \in CallIds
        PROVE  Len(told[c]) <= 1 /\ (told[c] # <<>> => told[c][1] = calls[c].status)
    <3>1. ToldTrue(c)
      BY <1>1 DEF IInv, ToldOK
    <3>2. CASE told[c] = <<>>
      BY <3>2
    <3>3. CASE told[c] = <<calls[c].status>>
      <4>1. \A s : Len(<<s>>) = 1 /\ <<s>>[1] = s
        OBVIOUS
      <4>. QED
        BY <3>3, <4>1
    <3>. QED BY <3>1, <3>2, <3>3 DEF ToldTrue
  <2>. QED BY <2>1 DEF OneOutcomeTold
<1>. QED
  BY <1>1, Invariance, PTL

\* Only three actions write a row, and how.
LEMMA RowSteps ==
  ASSUME IInv, [Next]_vars
  PROVE  \/ UNCHANGED calls
         \/ \E c \in CallIds : \E row \in Row :
              /\ calls' = [calls EXCEPT ![c] = row]
              /\ \/ calls[c].status = "none" /\ ~calls[c].connected
                     /\ row.status = "ringing" /\ ~row.connected
                 \/ calls[c].status = "ringing" /\ row.status = "active" /\ row.connected
                 \/ /\ calls[c].status \in Live /\ row.status \in Final
                    /\ row.connected = calls[c].connected
                    /\ row.status = "ended" => calls[c].connected
<1>1. ASSUME NEW t \in Tasks, Create(t), ~UNCHANGED calls
      PROVE  \E c \in CallIds : \E row \in Row :
               /\ calls' = [calls EXCEPT ![c] = row]
               /\ calls[c].status = "none" /\ ~calls[c].connected
               /\ row.status = "ringing" /\ ~row.connected
  <2> DEFINE d == tasks[t].dial
             row == [ from |-> d.from, to |-> d.to, status |-> "ringing",
                      connected |-> FALSE, timed |-> FALSE, endedBy |-> Null ]
  <2>1. d.call \in CallIds /\ d.from \in Users /\ d.to \in Users
    BY <1>1, DialsAssumption DEF IInv, TaskOK, Create
  <2>2. calls' = [calls EXCEPT ![d.call] = row] /\ FreeId(d.call)
    BY <1>1 DEF Create
  <2>3. row \in Row
    BY <2>1 DEF Row, Live
  <2>4. calls[d.call].status = "none" /\ ~calls[d.call].connected
    BY <2>1, <2>2 DEF IInv, RowOK, FreeId, NoRow
  <2>. QED
    BY <2>1, <2>2, <2>3, <2>4
<1>2. ASSUME NEW t \in Tasks, AcceptWrite(t), ~UNCHANGED calls
      PROVE  \E c \in CallIds : \E row \in Row :
               /\ calls' = [calls EXCEPT ![c] = row]
               /\ calls[c].status = "ringing" /\ row.status = "active" /\ row.connected
  <2> DEFINE c == tasks[t].on
             row == [calls[c] EXCEPT !.status = "active", !.connected = TRUE]
  <2>1. c \in CallIds /\ calls[c] \in Row
    BY <1>2 DEF IInv, TypeOK, TaskOK, AcceptWrite
  <2>2. calls' = [calls EXCEPT ![c] = row] /\ calls[c].status = "ringing"
    BY <1>2 DEF AcceptWrite, Answerable
  <2>3. row \in Row /\ row.status = "active" /\ row.connected
    BY <2>1, AcceptedRow
  <2>. QED
    BY <2>1, <2>2, <2>3
<1>3. ASSUME NEW t \in Tasks, SettleWrite(t), ~UNCHANGED calls
      PROVE  \E c \in CallIds : \E row \in Row :
               /\ calls' = [calls EXCEPT ![c] = row]
               /\ calls[c].status \in Live /\ row.status \in Final
               /\ row.connected = calls[c].connected
               /\ row.status = "ended" => calls[c].connected
  <2> DEFINE c == tasks[t].on
             row == [calls[c] EXCEPT !.status = tasks[t].want, !.endedBy = EndedBy(t),
                                     !.timed = tasks[t].sawConnected]
  <2>1. /\ c \in CallIds /\ calls[c] \in Row /\ tasks[t].want \in Final /\ Settling(t)
        /\ EndedBy(t) \in Users \cup {Null} /\ tasks[t].sawConnected \in BOOLEAN
    BY <1>3 DEF IInv, TypeOK, TaskOK, Settling, SettleWrite, EndedBy, Task
  <2>2. calls' = [calls EXCEPT ![c] = row] /\ StillLive(c)
    BY <1>3 DEF SettleWrite
  <2>3. row \in Row /\ row.status = tasks[t].want /\ row.connected = calls[c].connected
    BY <2>1 DEF Row
  <2>4. row.status = "ended" => calls[c].connected
    BY <2>1, <2>2, <2>3 DEF Settling
  <2>. QED
    BY <2>1, <2>2, <2>3, <2>4 DEF StillLive
<1>4. \/ UNCHANGED calls
      \/ \E t \in Tasks : Create(t) \/ AcceptWrite(t) \/ SettleWrite(t)
  BY DEF Next, Step, Request, vars, BusyCheck, DanglingCheck, Ring, PartyCheck, DisconnectRead,
     SettleRead, Finish, SweepFind, SweepNext, DbFails, Invite, Accept, End, Disconnect,
     TimerFires, SweepStart, Crash, RingTimeout
<1>. QED
  BY <1>1, <1>2, <1>3, <1>4

\* A settled call is final: the losers of the race write nothing.
THEOREM SettledStays == Spec => SettledIsFinal
<1>1. ASSUME IInv, [Next]_vars, NEW c \in CallIds, calls[c].status \in Final
      PROVE  calls'[c] = calls[c]
  <2>1. TypeOK
    BY <1>1 DEF IInv
  <2>2. CASE UNCHANGED calls
    BY <2>2
  <2>3. ASSUME NEW k \in CallIds, NEW row \in Row, calls' = [calls EXCEPT ![k] = row],
               calls[k].status \in Live \cup {"none"}
        PROVE  calls'[c] = calls[c]
    BY <1>1, <2>1, <2>3 DEF TypeOK, Live, Final
  <2>. QED
    BY <1>1, <2>2, <2>3, RowSteps DEF Live
<1>2. IInv /\ [Next]_vars =>
        [\A c \in CallIds : calls[c].status \in Final => calls'[c] = calls[c]]_vars
  BY <1>1
<1>. QED
  BY <1>2, Invariance, PTL DEF Spec, SettledIsFinal

\* Every row goes through the lifecycle CallLifecycle promises: each step of
\* the handlers, timers, sweeps, crashes and failures is a step of it or none.
THEOREM Refinement == Spec => ImplementsLifecycle
<1> DEFINE S == [c \in CallIds |-> calls[c].status]
           C == [c \in CallIds |-> calls[c].connected]
<1>1. Init => Lifecycle!Init
  BY DEF Init, Lifecycle!Init, NoRow
<1>2. ASSUME IInv, [Next]_vars PROVE [Lifecycle!Next]_(Lifecycle!vars)
  <2>1. TypeOK
    BY <1>2 DEF IInv
  <2>2. CASE UNCHANGED calls
    BY <2>2 DEF Lifecycle!vars
  <2>3. ASSUME NEW c \in CallIds, NEW row \in Row, calls' = [calls EXCEPT ![c] = row]
        PROVE  /\ S' = [S EXCEPT ![c] = row.status]
               /\ C' = [C EXCEPT ![c] = row.connected]
               /\ row.connected = calls[c].connected => C' = C
    BY <2>1, <2>3 DEF TypeOK
  <2>4. ASSUME NEW c \in CallIds, NEW row \in Row, calls' = [calls EXCEPT ![c] = row],
               calls[c].status = "none", ~calls[c].connected,
               row.status = "ringing", ~row.connected
        PROVE  Lifecycle!Next
    <3>1. calls[c].connected = FALSE /\ row.connected = FALSE
      BY <2>1, <2>4 DEF TypeOK, Row
    <3>2. S' = [S EXCEPT ![c] = "ringing"]
      BY ZenonT(40), <2>3, <2>4
    <3>3. C' = C
      BY <2>3, <2>4, <3>1
    <3>. QED
      BY <2>4, <3>2, <3>3 DEF Lifecycle!Next, Lifecycle!Place
  <2>5. ASSUME NEW c \in CallIds, NEW row \in Row, calls' = [calls EXCEPT ![c] = row],
               calls[c].status = "ringing", row.status = "active", row.connected
        PROVE  Lifecycle!Next
    <3>1. row.connected = TRUE
      BY <2>5 DEF Row
    <3>2. C' = [C EXCEPT ![c] = TRUE] /\ S' = [S EXCEPT ![c] = "active"]
      BY <2>3, <2>5, <3>1
    <3>. QED
      BY <2>5, <3>2 DEF Lifecycle!Next, Lifecycle!Answer
  <2>6. ASSUME NEW c \in CallIds, NEW row \in Row, calls' = [calls EXCEPT ![c] = row],
               calls[c].status \in Live, row.status \in Final,
               row.connected = calls[c].connected,
               row.status = "ended" => calls[c].connected
        PROVE  Lifecycle!Next
    <3>1. S' = [S EXCEPT ![c] = row.status]
      BY <2>3, <2>6
    <3>2. C' = C
      BY <2>3, <2>6
    <3>3. Lifecycle!Close(c, row.status)
      BY <2>6, <3>1, <3>2 DEF Lifecycle!Close, Lifecycle!Live, Live
    <3>. QED
      BY <2>6, <3>3 DEF Lifecycle!Next, Lifecycle!Final, Final
  <2>. QED
    BY <1>2, <2>2, <2>4, <2>5, <2>6, RowSteps
<1>. QED
  BY <1>1, <1>2, Invariance, PTL DEF Spec, ImplementsLifecycle, Lifecycle!Spec

-----------------------------------------------------------------------------
(* Ring timers.  The timer of a call that is set, the handler about to set *)
(* it and the handler it went off in are one thing in three places.        *)

Rings(t, c) == At(t, "ring") /\ tasks[t].dial.call = c
Fired(t, c) == tasks[t].op = "timeout" /\ tasks[t].on = c

TimersOK(c) ==
  /\ \A v, w \in Workers : c \in timers[v] /\ c \in timers[w] => v = w
  /\ \A t, u \in Tasks : (Rings(t, c) \/ Fired(t, c)) /\ (Rings(u, c) \/ Fired(u, c)) => t = u
  /\ \A t \in Tasks, w \in Workers : c \in timers[w] => ~Rings(t, c) /\ ~Fired(t, c)
  /\ calls[c].status = "none" =>
       /\ \A w \in Workers : c \notin timers[w]
       /\ \A t \in Tasks : ~Rings(t, c) /\ ~Fired(t, c)

\* Where a timer that has gone off goes on.
FiredOK(t) == tasks[t].op = "timeout" => tasks[t].pc \in {"read", "write", "finish"}

TimersInv ==
  /\ \A c \in CallIds : TimersOK(c)
  /\ \A t \in Tasks : FiredOK(t)

\* A task s rings no call and is no timer that r was not.
Keeps(r, s) ==
  /\ s.pc = "ring" => r.pc = "ring" /\ s.dial = r.dial
  /\ s.op = "timeout" => /\ r.op = "timeout" /\ s.on = r.on
                         /\ s.pc \in {"read", "write", "finish"}

\* A row that was placed stays.
RowsStay == \A c \in CallIds : calls'[c].status = "none" => calls[c].status = "none"

LEMMA RowsStayPlaced ==
  ASSUME IInv, [Next]_vars
  PROVE  RowsStay
<1>1. calls \in [CallIds -> Row]
  BY DEF IInv, TypeOK
<1>2. ASSUME NEW c \in CallIds, NEW row \in Row, calls' = [calls EXCEPT ![c] = row],
             row.status # "none"
      PROVE  RowsStay
  BY <1>1, <1>2 DEF RowsStay
<1>3. "none" \notin Live \cup Final \cup {"ringing", "active"}
  BY DEF Live, Final
<1>4. CASE UNCHANGED calls
  BY <1>4 DEF RowsStay
<1>. QED
  BY <1>2, <1>3, <1>4, RowSteps

LEMMA TimersKeep ==
  ASSUME TimersInv, RowsStay, \A w \in Workers : timers'[w] \subseteq timers[w],
         \A t \in Tasks : Keeps(tasks[t], tasks'[t])
  PROVE  TimersInv'
<1>1. \A t \in Tasks : FiredOK(t)'
  BY DEF FiredOK, Keeps
<1>2. ASSUME NEW c \in CallIds PROVE TimersOK(c)'
  <2>1. \A t \in Tasks : /\ Rings(t, c)' => Rings(t, c)
                         /\ Fired(t, c)' => Fired(t, c)
    BY DEF Rings, Fired, Keeps
  <2>2. \A w \in Workers : c \in timers'[w] => c \in timers[w]
    OBVIOUS
  <2>3. TimersOK(c) /\ (calls'[c].status = "none" => calls[c].status = "none")
    BY DEF TimersInv, RowsStay
  <2>. QED
    BY <2>1, <2>2, <2>3 DEF TimersOK
<1>. QED
  BY <1>1, <1>2 DEF TimersInv

LEMMA StaysKept ==
  ASSUME TimersInv, NEW t \in Tasks, tasks'[t] = tasks[t]
  PROVE  Keeps(tasks[t], tasks'[t])
  BY DEF TimersInv, FiredOK, Keeps

\* One task that becomes another of which it is true.
LEMMA OneKeeps ==
  ASSUME IInv, TimersInv, NEW t \in Tasks, NEW s \in Task, Become(t, s), Keeps(tasks[t], s),
         RowsStay, \A w \in Workers : timers'[w] \subseteq timers[w]
  PROVE  TimersInv'
<1>1. Replaced(t, s)
  BY BecomeReplaces DEF IInv
<1>2. ASSUME NEW u \in Tasks PROVE Keeps(tasks[u], tasks'[u])
  <2>1. CASE u = t
    BY <1>1, <2>1 DEF Replaced
  <2>2. CASE u # t
    BY <1>1, <2>2, StaysKept DEF Replaced
  <2>. QED
    BY <2>1, <2>2
<1>. QED
  BY <1>2, TimersKeep

LEMMA IdleKeeps == \A r : Keeps(r, IdleTask)
  BY DEF Keeps, IdleTask

LEMMA ReturnKeepsTimers ==
  ASSUME IInv, TimersInv, NEW t \in Tasks, Return(t), RowsStay,
         \A w \in Workers : timers'[w] \subseteq timers[w]
  PROVE  TimersInv'
  BY IdleIsATask, IdleKeeps, OneKeeps DEF Return

LEMMA GotoKeepsTimers ==
  ASSUME IInv, TimersInv, NEW t \in Tasks, NEW pc \in Pcs \ {"ring"}, Goto(t, pc), RowsStay,
         tasks[t].op = "timeout" => pc \in {"read", "write", "finish"},
         UNCHANGED timers
  PROVE  TimersInv'
<1>1. tasks[t] \in Task
  BY DEF IInv, TypeOK
<1>2. PICK s : s = [tasks[t] EXCEPT !.pc = pc]
  OBVIOUS
<1>3. Moved(tasks[t], s, pc, tasks[t].on, tasks[t].want, tasks[t].sawConnected, tasks[t].todo,
            tasks[t].closed)
  BY <1>1, <1>2, GotoFields
<1>4. s \in Task /\ Keeps(tasks[t], s)
  BY <1>3 DEF Moved, Keeps
<1>. QED
  BY <1>2, <1>4, OneKeeps DEF Goto

\* The steps of a task that neither set a ring timer nor let one go off.
LEMMA StepKeepsTimers ==
  ASSUME IInv, TimersInv, NEW t \in Tasks, Step(t), RowsStay,
         ~Ring(t), ~(Create(t) /\ ~Return(t))
  PROVE  TimersInv'
<1>1. tasks[t] \in Task /\ TaskOK(t) /\ FiredOK(t) /\ TypeOK
  BY DEF IInv, TypeOK, TimersInv
<1>2. Live \subseteq {"ringing", "active"} /\ {"failed"} \subseteq Final
  BY DEF Live, Final
<1>3. CASE BusyCheck(t)
  BY <1>1, <1>3, ReturnKeepsTimers, GotoKeepsTimers DEF BusyCheck, TaskOK, Pcs
<1>4. CASE DanglingCheck(t)
  <2>1. UNCHANGED timers /\ tasks[t].op = "invite"
    BY <1>1, <1>4 DEF DanglingCheck, TaskOK
  <2>2. CASE Goto(t, "create")
    BY <1>1, <2>1, <2>2, GotoKeepsTimers DEF Pcs
  <2>3. ASSUME NEW c \in LiveCallsFor(tasks[t].by),
               Become(t, [tasks[t] EXCEPT !.pc = "read", !.on = c, !.want = "failed"])
        PROVE  TimersInv'
    <3>1. PICK s : s = [tasks[t] EXCEPT !.pc = "read", !.on = c, !.want = "failed"]
      OBVIOUS
    <3>2. c \in CallIds
      BY DEF LiveCallsFor
    <3>3. Moved(tasks[t], s, "read", c, "failed", tasks[t].sawConnected, tasks[t].todo,
                tasks[t].closed)
      BY <1>1, <1>2, <3>1, <3>2, ChooseFields DEF Pcs
    <3>4. s \in Task /\ Keeps(tasks[t], s)
      BY <2>1, <3>3 DEF Moved, Keeps
    <3>. QED
      BY <2>1, <2>3, <3>1, <3>4, OneKeeps
  <2>. QED
    BY <1>4, <2>2, <2>3 DEF DanglingCheck
<1>5. CASE Create(t) /\ Return(t)
  BY <1>5, ReturnKeepsTimers DEF Create
<1>6. CASE AcceptWrite(t)
  <2>1. UNCHANGED timers /\ (Goto(t, "finish") \/ Return(t))
    BY <1>6 DEF AcceptWrite
  <2>. QED
    BY <2>1, ReturnKeepsTimers, GotoKeepsTimers DEF Pcs
<1>7. CASE PartyCheck(t)
  <2>1. UNCHANGED timers /\ tasks[t].op # "timeout" /\ tasks[t].pc = "party"
    BY <1>1, <1>7 DEF PartyCheck, FiredOK
  <2>2. CASE Return(t)
    BY <2>1, <2>2, ReturnKeepsTimers
  <2>3. CASE Become(t, [tasks[t] EXCEPT !.pc = "read", !.want = Outcome(t)])
    <3>1. PICK s : s = [tasks[t] EXCEPT !.pc = "read", !.want = Outcome(t)]
      OBVIOUS
    <3>2. Outcome(t) \in Final
      BY DEF Outcome, HangUpOutcome, Final
    <3>3. Moved(tasks[t], s, "read", tasks[t].on, Outcome(t), tasks[t].sawConnected,
                tasks[t].todo, tasks[t].closed)
      BY <1>1, <3>1, <3>2, DecideFields DEF Pcs
    <3>4. s \in Task /\ Keeps(tasks[t], s)
      BY <2>1, <3>3 DEF Moved, Keeps
    <3>. QED
      BY <2>1, <2>3, <3>1, <3>4, OneKeeps
  <2>. QED
    BY <1>7, <2>2, <2>3 DEF PartyCheck
<1>8. CASE DisconnectRead(t)
  <2>1. UNCHANGED timers /\ tasks[t].op # "timeout"
    BY <1>1, <1>8 DEF DisconnectRead, FiredOK
  <2>2. CASE Return(t)
    BY <2>1, <2>2, ReturnKeepsTimers
  <2>3. ASSUME NEW c \in LiveCallsFor(tasks[t].by),
               Become(t, [tasks[t] EXCEPT !.pc = "read", !.on = c, !.want = HangUpOutcome(c)])
        PROVE  TimersInv'
    <3>1. PICK s : s = [tasks[t] EXCEPT !.pc = "read", !.on = c, !.want = HangUpOutcome(c)]
      OBVIOUS
    <3>2. c \in CallIds /\ HangUpOutcome(c) \in Final
      BY DEF LiveCallsFor, HangUpOutcome, Final
    <3>3. Moved(tasks[t], s, "read", c, HangUpOutcome(c), tasks[t].sawConnected, tasks[t].todo,
                tasks[t].closed)
      BY <1>1, <3>1, <3>2, ChooseFields DEF Pcs
    <3>4. s \in Task /\ Keeps(tasks[t], s)
      BY <2>1, <3>3 DEF Moved, Keeps
    <3>. QED
      BY <2>1, <2>3, <3>1, <3>4, OneKeeps
  <2>. QED
    BY <1>8, <2>2, <2>3 DEF DisconnectRead
<1>9. AfterSettle(tasks[t].op) \in Pcs \ {"ring"}
        /\ (tasks[t].op = "timeout" => AfterSettle(tasks[t].op) = "finish")
  BY DEF AfterSettle, Pcs
<1>10. CASE SettleRead(t)
  <2>1. UNCHANGED timers
    BY <1>10 DEF SettleRead
  <2>2. CASE Goto(t, AfterSettle(tasks[t].op))
    BY <1>9, <2>1, <2>2, GotoKeepsTimers
  <2>3. CASE Become(t, [tasks[t] EXCEPT !.pc = "write", !.sawConnected = calls[tasks[t].on].connected])
    <3>1. PICK b : b = calls[tasks[t].on].connected
      OBVIOUS
    <3>2. b \in BOOLEAN
      BY <1>1, <1>10, <3>1 DEF SettleRead, TaskOK, Settling, TypeOK, Row
    <3>3. PICK s : s = [tasks[t] EXCEPT !.pc = "write", !.sawConnected = b]
      OBVIOUS
    <3>4. Moved(tasks[t], s, "write", tasks[t].on, tasks[t].want, b, tasks[t].todo,
                tasks[t].closed)
      BY <1>1, <3>2, <3>3, ReadFields DEF Pcs
    <3>5. s \in Task /\ Keeps(tasks[t], s)
      BY <3>4 DEF Moved, Keeps
    <3>. QED
      BY <2>1, <2>3, <3>1, <3>3, <3>5, OneKeeps
  <2>. QED
    BY <1>10, <2>2, <2>3 DEF SettleRead
<1>11. CASE SettleWrite(t)
  <2>1. UNCHANGED timers
    BY <1>11 DEF SettleWrite
  <2>2. CASE Goto(t, AfterSettle(tasks[t].op))
    BY <1>9, <2>1, <2>2, GotoKeepsTimers
  <2>3. CASE Become(t, [tasks[t] EXCEPT !.pc = AfterSettle(tasks[t].op), !.sawConnected = FALSE,
                                        !.closed = @ \cup {tasks[t].on}])
    <3>1. PICK pc \in Pcs \ {"ring"} : pc = AfterSettle(tasks[t].op)
      BY <1>9
    <3>2. PICK closed : closed = tasks[t].closed \cup {tasks[t].on}
      OBVIOUS
    <3>3. closed \in SUBSET CallIds
      BY <1>1, <1>11, <3>2 DEF SettleWrite, TaskOK, Settling, Task
    <3>4. PICK s : s = [tasks[t] EXCEPT !.pc = pc, !.sawConnected = FALSE, !.closed = closed]
      OBVIOUS
    <3>5. Moved(tasks[t], s, pc, tasks[t].on, tasks[t].want, FALSE, tasks[t].todo, closed)
      BY <1>1, <3>3, <3>4, WriteFields
    <3>6. s \in Task /\ Keeps(tasks[t], s)
      BY <1>9, <3>1, <3>5 DEF Moved, Keeps
    <3>7. s = [tasks[t] EXCEPT !.pc = AfterSettle(tasks[t].op), !.sawConnected = FALSE,
                               !.closed = @ \cup {tasks[t].on}]
      BY <1>1, <3>1, <3>2, <3>4
    <3>. QED
      BY <2>1, <2>3, <3>6, <3>7, OneKeeps
  <2>. QED
    BY <1>11, <2>2, <2>3, Zenon DEF SettleWrite
<1>12. CASE Finish(t)
  <2>1. \A w \in Workers : timers'[w] \subseteq timers[w]
    BY <1>1, <1>12 DEF Finish, TypeOK
  <2>. QED
    BY <1>12, <2>1, ReturnKeepsTimers DEF Finish
<1>13. CASE SweepFind(t)
  <2>1. UNCHANGED timers /\ tasks[t].op = "sweep"
    BY <1>1, <1>13 DEF SweepFind, TaskOK
  <2>2. PICK todo \in SUBSET CallIds : todo = StaleRings
    BY <1>1 DEF StaleRings, TypeOK
  <2>3. PICK s : s = [tasks[t] EXCEPT !.pc = "next", !.todo = todo]
    OBVIOUS
  <2>4. Moved(tasks[t], s, "next", tasks[t].on, tasks[t].want, tasks[t].sawConnected, todo,
              tasks[t].closed)
    BY <1>1, <2>3, FindFields DEF Pcs
  <2>5. s \in Task /\ Keeps(tasks[t], s)
    BY <2>1, <2>4 DEF Moved, Keeps
  <2>. QED
    BY <1>13, <2>1, <2>2, <2>3, <2>5, OneKeeps DEF SweepFind
<1>14. CASE SweepNext(t)
  <2>1. UNCHANGED timers /\ tasks[t].op = "sweep"
    BY <1>1, <1>14 DEF SweepNext, TaskOK
  <2>2. CASE Goto(t, "finish")
    BY <2>1, <2>2, GotoKeepsTimers DEF Pcs
  <2>3. ASSUME NEW c \in tasks[t].todo,
               Become(t, [tasks[t] EXCEPT !.pc = "read", !.on = c, !.todo = @ \ {c}])
        PROVE  TimersInv'
    <3>1. PICK todo : todo = tasks[t].todo \ {c}
      OBVIOUS
    <3>2. c \in CallIds /\ todo \in SUBSET CallIds
      BY <1>1, <3>1 DEF Task
    <3>3. PICK s : s = [tasks[t] EXCEPT !.pc = "read", !.on = c, !.todo = todo]
      OBVIOUS
    <3>4. Moved(tasks[t], s, "read", c, tasks[t].want, tasks[t].sawConnected, todo,
                tasks[t].closed)
      BY <1>1, <3>2, <3>3, NextFields DEF Pcs
    <3>5. s \in Task /\ Keeps(tasks[t], s)
      BY <2>1, <3>4 DEF Moved, Keeps
    <3>6. s = [tasks[t] EXCEPT !.pc = "read", !.on = c, !.todo = @ \ {c}]
      BY <1>1, <3>1, <3>3
    <3>. QED
      BY <2>1, <2>3, <3>5, <3>6, OneKeeps
  <2>. QED
    BY <1>14, <2>2, <2>3 DEF SweepNext
<1>. QED
  BY <1>3, <1>4, <1>5, <1>6, <1>7, <1>8, <1>10, <1>11, <1>12, <1>13, <1>14 DEF Step

\* The insert of a row is the only way to a ring: the row was not there.
LEMMA CreateRingsOnce ==
  ASSUME IInv, TimersInv, NEW t \in Tasks, Create(t), ~Return(t), RowsStay
  PROVE  TimersInv'
<1>1. PICK c : c = tasks[t].dial.call
  OBVIOUS
<1>2. tasks[t] \in Task /\ tasks[t].op = "invite" /\ tasks[t].dial \in Dials
  BY DEF IInv, TypeOK, TaskOK, Create
<1>3. c \in CallIds
  BY <1>1, <1>2, DialsAssumption
<1>4. PICK s : s = [tasks[t] EXCEPT !.pc = "ring"]
  OBVIOUS
<1>5. /\ calls[c].status = "none" /\ Become(t, s) /\ UNCHANGED timers
      /\ \E row : calls' = [calls EXCEPT ![c] = row] /\ row.status = "ringing"
  BY <1>1, <1>4 DEF Create, FreeId, Goto
<1>6. Moved(tasks[t], s, "ring", tasks[t].on, tasks[t].want, tasks[t].sawConnected, tasks[t].todo,
            tasks[t].closed)
  BY <1>2, <1>4, GotoFields DEF Pcs
<1>7. Replaced(t, s)
  BY <1>5, <1>6, BecomeReplaces DEF IInv, Moved
<1>8. /\ s.pc = "ring" /\ s.dial.call = c /\ s.op = "invite"
  BY <1>1, <1>2, <1>6 DEF Moved
<1>9. calls'[c].status = "ringing"
  BY <1>3, <1>5 DEF IInv, TypeOK
<1>10. /\ \A w \in Workers : c \notin timers[w]
       /\ \A u \in Tasks : ~Rings(u, c) /\ ~Fired(u, c)
  BY <1>3, <1>5 DEF TimersInv, TimersOK
<1>11. \A u \in Tasks : FiredOK(u)'
  <2>1. ASSUME NEW u \in Tasks PROVE FiredOK(u)'
    BY <1>7, <1>8 DEF Replaced, FiredOK, TimersInv
  <2>. QED
    BY <2>1
<1>12. ASSUME NEW d \in CallIds PROVE TimersOK(d)'
  <2>1. \A u \in Tasks \ {t} : /\ Rings(u, d)' <=> Rings(u, d)
                               /\ Fired(u, d)' <=> Fired(u, d)
    BY <1>7 DEF Replaced, Rings, Fired
  <2>2. (Rings(t, d)' <=> d = c) /\ ~Fired(t, d)'
    BY <1>7, <1>8 DEF Replaced, Rings, Fired
  <2>3. CASE d = c
    BY <1>5, <1>9, <1>10, <2>1, <2>2, <2>3 DEF TimersOK
  <2>4. CASE d # c
    <3>1. TimersOK(d) /\ (calls'[d].status = "none" => calls[d].status = "none")
      BY DEF TimersInv, RowsStay
    <3>. QED
      BY <1>5, <2>1, <2>2, <2>4, <3>1 DEF TimersOK
  <2>. QED
    BY <2>3, <2>4
<1>. QED
  BY <1>11, <1>12 DEF TimersInv

\* A ring becomes the timer of its worker.
LEMMA RingSetsTimer ==
  ASSUME IInv, TimersInv, NEW t \in Tasks, Ring(t), RowsStay
  PROVE  TimersInv'
<1>1. PICK c, x : c = tasks[t].dial.call /\ x = tasks[t].at
  OBVIOUS
<1>2. timers' = [timers EXCEPT ![x] = @ \cup {c}] /\ Return(t) /\ Rings(t, c)
  BY <1>1 DEF Ring, Rings
<1>3. Replaced(t, IdleTask) /\ timers \in [Workers -> SUBSET CallIds]
  BY <1>2, ReturnReplaces DEF IInv, TypeOK
<1>4. \A u \in Tasks : FiredOK(u)'
  <2>1. ASSUME NEW u \in Tasks PROVE FiredOK(u)'
    BY <1>3 DEF Replaced, FiredOK, TimersInv, IdleTask
  <2>. QED
    BY <2>1
<1>5. ASSUME NEW d \in CallIds PROVE TimersOK(d)'
  <2>1. \A u \in Tasks \ {t} : /\ Rings(u, d)' <=> Rings(u, d)
                               /\ Fired(u, d)' <=> Fired(u, d)
    BY <1>3 DEF Replaced, Rings, Fired
  <2>2. ~Rings(t, d)' /\ ~Fired(t, d)'
    BY <1>3 DEF Replaced, Rings, Fired, IdleTask
  <2>3. \A w \in Workers : d \in timers'[w] <=> d \in timers[w] \/ (d = c /\ w = x)
    BY <1>2, <1>3
  <2>4. TimersOK(d) /\ (calls'[d].status = "none" => calls[d].status = "none")
    BY DEF TimersInv, RowsStay
  <2>5. CASE d = c
    BY <1>2, <2>1, <2>2, <2>3, <2>4, <2>5 DEF TimersOK
  <2>6. CASE d # c
    BY <2>1, <2>2, <2>3, <2>4, <2>6 DEF TimersOK
  <2>. QED
    BY <2>5, <2>6
<1>. QED
  BY <1>4, <1>5 DEF TimersInv

\* A task that begins, other than a timer.
LEMMA BeginKeepsTimers ==
  ASSUME IInv, TimersInv, NEW t \in Tasks, NEW op \in Ops \ {"timeout"}, NEW pc \in Pcs \ {"ring"},
         NEW w \in Workers, NEW u \in Users \cup {Null}, NEW dial \in Dials \cup {Null},
         NEW c \in CallIds \cup {Null}, NEW want \in Final \cup {Null},
         Begin(t, op, pc, w, u, dial, c, want), RowsStay, UNCHANGED timers
  PROVE  TimersInv'
<1>1. PICK s : s = [ op |-> op, pc |-> pc, at |-> w, by |-> u, dial |-> dial, on |-> c,
                     want |-> want, sawConnected |-> FALSE, todo |-> {}, closed |-> {} ]
  OBVIOUS
<1>2. s \in Task /\ Keeps(tasks[t], s)
  BY <1>1 DEF Task, Keeps
<1>. QED
  BY <1>1, <1>2, OneKeeps DEF Begin

\* A timer goes off: it is no longer set.
LEMMA TimerGoesOff ==
  ASSUME IInv, TimersInv, NEW t \in Tasks, NEW x \in Workers, NEW c \in CallIds,
         TimerFires(t, x, c), RowsStay
  PROVE  TimersInv'
<1>1. PICK s : s = [ op |-> "timeout", pc |-> "read", at |-> x, by |-> Null, dial |-> Null,
                     on |-> c, want |-> "missed", sawConnected |-> FALSE, todo |-> {},
                     closed |-> {} ]
  OBVIOUS
<1>2. s \in Task
  BY <1>1 DEF Task, Ops, Pcs, Final
<1>3. /\ c \in timers[x] /\ timers' = [timers EXCEPT ![x] = @ \ {c}]
      /\ Become(t, s) /\ tasks[t] = IdleTask
  BY <1>1 DEF TimerFires, Begin
<1>4. Replaced(t, s) /\ timers \in [Workers -> SUBSET CallIds]
  BY <1>2, <1>3, BecomeReplaces DEF IInv, TypeOK
<1>5. s.op = "timeout" /\ s.pc = "read" /\ s.on = c
  BY <1>1
<1>6. \A u \in Tasks : FiredOK(u)'
  <2>1. ASSUME NEW u \in Tasks PROVE FiredOK(u)'
    BY <1>4, <1>5 DEF Replaced, FiredOK, TimersInv
  <2>. QED
    BY <2>1
<1>7. ASSUME NEW d \in CallIds PROVE TimersOK(d)'
  <2>1. \A u \in Tasks \ {t} : /\ Rings(u, d)' <=> Rings(u, d)
                               /\ Fired(u, d)' <=> Fired(u, d)
    BY <1>4 DEF Replaced, Rings, Fired
  <2>2. ~Rings(t, d)' /\ (Fired(t, d)' <=> d = c)
    BY <1>4, <1>5 DEF Replaced, Rings, Fired
  <2>3. \A w \in Workers : d \in timers'[w] <=> d \in timers[w] /\ ~(d = c /\ w = x)
    BY <1>3, <1>4
  <2>4. TimersOK(d) /\ (calls'[d].status = "none" => calls[d].status = "none")
    BY DEF TimersInv, RowsStay
  <2>5. CASE d = c
    <3>1. \A w \in Workers : c \in timers[w] => w = x
      BY <1>3, <2>4, <2>5 DEF TimersOK
    <3>. QED
      BY <1>3, <2>1, <2>2, <2>3, <2>4, <2>5, <3>1 DEF TimersOK
  <2>6. CASE d # c
    BY <2>1, <2>2, <2>3, <2>4, <2>6 DEF TimersOK
  <2>. QED
    BY <2>5, <2>6
<1>. QED
  BY <1>6, <1>7 DEF TimersInv

LEMMA RequestKeepsTimers ==
  ASSUME IInv, TimersInv, NEW t \in Handlers, NEW w \in Workers, Request(t, w), RowsStay
  PROVE  TimersInv'
<1>1. ASSUME NEW d \in Dials, Invite(t, w, d) PROVE TimersInv'
  BY <1>1, BeginKeepsTimers, DialsAssumption DEF Invite, Ops, Pcs
<1>2. ASSUME NEW u \in Users, NEW c \in CallIds, Accept(t, w, u, c) PROVE TimersInv'
  BY <1>2, BeginKeepsTimers DEF Accept, Ops, Pcs
<1>3. ASSUME NEW u \in Users, NEW c \in CallIds, NEW op \in EndOps, End(t, op, w, u, c)
      PROVE TimersInv'
  <2>1. op \in Ops \ {"timeout"}
    BY DEF Ops, EndOps
  <2>. QED
    BY <1>3, <2>1, BeginKeepsTimers DEF End, Pcs
<1>4. ASSUME NEW u \in Users, Disconnect(t, w, u) PROVE TimersInv'
  BY <1>4, BeginKeepsTimers DEF Disconnect, Ops, Pcs
<1>5. ASSUME NEW c \in CallIds, TimerFires(t, w, c) PROVE TimersInv'
  BY <1>5, TimerGoesOff
<1>. QED
  BY <1>1, <1>2, <1>3, <1>4, <1>5 DEF Request

LEMMA TimersStep ==
  ASSUME IInv, TimersInv, [Next]_vars
  PROVE  TimersInv'
<1>1. RowsStay
  BY RowsStayPlaced
<1>2. ASSUME NEW t \in Tasks, Step(t) PROVE TimersInv'
  BY <1>1, <1>2, StepKeepsTimers, CreateRingsOnce, RingSetsTimer
<1>3. ASSUME NEW t \in Tasks, DbFails(t) PROVE TimersInv'
  BY <1>1, <1>3, ReturnKeepsTimers DEF DbFails
<1>4. ASSUME NEW t \in Sweepers, NEW w \in Workers, SweepStart(t, w) PROVE TimersInv'
  BY <1>1, <1>4, BeginKeepsTimers DEF SweepStart, Ops, Pcs, Final
<1>5. ASSUME NEW w \in Workers, Crash(w) PROVE TimersInv'
  <2>1. \A v \in Workers : timers'[v] \subseteq timers[v]
    BY <1>5 DEF Crash, IInv, TypeOK
  <2>2. ASSUME NEW t \in Tasks PROVE Keeps(tasks[t], tasks'[t])
    <3>1. tasks'[t] = tasks[t] \/ tasks'[t] = IdleTask
      BY <1>5 DEF Crash
    <3>. QED
      BY <3>1, StaysKept, IdleKeeps
  <2>. QED
    BY <1>1, <2>1, <2>2, TimersKeep
<1>6. ASSUME UNCHANGED <<timers, tasks>> PROVE TimersInv'
  BY <1>1, <1>6, StaysKept, TimersKeep
<1>7. ASSUME NEW c \in CallIds, RingTimeout(c) PROVE TimersInv'
  BY <1>6, <1>7 DEF RingTimeout
<1>8. CASE UNCHANGED vars
  BY <1>6, <1>8 DEF vars
<1>. QED
  BY <1>2, <1>3, <1>4, <1>5, <1>7, <1>8, RequestKeepsTimers, <1>1 DEF Next

LEMMA TimersInit == Init => TimersInv
<1>. SUFFICES ASSUME Init PROVE TimersInv
  OBVIOUS
<1>1. \A t \in Tasks : tasks[t].op = "idle" /\ tasks[t].pc = "idle"
  BY DEF Init, IdleTask
<1>2. \A w \in Workers : timers[w] = {}
  BY DEF Init
<1>. QED
  BY <1>1, <1>2 DEF TimersInv, TimersOK, FiredOK, Rings, Fired

\* A set of which all elements are one has one at most.
LEMMA AtMostOne ==
  ASSUME NEW S, \A x, y \in S : x = y
  PROVE  (Cardinality(S) = 0 /\ S = {}) \/ Cardinality(S) = 1
<1>1. CASE S = {}
  BY <1>1, FS_EmptySet
<1>2. CASE S # {}
  <2>1. PICK x \in S : S = {x}
    BY <1>2
  <2>. QED
    BY <2>1, FS_Singleton
<1>. QED
  BY <1>1, <1>2

\* However often an invite is replayed and whoever answers where, a call has one
\* ring timer in the cluster: replays of its invite do not find the id free.
THEOREM OneTimer == Spec => []OneRingTimer
<1>1. ASSUME IInv, TimersInv PROVE OneRingTimer
  <2>1. SUFFICES ASSUME NEW c \in CallIds
                 PROVE  Cardinality({w \in Workers : c \in timers[w]})
                          + Cardinality({t \in Tasks : At(t, "ring") /\ tasks[t].dial.call = c})
                          + Cardinality({t \in Tasks : tasks[t].op = "timeout" /\ tasks[t].on = c}) <= 1
    BY DEF OneRingTimer
  <2>2. PICK W, R, F : /\ W = {w \in Workers : c \in timers[w]}
                       /\ R = {t \in Tasks : Rings(t, c)}
                       /\ F = {t \in Tasks : Fired(t, c)}
    OBVIOUS
  <2>3. TimersOK(c) /\ \A t \in Tasks : TaskOK(t)
    BY <1>1 DEF TimersInv, IInv
  <2>4. /\ \A x, y \in W : x = y
        /\ \A x, y \in R : x = y
        /\ \A x, y \in F : x = y
        /\ W = {} \/ (R = {} /\ F = {})
    BY <2>2, <2>3 DEF TimersOK
  <2>5. \A t \in Tasks : ~(Rings(t, c) /\ Fired(t, c))
    BY <2>3 DEF TaskOK, Rings, Fired
  <2>6. R = {} \/ F = {}
    BY <2>2, <2>3, <2>5 DEF TimersOK
  <2>7. /\ (Cardinality(W) = 0 /\ W = {}) \/ Cardinality(W) = 1
        /\ (Cardinality(R) = 0 /\ R = {}) \/ Cardinality(R) = 1
        /\ (Cardinality(F) = 0 /\ F = {}) \/ Cardinality(F) = 1
    BY <2>4, AtMostOne
  <2>8. Cardinality({}) = 0
    BY FS_EmptySet
  <2>9. Cardinality(W) + Cardinality(R) + Cardinality(F) <= 1
    BY <2>4, <2>6, <2>7, <2>8
  <2>. QED
    BY <2>2, <2>9 DEF Rings, Fired
<1>. QED
  BY <1>1, IInvInit, IInvStep, TimersInit, TimersStep, PTL DEF Spec
=============================================================================
