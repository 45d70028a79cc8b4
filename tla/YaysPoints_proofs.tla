-------------------------- MODULE YaysPoints_proofs --------------------------
(***************************************************************************)
(* Theorems about YaysPoints, for any number of requests in flight, any    *)
(* activities and payments, any cap and any number of days and faults.     *)
(*                                                                         *)
(* A check-in claims its day several awaits before it is paid, on what it  *)
(* read several awaits before that: the invariant says what a request that *)
(* has read but not written yet still knows to be true.                    *)
(***************************************************************************)
EXTENDS YaysPoints, FiniteSetTheorems, TLAPS

-----------------------------------------------------------------------------
(* Sums over finite sets.  The fold of MapThenSumSet is a recursive         *)
(* function on the subsets; what it returns is proved by taking a smallest  *)
(* subset for which a claim fails.                                          *)

LEMMA SmallestSet ==
  ASSUME NEW S, IsFiniteSet(S), NEW B \in SUBSET (SUBSET S), B # {}
  PROVE  \E T \in B : \A U \in SUBSET T : U \in B => U = T
<1>1. IsWellFoundedOn(StrictSubsetOrdering(S), SUBSET S)
  BY FS_StrictSubsetOrderingWellFounded, FS_FiniteSubsetsOfFinite, Zenon
<1>2. PICK T \in B : \A U \in B : <<U, T>> \notin StrictSubsetOrdering(S)
  BY <1>1, WFMin, Zenon
<1>. QED BY <1>2 DEF StrictSubsetOrdering

Chosen(T) == CHOOSE x \in T : TRUE
Others(T) == T \ {Chosen(T)}

Sums(g, f, S) ==
  g = [T \in SUBSET S |-> IF T = {} THEN 0 ELSE f[Chosen(T)] + g[Others(T)]]

LEMMA ChosenIsIn ==
  ASSUME NEW T, T # {}
  PROVE  Chosen(T) \in T /\ Others(T) \subseteq T /\ Others(T) # T
BY DEF Chosen, Others

LEMMA SumStep ==
  ASSUME NEW S, NEW f, NEW g, Sums(g, f, S), NEW T \in SUBSET S
  PROVE  g[T] = IF T = {} THEN 0 ELSE f[Chosen(T)] + g[Others(T)]
BY Zenon DEF Sums

LEMMA SumsAgree ==
  ASSUME NEW S, IsFiniteSet(S), NEW f, NEW T \in SUBSET S, NEW U \in SUBSET T,
         NEW g, Sums(g, f, T), NEW h, Sums(h, f, U)
  PROVE  g[U] = h[U]
<1>. DEFINE B == {W \in SUBSET U : g[W] # h[W]}
<1>1. SUFFICES ASSUME B # {} PROVE FALSE
  OBVIOUS
<1>2. PICK W \in B : \A X \in SUBSET W : X \in B => X = W
  <2>1. B \in SUBSET (SUBSET U) /\ B # {} /\ IsFiniteSet(U)
    BY <1>1, FS_Subset
  <2>. HIDE DEF B
  <2>. QED BY <2>1, SmallestSet
<1>3. W \in SUBSET U /\ W \in SUBSET T
  OBVIOUS
<1>4. W # {}
  BY <1>3, SumStep
<1>5. g[Others(W)] = h[Others(W)]
  BY <1>2, <1>4, ChosenIsIn
<1>. QED BY <1>3, <1>4, <1>5, SumStep

LEMMA SumsExist ==
  ASSUME NEW S, IsFiniteSet(S), NEW f
  PROVE  \E g : Sums(g, f, S)
<1>. DEFINE B == {T \in SUBSET S : ~\E g : Sums(g, f, T)}
            G(T) == CHOOSE g : Sums(g, f, T)
            F(T) == IF T = {} THEN 0 ELSE f[Chosen(T)] + G(Others(T))[Others(T)]
<1>1. SUFFICES ASSUME B # {} PROVE FALSE
  OBVIOUS
<1>2. PICK T \in B : \A U \in SUBSET T : U \in B => U = T
  <2>1. B \in SUBSET (SUBSET S) /\ B # {}
    BY <1>1
  <2>. HIDE DEF B
  <2>. QED BY <2>1, SmallestSet
<1>3. ASSUME NEW U \in SUBSET T, U # T PROVE Sums(G(U), f, U)
  BY <1>2, <1>3
<1>. DEFINE g == [U \in SUBSET T |-> F(U)]
<1>4. ASSUME NEW U \in SUBSET T, U # {} PROVE F(U) = f[Chosen(U)] + F(Others(U))
  <2>. DEFINE W == Others(U)
  <2>1. W \in SUBSET T /\ W # T
    BY <1>4, ChosenIsIn
  <2>2. Sums(G(W), f, W)
    BY <1>3, <2>1
  <2>3. F(U) = f[Chosen(U)] + G(W)[W]
    BY <1>4
  <2>4. W # {} => /\ Others(W) \in SUBSET W /\ Others(W) # T
    BY <2>1, ChosenIsIn
  <2>5. W # {} => G(W)[Others(W)] = G(Others(W))[Others(W)]
    <3>1. SUFFICES ASSUME W # {} PROVE G(W)[Others(W)] = G(Others(W))[Others(W)]
      OBVIOUS
    <3>2. Sums(G(Others(W)), f, Others(W))
      BY <1>3, <2>1, <2>4, <3>1
    <3>. HIDE DEF G, W
    <3>. QED BY <2>1, <2>2, <2>4, <3>1, <3>2, SumsAgree
  <2>6. G(W)[W] = IF W = {} THEN 0 ELSE f[Chosen(W)] + G(W)[Others(W)]
    <3>. HIDE DEF G, W
    <3>. QED BY <2>2, SumStep
  <2>7. G(W)[W] = F(W)
    <3>. HIDE DEF G, W
    <3>. QED BY <2>5, <2>6
  <2>. QED BY <2>3, <2>7
<1>5. g = [U \in SUBSET T |-> IF U = {} THEN 0 ELSE f[Chosen(U)] + g[Others(U)]]
  <2>. HIDE DEF F
  <2>1. ASSUME NEW U \in SUBSET T
        PROVE  F(U) = IF U = {} THEN 0 ELSE f[Chosen(U)] + g[Others(U)]
    <3>1. CASE U = {}
      BY <3>1 DEF F
    <3>2. CASE U # {}
      BY <1>4, <3>2, ChosenIsIn
    <3>. QED BY <3>1, <3>2
  <2>. QED BY <2>1
<1>6. Sums(g, f, T)
  BY <1>5 DEF Sums
<1>. QED BY <1>6

LEMMA SumsType ==
  ASSUME NEW S, IsFiniteSet(S), NEW f \in [S -> Int], NEW g, Sums(g, f, S)
  PROVE  \A T \in SUBSET S : g[T] \in Int
<1>. DEFINE B == {T \in SUBSET S : g[T] \notin Int}
<1>1. SUFFICES ASSUME B # {} PROVE FALSE
  OBVIOUS
<1>2. PICK T \in B : \A U \in SUBSET T : U \in B => U = T
  <2>1. B \in SUBSET (SUBSET S) /\ B # {}
    BY <1>1
  <2>. HIDE DEF B
  <2>. QED BY <2>1, SmallestSet
<1>3. T # {}
  <2>1. T \in SUBSET S /\ g[T] \notin Int
    OBVIOUS
  <2>2. T = {} => g[T] = 0
    BY <2>1, SumStep
  <2>. QED BY <2>1, <2>2
<1>4. f[Chosen(T)] \in Int /\ g[Others(T)] \in Int
  BY <1>2, <1>3, ChosenIsIn
<1>. QED BY <1>3, <1>4, SumStep

LEMMA SumChanges ==
  ASSUME NEW S, IsFiniteSet(S), NEW e \in [S -> Int], NEW f \in [S -> Int],
         NEW x \in S, \A y \in S \ {x} : e[y] = f[y],
         NEW g, Sums(g, e, S), NEW h, Sums(h, f, S)
  PROVE  h[S] = g[S] + f[x] - e[x]
<1>. DEFINE Shift(T) == IF x \in T THEN f[x] - e[x] ELSE 0
            B == {T \in SUBSET S : h[T] # g[T] + Shift(T)}
<1>1. SUFFICES ASSUME B # {} PROVE FALSE
  OBVIOUS
<1>2. PICK T \in B : \A U \in SUBSET T : U \in B => U = T
  <2>1. B \in SUBSET (SUBSET S) /\ B # {}
    BY <1>1
  <2>. HIDE DEF B
  <2>. QED BY <2>1, SmallestSet
<1>3. \A U \in SUBSET S : g[U] \in Int /\ h[U] \in Int
  BY SumsType
<1>4. T # {}
  <2>1. T \in SUBSET S /\ h[T] # g[T] + Shift(T)
    OBVIOUS
  <2>2. T = {} => g[T] = 0
    BY <2>1, SumStep
  <2>3. T = {} => h[T] = 0
    BY <2>1, SumStep
  <2>. QED BY <2>1, <2>2, <2>3
<1>5. h[Others(T)] = g[Others(T)] + Shift(Others(T))
  BY <1>2, <1>4, ChosenIsIn
<1>6. /\ g[T] = e[Chosen(T)] + g[Others(T)] /\ h[T] = f[Chosen(T)] + h[Others(T)]
      /\ Chosen(T) \in T /\ Chosen(T) \in S /\ Others(T) \in SUBSET S
  BY <1>4, SumStep, ChosenIsIn
<1>7. CASE Chosen(T) = x
  <2>1. x \in T /\ x \notin Others(T)
    BY <1>6, <1>7 DEF Others
  <2>. QED BY <1>3, <1>5, <1>6, <1>7, <2>1
<1>8. CASE Chosen(T) # x
  <2>1. x \in T <=> x \in Others(T)
    BY <1>6, <1>8 DEF Others
  <2>2. e[Chosen(T)] = f[Chosen(T)] /\ e[Chosen(T)] \in Int
    BY <1>6, <1>8
  <2>. QED BY <1>3, <1>5, <1>6, <2>1, <2>2
<1>. QED BY <1>7, <1>8

LEMMA SumOfNothing ==
  ASSUME NEW S, IsFiniteSet(S), NEW f, \A x \in S : f[x] = 0, NEW g, Sums(g, f, S)
  PROVE  g[S] = 0
<1>. DEFINE B == {T \in SUBSET S : g[T] # 0}
<1>1. SUFFICES ASSUME B # {} PROVE FALSE
  OBVIOUS
<1>2. PICK T \in B : \A U \in SUBSET T : U \in B => U = T
  <2>1. B \in SUBSET (SUBSET S) /\ B # {}
    BY <1>1
  <2>. HIDE DEF B
  <2>. QED BY <2>1, SmallestSet
<1>3. T \in SUBSET S /\ g[T] # 0
  OBVIOUS
<1>4. T # {}
  BY <1>3, SumStep
<1>5. f[Chosen(T)] = 0 /\ g[Others(T)] = 0
  BY <1>2, <1>4, ChosenIsIn
<1>. QED BY <1>3, <1>4, <1>5, SumStep

-----------------------------------------------------------------------------
(* The inductive invariant.                                                *)

\* A request carries a key from its claim to its row, and at no other time.
Keyed(r) ==
  \/ requests[r].pc \in {"byKey", "inc", "recordNothing", "record", "undo"}
  \/ requests[r].pc \in {"read", "roll"} /\ requests[r].then = "pay"

\* A check-in is for a day, a rollover goes from an earlier day to one that has
\* come, and an addition was built on one that has come.
RequestOK(r) ==
  /\ IF Keyed(r) THEN requests[r].key \in Keys ELSE requests[r].key = NoKey
  /\ requests[r].then = "claimDay" \/ requests[r].pc = "claimDay" => requests[r].today \in Days
  /\ requests[r].pc = "roll" => /\ requests[r].stale < requests[r].rollTo
                                /\ requests[r].rollTo \in Days
                                /\ requests[r].rollTo <= day
  /\ requests[r].pc = "inc" => requests[r].on \in Days /\ requests[r].on <= day

\* The days of a streak of n days that ends on d.
StreakPaid(d, n) ==
  \A i \in 0..(n - 1) : d - i \in Days /\ Promised(<<"checkin", d - i>>)

\* A check-in about to claim its day knows the days before it in the streak it
\* will write to be paid, whatever has happened to the account since.
ClaimPaid(r) ==
  requests[r].pc = "claimDay" => StreakPaid(requests[r].today - 1, requests[r].streak - 1)

AllPaid ==
  /\ StreakPaid(account.checkedIn, account.streak)
  /\ \A r \in Requests : ClaimPaid(r)
  /\ attributed => Promised(Welcome)

IInv ==
  /\ TypeOK
  /\ account.earnedOn <= day
  /\ \A r \in Requests : RequestOK(r)
  /\ faults = 0 => AllPaid

-----------------------------------------------------------------------------
(* What a step of one request must do to keep the invariant.               *)

USE BoundsAssumption, PointsAssumption DEF At, Days, Never, Unread, Unpaid

LEMMA NoKeyIsNoKey == NoKey \notin Keys
  BY DEF NoKey, Keys, Welcome

LEMMA WelcomeIsAKey == Welcome \in Keys
  BY DEF Keys

LEMMA DayKey ==
  ASSUME NEW d \in Days, NEW a \in Activities \cup {"checkin"}
  PROVE  <<a, d>> \in Keys
  BY DEF Keys

\* The others stay as they are, and the rows that are there stay.
Alone(r) ==
  /\ \A s \in Requests \ {r} : requests'[s] = requests[s]
  /\ \A k \in Keys : ledger[k] # Unpaid => ledger'[k] # Unpaid

\* A request gives up its key only when the row is there.
KeyKept(r) ==
  \/ requests[r].key = NoKey
  \/ requests[r].pc = "undo"
  \/ requests'[r].key = requests[r].key /\ requests'[r].pc # "undo"
  \/ ledger'[requests[r].key] # Unpaid

\* What was promised stays promised.
LEMMA PromisesStay ==
  ASSUME NEW r \in Requests, Alone(r), KeyKept(r), NEW k \in Keys, Promised(k)
  PROVE  Promised(k)'
<1>1. CASE ledger[k] # Unpaid
  BY <1>1 DEF Alone, Promised
<1>2. ASSUME NEW s \in Requests, requests[s].key = k, requests[s].pc # "undo"
      PROVE  Promised(k)'
  <2>1. CASE s = r
    BY <1>2, <2>1, NoKeyIsNoKey DEF KeyKept, Promised
  <2>2. CASE s # r
    BY <1>2, <2>2 DEF Alone, Promised
  <2>. QED BY <2>1, <2>2
<1>. QED BY <1>1, <1>2 DEF Promised

LEMMA StreakStays ==
  ASSUME NEW r \in Requests, Alone(r), KeyKept(r), NEW d \in Int, NEW n \in Int,
         StreakPaid(d, n)
  PROVE  \A i \in 0..(n - 1) : d - i \in Days /\ Promised(<<"checkin", d - i>>)'
  BY DayKey, PromisesStay DEF StreakPaid

\* One request moves, time and faults stand still.
LEMMA StepKeeps ==
  ASSUME IInv, NEW r \in Requests, TypeOK', Alone(r), KeyKept(r), RequestOK(r)',
         UNCHANGED <<day, faults>>,
         account'.earnedOn <= day,
         faults = 0 =>
           /\ account' = account \/ StreakPaid(account.checkedIn, account.streak)'
              \/ (account'.checkedIn = account.checkedIn /\ account'.streak = account.streak)
           /\ ClaimPaid(r)'
           /\ attributed' = attributed \/ Promised(Welcome)'
  PROVE  IInv'
<1>1. ASSUME NEW s \in Requests PROVE RequestOK(s)'
  <2>1. CASE s = r
    BY <2>1
  <2>2. CASE s # r
    BY <2>2 DEF IInv, RequestOK, Keyed, Alone
  <2>. QED BY <2>1, <2>2
<1>2. ASSUME faults = 0 PROVE AllPaid'
  <2>1. StreakPaid(account.checkedIn, account.streak)'
    <3>1. /\ account.checkedIn \in Int /\ account.streak \in Int
          /\ StreakPaid(account.checkedIn, account.streak)
      BY <1>2 DEF IInv, AllPaid, TypeOK, Account
    <3>2. CASE account'.checkedIn = account.checkedIn /\ account'.streak = account.streak
      BY <3>1, <3>2, StreakStays DEF StreakPaid
    <3>. QED BY <1>2, <3>2
  <2>2. ASSUME NEW s \in Requests PROVE ClaimPaid(s)'
    <3>1. CASE s = r
      BY <1>2, <3>1
    <3>2. CASE s # r
      <4>1. requests'[s] = requests[s]
        BY <3>2 DEF Alone
      <4>2. requests[s].today - 1 \in Int /\ requests[s].streak - 1 \in Int
        BY DEF IInv, TypeOK, Request
      <4>3. ClaimPaid(s)
        BY <1>2 DEF IInv, AllPaid
      <4>. QED BY <4>1, <4>2, <4>3, StreakStays DEF ClaimPaid, StreakPaid
    <3>. QED BY <3>1, <3>2
  <2>3. attributed' => Promised(Welcome)'
    BY <1>2, WelcomeIsAKey, PromisesStay DEF IInv, AllPaid
  <2>. QED BY <2>1, <2>2, <2>3 DEF AllPaid
<1>. QED BY <1>1, <1>2 DEF IInv

-----------------------------------------------------------------------------
(* What a request becomes.                                                 *)

\* One request becomes another, and the rest stay.
Replaced(r, req) ==
  /\ requests' \in [Requests -> Request]
  /\ requests'[r] = req
  /\ \A s \in Requests \ {r} : requests'[s] = requests[s]

LEMMA BecomeReplaces ==
  ASSUME TypeOK, NEW r \in Requests, NEW req \in Request, Become(r, req)
  PROVE  Replaced(r, req)
  BY DEF TypeOK, Become, Replaced

LEMMA IdleIsARequest == Idle \in Request
  BY DEF Idle, Request

LEMMA ReadingIsARequest ==
  Reading \in Request /\ Reading.pc = "read" /\ Reading.then = "done" /\ Reading.key = NoKey
  BY DEF Reading, Idle, Request

-----------------------------------------------------------------------------
(* The requests' steps.                                                    *)

\* What most steps leave of the account, and of the ledger.
SameStreak ==
  /\ account' \in Account
  /\ account'.earnedOn <= day
  /\ account'.checkedIn = account.checkedIn /\ account'.streak = account.streak

RowsStay ==
  /\ ledger' \in [Keys -> Nat \cup {Unpaid}]
  /\ \A k \in Keys : ledger[k] # Unpaid => ledger'[k] # Unpaid

LEMMA NothingWritten ==
  ASSUME IInv
  PROVE  (UNCHANGED account => SameStreak) /\ (UNCHANGED ledger => RowsStay)
  BY DEF IInv, TypeOK, SameStreak, RowsStay

\* A request moves on, and gives up no key without its row.
LEMMA MoveKeeps ==
  ASSUME IInv, NEW r \in Requests, NEW req \in Request, Become(r, req),
         SameStreak, RowsStay, UNCHANGED <<day, attributed, faults>>,
         \/ requests[r].key = NoKey
         \/ requests[r].pc = "undo"
         \/ req.key = requests[r].key /\ req.pc # "undo"
         \/ ledger'[requests[r].key] # Unpaid,
         RequestOK(r)', faults = 0 => ClaimPaid(r)'
  PROVE  IInv'
<1>1. Replaced(r, req)
  BY BecomeReplaces DEF IInv
<1>2. TypeOK'
  BY <1>1 DEF IInv, TypeOK, Replaced, SameStreak, RowsStay
<1>3. Alone(r) /\ KeyKept(r)
  BY <1>1 DEF Replaced, Alone, KeyKept, RowsStay
<1>. QED BY <1>2, <1>3, StepKeeps DEF SameStreak

LEMMA StartKeeps ==
  ASSUME IInv, NEW r \in Requests,
         Summary(r) \/ CheckIn(r) \/ Attribute(r) \/ \E a \in Activities : Claim(r, a)
  PROVE  IInv'
<1>0. TypeOK /\ day \in Days
  BY DEF IInv, TypeOK
<1>. requests[r] = Idle
  BY DEF Summary, CheckIn, Attribute, Claim
<1>1. requests[r].key = NoKey
  BY DEF Idle
<1>2. CASE Summary(r)
  <2>1. Replaced(r, Reading)
    BY <1>0, <1>2, ReadingIsARequest, BecomeReplaces DEF Summary, ThenSummary
  <2>2. RequestOK(r)' /\ ClaimPaid(r)'
    BY <2>1 DEF Replaced, Reading, Idle, RequestOK, ClaimPaid, Keyed
  <2>. QED
    BY <1>1, <1>2, <2>2, ReadingIsARequest, NothingWritten, MoveKeeps DEF Summary, ThenSummary
<1>3. CASE CheckIn(r)
  <2> DEFINE new == [Idle EXCEPT !.op = "checkin", !.pc = "read", !.then = "claimDay",
                                 !.today = day]
  <2>1. new \in Request
    BY <1>0 DEF Idle, Request
  <2>2. Replaced(r, new)
    BY <1>0, <1>3, <2>1, BecomeReplaces DEF CheckIn
  <2>3. RequestOK(r)' /\ ClaimPaid(r)'
    BY <1>0, <2>2 DEF Replaced, Idle, RequestOK, ClaimPaid, Keyed
  <2>. QED
    BY <1>1, <1>3, <2>1, <2>3, NothingWritten, MoveKeeps DEF CheckIn
<1>4. CASE Attribute(r)
  <2> DEFINE new == [Idle EXCEPT !.op = "welcome", !.pc = "attribute"]
  <2>1. new \in Request
    BY DEF Idle, Request
  <2>2. Replaced(r, new)
    BY <1>0, <1>4, <2>1, BecomeReplaces DEF Attribute
  <2>3. RequestOK(r)' /\ ClaimPaid(r)'
    BY <2>2 DEF Replaced, Idle, RequestOK, ClaimPaid, Keyed
  <2>. QED
    BY <1>1, <1>4, <2>1, <2>3, NothingWritten, MoveKeeps DEF Attribute
<1>5. ASSUME NEW a \in Activities, Claim(r, a) PROVE IInv'
  <2> DEFINE new == [Idle EXCEPT !.op = "claim", !.pc = "byKey", !.key = <<a, day>>,
                                 !.amount = ActivityPoints[a]]
  <2>1. <<a, day>> \in Keys
    BY <1>0, DayKey
  <2>2. new \in Request
    BY <2>1 DEF Idle, Request
  <2>3. Replaced(r, new)
    BY <1>0, <1>5, <2>2, BecomeReplaces DEF Claim
  <2>4. RequestOK(r)' /\ ClaimPaid(r)'
    BY <2>1, <2>3 DEF Replaced, Idle, RequestOK, ClaimPaid, Keyed
  <2>. QED
    BY <1>1, <1>5, <2>2, <2>4, NothingWritten, MoveKeeps DEF Claim
<1>. QED BY <1>2, <1>3, <1>4, <1>5

\* A request that returns, or goes on to its last summary(), with no key to lose.
LEMMA EndKeeps ==
  ASSUME IInv, NEW r \in Requests, Return(r) \/ ThenSummary(r),
         SameStreak, RowsStay, UNCHANGED <<day, attributed, faults>>,
         \/ requests[r].key = NoKey
         \/ requests[r].pc = "undo"
         \/ ledger'[requests[r].key] # Unpaid
  PROVE  IInv'
<1>1. PICK new \in {Idle, Reading} : Become(r, new)
  BY DEF Return, ThenSummary
<1>2. new \in Request
  BY IdleIsARequest, ReadingIsARequest
<1>3. Replaced(r, new)
  BY <1>1, <1>2, BecomeReplaces DEF IInv
<1>4. new.pc \in {"idle", "read"} /\ new.then = "done" /\ new.key = NoKey
  <2>1. Idle.pc = "idle" /\ Idle.then = "done" /\ Idle.key = NoKey
    BY DEF Idle
  <2>. QED BY <2>1, ReadingIsARequest
<1>5. RequestOK(r)' /\ ClaimPaid(r)'
  BY <1>3, <1>4 DEF Replaced, RequestOK, ClaimPaid, Keyed
<1>. QED BY <1>1, <1>2, <1>5, MoveKeeps

LEMMA AttributeWriteKeeps ==
  ASSUME IInv, NEW r \in Requests, AttributeWrite(r)
  PROVE  IInv'
<1> DEFINE new == [requests[r] EXCEPT !.pc = "byKey", !.key = Welcome,
                                      !.amount = WelcomePoints]
<1>1. requests[r] \in Request /\ requests[r].key = NoKey /\ RequestOK(r)
  BY DEF IInv, TypeOK, RequestOK, Keyed, AttributeWrite
<1>2. CASE attributed /\ Return(r) /\ UNCHANGED attributed
  BY <1>1, <1>2, EndKeeps, NothingWritten DEF AttributeWrite
<1>3. CASE ~attributed /\ attributed' = TRUE /\ Become(r, new)
  <2>1. /\ new \in Request /\ new.pc = "byKey" /\ new.key = Welcome
        /\ new.then = requests[r].then /\ new.today = requests[r].today
    BY ZenonT(40), <1>1, WelcomeIsAKey DEF Request
  <2>2. Replaced(r, new)
    BY <1>3, <2>1, BecomeReplaces DEF IInv
  <2>3. TypeOK'
    BY <1>3, <2>2 DEF IInv, TypeOK, Replaced, AttributeWrite
  <2>4. Alone(r) /\ KeyKept(r)
    BY <1>1, <2>2 DEF Replaced, Alone, KeyKept, AttributeWrite
  <2>5. RequestOK(r)' /\ ClaimPaid(r)'
    BY <1>1, <2>1, <2>2, WelcomeIsAKey DEF Replaced, RequestOK, ClaimPaid, Keyed
  <2>6. Promised(Welcome)'
    BY <2>1, <2>2 DEF Replaced, Promised
  <2>. QED
    BY <2>3, <2>4, <2>5, <2>6, StepKeeps DEF IInv, AttributeWrite
<1>. QED BY <1>2, <1>3 DEF AttributeWrite

\* What follows summary(), whichever days it saw: the streak it counted on is
\* paid, or it starts again.
LEMMA AfterReadKeeps ==
  ASSUME IInv, NEW r \in Requests, requests[r].pc \in {"read", "roll"},
         NEW last \in Days \cup {Never, Unread}, NEW n \in Nat, NEW earned \in Int,
         AfterRead(r, last, n, earned),
         SameStreak, UNCHANGED <<day, attributed, ledger, faults>>,
         faults = 0 => StreakPaid(last, n) \/ (last = Unread /\ n = 0)
  PROVE  IInv'
<1>0. /\ requests[r] \in Request /\ RequestOK(r) /\ RowsStay
      /\ Forgotten(r) \in Request /\ Forgotten(r).then = requests[r].then
      /\ Forgotten(r).key = requests[r].key /\ Forgotten(r).today = requests[r].today
  <2>1. requests[r] \in Request
    BY DEF IInv, TypeOK
  <2>. QED
    BY <2>1, NothingWritten DEF IInv, Forgotten, Request
<1>1. CASE requests[r].then = "claimDay"
  <2> DEFINE today == requests[r].today
             next == NextStreak(last, n, today)
             refused == [Forgotten(r) EXCEPT !.pc = "refused"]
             claims == [Forgotten(r) EXCEPT !.pc = "claimDay", !.seen = last, !.streak = next]
  <2>1. requests[r].key = NoKey /\ today \in Days
    BY <1>0, <1>1 DEF RequestOK, Keyed
  <2>2. next \in Nat
    BY DEF NextStreak
  <2>3. CASE last = today /\ Become(r, refused)
    <3>1. /\ refused \in Request /\ refused.pc = "refused" /\ refused.key = NoKey
          /\ refused.today = today
      BY <1>0, <2>1 DEF Request
    <3>2. Replaced(r, refused)
      BY <2>3, <3>1, BecomeReplaces DEF IInv
    <3>3. RequestOK(r)' /\ ClaimPaid(r)'
      BY <2>1, <3>1, <3>2 DEF Replaced, RequestOK, ClaimPaid, Keyed
    <3>. QED BY <1>0, <2>1, <2>3, <3>1, <3>3, MoveKeeps
  <2>4. CASE last # today /\ Become(r, claims)
    <3>1. /\ claims \in Request /\ claims.pc = "claimDay" /\ claims.key = NoKey
          /\ claims.today = today /\ claims.streak = next
      BY ZenonT(40), <1>0, <2>1, <2>2 DEF Request
    <3>2. Replaced(r, claims)
      BY <2>4, <3>1, BecomeReplaces DEF IInv
    <3>3. RequestOK(r)'
      BY <2>1, <3>1, <3>2 DEF Replaced, RequestOK, Keyed
    <3>4. ASSUME faults = 0 PROVE ClaimPaid(r)'
      <4>1. StreakPaid(today - 1, next - 1)
        <5>1. CASE last = today - 1 /\ StreakPaid(last, n)
          BY <2>1, <5>1 DEF NextStreak
        <5>2. CASE last # today - 1 \/ n = 0
          <6>1. next - 1 = 0
            BY <5>2 DEF NextStreak
          <6>. QED BY <6>1 DEF StreakPaid
        <5>. QED BY <3>4, <5>1, <5>2
      <4>2. Alone(r) /\ KeyKept(r)
        BY <2>1, <3>2 DEF Replaced, Alone, KeyKept
      <4>3. PICK d \in Int, m \in Int : d = today - 1 /\ m = next - 1
        BY <2>1, <2>2
      <4>4. \A i \in 0..(m - 1) : d - i \in Days /\ Promised(<<"checkin", d - i>>)'
        BY <4>1, <4>2, <4>3, StreakStays
      <4>5. requests'[r].today - 1 = d /\ requests'[r].streak - 1 = m
        BY <3>1, <3>2, <4>3 DEF Replaced
      <4>. QED BY <4>4, <4>5 DEF ClaimPaid, StreakPaid
    <3>. QED BY <1>0, <2>1, <2>4, <3>1, <3>3, <3>4, MoveKeeps
  <2>. QED BY <1>1, <2>3, <2>4 DEF AfterRead, AfterCheckInRead, Goto
<1>2. CASE requests[r].then = "pay"
  <2> DEFINE asked == requests[r].amount
             left == Allowance(earned)
             amount == IF requests[r].op # "welcome" /\ asked > left THEN left ELSE asked
             pc == IF amount = 0 THEN "recordNothing" ELSE "inc"
             on == IF amount = 0 THEN Never ELSE day
             new == [Forgotten(r) EXCEPT !.pc = pc, !.amount = amount, !.on = on]
  <2>0. amount \in Nat
    <3>1. asked \in Nat /\ left \in Nat
      BY <1>0 DEF Request, Allowance
    <3>. QED BY <3>1
  <2>1. Become(r, new)
    BY <1>2 DEF AfterRead, AfterCreditRead
  <2>2. /\ new \in Request /\ new.pc \in {"recordNothing", "inc"}
        /\ new.key = requests[r].key /\ new.then = requests[r].then
        /\ new.pc = "inc" => new.on = day
    <3>1. pc \in {"recordNothing", "inc"} /\ (pc = "inc" => on = day)
      OBVIOUS
    <3>2. on \in Days \cup {Never}
      BY DEF IInv, TypeOK
    <3> HIDE DEF amount, pc, on
    <3>3. new \in Request
      BY ZenonT(40), <1>0, <2>0, <3>1, <3>2 DEF Request
    <3>4. /\ new.pc = pc /\ new.key = requests[r].key /\ new.then = requests[r].then
          /\ new.on = on
      BY <1>0 DEF Request
    <3>. QED BY <3>1, <3>3, <3>4
  <2>3. Replaced(r, new)
    BY <2>1, <2>2, BecomeReplaces DEF IInv
  <2>4. RequestOK(r)' /\ ClaimPaid(r)'
    BY <1>0, <1>2, <2>2, <2>3 DEF IInv, TypeOK, Replaced, RequestOK, ClaimPaid, Keyed
  <2>. QED BY <1>0, <2>1, <2>2, <2>4, MoveKeeps
<1>3. CASE requests[r].then \notin {"claimDay", "pay"}
  <2>1. requests[r].key = NoKey
    BY <1>0, <1>3 DEF RequestOK, Keyed
  <2>. QED BY <1>0, <1>3, <2>1, EndKeeps DEF AfterRead
<1>. QED BY <1>1, <1>2, <1>3

LEMMA ReadKeeps ==
  ASSUME IInv, NEW r \in Requests, Read(r)
  PROVE  IInv'
<1>0. /\ account \in Account /\ requests[r] \in Request /\ day \in Days
      /\ account.earnedOn <= day /\ RequestOK(r) /\ SameStreak /\ RowsStay
      /\ faults = 0 => StreakPaid(account.checkedIn, account.streak)
  BY NothingWritten DEF Read, IInv, TypeOK, AllPaid
<1>1. CASE AfterRead(r, account.checkedIn, account.streak, account.earned)
  BY <1>0, <1>1, AfterReadKeeps DEF Read, Account
<1>2. CASE account.earnedOn # day
  <2> DEFINE new == [requests[r] EXCEPT !.pc = "roll", !.stale = account.earnedOn,
                                        !.rollTo = day]
  <2>1. /\ new \in Request /\ new.pc = "roll" /\ new.key = requests[r].key
        /\ new.then = requests[r].then /\ new.today = requests[r].today
        /\ new.stale = account.earnedOn /\ new.rollTo = day
    BY ZenonT(40), <1>0 DEF Request, Account
  <2>2. Become(r, new)
    BY <1>2 DEF Read
  <2>3. Replaced(r, new)
    BY <2>1, <2>2, BecomeReplaces DEF IInv
  <2>4. account.earnedOn \in Int /\ account.earnedOn < day
    BY <1>0, <1>2 DEF Account
  <2>5. RequestOK(r)' /\ ClaimPaid(r)'
    BY <1>0, <2>1, <2>3, <2>4 DEF Read, Replaced, RequestOK, ClaimPaid, Keyed
  <2>. QED BY <1>0, <2>1, <2>2, <2>5, MoveKeeps DEF Read
<1>. QED BY <1>1, <1>2 DEF Read

LEMMA RolledAccount ==
  ASSUME NEW acc \in Account, NEW n \in Int, NEW d \in Days \cup {Never}
  PROVE  [acc EXCEPT !.earned = n, !.earnedOn = d] \in Account
<1> HIDE DEF Days, Never
<1>. QED BY DEF Account

LEMMA RollKeeps ==
  ASSUME IInv, NEW r \in Requests, Roll(r)
  PROVE  IInv'
<1>1. account \in Account /\ RequestOK(r) /\ account.earnedOn <= day
  BY DEF IInv, TypeOK
<1>2. requests[r].rollTo \in Days /\ requests[r].rollTo <= day
  BY <1>1 DEF Roll, RequestOK
<1>3. SameStreak
  <2>1. CASE account' = account
    BY <1>1, <2>1 DEF SameStreak
  <2>2. CASE account' = [account EXCEPT !.earned = 0, !.earnedOn = requests[r].rollTo]
    <3>1. account' \in Account
      <4>1. 0 \in Int /\ requests[r].rollTo \in Days \cup {Never}
        BY <1>2
      <4> HIDE DEF Days, Never
      <4>2. [account EXCEPT !.earned = 0, !.earnedOn = requests[r].rollTo] \in Account
        BY ONLY <1>1, <4>1, RolledAccount, Zenon
      <4>. QED BY <2>2, <4>2
    <3>2. account'.earnedOn = requests[r].rollTo
      BY <1>1, <2>2 DEF Account
    <3>3. account'.checkedIn = account.checkedIn /\ account'.streak = account.streak
      BY <1>1, <2>2 DEF Account
    <3>. QED BY <1>2, <3>1, <3>2, <3>3 DEF SameStreak
  <2>. QED BY <2>1, <2>2 DEF Roll
<1>. QED BY <1>3, AfterReadKeeps DEF Roll

LEMMA ClaimedAccount ==
  ASSUME NEW acc \in Account, NEW d \in Days \cup {Never}, NEW n \in Nat
  PROVE  [acc EXCEPT !.checkedIn = d, !.streak = n] \in Account
<1> HIDE DEF Days, Never
<1>. QED BY DEF Account

\* The day is claimed: it joins the streak, and the request is on its way to
\* pay it.
LEMMA ClaimDayKeeps ==
  ASSUME IInv, NEW r \in Requests, ClaimDay(r)
  PROVE  IInv'
<1> DEFINE req == requests[r]
           k == <<"checkin", req.today>>
           new == [req EXCEPT !.pc = "byKey", !.key = k, !.amount = CheckInPoints,
                              !.seen = Unread, !.streak = 0]
           claimed == [account EXCEPT !.checkedIn = req.today, !.streak = req.streak]
<1>0. /\ req \in Request /\ account \in Account /\ RequestOK(r) /\ req.pc = "claimDay"
      /\ account.earnedOn <= day
  BY DEF IInv, TypeOK, ClaimDay
<1>1. req.key = NoKey /\ req.today \in Days /\ k \in Keys
  <2>1. req.key = NoKey /\ req.today \in Days
    BY <1>0 DEF RequestOK, Keyed
  <2>. QED BY <2>1, DayKey
<1>2. CASE account' = claimed /\ Become(r, new)
  <2>1. new \in Request
    BY <1>0, <1>1 DEF Request
  <2>2. new.pc = "byKey" /\ new.key = k /\ new.then = req.then /\ new.today = req.today
    BY <1>0 DEF Request
  <2>3. Replaced(r, new)
    BY <1>2, <2>1, BecomeReplaces DEF IInv
  <2>4. /\ account' \in Account /\ account'.earnedOn = account.earnedOn
        /\ account'.checkedIn = req.today /\ account'.streak = req.streak
    <3>1. req.today \in Days \cup {Never} /\ req.streak \in Nat
      BY <1>0, <1>1 DEF Request
    <3>2. claimed \in Account
      BY ONLY <1>0, <3>1, ClaimedAccount, Zenon
    <3>3. /\ claimed.earnedOn = account.earnedOn /\ claimed.checkedIn = req.today
          /\ claimed.streak = req.streak
      BY <1>0 DEF Account
    <3>. QED BY <1>2, <3>2, <3>3
  <2>5. TypeOK'
    BY <2>3, <2>4 DEF IInv, TypeOK, Replaced, ClaimDay
  <2>6. Alone(r) /\ KeyKept(r)
    BY <1>1, <2>3 DEF Replaced, Alone, KeyKept, ClaimDay
  <2>7. RequestOK(r)' /\ ClaimPaid(r)'
    BY <1>0, <1>1, <2>2, <2>3 DEF Replaced, RequestOK, ClaimPaid, Keyed
  <2>8. ASSUME faults = 0 PROVE StreakPaid(account.checkedIn, account.streak)'
    <3>1. PICK d \in Days, n \in Nat : d = req.today /\ n = req.streak
      BY <1>0, <1>1 DEF Request
    <3>2. StreakPaid(d - 1, n - 1)
      BY <1>0, <2>8, <3>1 DEF IInv, AllPaid, ClaimPaid
    <3>3. \A i \in 0..(n - 1 - 1) : d - 1 - i \in Days /\ Promised(<<"checkin", d - 1 - i>>)'
      BY <2>6, <3>2, StreakStays
    <3>4. Promised(<<"checkin", d>>)'
      BY <2>2, <2>3, <3>1 DEF Replaced, Promised
    <3>5. ASSUME NEW i \in 0..(n - 1)
          PROVE  d - i \in Days /\ Promised(<<"checkin", d - i>>)'
      <4>1. CASE i = 0
        <5>1. d - i = d
          BY <4>1
        <5>. QED BY <3>4, <5>1
      <4>2. CASE i # 0
        <5>1. PICK j \in 0..(n - 1 - 1) : j = i - 1
          BY <4>2
        <5>2. d - i = d - 1 - j
          BY <5>1
        <5>. QED BY <3>3, <5>2
      <4>. QED BY <4>1, <4>2
    <3>6. account'.checkedIn = d /\ account'.streak = n
      BY <2>4, <3>1
    <3>. QED BY <3>5, <3>6 DEF StreakPaid
  <2>. QED
    BY <1>0, <2>4, <2>5, <2>6, <2>7, <2>8, StepKeeps DEF ClaimDay
<1>3. CASE Goto(r, "refused") /\ UNCHANGED account
  <2> DEFINE refused == [req EXCEPT !.pc = "refused"]
  <2>1. /\ refused \in Request /\ refused.pc = "refused" /\ refused.key = NoKey
        /\ refused.then = req.then /\ refused.today = req.today
    BY <1>0, <1>1 DEF Request
  <2>2. Replaced(r, refused)
    BY <1>3, <2>1, BecomeReplaces DEF IInv, Goto
  <2>3. RequestOK(r)' /\ ClaimPaid(r)'
    BY <1>0, <2>1, <2>2 DEF Replaced, RequestOK, ClaimPaid, Keyed
  <2>. QED
    BY <1>1, <1>3, <2>1, <2>3, MoveKeeps, NothingWritten DEF Goto, ClaimDay
<1>. QED BY <1>2, <1>3 DEF ClaimDay

LEMMA RefuseKeeps ==
  ASSUME IInv, NEW r \in Requests, Refuse(r)
  PROVE  IInv'
<1>1. requests[r].key = NoKey
  BY DEF IInv, Refuse, RequestOK, Keyed
<1>. QED BY <1>1, EndKeeps, NothingWritten DEF Refuse

LEMMA ByKeyKeeps ==
  ASSUME IInv, NEW r \in Requests, ByKey(r)
  PROVE  IInv'
<1> DEFINE new == [requests[r] EXCEPT !.pc = "read", !.then = "pay"]
<1>0. requests[r] \in Request /\ RequestOK(r) /\ requests[r].key \in Keys
  BY DEF IInv, TypeOK, ByKey, RequestOK, Keyed
<1>1. CASE ledger[requests[r].key] # Unpaid /\ ThenSummary(r)
  BY <1>0, <1>1, EndKeeps, NothingWritten DEF ByKey
<1>2. CASE Become(r, new)
  <2>1. new \in Request
    BY <1>0 DEF Request
  <2>2. new.pc = "read" /\ new.key = requests[r].key /\ new.then = "pay"
    BY <1>0 DEF Request
  <2>3. Replaced(r, new)
    BY <1>2, <2>1, BecomeReplaces DEF IInv
  <2>4. RequestOK(r)' /\ ClaimPaid(r)'
    BY <1>0, <2>2, <2>3 DEF Replaced, RequestOK, ClaimPaid, Keyed
  <2>. QED BY <1>2, <2>1, <2>2, <2>4, MoveKeeps, NothingWritten DEF ByKey
<1>. QED BY <1>1, <1>2 DEF ByKey, ThenRead

\* What is added to or taken from the account leaves it an account.
LEMMA PaidAccount ==
  ASSUME NEW acc \in Account, NEW b \in Int, NEW e \in Int, NEW d \in Days \cup {Never}
  PROVE  [acc EXCEPT !.balance = b, !.earned = e, !.earnedOn = d] \in Account
<1> HIDE DEF Days, Never
<1>. QED BY DEF Account

LEMMA IncKeeps ==
  ASSUME IInv, NEW r \in Requests, Inc(r)
  PROVE  IInv'
<1> DEFINE new == [requests[r] EXCEPT !.pc = "record", !.on = Never]
           on == requests[r].on
           b == account.balance + requests[r].amount
           e == account.earned + Counted(r)
           paid == [account EXCEPT !.balance = b, !.earned = e, !.earnedOn = on]
<1>0. /\ requests[r] \in Request /\ RequestOK(r) /\ requests[r].pc = "inc"
      /\ account \in Account /\ on \in Days /\ on <= day
  BY DEF IInv, TypeOK, Inc, RequestOK
<1>1. /\ new \in Request /\ new.pc = "record" /\ new.key = requests[r].key
      /\ new.then = requests[r].then /\ new.today = requests[r].today
  BY <1>0 DEF Request
<1>2. Replaced(r, new)
  BY <1>1, BecomeReplaces DEF IInv, Inc
<1>3. SameStreak
  <2>1. b \in Int /\ e \in Int /\ on \in Days \cup {Never}
    BY <1>0 DEF Account, Request, Counted
  <2>2. paid \in Account
    BY ONLY <1>0, <2>1, PaidAccount, Zenon
  <2>3. /\ paid.earnedOn = on /\ paid.checkedIn = account.checkedIn
        /\ paid.streak = account.streak
    BY <1>0 DEF Account
  <2>. QED BY <1>0, <2>2, <2>3 DEF Inc, SameStreak
<1>4. RequestOK(r)' /\ ClaimPaid(r)'
  BY <1>0, <1>1, <1>2 DEF Replaced, RequestOK, ClaimPaid, Keyed
<1>. QED BY <1>1, <1>3, <1>4, MoveKeeps, NothingWritten DEF Inc

LEMMA UndoKeeps ==
  ASSUME IInv, NEW r \in Requests, Undo(r)
  PROVE  IInv'
<1> DEFINE b == account.balance - requests[r].amount
           e == account.earned - Counted(r)
           undone == [account EXCEPT !.balance = b, !.earned = e]
<1>0. /\ requests[r] \in Request /\ account \in Account /\ account.earnedOn <= day
  BY DEF IInv, TypeOK
<1>1. SameStreak
  <2>1. b \in Int /\ e \in Int
    BY <1>0 DEF Account, Request, Counted
  <2> HIDE DEF b, e
  <2>2. undone \in Account
    BY <1>0, <2>1 DEF Account
  <2>3. /\ undone.earnedOn = account.earnedOn /\ undone.checkedIn = account.checkedIn
        /\ undone.streak = account.streak
    BY <1>0 DEF Account
  <2>. QED BY <1>0, <2>2, <2>3 DEF Undo, SameStreak, b, e
<1>. QED BY <1>1, EndKeeps, NothingWritten DEF Undo

\* The row is written, or is there already.
LEMMA RecordKeeps ==
  ASSUME IInv, NEW r \in Requests, Record(r) \/ RecordNothing(r)
  PROVE  IInv'
<1> DEFINE k == requests[r].key
           undo == [requests[r] EXCEPT !.pc = "undo", !.then = "done"]
<1>0. /\ requests[r] \in Request /\ RequestOK(r) /\ k \in Keys
      /\ ledger \in [Keys -> Nat \cup {Unpaid}] /\ SameStreak
  BY NothingWritten DEF IInv, TypeOK, Record, RecordNothing, RequestOK, Keyed
<1>1. ASSUME NEW n \in Nat, ledger' = [ledger EXCEPT ![k] = n], EndPaid(r)
      PROVE  IInv'
  <2>1. RowsStay /\ ledger'[k] # Unpaid
    BY <1>0, <1>1 DEF RowsStay
  <2>. QED
    BY <1>0, <1>1, <2>1, EndKeeps DEF EndPaid, Record, RecordNothing
<1>2. CASE ~Insertable(k) /\ Return(r) /\ UNCHANGED ledger
  BY <1>0, <1>2, EndKeeps, NothingWritten DEF Insertable, Record, RecordNothing
<1>3. CASE ~Insertable(k) /\ Become(r, undo) /\ UNCHANGED ledger
  <2>1. undo \in Request /\ undo.pc = "undo" /\ undo.key = k /\ undo.then = "done"
    BY <1>0 DEF Request
  <2>2. Replaced(r, undo)
    BY <1>3, <2>1, BecomeReplaces DEF IInv
  <2>3. RequestOK(r)' /\ ClaimPaid(r)'
    BY <1>0, <2>1, <2>2 DEF Replaced, RequestOK, ClaimPaid, Keyed
  <2>. QED
    BY <1>0, <1>3, <2>1, <2>3, MoveKeeps, NothingWritten DEF Insertable, Record, RecordNothing
<1>4. requests[r].amount \in Nat
  BY <1>0 DEF Request
<1>. QED BY <1>1, <1>2, <1>3, <1>4 DEF Record, RecordNothing

-----------------------------------------------------------------------------
(* Time and faults.                                                        *)

LEMMA MidnightKeeps ==
  ASSUME IInv, Midnight
  PROVE  IInv'
<1>1. TypeOK' /\ day \in Nat /\ account.earnedOn \in Int
  BY DEF IInv, TypeOK, Midnight, Account
<1>2. \A r \in Requests : RequestOK(r)'
  <2>1. ASSUME NEW r \in Requests PROVE RequestOK(r)'
    BY <1>1 DEF IInv, Midnight, RequestOK, Keyed
  <2>. QED BY <2>1
<1>3. faults' = 0 => AllPaid'
  BY DEF IInv, Midnight, AllPaid, StreakPaid, ClaimPaid, Promised
<1>. QED BY <1>1, <1>2, <1>3 DEF IInv, Midnight

LEMMA FaultKeeps ==
  ASSUME IInv, NEW r \in Requests, RecordFails(r) \/ Dies(r)
  PROVE  IInv'
<1> DEFINE undo == [requests[r] EXCEPT !.pc = "undo", !.then = "fail"]
<1>0. requests[r] \in Request /\ RequestOK(r)
  BY DEF IInv, TypeOK
<1>1. PICK new \in Request : Replaced(r, new) /\ RequestOK(r)'
  <2>1. CASE RecordFails(r)
    <3>1. /\ undo \in Request /\ undo.pc = "undo" /\ undo.key = requests[r].key
          /\ undo.then = "fail"
      BY ZenonT(40), <1>0 DEF Request
    <3>2. Replaced(r, undo)
      BY <2>1, <3>1, BecomeReplaces DEF IInv, RecordFails
    <3>3. RequestOK(r)'
      BY <1>0, <2>1, <3>1, <3>2 DEF RecordFails, Replaced, RequestOK, Keyed
    <3>. QED BY <3>1, <3>2, <3>3
  <2>2. CASE Dies(r)
    <3>1. Replaced(r, Idle)
      BY <2>2, IdleIsARequest, BecomeReplaces DEF IInv, Dies, Return
    <3>2. Idle.pc = "idle" /\ Idle.then = "done" /\ Idle.key = NoKey
      BY DEF Idle
    <3>3. RequestOK(r)'
      BY <3>1, <3>2 DEF Replaced, RequestOK, Keyed
    <3>. QED BY <3>1, <3>3, IdleIsARequest
  <2>. QED BY <2>1, <2>2
<1>2. /\ faults \in Nat /\ faults' = faults + 1 /\ faults' \in 0..MaxFaults
      /\ UNCHANGED <<day, account, attributed, ledger>>
  BY DEF IInv, TypeOK, RecordFails, Dies
<1>3. TypeOK'
  BY <1>1, <1>2 DEF IInv, TypeOK, Replaced
<1>4. ASSUME NEW s \in Requests PROVE RequestOK(s)'
  <2>1. CASE s = r
    BY <1>1, <2>1
  <2>2. CASE s # r
    BY <1>1, <1>2, <2>2 DEF IInv, Replaced, RequestOK, Keyed
  <2>. QED BY <2>1, <2>2
<1>5. faults' # 0
  BY <1>2
<1>. QED BY <1>2, <1>3, <1>4, <1>5 DEF IInv

-----------------------------------------------------------------------------
(* The ledger and the balance.                                             *)

Paid == MapThenSumSet(Written, Keys)
UnderWay == MapThenSumSet(Pending, Requests)

LEMMA KeysFinite == IsFiniteSet(Keys)
<1>1. IsFiniteSet({"checkin"} \cup Activities)
  BY FiniteAssumption, FS_Singleton, FS_Union
<1>2. IsFiniteSet(Days)
  BY FS_Interval
<1>3. IsFiniteSet(({"checkin"} \cup Activities) \X Days)
  BY <1>1, <1>2, FS_Product
<1>. QED BY <1>3, FS_Singleton, FS_Union DEF Keys

\* The two sums of the property are such functions of all the keys and requests.
LEMMA PaidIsASum ==
  \E g : Sums(g, [k \in Keys |-> Written(k)], Keys) /\ Paid = g[Keys]
<1> DEFINE f == [k \in Keys |-> Written(k)]
           Q(g) == g = [s \in SUBSET Keys |->
                          IF s = {} THEN 0
                          ELSE Written(CHOOSE k \in s : TRUE) + g[s \ {CHOOSE k \in s : TRUE}]]
<1>1. ASSUME NEW g PROVE Q(g) <=> Sums(g, f, Keys)
  BY DEF Sums, Chosen, Others
<1>2. Paid = (CHOOSE g : Q(g))[Keys]
  BY DEF Paid, MapThenSumSet, MapThenFoldSet
<1>3. \E g : Sums(g, f, Keys)
  BY KeysFinite, SumsExist
<1> HIDE DEF Q, f
<1>4. PICK g : g = CHOOSE h : Q(h)
  OBVIOUS
<1>5. Q(g)
  BY <1>1, <1>3, <1>4
<1>. QED BY <1>1, <1>2, <1>4, <1>5 DEF f

LEMMA UnderWayIsASum ==
  \E g : Sums(g, [r \in Requests |-> Pending(r)], Requests) /\ UnderWay = g[Requests]
<1> DEFINE f == [r \in Requests |-> Pending(r)]
           Q(g) == g = [s \in SUBSET Requests |->
                          IF s = {} THEN 0
                          ELSE Pending(CHOOSE r \in s : TRUE) + g[s \ {CHOOSE r \in s : TRUE}]]
<1>1. ASSUME NEW g PROVE Q(g) <=> Sums(g, f, Requests)
  BY DEF Sums, Chosen, Others
<1>2. UnderWay = (CHOOSE g : Q(g))[Requests]
  BY DEF UnderWay, MapThenSumSet, MapThenFoldSet
<1>3. \E g : Sums(g, f, Requests)
  BY FiniteAssumption, SumsExist
<1> HIDE DEF Q, f
<1>4. PICK g : g = CHOOSE h : Q(h)
  OBVIOUS
<1>5. Q(g)
  BY <1>1, <1>3, <1>4
<1>. QED BY <1>1, <1>2, <1>4, <1>5 DEF f

LEMMA AmountsTyped ==
  ASSUME TypeOK
  PROVE  /\ [k \in Keys |-> Written(k)] \in [Keys -> Int]
         /\ [r \in Requests |-> Pending(r)] \in [Requests -> Int]
         /\ \A k \in Keys : Written(k) \in Nat
         /\ \A r \in Requests : Pending(r) \in Nat
<1>1. \A k \in Keys : Written(k) \in Nat
  BY DEF TypeOK, Written
<1>2. \A r \in Requests : Pending(r) \in Nat
  BY DEF TypeOK, Request, Pending
<1>. QED BY <1>1, <1>2

LEMMA TotalsTyped ==
  ASSUME TypeOK
  PROVE  Paid \in Int /\ UnderWay \in Int
BY AmountsTyped, PaidIsASum, UnderWayIsASum, KeysFinite, FiniteAssumption, SumsType

LEMMA TypedNext ==
  /\ TypeOK' => /\ \A k \in Keys : Written(k)' \in Int
                /\ \A r \in Requests : Pending(r)' \in Int
  /\ \E g : Sums(g, [k \in Keys |-> Written(k)'], Keys) /\ Paid' = g[Keys]
  /\ \E g : Sums(g, [r \in Requests |-> Pending(r)'], Requests) /\ UnderWay' = g[Requests]
<1>1. TypeOK => /\ \A k \in Keys : Written(k) \in Int
                /\ \A r \in Requests : Pending(r) \in Int
  BY AmountsTyped
<1>2. (TypeOK => /\ \A k \in Keys : Written(k) \in Int
                 /\ \A r \in Requests : Pending(r) \in Int)'
  BY <1>1, PTL
<1>3. (\E g : Sums(g, [k \in Keys |-> Written(k)], Keys) /\ Paid = g[Keys])'
  BY PaidIsASum, PTL
<1>4. (\E g : Sums(g, [r \in Requests |-> Pending(r)], Requests) /\ UnderWay = g[Requests])'
  BY UnderWayIsASum, PTL
<1>. QED BY <1>2, <1>3, <1>4 DEF Sums

LEMMA TotalsTypedNext == TypeOK' => Paid' \in Int /\ UnderWay' \in Int
<1>1. TypeOK => Paid \in Int /\ UnderWay \in Int
  BY TotalsTyped
<1>2. (TypeOK => Paid \in Int /\ UnderWay \in Int)'
  BY <1>1, PTL
<1>. QED BY <1>2

\* A step that writes one row moves the total by what it writes.
LEMMA PaidChanges ==
  ASSUME TypeOK, TypeOK', NEW k \in Keys, \A j \in Keys \ {k} : ledger'[j] = ledger[j]
  PROVE  Paid' = Paid + Written(k)' - Written(k)
<1> DEFINE e == [j \in Keys |-> Written(j)]
           f == [j \in Keys |-> Written(j)']
<1>1. PICK g : Sums(g, e, Keys) /\ Paid = g[Keys]
  BY PaidIsASum
<1>2. PICK h : Sums(h, f, Keys) /\ Paid' = h[Keys]
  BY TypedNext
<1>3. e \in [Keys -> Int] /\ f \in [Keys -> Int]
  BY AmountsTyped, TypedNext
<1>4. e[k] = Written(k) /\ f[k] = Written(k)' /\ \A j \in Keys \ {k} : e[j] = f[j]
  BY DEF Written
<1> HIDE DEF e, f
<1>5. h[Keys] = g[Keys] + f[k] - e[k]
  BY <1>1, <1>2, <1>3, <1>4, KeysFinite, SumChanges
<1>. QED BY <1>1, <1>2, <1>4, <1>5

\* A step of one request moves the other total by what it then owes.
LEMMA UnderWayChanges ==
  ASSUME TypeOK, TypeOK', NEW r \in Requests,
         \A s \in Requests \ {r} : requests'[s] = requests[s]
  PROVE  UnderWay' = UnderWay + Pending(r)' - Pending(r)
<1> DEFINE e == [s \in Requests |-> Pending(s)]
           f == [s \in Requests |-> Pending(s)']
<1>1. PICK g : Sums(g, e, Requests) /\ UnderWay = g[Requests]
  BY UnderWayIsASum
<1>2. PICK h : Sums(h, f, Requests) /\ UnderWay' = h[Requests]
  BY TypedNext
<1>3. e \in [Requests -> Int] /\ f \in [Requests -> Int]
  BY AmountsTyped, TypedNext
<1>4. e[r] = Pending(r) /\ f[r] = Pending(r)' /\ \A s \in Requests \ {r} : e[s] = f[s]
  BY DEF Pending
<1> HIDE DEF e, f
<1>5. h[Requests] = g[Requests] + f[r] - e[r]
  BY <1>1, <1>2, <1>3, <1>4, FiniteAssumption, SumChanges
<1>. QED BY <1>1, <1>2, <1>4, <1>5

\* Nothing changes a total but what changes its amounts.
LEMMA TotalsStay ==
  /\ UNCHANGED ledger => Paid' = Paid
  /\ UNCHANGED requests => UnderWay' = UnderWay
<1>1. ASSUME UNCHANGED ledger PROVE Paid' = Paid
  <2> DEFINE f == [k \in Keys |-> Written(k)]
  <2>1. PICK g : Sums(g, f, Keys) /\ Paid = g[Keys]
    BY PaidIsASum
  <2>2. PICK h : Sums(h, f, Keys) /\ Paid' = h[Keys]
    BY <1>1, TypedNext DEF Written
  <2> HIDE DEF f
  <2>. QED BY <2>1, <2>2, KeysFinite, SumsAgree
<1>2. ASSUME UNCHANGED requests PROVE UnderWay' = UnderWay
  <2> DEFINE f == [r \in Requests |-> Pending(r)]
  <2>1. PICK g : Sums(g, f, Requests) /\ UnderWay = g[Requests]
    BY UnderWayIsASum
  <2>2. PICK h : Sums(h, f, Requests) /\ UnderWay' = h[Requests]
    BY <1>2, TypedNext DEF Pending
  <2> HIDE DEF f
  <2>. QED BY <2>1, <2>2, FiniteAssumption, SumsAgree
<1>. QED BY <1>1, <1>2


LEMMA NothingYet ==
  /\ (\A k \in Keys : Written(k) = 0) => Paid = 0
  /\ (\A r \in Requests : Pending(r) = 0) => UnderWay = 0
<1>1. ASSUME \A k \in Keys : Written(k) = 0 PROVE Paid = 0
  <2> DEFINE f == [k \in Keys |-> Written(k)]
  <2>1. PICK g : Sums(g, f, Keys) /\ Paid = g[Keys]
    BY PaidIsASum
  <2>2. \A k \in Keys : f[k] = 0
    BY <1>1
  <2> HIDE DEF f
  <2>. QED BY <2>1, <2>2, KeysFinite, SumOfNothing
<1>2. ASSUME \A r \in Requests : Pending(r) = 0 PROVE UnderWay = 0
  <2> DEFINE f == [r \in Requests |-> Pending(r)]
  <2>1. PICK g : Sums(g, f, Requests) /\ UnderWay = g[Requests]
    BY UnderWayIsASum
  <2>2. \A r \in Requests : f[r] = 0
    BY <1>2
  <2> HIDE DEF f
  <2>. QED BY <2>1, <2>2, FiniteAssumption, SumOfNothing
<1>. QED BY <1>1, <1>2

-----------------------------------------------------------------------------
(* What a step does to the difference between the balance and the ledger.  *)

\* What the balance has beyond the rows and the additions under way.
Surplus == account.balance - Paid - UnderWay

LEMMA BooksTyped ==
  ASSUME IInv, IInv'
  PROVE  /\ TypeOK /\ TypeOK'
         /\ account.balance \in Int /\ Paid \in Int /\ UnderWay \in Int /\ Surplus \in Int
<1>1. TypeOK /\ TypeOK'
  BY DEF IInv
<1>2. account.balance \in Int
  BY <1>1 DEF TypeOK, Account
<1>. QED BY <1>1, <1>2, TotalsTyped DEF Surplus

\* A request becomes another: the points it owed are struck off, those it owes
\* now are added.
LEMMA Owes ==
  ASSUME IInv, IInv', NEW r \in Requests, NEW req, Become(r, req)
  PROVE  /\ req.pc \in {"record", "undo"} => UnderWay' = UnderWay + req.amount - Pending(r)
         /\ req.pc \notin {"record", "undo"} => UnderWay' = UnderWay - Pending(r)
<1>1. requests'[r] = req /\ \A s \in Requests \ {r} : requests'[s] = requests[s]
  BY DEF IInv, TypeOK, Become
<1>2. UnderWay' = UnderWay + Pending(r)' - Pending(r)
  BY <1>1, BooksTyped, UnderWayChanges
<1>3. Pending(r)' = IF req.pc \in {"record", "undo"} THEN req.amount ELSE 0
  BY <1>1 DEF Pending
<1>4. UnderWay \in Int /\ Pending(r) \in Nat
  BY BooksTyped, AmountsTyped
<1>. QED BY <1>2, <1>3, <1>4

\* A step that touches neither the balance nor the ledger, of a request that
\* owes nothing before and after.
LEMMA QuietStep ==
  ASSUME IInv, IInv', NEW r \in Requests, NEW req, Become(r, req),
         requests[r].pc \notin {"record", "undo"}, req.pc \notin {"record", "undo"},
         account'.balance = account.balance, UNCHANGED ledger
  PROVE  Surplus' = Surplus
<1>1. UnderWay' = UnderWay - Pending(r) /\ Pending(r) = 0
  BY Owes DEF Pending
<1>. QED BY <1>1, TotalsStay, BooksTyped DEF Surplus

LEMMA EndsQuietly ==
  /\ Idle.pc = "idle" /\ Reading.pc = "read"
  /\ \A r : Return(r) => Become(r, Idle)
  /\ \A r : ThenSummary(r) => Become(r, Reading)
BY DEF Idle, Reading, Return, ThenSummary

LEMMA StartBalanced ==
  ASSUME IInv, IInv', NEW r \in Requests,
         Summary(r) \/ CheckIn(r) \/ Attribute(r) \/ \E a \in Activities : Claim(r, a)
  PROVE  Surplus' = Surplus
<1>0. requests[r] = Idle /\ UNCHANGED <<account, ledger>>
  BY DEF Summary, CheckIn, Attribute, Claim
<1>1. requests[r].pc = "idle" /\ UNCHANGED <<account, ledger>>
  BY <1>0, EndsQuietly
<1>2. PICK req : Become(r, req) /\ req.pc \in {"read", "attribute", "byKey"}
  <2>1. CASE Summary(r)
    BY <2>1, EndsQuietly DEF Summary
  <2>2. CASE CheckIn(r)
    <3> DEFINE req == [Idle EXCEPT !.op = "checkin", !.pc = "read", !.then = "claimDay",
                                   !.today = day]
    <3>1. req.pc = "read"
      BY DEF Idle
    <3>. QED BY <2>2, <3>1 DEF CheckIn
  <2>3. CASE Attribute(r)
    <3> DEFINE req == [Idle EXCEPT !.op = "welcome", !.pc = "attribute"]
    <3>1. req.pc = "attribute"
      BY DEF Idle
    <3>. QED BY <2>3, <3>1 DEF Attribute
  <2>4. ASSUME NEW a \in Activities, Claim(r, a)
        PROVE  \E req : Become(r, req) /\ req.pc \in {"read", "attribute", "byKey"}
    <3> DEFINE req == [Idle EXCEPT !.op = "claim", !.pc = "byKey", !.key = <<a, day>>,
                                   !.amount = ActivityPoints[a]]
    <3>1. req.pc = "byKey"
      BY DEF Idle
    <3>. QED BY <2>4, <3>1 DEF Claim
  <2>. QED BY <2>1, <2>2, <2>3, <2>4
<1>. QED BY <1>1, <1>2, QuietStep

LEMMA AfterReadBalanced ==
  ASSUME IInv, IInv', NEW r \in Requests, NEW last, NEW n, NEW earned,
         AfterRead(r, last, n, earned), requests[r].pc \in {"read", "roll"},
         account'.balance = account.balance, UNCHANGED ledger
  PROVE  Surplus' = Surplus
<1>0. requests[r] \in Request
  BY DEF IInv, TypeOK
<1>1. requests[r] \in Request /\ Forgotten(r) \in Request
  BY <1>0 DEF Forgotten, Request
<1>2. PICK req : Become(r, req) /\ req.pc \in {"idle", "refused", "claimDay", "recordNothing", "inc"}
  <2>1. CASE AfterCheckInRead(r, last, n)
    <3> DEFINE today == requests[r].today
               refused == [Forgotten(r) EXCEPT !.pc = "refused"]
               claims == [Forgotten(r) EXCEPT !.pc = "claimDay", !.seen = last,
                                              !.streak = NextStreak(last, n, today)]
    <3>1. Become(r, refused) \/ Become(r, claims)
      BY <2>1 DEF AfterCheckInRead
    <3>2. refused.pc = "refused" /\ claims.pc = "claimDay"
      BY <1>1 DEF Request
    <3>. QED BY <3>1, <3>2
  <2>2. CASE AfterCreditRead(r, earned)
    <3>0. PICK p \in {"recordNothing", "inc"} : \E amount, on :
            Become(r, [Forgotten(r) EXCEPT !.pc = p, !.amount = amount, !.on = on])
      BY <2>2 DEF AfterCreditRead
    <3>1. PICK amount, on :
            Become(r, [Forgotten(r) EXCEPT !.pc = p, !.amount = amount, !.on = on])
      BY <3>0
    <3>2. [Forgotten(r) EXCEPT !.pc = p, !.amount = amount, !.on = on].pc = p
      BY <1>1 DEF Request
    <3>. QED BY <3>1, <3>2
  <2>3. CASE Return(r)
    BY <2>3, EndsQuietly
  <2>. QED BY <2>1, <2>2, <2>3 DEF AfterRead
<1>. QED BY <1>2, QuietStep

LEMMA ReadBalanced ==
  ASSUME IInv, IInv', NEW r \in Requests, Read(r) \/ Roll(r)
  PROVE  Surplus' = Surplus
<1>1. requests[r] \in Request /\ account \in Account
  BY DEF IInv, TypeOK
<1>2. CASE Read(r)
  <2> DEFINE rolls == [requests[r] EXCEPT !.pc = "roll", !.stale = account.earnedOn,
                                          !.rollTo = day]
  <2>1. requests[r].pc = "read" /\ UNCHANGED <<account, ledger>>
    BY <1>2 DEF Read
  <2>2. CASE AfterRead(r, account.checkedIn, account.streak, account.earned)
    BY <2>1, <2>2, AfterReadBalanced
  <2>3. CASE Become(r, rolls)
    <3>1. rolls.pc = "roll"
      BY <1>1 DEF Request
    <3>. QED BY <2>1, <2>3, <3>1, QuietStep
  <2>. QED BY <1>2, <2>2, <2>3 DEF Read
<1>3. CASE Roll(r)
  <2>1. requests[r].pc = "roll" /\ UNCHANGED ledger /\ AfterRead(r, Unread, 0, 0)
    BY <1>3 DEF Roll
  <2>2. account'.balance = account.balance
    BY <1>1, <1>3 DEF Roll, Account
  <2>. QED BY <2>1, <2>2, AfterReadBalanced
<1>. QED BY <1>2, <1>3

LEMMA BeforeTheIncBalanced ==
  ASSUME IInv, IInv', NEW r \in Requests,
         AttributeWrite(r) \/ ClaimDay(r) \/ Refuse(r) \/ ByKey(r)
  PROVE  Surplus' = Surplus
<1>1. requests[r] \in Request /\ account \in Account
  BY DEF IInv, TypeOK
<1>2. /\ requests[r].pc \notin {"record", "undo"} /\ UNCHANGED ledger
      /\ account'.balance = account.balance
  BY <1>1 DEF AttributeWrite, ClaimDay, Refuse, ByKey, Account
<1>3. PICK req : Become(r, req) /\ req.pc \in {"idle", "read", "byKey", "refused"}
  <2>1. CASE AttributeWrite(r)
    <3> DEFINE pays == [requests[r] EXCEPT !.pc = "byKey", !.key = Welcome,
                                           !.amount = WelcomePoints]
    <3>1. pays.pc = "byKey"
      BY <1>1 DEF Request
    <3>. QED BY <2>1, <3>1, EndsQuietly DEF AttributeWrite
  <2>2. CASE ClaimDay(r)
    <3> DEFINE pays == [requests[r] EXCEPT !.pc = "byKey",
                                           !.key = <<"checkin", requests[r].today>>,
                                           !.amount = CheckInPoints, !.seen = Unread,
                                           !.streak = 0]
               refused == [requests[r] EXCEPT !.pc = "refused"]
    <3>1. pays.pc = "byKey" /\ refused.pc = "refused"
      BY <1>1 DEF Request
    <3>2. Become(r, pays) \/ Become(r, refused)
      BY <2>2 DEF ClaimDay, Goto
    <3>. QED BY <3>1, <3>2
  <2>3. CASE Refuse(r)
    BY <2>3, EndsQuietly DEF Refuse
  <2>4. CASE ByKey(r)
    <3> DEFINE reads == [requests[r] EXCEPT !.pc = "read", !.then = "pay"]
    <3>1. reads.pc = "read"
      BY <1>1 DEF Request
    <3>. QED BY <2>4, <3>1, EndsQuietly DEF ByKey, ThenRead
  <2>. QED BY <2>1, <2>2, <2>3, <2>4
<1>. QED BY <1>2, <1>3, QuietStep

\* The $inc adds to the balance what the request then owes a row for.
LEMMA IncBalanced ==
  ASSUME IInv, IInv', NEW r \in Requests, Inc(r)
  PROVE  Surplus' = Surplus
<1>1. requests[r] \in Request /\ account \in Account
  BY DEF IInv, TypeOK
<1> DEFINE owes == [requests[r] EXCEPT !.pc = "record", !.on = Never]
           n == requests[r].amount
<1>2. owes.pc = "record" /\ owes.amount = n /\ n \in Nat
  BY <1>1 DEF Request
<1>3. UnderWay' = UnderWay + n
  <2>1. Become(r, owes) /\ Pending(r) = 0
    BY DEF Inc, Pending
  <2> HIDE DEF owes
  <2>2. UnderWay' = UnderWay + owes.amount - Pending(r)
    BY <1>2, <2>1, Owes
  <2>. QED BY <1>2, <2>1, <2>2, BooksTyped
<1>4. account'.balance = account.balance + n /\ Paid' = Paid
  BY <1>1, TotalsStay DEF Inc, Account
<1>. QED BY <1>2, <1>3, <1>4, BooksTyped DEF Surplus

\* The row takes over what was owed; its loser goes on owing it.
LEMMA RecordBalanced ==
  ASSUME IInv, IInv', NEW r \in Requests, Record(r) \/ RecordNothing(r)
  PROVE  Surplus' = Surplus
<1>0. PICK k : k = requests[r].key
  OBVIOUS
<1> DEFINE n == requests[r].amount
           undoes == [requests[r] EXCEPT !.pc = "undo", !.then = "done"]
<1>1. /\ requests[r] \in Request /\ k \in Keys /\ n \in Nat
      /\ ledger \in [Keys -> Nat \cup {Unpaid}] /\ UNCHANGED account
  BY <1>0 DEF IInv, TypeOK, Request, RequestOK, Keyed, Record, RecordNothing
<1>2. /\ Record(r) => Pending(r) = n
      /\ RecordNothing(r) => Pending(r) = 0
  BY DEF Record, RecordNothing, Pending
<1>3. ASSUME NEW m \in Nat, Insertable(k), ledger' = [ledger EXCEPT ![k] = m], Pending(r) = m,
             EndPaid(r)
      PROVE  Surplus' = Surplus
  <2>1. Paid' = Paid + m
    <3>1. \A j \in Keys \ {k} : ledger'[j] = ledger[j]
      BY <1>1, <1>3
    <3>2. ledger[k] = Unpaid /\ ledger'[k] = m /\ m # Unpaid
      BY <1>1, <1>3 DEF Insertable
    <3>3. Written(k) = 0 /\ Written(k)' = m
      BY <3>2 DEF Written
    <3>4. Paid' = Paid + Written(k)' - Written(k)
      BY <1>1, <3>1, BooksTyped, PaidChanges
    <3>. QED BY <1>3, <3>3, <3>4, BooksTyped
  <2>2. UnderWay' = UnderWay - m
    <3>1. Return(r) \/ ThenSummary(r)
      BY <1>3 DEF EndPaid
    <3>. QED BY <1>3, <3>1, EndsQuietly, Owes
  <2>. QED BY <1>1, <1>3, <2>1, <2>2, BooksTyped DEF Surplus
<1>4. CASE ~Insertable(k) /\ Return(r) /\ UNCHANGED ledger /\ Pending(r) = 0
  <2>1. UnderWay' = UnderWay
    BY <1>4, EndsQuietly, Owes, BooksTyped
  <2>. QED BY <1>1, <1>4, <2>1, TotalsStay, BooksTyped DEF Surplus
<1>5. CASE ~Insertable(k) /\ Become(r, undoes) /\ UNCHANGED ledger /\ Pending(r) = n
  <2>1. undoes.pc = "undo" /\ undoes.amount = n
    BY <1>1 DEF Request
  <2> HIDE DEF undoes
  <2>2. UnderWay' = UnderWay + undoes.amount - Pending(r)
    BY <1>5, <2>1, Owes
  <2>3. UnderWay' = UnderWay
    BY <1>1, <1>5, <2>1, <2>2, BooksTyped
  <2>. QED BY <1>1, <1>5, <2>3, TotalsStay, BooksTyped DEF Surplus
<1>6. CASE Record(r)
  BY <1>0, <1>1, <1>2, <1>3, <1>5, <1>6 DEF Record
<1>7. CASE RecordNothing(r)
  BY <1>0, <1>1, <1>2, <1>3, <1>4, <1>7 DEF RecordNothing
<1>. QED BY <1>6, <1>7

LEMMA UndoBalanced ==
  ASSUME IInv, IInv', NEW r \in Requests, Undo(r)
  PROVE  Surplus' = Surplus
<1>1. requests[r] \in Request /\ account \in Account
  BY DEF IInv, TypeOK
<1> DEFINE n == requests[r].amount
<1>2. n \in Nat /\ Pending(r) = n
  BY <1>1 DEF Undo, Pending, Request
<1>3. UnderWay' = UnderWay - n
  <2>1. Return(r) \/ ThenSummary(r)
    BY DEF Undo
  <2>. QED BY <1>2, <2>1, EndsQuietly, Owes
<1>4. account'.balance = account.balance - n /\ Paid' = Paid
  BY <1>1, TotalsStay DEF Undo, Account
<1>. QED BY <1>2, <1>3, <1>4, BooksTyped DEF Surplus

\* A request that dies between the $inc and its row leaves its points behind.
LEMMA FaultLeavesMore ==
  ASSUME IInv, IInv', NEW r \in Requests, RecordFails(r) \/ Dies(r)
  PROVE  Surplus' >= Surplus
<1>1. requests[r] \in Request /\ UNCHANGED <<account, ledger>> /\ Pending(r) \in Nat
  BY BooksTyped, AmountsTyped DEF IInv, TypeOK, RecordFails, Dies
<1>2. UnderWay' = UnderWay \/ UnderWay' = UnderWay - Pending(r)
  <2> DEFINE undoes == [requests[r] EXCEPT !.pc = "undo", !.then = "fail"]
  <2>1. CASE RecordFails(r)
    <3>1. undoes.pc = "undo" /\ undoes.amount = requests[r].amount
      BY <1>1 DEF Request
    <3>2. Pending(r) = requests[r].amount /\ Become(r, undoes)
      BY <2>1 DEF RecordFails, Pending
    <3> HIDE DEF undoes
    <3>3. UnderWay' = UnderWay + undoes.amount - Pending(r)
      BY <3>1, <3>2, Owes
    <3>. QED BY <1>1, <3>1, <3>2, <3>3, BooksTyped
  <2>2. CASE Dies(r)
    BY <2>2, EndsQuietly, Owes DEF Dies
  <2>. QED BY <2>1, <2>2
<1>. QED BY <1>1, <1>2, TotalsStay, BooksTyped DEF Surplus

LEMMA StepBalanced ==
  ASSUME IInv, IInv', [Next]_vars
  PROVE  \/ faults' = faults /\ Surplus' = Surplus
         \/ faults' = faults + 1 /\ UNCHANGED ledger /\ Surplus' >= Surplus
<1>1. CASE UNCHANGED vars \/ Midnight
  BY <1>1, TotalsStay DEF vars, Midnight, Surplus
<1>2. ASSUME NEW r \in Requests, Step(r) PROVE faults' = faults /\ Surplus' = Surplus
  <2>1. UNCHANGED faults
    BY <1>2 DEF Step, AttributeWrite, Read, Roll, ClaimDay, Refuse, ByKey, Inc, Record,
       RecordNothing, Undo
  <2>2. Surplus' = Surplus
    BY <1>2, ReadBalanced, BeforeTheIncBalanced, IncBalanced, RecordBalanced, UndoBalanced
       DEF Step
  <2>. QED BY <2>1, <2>2
<1>3. ASSUME NEW r \in Requests,
             Summary(r) \/ CheckIn(r) \/ Attribute(r) \/ \E a \in Activities : Claim(r, a)
      PROVE  faults' = faults /\ Surplus' = Surplus
  BY <1>3, StartBalanced DEF Summary, CheckIn, Attribute, Claim
<1>4. ASSUME NEW r \in Requests, RecordFails(r) \/ Dies(r)
      PROVE  faults' = faults + 1 /\ UNCHANGED ledger /\ Surplus' >= Surplus
  BY <1>4, FaultLeavesMore DEF RecordFails, Dies
<1>. QED BY <1>1, <1>2, <1>3, <1>4 DEF Next

\* A row is written once, with what the request pays.
LEMMA RowWritten ==
  ASSUME IInv, [Next]_vars, ledger' # ledger
  PROVE  \E k \in Keys : /\ ledger[k] = Unpaid /\ ledger'[k] \in Nat
                          /\ ledger' = [ledger EXCEPT ![k] = ledger'[k]]
<1>1. PICK r \in Requests : Record(r) \/ RecordNothing(r)
  BY DEF Next, Step, vars, Summary, CheckIn, Claim, Attribute, AttributeWrite, Read, Roll,
     ClaimDay, Refuse, ByKey, Inc, Undo, RecordFails, Dies, Midnight
<1>2. PICK k : k = requests[r].key
  OBVIOUS
<1>3. /\ k \in Keys /\ requests[r].amount \in Nat /\ ledger \in [Keys -> Nat \cup {Unpaid}]
  BY <1>1, <1>2 DEF IInv, TypeOK, Request, RequestOK, Keyed, Record, RecordNothing
<1>4. PICK n \in Nat : ledger[k] = Unpaid /\ ledger' = [ledger EXCEPT ![k] = n]
  BY <1>1, <1>2, <1>3 DEF Record, RecordNothing, Insertable
<1>5. ledger'[k] = n
  BY <1>3, <1>4
<1>. QED BY <1>3, <1>4, <1>5

\* The balance less what is still on its way to a row.
LEMMA OwnedNext ==
  IInv' => /\ account'.balance \in Int /\ Paid' \in Int /\ UnderWay' \in Int
           /\ Surplus' = account'.balance - Paid' - UnderWay' /\ Surplus' \in Int
<1>1. IInv => /\ account.balance \in Int /\ Paid \in Int /\ UnderWay \in Int
              /\ Surplus = account.balance - Paid - UnderWay /\ Surplus \in Int
  <2>1. IInv => TypeOK /\ account.balance \in Int
    BY DEF IInv, TypeOK, Account
  <2>. QED BY <2>1, TotalsTyped DEF Surplus
<1>2. (IInv => /\ account.balance \in Int /\ Paid \in Int /\ UnderWay \in Int
               /\ Surplus = account.balance - Paid - UnderWay /\ Surplus \in Int)'
  BY <1>1, PTL
<1>. QED BY <1>2

-----------------------------------------------------------------------------
(* The theorems.                                                           *)

THEOREM Invariance == Spec => []IInv
<1>1. Init => IInv
  <2>1. ASSUME Init PROVE TypeOK
    <3>1. day \in Days
      BY <2>1 DEF Init
    <3>2. account \in Account
      BY <2>1 DEF Init, Account
    <3>3. requests \in [Requests -> Request]
      BY <2>1, IdleIsARequest DEF Init
    <3>4. ledger \in [Keys -> Nat \cup {Unpaid}]
      BY <2>1 DEF Init
    <3>5. attributed \in BOOLEAN
      BY <2>1, Zenon DEF Init
    <3>6. faults \in 0..MaxFaults
      BY <2>1 DEF Init
    <3>. QED BY <3>1, <3>2, <3>3, <3>4, <3>5, <3>6 DEF TypeOK
  <2>2. ASSUME Init PROVE account.earnedOn <= day
    BY <2>2 DEF Init
  <2>3. ASSUME Init, NEW r \in Requests PROVE RequestOK(r) /\ ClaimPaid(r)
    BY <2>3 DEF Init, Idle, RequestOK, ClaimPaid, Keyed
  <2>4. ASSUME Init PROVE AllPaid
    <3>1. account.streak = 0 /\ attributed = FALSE
      BY <2>4 DEF Init
    <3>2. StreakPaid(account.checkedIn, account.streak)
      BY <3>1 DEF StreakPaid
    <3>. QED BY <2>3, <2>4, <3>1, <3>2 DEF AllPaid
  <2>. QED BY <2>1, <2>2, <2>3, <2>4 DEF IInv
<1>2. IInv /\ [Next]_vars => IInv'
  <2>1. ASSUME IInv, UNCHANGED vars PROVE IInv'
    BY ZenonT(40), <2>1 DEF vars, IInv, TypeOK, RequestOK, Keyed, AllPaid, StreakPaid, ClaimPaid, Promised
  <2>2. ASSUME IInv, NEW r \in Requests, Step(r) PROVE IInv'
    BY <2>2, AttributeWriteKeeps, ReadKeeps, RollKeeps, ClaimDayKeeps, RefuseKeeps,
       ByKeyKeeps, IncKeeps, RecordKeeps, UndoKeeps DEF Step
  <2>. QED
    BY <2>1, <2>2, StartKeeps, FaultKeeps, MidnightKeeps DEF Next
<1>. QED BY <1>1, <1>2, PTL DEF Spec

\* The types of the state, whatever the cap, the payments and the requests.
THEOREM TypeCorrect == Spec => []TypeOK
<1>1. IInv => TypeOK
  BY DEF IInv
<1>. QED BY <1>1, Invariance, PTL

\* Unless a request died, the days of the streak are consecutive and each is
\* paid or about to be, and so is the welcome of an attributed member.
THEOREM PromisesKept == Spec => []PromisesArePaid
<1>1. IInv => PromisesArePaid
  BY DEF IInv, AllPaid, StreakPaid, PromisesArePaid
<1>. QED BY <1>1, Invariance, PTL

\* The resets of a day are no more than the date passed it going up, and it comes
\* back below it only by an addition that landed late.
Reached(d) == IF account.earnedOn >= d THEN 1 ELSE 0
ResetInv ==
  /\ resets \in [Days -> Nat] /\ late \in Nat
  /\ \A d \in Days : resets[d] <= late + Reached(d)

LEMMA ResetStep ==
  ASSUME IInv, ResetInv, Next
  PROVE  ResetInv'
<1>0. account \in Account /\ account.earnedOn \in Int
  BY DEF IInv, TypeOK, Account
<1>1. CASE UNCHANGED <<resets, late>> /\ account'.earnedOn = account.earnedOn
  BY <1>1 DEF ResetInv, Reached
<1>2. ASSUME NEW r \in Requests, Roll(r) PROVE ResetInv'
  <2>1. PICK to \in Days : to = requests[r].rollTo /\ requests[r].stale < to
    BY <1>2 DEF IInv, RequestOK, Roll
  <2>2. CASE ~StillStale(requests[r].stale)
    BY <1>1, <1>2, <2>2 DEF Roll
  <2>3. CASE StillStale(requests[r].stale)
    <3>1. account.earnedOn < to /\ account'.earnedOn = to
      BY <1>0, <1>2, <2>1, <2>3 DEF Roll, StillStale, Account
    <3>2. resets' = [resets EXCEPT ![to] = @ + 1] /\ late' = late
      BY <1>2, <2>1, <2>3 DEF Roll
    <3>3. to \in Int /\ Days \subseteq Int
      BY <2>1 DEF Days
    <3>4. resets' \in [Days -> Nat] /\ late' \in Nat
      BY <2>1, <3>2 DEF ResetInv
    <3>5. ASSUME NEW d \in Days PROVE resets'[d] <= late' + Reached(d)'
      <4>1. resets[d] <= late + Reached(d) /\ resets[d] \in Nat /\ late \in Nat
        BY DEF ResetInv
      <4>2. CASE d = to
        BY <1>0, <2>1, <3>1, <3>2, <3>3, <4>1, <4>2 DEF ResetInv, Reached
      <4>3. CASE d # to
        <5>1. resets'[d] = resets[d] /\ late' = late
          BY <2>1, <3>2, <4>3 DEF ResetInv
        <5>2. Reached(d) <= Reached(d)' /\ Reached(d) \in {0, 1} /\ Reached(d)' \in {0, 1}
          BY <1>0, <3>1, <3>3 DEF Reached
        <5>. QED BY <4>1, <5>1, <5>2
      <4>. QED BY <4>2, <4>3
    <3>. QED BY <3>4, <3>5 DEF ResetInv
  <2>. QED BY <2>2, <2>3
<1>3. ASSUME NEW r \in Requests, Inc(r) PROVE ResetInv'
  <2>1. /\ account'.earnedOn = requests[r].on /\ resets' = resets
        /\ late' = IF requests[r].on < account.earnedOn THEN late + 1 ELSE late
    BY <1>0, <1>3 DEF Inc, Account
  <2>2. requests[r].on \in Int
    BY <1>3 DEF IInv, RequestOK, Inc
  <2>. QED BY <1>0, <2>1, <2>2 DEF ResetInv, Reached
<1>4. ASSUME NEW r \in Requests, ClaimDay(r) \/ Undo(r) PROVE ResetInv'
  <2>1. UNCHANGED <<resets, late>> /\ account'.earnedOn = account.earnedOn
    BY <1>0, <1>4 DEF ClaimDay, Undo, Account, history
  <2>. QED BY <1>1, <2>1
<1>5. \/ UNCHANGED <<account, resets, late>>
      \/ \E r \in Requests : Roll(r) \/ ClaimDay(r) \/ Inc(r) \/ Undo(r)
  BY DEF Next, Step, Summary, CheckIn, Claim, Attribute, AttributeWrite, Read, Refuse,
     ByKey, Record, RecordNothing, RecordFails, Dies, Midnight, history
<1>. QED BY <1>1, <1>2, <1>3, <1>4, <1>5

\* A day's earnings are reset once, and once more at most for each addition that
\* was built before midnight and landed on a later day, however many readers,
\* requests, days and faults there are.
THEOREM ResetsBounded == Spec => []ResetsAreBounded
<1>1. Init => ResetInv
  BY DEF Init, ResetInv, Reached
<1>2. IInv /\ ResetInv /\ [Next]_vars => ResetInv'
  <2>1. ASSUME ResetInv, UNCHANGED vars PROVE ResetInv'
    BY <2>1 DEF vars, history, ResetInv, Reached
  <2>. QED BY <2>1, ResetStep
<1>3. ResetInv => ResetsAreBounded
  BY DEF ResetInv, Reached, ResetsAreBounded
<1>. QED BY <1>1, <1>2, <1>3, Invariance, PTL DEF Spec

\* The ledger is the history of the balance: the rows and the additions under
\* way sum to it until a request dies, and are covered by it ever after.
THEOREM LedgerSumsToTheBalance == Spec => []LedgerIsTheBalance
<1> DEFINE Balanced == Surplus \in Nat /\ (faults = 0 => Surplus = 0)
<1>1. Init => Balanced
  <2>1. ASSUME Init PROVE Paid = 0 /\ UnderWay = 0
    <3>1. \A k \in Keys : Written(k) = 0
      BY <2>1 DEF Init, Written
    <3>2. \A r \in Requests : Pending(r) = 0
      BY <2>1, EndsQuietly DEF Init, Pending
    <3>. QED BY <3>1, <3>2, NothingYet
  <2>2. ASSUME Init PROVE account.balance = 0
    BY <2>2 DEF Init
  <2>3. ASSUME Init PROVE Surplus = 0
    BY <2>1, <2>2, <2>3 DEF Surplus
  <2>. QED BY <2>3
<1>2. ASSUME IInv, IInv', Balanced, [Next]_vars PROVE Balanced'
  <2>1. faults \in Nat /\ Surplus' \in Int
    <3>1. IInv => faults \in Nat
      BY DEF IInv, TypeOK
    <3>2. TypeOK' /\ account'.balance \in Int
      BY <1>2 DEF IInv, TypeOK, Account
    <3>. QED BY <1>2, <3>1, <3>2, TotalsTypedNext DEF Surplus
  <2>. QED BY <1>2, <2>1, StepBalanced
<1>3. IInv /\ Balanced => LedgerIsTheBalance
  <2>1. ASSUME IInv, Balanced PROVE LedgerIsTheBalance
    <3>1. account.balance \in Int /\ Paid \in Int /\ UnderWay \in Int
      BY <2>1, TotalsTyped DEF IInv, TypeOK, Account
    <3>. QED BY <2>1, <3>1 DEF Surplus, Paid, UnderWay, LedgerIsTheBalance
  <2>. QED BY <2>1
<1> HIDE DEF Balanced
<1>. QED BY <1>1, <1>2, <1>3, Invariance, PTL DEF Spec

\* Whatever is in flight, the points show a book in which each key is paid once,
\* in one step that writes what it pays.
THEOREM BookRefinement == Spec => ImplementsBook
<1>1. ASSUME Init PROVE Book!Init
  <2>1. UnderWay = 0 /\ account.balance = 0
    <3>1. \A r \in Requests : Pending(r) = 0
      BY <1>1, EndsQuietly DEF Init, Pending
    <3>. QED BY <1>1, <3>1, NothingYet DEF Init
  <2>. QED BY <1>1, <2>1 DEF Init, Book!Init, UnderWay
<1>2. ASSUME IInv, IInv', [Next]_vars PROVE [Book!Next]_(Book!vars)
  <2> DEFINE owned == account.balance - UnderWay
  <2>1. owned = Surplus + Paid /\ owned' = Surplus' + Paid' /\ Surplus \in Int /\ Paid \in Int
    BY <1>2, BooksTyped, OwnedNext DEF Surplus
  <2>2. Book!Die <=> faults' = faults + 1 /\ owned' >= owned /\ UNCHANGED ledger
    BY DEF Book!Die, UnderWay
  <2>3. Book!vars = <<owned, ledger, faults>> /\ Book!vars' = <<owned', ledger', faults'>>
    BY DEF Book!vars, UnderWay
  <2>4. ASSUME NEW k \in Keys
        PROVE  Book!Pay(k) <=> /\ ledger[k] = Unpaid /\ ledger'[k] \in Nat
                               /\ ledger' = [ledger EXCEPT ![k] = ledger'[k]]
                               /\ owned' = owned + ledger'[k]
                               /\ UNCHANGED faults
    BY DEF Book!Pay, UnderWay
  <2> HIDE DEF owned
  <2>5. CASE UNCHANGED ledger
    <3>1. Paid' = Paid
      BY <2>5, TotalsStay
    <3>2. CASE faults' = faults /\ Surplus' = Surplus
      BY <2>1, <2>3, <2>5, <3>1, <3>2
    <3>3. CASE faults' = faults + 1 /\ Surplus' >= Surplus
      <4>1. Surplus' \in Int
        BY <1>2, OwnedNext
      <4>2. Surplus' + Paid >= Surplus + Paid
        <5>1. PICK a \in Int, b \in Int, c \in Int : a = Surplus /\ b = Surplus' /\ c = Paid
          BY <2>1, <4>1
        <5>2. b >= a
          BY <3>3, <5>1
        <5>3. b + c >= a + c
          BY <5>2
        <5>. QED BY <5>1, <5>3
      <4>3. owned' >= owned
        BY <2>1, <3>1, <4>2
      <4>4. Book!Die
        BY <2>2, <2>5, <3>3, <4>3
      <4>. QED BY <4>4 DEF Book!Next
    <3>. QED BY <1>2, <3>2, <3>3, StepBalanced
  <2>6. CASE ledger' # ledger
    <3>1. faults' = faults /\ Surplus' = Surplus
      BY <1>2, <2>6, StepBalanced
    <3>2. PICK k \in Keys : /\ ledger[k] = Unpaid /\ ledger'[k] \in Nat
                            /\ ledger' = [ledger EXCEPT ![k] = ledger'[k]]
      BY <1>2, <2>6, RowWritten
    <3>3. Paid' = Paid + ledger'[k]
      <4>1. \A j \in Keys \ {k} : ledger'[j] = ledger[j]
        <5>1. ledger \in [Keys -> Nat \cup {Unpaid}]
          BY <1>2 DEF IInv, TypeOK
        <5>. QED BY <3>2, <5>1
      <4>2. Written(k) = 0 /\ Written(k)' = ledger'[k]
        BY <3>2 DEF Written
      <4>3. Paid' = Paid + Written(k)' - Written(k)
        BY <1>2, <4>1, BooksTyped, PaidChanges
      <4>. QED BY <1>2, <3>2, <4>2, <4>3, BooksTyped
    <3>. QED BY <2>1, <2>4, <3>1, <3>2, <3>3 DEF Book!Next
  <2>. QED BY <2>5, <2>6
<1>. QED BY <1>1, <1>2, Invariance, PTL DEF Spec, ImplementsBook, Book!Spec
=============================================================================
