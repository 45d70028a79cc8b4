----------------------------- MODULE YaysPoints -----------------------------
(***************************************************************************)
(* IndexxPoints: services/yaysPoints.service.ts (the account, the ledger,  *)
(* credit and checkIn), with the callers that pay: the check-in and the    *)
(* activity claims of yaysEarn.service.ts and yaysWalletAPI.ts, and the    *)
(* welcome bonus of yaysReferral.service.ts.                               *)
(*                                                                         *)
(* One member: accounts share nothing.  Two devices of the member, a retry *)
(* and the Earn tab are requests in flight at once; a request's pc names   *)
(* its next await.  Days are numbered; a day key is its number.  Left out: *)
(* lifetimeEarned, which moves with the balance as nothing in the          *)
(* repository credits a negative amount, and the creation of the account.  *)
(***************************************************************************)
EXTENDS Integers, FiniteSetsExt

CONSTANTS
  Requests,       \* slots for requests in flight
  Activities,     \* the activities a member can claim once a day
  ActivityPoints, \* what each of them pays
  CheckInPoints,
  WelcomePoints,
  Cap,            \* DAILY_POINTS_CAP
  LastDay,        \* bound on the days that pass
  MaxFaults       \* bound on requests that die and on failed inserts

ASSUME ActivitiesAssumption == Activities \cap {"checkin", "welcome"} = {}
ASSUME PointsAssumption ==
  /\ ActivityPoints \in [Activities -> Nat \ {0}]
  /\ CheckInPoints \in Nat \ {0}
  /\ WelcomePoints \in Nat \ {0}
ASSUME FiniteAssumption == IsFiniteSet(Requests) /\ IsFiniteSet(Activities)
ASSUME BoundsAssumption == Cap \in Nat /\ LastDay \in Nat \ {0} /\ MaxFaults \in Nat

VARIABLES
  day,        \* the current UTC day
  account,    \* the member's YaysPointsAccount
  attributed, \* whether the member's referral row exists
  ledger,     \* YaysPointsLedger: the amount of the row with each key
  requests,   \* the requests in flight
  faults,     \* deaths and failed inserts so far
  resets,     \* history: how often the earnings of each day were reset
  late        \* history: additions that took the date of the account back

history == <<resets, late>>
vars == <<day, account, attributed, ledger, requests, faults, history>>

-----------------------------------------------------------------------------
Days == 1..LastDay
Never == -1     \* null in the database
Unread == -2    \* undefined in memory
Unpaid == -1    \* no such ledger row

\* Idempotency keys: "checkin:<day>", "<activity>:<day>", "referral-welcome:".
Welcome == <<"welcome", Never>>
Keys == (({"checkin"} \cup Activities) \X Days) \cup {Welcome}
NoKey == <<"none", Never>>

Account == [ balance : Int, earned : Int, earnedOn : Days \cup {Never},
             checkedIn : Days \cup {Never}, streak : Nat ]

Request == [ op : {"idle", "summary", "checkin", "claim", "welcome"},
             pc : {"idle", "attribute", "read", "roll", "claimDay", "byKey", "inc",
                   "recordNothing", "record", "undo", "refused"},
             then : {"done", "claimDay", "pay", "fail"},  \* what the await returns to
             today : Days \cup {Never},              \* the day a check-in is for
             key : Keys \cup {NoKey},
             amount : Nat,                           \* still to be paid, or paid
             on : Days \cup {Never},                 \* the day its $inc was built on
             stale : Days \cup {Never},              \* earnedTodayDate as summary read it
             rollTo : Days \cup {Never},             \* the day it then took it for
             seen : Days \cup {Never, Unread},       \* lastCheckInDate as checkIn saw it
             streak : Nat ]                          \* the streak it will write

Idle == [ op |-> "idle", pc |-> "idle", then |-> "done", today |-> Never,
          key |-> NoKey, amount |-> 0, on |-> Never, stale |-> Never,
          rollTo |-> Never, seen |-> Unread, streak |-> 0 ]

TypeOK ==
  /\ day \in Days
  /\ account \in Account
  /\ attributed \in BOOLEAN
  /\ ledger \in [Keys -> Nat \cup {Unpaid}]
  /\ requests \in [Requests -> Request]
  /\ faults \in 0..MaxFaults

Init ==
  /\ day = 1
  /\ account = [ balance |-> 0, earned |-> 0, earnedOn |-> Never,
                 checkedIn |-> Never, streak |-> 0 ]
  /\ attributed = FALSE
  /\ ledger = [k \in Keys |-> Unpaid]
  /\ requests = [r \in Requests |-> Idle]
  /\ faults = 0
  /\ resets = [d \in Days |-> 0]
  /\ late = 0

(* A definition whose name ends in _slip is a mistake this code could have *)
(* made in the definition that follows it; no specification uses it.       *)

\* The unique index (userLower, idempotencyKey) lets a row in once.  (Slips: no
\* index; a row that paid nothing may be paid after all.)
Insertable_slip(k) == TRUE
InsertableOverZero_slip(k) == ledger[k] \in {Unpaid, 0}
Insertable(k) == ledger[k] = Unpaid

\* The filter of the day's rollover: the date that was read.  (Slip: none.)
StillStale_slip(date) == TRUE
StillStale(date) == account.earnedOn = date

\* The filter of the check-in's claim.  An undefined lastCheckInDate is sent as
\* null.
Claimable(seen) == account.checkedIn = IF seen = Unread THEN Never ELSE seen

\* The streak a check-in writes.  (Slip: it never starts again.)
NextStreak_slip(last, streak, today) == streak + 1
NextStreak(last, streak, today) == IF last = today - 1 THEN streak + 1 ELSE 1

\* What the cap leaves of the day's earnings.  (Slip: it may be negative.)
Allowance_slip(earned) == Cap - earned
Allowance(earned) == IF earned < Cap THEN Cap - earned ELSE 0

At(r, pc) == requests[r].pc = pc
Become(r, request) == requests' = [requests EXCEPT ![r] = request]
Goto(r, pc) == Become(r, [requests[r] EXCEPT !.pc = pc])
Return(r) == Become(r, Idle)

\* summary() comes next: with more to do after it, or as the last of the answer.
\* (credit() and the controller both end with one; the second is one more
\* Summary request.)
ThenRead(r, then) == Become(r, [requests[r] EXCEPT !.pc = "read", !.then = then])
Reading == [Idle EXCEPT !.op = "summary", !.pc = "read"]
ThenSummary(r) == Become(r, Reading)

-----------------------------------------------------------------------------
(* The requests.                                                           *)

\* The Earn tab, and every other reader of the account.
Summary(r) ==
  /\ requests[r] = Idle
  /\ ThenSummary(r)
  /\ UNCHANGED <<day, account, attributed, ledger, faults, history>>

CheckIn(r) ==
  /\ requests[r] = Idle
  /\ Become(r, [Idle EXCEPT !.op = "checkin", !.pc = "read", !.then = "claimDay",
                            !.today = day])
  /\ UNCHANGED <<day, account, attributed, ledger, faults, history>>

\* A claim whose target is met: the counters are other components'.
Claim(r, a) ==
  /\ requests[r] = Idle
  /\ Become(r, [Idle EXCEPT !.op = "claim", !.pc = "byKey", !.key = <<a, day>>,
                            !.amount = ActivityPoints[a]])
  /\ UNCHANGED <<day, account, attributed, ledger, faults, history>>

Attribute(r) ==
  /\ requests[r] = Idle
  /\ Become(r, [Idle EXCEPT !.op = "welcome", !.pc = "attribute"])
  /\ UNCHANGED <<day, account, attributed, ledger, faults, history>>

\* One referral row per referee: a second one is ReferralAlreadyAttributedError.
AttributeWrite(r) ==
  /\ At(r, "attribute")
  /\ \/ /\ ~attributed
        /\ attributed' = TRUE
        /\ Become(r, [requests[r] EXCEPT !.pc = "byKey", !.key = Welcome,
                                         !.amount = WelcomePoints])
     \/ attributed /\ Return(r) /\ UNCHANGED attributed
  /\ UNCHANGED <<day, account, ledger, faults, history>>

-----------------------------------------------------------------------------
(* summary(), withRolledOverDay() and what the caller does with the answer *)
(* before its next await.                                                  *)

\* summary() has returned and its variables are gone.
Forgotten(r) == [requests[r] EXCEPT !.stale = Never, !.rollTo = Never]

\* checkIn() after summary(): refuse, or claim the day.
AfterCheckInRead(r, last, streak) ==
  LET today == requests[r].today IN
  IF last = today THEN Become(r, [Forgotten(r) EXCEPT !.pc = "refused"])
  ELSE Become(r, [Forgotten(r) EXCEPT !.pc = "claimDay", !.seen = last,
                                      !.streak = NextStreak(last, streak, today)])

\* credit() after summary(): trim to the daily cap (a welcome bonus has none), and
\* build the $inc, with the day it is now.
AfterCreditRead(r, earned) ==
  LET asked == requests[r].amount
      left == Allowance(earned)
      amount == IF requests[r].op # "welcome" /\ asked > left THEN left ELSE asked IN
  Become(r, [Forgotten(r) EXCEPT !.pc = IF amount = 0 THEN "recordNothing" ELSE "inc",
                                 !.amount = amount,
                                 !.on = IF amount = 0 THEN Never ELSE day])

AfterRead(r, last, streak, earned) ==
  CASE requests[r].then = "claimDay" -> AfterCheckInRead(r, last, streak)
    [] requests[r].then = "pay" -> AfterCreditRead(r, earned)
    [] OTHER -> Return(r)

Read(r) ==
  /\ At(r, "read")
  /\ IF account.earnedOn = day
     THEN AfterRead(r, account.checkedIn, account.streak, account.earned)
     ELSE Become(r, [requests[r] EXCEPT !.pc = "roll", !.stale = account.earnedOn,
                                        !.rollTo = day])
  /\ UNCHANGED <<day, account, attributed, ledger, faults, history>>

\* The rolled-over account is a spread of a Mongoose document: it has the two
\* fields written out and none of the others, so lastCheckInDate and
\* streakDays are undefined.
Roll(r) ==
  /\ At(r, "roll")
  /\ account' = IF StillStale(requests[r].stale)
                THEN [account EXCEPT !.earned = 0, !.earnedOn = requests[r].rollTo]
                ELSE account
  /\ resets' = IF StillStale(requests[r].stale)
               THEN [resets EXCEPT ![requests[r].rollTo] = @ + 1] ELSE resets
  /\ AfterRead(r, Unread, 0, 0)
  /\ UNCHANGED <<day, attributed, ledger, faults, late>>

-----------------------------------------------------------------------------
(* checkIn().                                                              *)

\* Claim the day before crediting.
ClaimDay(r) ==
  /\ At(r, "claimDay")
  /\ LET req == requests[r] IN
       \/ /\ Claimable(req.seen)
          /\ account' = [account EXCEPT !.checkedIn = req.today, !.streak = req.streak]
          /\ Become(r, [req EXCEPT !.pc = "byKey", !.key = <<"checkin", req.today>>,
                                   !.amount = CheckInPoints, !.seen = Unread,
                                   !.streak = 0])
       \/ ~Claimable(req.seen) /\ Goto(r, "refused") /\ UNCHANGED account
  /\ UNCHANGED <<day, attributed, ledger, faults, history>>

\* AlreadyCheckedInError is answered.
Refuse(r) ==
  /\ At(r, "refused")
  /\ Return(r)
  /\ UNCHANGED <<day, account, attributed, ledger, faults, history>>

-----------------------------------------------------------------------------
(* credit().                                                               *)

ByKey(r) ==
  /\ At(r, "byKey")
  /\ IF ledger[requests[r].key] = Unpaid THEN ThenRead(r, "pay") ELSE ThenSummary(r)
  /\ UNCHANGED <<day, account, attributed, ledger, faults, history>>

\* The rollup first: one atomic $inc, which lands on whatever the day is by then.
Counted(r) == IF requests[r].op = "welcome" THEN 0 ELSE requests[r].amount

Inc(r) ==
  /\ At(r, "inc")
  /\ account' = [account EXCEPT !.balance = @ + requests[r].amount,
                                !.earned = @ + Counted(r), !.earnedOn = requests[r].on]
  /\ late' = IF requests[r].on < account.earnedOn THEN late + 1 ELSE late
  /\ Become(r, [requests[r] EXCEPT !.pc = "record", !.on = Never])
  /\ UNCHANGED <<day, attributed, ledger, faults, resets>>

\* A paid check-in or claim ends with another summary() in the controller.
EndPaid(r) == IF requests[r].op = "welcome" THEN Return(r) ELSE ThenSummary(r)

\* Then the ledger row; the loser of a race for the key undoes its $inc.
Record(r) ==
  /\ At(r, "record")
  /\ LET k == requests[r].key IN
       \/ /\ Insertable(k)
          /\ ledger' = [ledger EXCEPT ![k] = requests[r].amount]
          /\ EndPaid(r)
       \/ /\ ~Insertable(k)
          /\ Become(r, [requests[r] EXCEPT !.pc = "undo", !.then = "done"])
          /\ UNCHANGED ledger
  /\ UNCHANGED <<day, account, attributed, faults, history>>

\* Nothing left under the cap: the row alone, and a duplicate is an error.
RecordNothing(r) ==
  /\ At(r, "recordNothing")
  /\ LET k == requests[r].key IN
       \/ Insertable(k) /\ ledger' = [ledger EXCEPT ![k] = 0] /\ EndPaid(r)
       \/ ~Insertable(k) /\ Return(r) /\ UNCHANGED ledger
  /\ UNCHANGED <<day, account, attributed, faults, history>>

Undo(r) ==
  /\ At(r, "undo")
  /\ account' = [account EXCEPT !.balance = @ - requests[r].amount,
                                !.earned = @ - Counted(r)]
  /\ IF requests[r].then = "fail" THEN Return(r) ELSE ThenSummary(r)
  /\ UNCHANGED <<day, attributed, ledger, faults, history>>

-----------------------------------------------------------------------------
(* Time and faults.                                                        *)

Midnight ==
  /\ day < LastDay
  /\ day' = day + 1
  /\ UNCHANGED <<account, attributed, ledger, requests, faults, history>>

\* The insert fails without a row: the $inc is undone and the error thrown.
RecordFails(r) ==
  /\ At(r, "record")
  /\ faults < MaxFaults
  /\ faults' = faults + 1
  /\ Become(r, [requests[r] EXCEPT !.pc = "undo", !.then = "fail"])
  /\ UNCHANGED <<day, account, attributed, ledger, history>>

\* The worker dies, or another database call fails, and the request with it.
Dies(r) ==
  /\ requests[r] # Idle
  /\ faults < MaxFaults
  /\ faults' = faults + 1
  /\ Return(r)
  /\ UNCHANGED <<day, account, attributed, ledger, history>>

-----------------------------------------------------------------------------
Step(r) ==
  \/ AttributeWrite(r) \/ Read(r) \/ Roll(r) \/ ClaimDay(r) \/ Refuse(r)
  \/ ByKey(r) \/ Inc(r) \/ Record(r) \/ RecordNothing(r) \/ Undo(r)

Next ==
  \/ \E r \in Requests :
       \/ Summary(r) \/ CheckIn(r) \/ Attribute(r) \/ \E a \in Activities : Claim(r, a)
       \/ Step(r) \/ RecordFails(r) \/ Dies(r)
  \/ Midnight

Spec == Init /\ [][Next]_vars

-----------------------------------------------------------------------------
(* What is true of the points.                                             *)

\* Points a request has added to the balance and not yet written down.
Pending(r) == IF requests[r].pc \in {"record", "undo"} THEN requests[r].amount ELSE 0
Written(k) == IF ledger[k] = Unpaid THEN 0 ELSE ledger[k]

\* The ledger is the history of the balance: whatever two devices and retries
\* do with the same key the rows and the additions under way sum to it, and
\* after a death or a failed insert the member has lost nothing the ledger
\* says was paid ("the pair of requests together still credits exactly once").
LedgerIsTheBalance ==
  LET sum == MapThenSumSet(Written, Keys) + MapThenSumSet(Pending, Requests) IN
  account.balance >= sum /\ (faults = 0 => account.balance = sum)

\* The balance less what is still on its way to a row, and the ledger, are the
\* book of PointsBook: a payment of several awaits shows as one step that writes
\* the key's one row and pays what it says ("idempotent by key").
Book == INSTANCE PointsBook WITH
  balance <- account.balance - MapThenSumSet(Pending, Requests), rows <- ledger
ImplementsBook == Book!Spec

\* A key is promised when its row is there or a request is on its way to it.
Promised(k) ==
  \/ ledger[k] # Unpaid
  \/ \E r \in Requests : requests[r].key = k /\ ~At(r, "undo")

\* Unless a request died, every day of the streak was consecutive and is paid
\* or about to be, though the day is claimed several awaits before it is paid;
\* and so is the welcome of an attributed member.
PromisesArePaid ==
  faults = 0 =>
    /\ \A i \in 0..(account.streak - 1) :
         LET d == account.checkedIn - i IN d \in Days /\ Promised(<<"checkin", d>>)
    /\ attributed => Promised(Welcome)

\* "two concurrent readers cannot both reset a day's earnings" (195): a day is reset
\* once, and once more at most for each addition that was built before midnight and
\* landed on a later day, which takes earnedTodayDate back (273).  No number of
\* readers resets a day by itself.
ResetsAreBounded == \A d \in Days : resets[d] <= 1 + late

-----------------------------------------------------------------------------
(* What an error message says and the code does not do.                    *)

\* "You already checked in today. Come back tomorrow!" (yaysPoints.service.ts
\* 373): who is told so has checked in on the day of the request.
RefusedHadCheckedIn ==
  \A r \in Requests : At(r, "refused") => account.checkedIn >= requests[r].today
=============================================================================
