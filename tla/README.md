# Formal models of the YaysChat / Indexx backend

TLA+ modules, TLC configurations and TLAPS proofs for the parts of this backend
whose correctness depends on what several devices, workers and scheduled jobs do
at the same time. Paths are relative to the repository's root.

The backend is one Express and Socket.IO program (`index.ts`) run as a PM2
cluster of eight workers (`ecosystem.config.js`) over one MongoDB and one Redis.
A worker keeps almost nothing in memory; a handler is a sequence of awaited
database calls, and between two of them every other handler of every worker may
run. No transaction protects most of these sequences. What keeps the data right
is the *shape* of single calls: unique indexes, conditional updates, `$inc`. The
models therefore take **one database call, with the synchronous code that
follows it, as one action**, and keep in a handler's record what it has read and
still means to use.

## 1. Inventory

| Component | State | Operations | Talks to | What makes it correct |
|---|---|---|---|---|
| 1:1 calls (`services/yaysCall.service.ts`, `services/calls/signaling.ts`, `controllers/yaysCallsAPI.ts`) | `YaysCall` rows; a `ringTimers` map per process | invite, accept, decline, hang up, media failed, disconnect, ring timer, REST end | sockets, notifications, sweep | one outcome per call, told once; no ring for ever; nobody busy for ever |
| Stale-ring sweep (`cron_jobs/staleCallSweep.job.ts`) | none | once a minute on the leader | scheduler, calls | closes what a dead worker's timer left |
| IndexxPoints (`services/yaysPoints.service.ts`) | account row, ledger rows | summary and day rollover, credit, check-in | earn, referral, wallet API | the ledger is the history of the balance; a key pays once; a streak is consecutive |
| Earn, referral, wallet API | referral rows | claim an activity, attribute a referral, read the Earn tab | points, counters | each pays under a key of its own |
| Leader election and scheduling (`index.ts`, `helpers/scheduleExactlyOnce.ts`) | a lease and slot keys in Redis; retry timers and registered jobs per worker | elect, retry, reconnect, renew, release, run a slot | every cron job | one run per lock of a slot; one scheduler while no lease lapses; some worker schedules in the end |
| Notification delivery (`services/notificationDelivery.service.ts`) | inbox rows, devices, preferences | deliver, suppress, fan out, register, mute | everything that pushes | the inbox says what happened; a mute is heeded; one push per event and recipient |
| Announcements (`services/communityDirectory.service.ts` 1300-1420, `services/communities/scheduler.ts`) | announcement rows | draft, approve, reject, publish when due, fan out | notification delivery, members | one fan-out each, to every member that stays and keeps its place; silence before approval; what is due goes out |
| Communities (`services/communityDirectory.service.ts`, `services/yaysCommunity*.service.ts`) | members, invites, requests, polls | join, leave, ban, roles, invites, decisions | chat groups, notifications | a ban holds and silences; a limit of uses holds; a decision is final |
| Mining withdrawals (`services/miningStationEarnings.service.ts`, `services/miningWithdrawRequest.service.ts`) | balances, requests | submit, pay out, approve, reject | user wallets | what is decided was moved; balances are what the rows say |
| Nugget transfers and shop credits (`services/nuggetTransfer.service.ts`, `services/shoperpalBtcyCredit.service.ts`) | balances, transfer and credit rows, ad events | transfer, watch an ad, credit | mining balance, wallets, shop | an idempotency key moves once; ads pay for one transfer |
| Payment transaction lock | lock rows | claim, release | orders, payments | one holder; not modelled, see section 6 |
| P2P (`platform/p2p.operations.ts`, `services/p2pCron.service.ts`) | offers, trades, escrow | take, pay, release, cancel, dispute, expire | wallets, e-mail | availability and escrow add up |
| Mining, chat, orders, wallets, subscriptions, KYC/KYB, e-mail, AI, analytics, airdrops, shop, market feed | rows of their own | mostly CRUD or calls to other services | outside services | not modelled, see section 6 |

The hard behaviour is in all rows but the last: state read before an await and
used after it, check-then-insert and check-then-update, process-local timers
next to shared rows, retries of what may already be done, and death between two
writes. `PROJECT.json` lists each such place at its line, with the property that
covers it or the reason none does.

## 2. Modules

### `YaysCall` (and the abstract `CallLifecycle`)

`calls` is the collection, `timers` each worker's `ringTimers`, `told` the
outcomes emitted as `call:ended`, `incoming` the rings delivered, `overdue` the
calls older than `RING_TIMEOUT_SECONDS`, and `tasks` the handlers in flight. A
task's `pc` names its next await:

| Code | Actions |
|---|---|
| `call:invite`, `place()` | `Invite`, `BusyCheck`, `DanglingCheck` (then `SettleRead`, `SettleWrite`), `Create`, `Ring` |
| `call:accept`, `accept()` | `Accept`, `AcceptWrite`, `Finish` |
| `call:decline`, `call:hangup`, `call:failed`, REST `endCall` | `End`, `PartyCheck`, `SettleRead`, `SettleWrite`, `Finish` |
| `disconnect` | `Disconnect`, `DisconnectRead`, `SettleRead`, `SettleWrite`, `Finish` |
| ring timer, `markMissed()` | `RingTimeout` (time), `TimerFires`, `SettleRead`, `SettleWrite`, `Finish` |
| `runStaleCallSweep`, `expireStaleRings()` | `SweepStart`, `SweepFind`, `SweepNext`, `SettleRead`, `SettleWrite`, `Finish` |
| a worker dies, a database call fails | `Crash`, `DbFails` |

Abstractions: `endReason` is left out because the code writes one reason per
outcome; the duration is reduced to whether it was measured from `connectedAt`;
where `findOne` may return any of several live calls, the model chooses any. An
answer is modelled only for a call whose ring has been delivered. The relay of
offers, answers and candidates changes no state.

`CallLifecycle` is what `data/yaysCalls.ts` promises of one row: it is inserted
once, ringing; only a ringing call is answered; a live call gets one outcome, and
"ended" only if it connected. `YaysCall` implements it under the mapping from a
row to its `status` and `connected`.

### `YaysPoints` (and the abstract `PointsBook`)

One member (accounts share nothing) with several requests in flight. `account`
is the rollup row, `ledger` the amount of the row under each idempotency key,
`attributed` whether the referral row exists, `day` the UTC day.

| Code | Actions |
|---|---|
| `summary()`, `withRolledOverDay()` | `Summary`, `Read`, `Roll` |
| `checkIn()` | `CheckIn`, `Read`/`Roll`, `ClaimDay` or `Refuse`, then credit |
| `credit()` | `ByKey`, `Read`/`Roll`, `RecordNothing` or `Inc` then `Record`, `Undo` |
| `claim()` of an activity whose target is met | `Claim`, then credit |
| `attribute()` | `Attribute`, `AttributeWrite`, then credit without the cap |
| midnight UTC; a failed insert; a request that dies | `Midnight`, `RecordFails`, `Dies` |

`Roll` models what the code really returns: a spread of a Mongoose document, in which
only the two fields written out exist. `Unread` is that `undefined`. The creation of the
account is left out, and so are negative credits, which no caller makes. An `$inc`
carries the day it was built on (a request's `on`), which need not be the day it lands
on. History: `resets` of each day's earnings, and `late`, the additions that took the
account's date back. `RecordFails` is an insert that left no row; an insert that left
one and reported an error is not modelled (see the hazards).

`PointsBook` is `credit()` as its callers see it: a payment is one step that writes
the key's one row and adds to the balance what the row says, and only a request that
dies may leave the member more than was written. `YaysPoints` implements it with
`rows` as its ledger and `balance` as the account's balance less the additions
whose rows are still on their way.

### `NotificationDelivery`

A process is one call of `deliver()` in some worker. `inbox` is the outcome in
the row of each user and dedupe key, `preferences` the switches that
`suppressionFor` reads, `phones` the active devices, `deliveries` where each
process is and what it has read.

| Code | Actions |
|---|---|
| `deliver()` of a message, of a ringing call | `SendChat`, `RingCallee` (both `Deliver`) |
| its awaits | `DuplicateCheck`, `ReadPreferences`, `Record` or `LoseRecord`, `ReadDevices`, `Send`, `Disable`, `UpdateOutcome` |
| a database call throws | `DeliverThrows` |
| preferences, mutes, tokens | `SetPreferences`, `Register`, `Unregister` |

`Record` and `LoseRecord` are the two sides of the unique index
`(userLower, dedupeKey)`: the loser gets the winner's row back and goes on. What
a transport answers (taken, refused, token gone) is any of the three. History:
`pushed` counts what reached each phone, a delivery's `muted` says that its
conversation was muted since before it began.

### `Announcements` (and the abstract `Broadcast`)

Extends `NotificationDelivery`: a process is now one request, and while its
fan-out tells a member it is in a call of `deliver()`, whose steps are those of
the other module. `status` and `waits` are the announcement rows, `roster` the
active members in the order `listActive()` pages over, `fan` where each request is.

| Code | Actions |
|---|---|
| `publishAnnouncement`, `initialStatus` | `publishAnnouncement` |
| `approveAnnouncement`, `rejectAnnouncement` | `ReadPending`, then `Approve` or `Reject` |
| `publishDue` (each minute and on each read) | `Sweep`, `markPublished` |
| the paged fan-out | `Page`, `TellMember`, `InDelivery`, `setDelivered` |
| the members and the clock meanwhile | `Leave`, `Join`, `ChangeSettings`, `TimePasses` |
| a worker dies | `Die` |

`Join` covers what `join()` does to an active member too (an approval after an
accepted invite, or two accepts at once): `joinedAt` is set again, and the row moves
in the order that the pages follow. `recent` are the members whose `joinedAt` such a
call has set; among them the rows may come in any order, since each date is taken
before its write. History: `stayed` are the members since before the fan-out,
`shifts` counts the rows that left their place during it.

`Broadcast` is what the authors and the readers see: an announcement is published
once, from a state that may be; publishing puts it on the air; it is told, to its
audience, while it is on the air and never after. `Announcements` implements it
with `onAir` as the announcements that some request is fanning out and `told` as
the rows of the inbox.

### `Membership`

One community: `members`, `invites` and `requests` are its rows, `chat` and
`blocked` its chat group, `calls` the request each process is in. `pc` names the
next await and the action of that name models it; an operation is a path.

| Code | Actions |
|---|---|
| `join` | `Join`, `Viewer`, then `Enter`, `Admit`, `ChatAdd`, or `Find`, `Create` |
| `decideJoinRequest` | `Decide`, `Viewer`, `ReadRequest`, `DecideRequest`, then as a join |
| `createInvite`, `revokeInvite`, `acceptInvite` | `MintInvite`, `Mint`; `RevokeInvite`, `ReadInvite`, `Revoke`; `AcceptInvite`, `ReadInvite`, `Invitee`, `Consume`, then as a join |
| `leave` | `Leave`, `ReadMembership`, `WriteStatus`, `ChatRemove` |
| `removeMember` (and ban), `unban` | `RemoveMember`, `Viewer`, `ReadTarget`, `WriteStatus`, `ChatRemove`, `Block`; `Unban`, `Viewer`, `WriteStatus`, `Unblock` |
| `setRole` | `SetRole`, `Viewer`, `ReadTarget`, `WriteRole` |
| a worker dies; a chat update is lost | `Die`, `ChatFails` |

`can`, `canActOnMember`, `canAssignRole` and `joinability` are the rules of
`services/communities/permissions.ts`. History: `admitted` and `invited` by each
invite, `crossed` users whose ban and unban overlapped, a request's `banned` that
its target was banned ever since it began.

### `SchedulerLease`

`lease` is the key of the election, `attempts` and `timers` each worker's
election calls and retries, `crons` how often it has registered the jobs; `keys`
are the locks of `scheduleExactlyOnce`, `jobs` its SETs on the way. Time is
abstract: a lease nobody renews may expire at any time, and one that a live
leader renews may too (a pause longer than the lease), which is called a lapse
and counted.

| Code | Actions |
|---|---|
| `electLeader`, its retry, the `connect` handler | `Elect`, `LoseAnswer`, `Retry`, `Reconnect` |
| the TTL of the lease | `LeaseExpires`, `LeaseLapses` |
| `release()` on a signal | `ReleaseRead`, `ReleaseDelete`, `Exit` |
| processes | `Crash`, `Start` |
| `scheduleExactlyOnce` | `NextSlot`, `Fire`, `RunJob`, `KeyExpires` |

### `NuggetMoney`

The five balances of each user, the rows of `transfers`, `requests` (withdrawals)
and `credits` in the order they were made, the `ads` watched and not yet
consumed, and the handlers in `tasks`. A transfer's transaction is one action;
every other database call is one of its own.

| Code | Actions |
|---|---|
| `submitTransfer` | `Transfer`, `TransferLookup`, `TransferAds`, `TransferCommit` |
| `logTransferAdWatch`, the ads' age | `WatchAd`, `AdsExpire` |
| `submitStationWithdrawal`, `requestAdRevenueWithdrawal` | `Withdraw`, `WithdrawCheck`, `WithdrawDeduct`, `WithdrawCreate`, `WithdrawPay` or `WithdrawPush` |
| `processWithdrawal`, `rejectWithdrawal` | `Decide`, `DecideFind`, `DecideMoney`, `DecideStatus` |
| `credit` of the shop | `Credit`, `CreditLookup`, `CreditWallet`, `CreditPay` or `CreditPush`, `CreditRow` |
| a request dies | `Dies` |

All amounts are the same one. A withdrawal's task carries the `request` it has made, so
that an instant payout and its row can be told together. The total mined, which mirrors
the transferable balance, the checks of the people and the e-mails are left out.
`requestWithdrawal()` and its rows ("mining_balance") have no caller and are left out
too. History: `watched`, how often a request was `paid` and `refunded`, and `upset`, the
named things that have happened and that the code does not guard against.

### The rest

The `MC...` modules hold the definitions the configurations give to the
constants, and the symmetry sets.

A definition named `X_slip` is a mistake the code could have made in `X`: it is
used by nothing here, and replacing `X` by it makes the run named in
`PROJECT.json` ("mutants") fail.

## 3. Runs

| Run | Configuration | Result |
|---|---|---|
| CallRaces | `MCCallRaces.cfg` | passes, about 1 million distinct states |
| CallRecovery | `MCCallRecovery.cfg` | passes, about 170 thousand |
| MissedAnswered | `MCMissedAnswered.cfg` | violates `MissedWasUnanswered` |
| RingMidCall | `MCRingMidCall.cfg` | violates `NoRingMidConversation` |
| Points | `MCPoints.cfg` | passes, about 4 million (over two minutes) |
| PointsRefused | `MCPointsRefused.cfg` | violates `RefusedHadCheckedIn` |
| Delivery | `MCDelivery.cfg` | passes (over a minute) |
| OnePush | `MCOnePush.cfg` | violates `OnePushPerRecipient` |
| Announcements | `MCAnnouncements.cfg` | passes, about 610 thousand (nearly three minutes) |
| Membership | `MCMembership.cfg` | passes, about 670 thousand |
| Scheduler | `MCScheduler.cfg` | passes, about 120 thousand |
| NuggetMoney | `MCNuggetMoney.cfg` | passes, about 525 thousand |

**CallRaces.** One call; three signed-in users, so that there is a stranger; two
workers, so that a timer may be on another worker than the answer; two tasks in
flight, each of any kind, sweeps included. Races between handlers over one row
are pairwise: every write is conditional on the row and nothing waits, so a
third concurrent task adds no new pair. Symmetry over tasks and workers is sound
here because every checked formula treats them alike. The invariants say that
the outcome told is the row's and is told once, that "ended" is a measured
conversation, that whoever ended a call is a party, that a call has one ring
timer in the whole cluster; `SettledIsFinal` and `ImplementsLifecycle` that no
settled row is written again and that rows follow the abstract lifecycle.

**CallRecovery.** A caller dials one callee and then another, so that settling
the dangling call takes part; one crash or failed database call, anywhere.
`RingResolves`: no call rings for ever. This run adds fairness (section 4).

**Points.** Two requests over one midnight, one activity of 30 points, check-in 20,
welcome 100, one death or failed insert. The real cap of 200 is out of reach of what
can be claimed in a day (90 points), so the instance lowers it to 40 to make the
trimming and the nothing-left branch happen. `LedgerIsTheBalance`: the rows and the
amounts in flight sum to the balance exactly while nothing has failed, and never to
more than it afterwards. `PromisesArePaid`: every day of a streak is consecutive and
is paid or about to be, and so is the welcome of an attributed member.
`ResetsAreBounded`: a day's earnings are reset once, and once more at most for each
`$inc` that was built before midnight and landed after a rollover. `ImplementsBook`:
seen through the mapping of section 2, every payment is one step of `PointsBook`.

**Delivery.** Two processes, so that two deliveries of one key race, or a message
and a call; two phones, so that one token may go and the other take the push; one
database error. Races are pairwise, over one row. `InboxIsTrue`: no phone lights up
for an event that the inbox does not know, and at rest the row's outcome is what
happened, whichever delivery wrote it. `MuteIsHeeded`: a conversation muted before
the delivery began, and still muted, stays dark.

**Announcements.** One announcement, three members on pages of two (so that a page
boundary is crossed), two workers, two moves of the members, one death. Each phone
lights up once at most whatever sweeps and approvals race; members missed are at
most as many as the rows that left their place during the fan-out, by a departure or
by a new `joinedAt`, and the count that the read rate divides by is no less than the
members told; nothing is told before it is published; `GoesOut`: what has come due
is published and told to the end if nothing dies. `InboxIsTrue` is checked again,
under the fan-outs, and `ImplementsBroadcast` that nothing else than `Broadcast`
allows is ever seen.

**Membership.** Three requests, two at a time, by an admin who is a platform admin
as well and by an outsider (never a member, or one who left), in a public, a private
or an invite-only community with one invite of one use and two ids for join
requests; one death or lost chat update. Three requests are what the interesting
cases take: a ban, an unban and a join. The properties say what survives every
interleaving: `InviteLimit`, `RevokedIsClosed`, `DecisionIsFinal`,
`ClosedMeansAsked`, `BanIsHeeded` and `BannedIsSilent`. Deadlock is not checked
because `MaxCalls` ends the behaviour.

**Scheduler.** Two workers, one slot, one crash, one reconnection, two lost
answers, one expiry of the slot's key, one lapse. `OneRunPerLock`: a slot runs
again only after its lock expired, whatever leads. `SingleScheduler`: while no
live leader lost its lease, one worker schedules and has registered the jobs
once. `SomebodySchedules`: a cluster without a scheduler gets one.

**NuggetMoney.** Three requests, two at a time, by a station owner and a member;
amounts of 2 with a fee of 1 on balances of 4, so that two withdrawals pass and a
third does not; one ad for a transfer; one death. `BooksBalance`: at rest each
balance is what the rows say, but for the races named in `upset`. `DecidedWasMoved`:
a rejected request was refunded and an approved one paid even when handlers die or
race; a BTCY request, which is written as approved before it is paid, may be about
to be, and stays unpaid if its request dies there. `KeyMovesOnce` and `AdsPayOnce`.
A second ad (`MaxAds = 2`) passes too and takes four times as long. Deadlock is not
checked because `MaxCalls` ends the behaviour.

### What the properties except

The exceptions are behaviours of the code that the runs do reach; `PROJECT.json` has
them among the hazards. Of most of them no document of the repository says what
should happen.
Where one does, the item quotes it:

* A join that read the member before a ban was written lifts the ban. A plain
  removal of a banned member lifts it as well (`setStatus` to "removed"), and a
  member who comes back keeps an old staff role.
* An approval that races with a rejection admits the person: the answer of the
  conditional `decide()` is not looked at (`communityDirectory.service.ts` 736).
* `unban()` sets "left" on any target without `canActOnMember`
  (`communityDirectory.service.ts` 918), the owner included. The comment at
  `permissions.ts` 135-136 says the contrary: "nobody can touch the owner". No
  property speaks of the owner's row, because it could hold only by excepting this.
* An `$inc` built before midnight that lands after the rollover takes
  `earnedTodayDate` back (`yaysPoints.service.ts` 273), and the new day is reset
  again. The comment at 195-196, "two concurrent readers cannot both reset a day's
  earnings", is true of readers: it takes a late `$inc` between them.
* `join()` gives an active member a new `joinedAt` (`yaysCommunityMember.service.ts`
  56) and with it a new place in the pages of a fan-out under way; as with a
  departure, the member that slips across the cursor is not told.
* A BTCY withdrawal is written as approved (`miningWithdrawRequest.service.ts` 161)
  before the wallet is credited (`miningStationEarnings.service.ts` 2542), and a death
  in between leaves it unpaid. The documents describe other books:
  `README-mining-station-walkthrough.md` 268 has the row start as "Pending", and its
  lines 278-281 and 320, as `README-mining-station-admin-api.md` 172-179, have the
  amount added to `migratedBalance` when an administrator approves. The code does
  neither, and `BooksBalance` states the code's books.
* Two decisions of one withdrawal pay twice, or pay and refund; a death between
  two of its writes loses the amount; two first wallets are both paid later.
* A shop credit that overlaps its own retry pays twice. Its filter names the
  symbol and the network apart (`shoperpalBtcyCredit.service.ts` 104), so the
  credit may land in the wallet of another network.
* Ads are counted outside the transaction that consumes them: two transfers may
  count the same ones.
* The unique index of `models/nuggetTransfer.ts` 36-39 is sparse and compound:
  since the sender is always there, it indexes rows without a key too, and a
  sender's second transfer without a key is refused (`Taken`).
* A leader whose lease lapses keeps its jobs next to the new leader's.

### What the four violating runs show

* **An answered call recorded as missed** (`MissedWasUnanswered`).
  `call:accept` clears the ring timer of its own process. If the call was placed
  on another worker, that timer goes off 45 seconds after the invite and
  `settle()`, which accepts any live status, closes the conversation as missed
  and tells both ends. `markMissed` is described as "Ring timeout expired with no
  answer". The sweep can do the same to a call answered after it was collected.
* **A ring in mid-conversation** (`NoRingMidConversation`). `place()` checks the
  callee and inserts the row several awaits later.
* **A check-in refused by mistake** (`RefusedHadCheckedIn`), with one request at
  a time and no fault. If the check-in is what rolls the day over, the rolled-over
  copy has no `lastCheckInDate`; the claim then filters on `null`, matches nobody
  who ever checked in, and the member is told "You already checked in today". A
  second attempt succeeds, as does a check-in after any other read of the account
  that day.
* **Two pushes of one message** (`OnePushPerRecipient`). A client that sends a
  message again gets the same `messageId`, hence the same dedupe key. If both
  deliveries pass the duplicate check, the loser of the unique index goes on with
  the winner's row (`notificationDelivery.service.ts` 185) and pushes too, against
  the comment at 276. Announcements are not exposed to it
  (`OnePushPerAnnouncement`), because an announcement has a single fan-out.

Two comments in the code are out of date and harmless:
`services/communities/scheduler.ts` 6-7 says the leader election is disabled, while
`index.ts` 1348-1351 starts it; `services/yaysReferral.service.ts` 138 says the cap
applies to the welcome bonus, while line 146 exempts it.

## 4. Fairness

Three specifications have fairness, and only for what the server does by itself.

`FairSpec` of `YaysCall`: time passes (`RingTimeout`), some live worker starts a
sweep again and again, and a sweep that has started takes its next step. Users
owe nothing, and neither do the handlers and timers: they may stop for ever. The
sweep is justified by `setupStaleCallSweepJob` (every minute),
`scheduleExactlyOnce` and the election: `SchedulerLease` shows that some worker
schedules again after whatever was lost. The run bounds crashes; infinitely many
of them could starve any sweep.

`Spec` of `Announcements`: each call returns or throws (weak fairness of every
process's `RequestStep`), and sweeps go on (strong fairness of `Sweep` by some
process, because a sweep needs a free process, and processes are free again and
again, not for ever): `services/communities/scheduler.ts` 26-49 sweeps in every
process each minute, and each read of the community does too
(`communityDirectory.service.ts` 502-504).

`Spec` of `SchedulerLease`: Redis answers (`Elect`), a timer goes off (`Retry`),
a signalled worker exits and the process manager starts it again (`Exit`,
`Start`), and a lease that nobody renews expires (`LeaseExpires`, its TTL).

## 5. Proofs

The eight proof modules hold for every value of the constants: any number of users,
calls, workers, handlers, sweeps, requests, activities, amounts, days and faults.

`YaysCall_proofs` proves `TypeCorrect`, `EndedCallsTalked`, `EndersAreParties`,
`OneOutcome`, `SettledStays`, `OneTimer` and `Refinement` (`Spec => Lifecycle!Spec`).
The properties are not inductive: what a row may become depends on what tasks carry from
earlier reads. `IInv` therefore speaks of all three together. `RowOK`: the columns of a
row agree. `TaskOK`: a task about to write holds an outcome that is *still* true of the
row; the crux is that "ended" was chosen from a status other than ringing, and a row
that is still live and was not ringing has connected and cannot lose that. `ToldOK`:
what was told is the row's outcome, and the tasks that are about to tell hold disjoint
sets of calls never told of. Lemmas describe one kind of step each (a task that moves,
starts, returns, writes a row, tells); every action is then one of those. `OneTimer` has
an invariant of its own (`TimersOK`): a timer that is set, the handler about to ring and
the handler it went off in are one thing in three places, and while the row does not
exist it is in none of them; that only the insert makes one is the unique index.

`YaysPoints_proofs` proves `TypeCorrect`, `PromisesKept`, `ResetsBounded`,
`LedgerSumsToTheBalance` and `BookRefinement` (`Spec => ImplementsBook`). The
invariant adds to the types that no account is rolled over to a day that has not
come, that a rollover in flight goes from an earlier day to a later one, that a
request carries a key exactly from its claim to its row, and (the crux,
`ClaimPaid`) that a check-in about to claim its day knows the streak it will
extend to be paid, whatever has happened to the account since it read it. That
holds because promises are never withdrawn: the only request that gives up a key
without writing the row is the one that found the row there. For `ResetsBounded` the
invariant (`ResetInv`) distinguishes days by the account's date: one it has reached was
reset at most once more than `late`, one still ahead of it at most `late` times.

The last two are about sums over the finite sets of keys and requests. That such a
sum changes by what one member of the set changed would be an induction over the
set, which needs an operator as a parameter; it is argued instead by a smallest
subset for which it fails, from the library's first-order facts about finite sets.
With that, the balance is the ledger, plus what is under way (`UnderWay`), plus a
`Surplus` that starts at zero, that no step but a death changes, and that a death
only adds to; each step moves both sides alike.

`NotificationDelivery_proofs` proves `DeliveriesTyped`, `InboxStaysTrue` and
`MutesAreHeeded`. `InboxIsTrue` speaks of rows at rest, so the invariant has to say
what holds on the way: a row is true, or some delivery that will still write its
outcome is on its way (`RowOK`), and a delivery that means to write "delivered"
has reached a phone (`KnowsOK`).

`Announcements_proofs` proves `TypeCorrect`, `InboxStaysTrueInFanOuts`, `OnePush`,
`SilentUntilPublished`, `MissesBounded` and `BroadcastRefinement`
(`Spec => ImplementsBroadcast`). Every step of the composition is a step of
`NotificationDelivery` or leaves it alone, so its invariant is carried over and
strengthened: an announcement has one fan-out (`FanOutIsSingle`, from the
conditional updates), a call of `deliver()` is about the announcement being fanned
out (`CallIsTheFanOuts`), and the phones it has not tried know nothing of it
(`Untold`). The last is what fails for chat messages.

`MissesBounded` has an invariant of its own (`MissInv`): whoever stayed and has no row
is still to come (on the rest of the page, beyond the cursor, or in a call that has not
written its row yet), but for one member for each row that left its place. The crux is
that a row that leaves moves at most one member across the cursor (`RemoveAfter`), that
one that comes takes nobody out of what is to come (`InsertAfter`), and that behind a
short page there is nobody. A `join()` of an active member is the one and then the other
(`RowsShift`). The refinement adds that a call of `deliver()` is always for a member of
the audience (`AudienceOnly`), and follows the two things that show: what is on the air
(`OnAirMoves`) and the rows (`DeliveryShows`).

`Membership_proofs` proves all seven properties of its run. A request in flight is
at an await of its operation (`OpOK`), about whom and what it began with
(`ArgsOK`), and what it has read is still true as far as it relies on it
(`KnowsOK`); of a user one request is pending; whoever is active in a closed
community was asked in. `InviteOK` counts: admissions and the requests between
`Consume` and `Admit` are together no more than the uses. `Silence` says that a
banned user is blocked, or a ban in flight has the block still to come.

`SchedulerLease_proofs` proves `TypeCorrect`, `JobsRunOnce` and `OneScheduler`: a slot
has run once for every expiry of its lock, and once more while the lock is held
(`RunsAreLocked`), and whoever schedules holds the lease unless one has lapsed
(`LeaseIsTheLeaders`).

`NuggetMoney_proofs` proves `BalancesTyped` (so that no balance but the ad revenue's
goes below zero), `RecordsAreTrue`, `KeysMoveOnce` and `AdsArePaid`. The crux of the
second is `DecisionsKnow`: a handler about to write a status has moved the money of that
request, and requests only grow. For a BTCY row it adds that its payer goes on paying
that row until it has or dies (`PayersGoOn`). The crux of the last, `AdsAreBacked`: ads
left and the ads of the transfers made are no more than were watched.

`NuggetBooks_proofs` proves `BooksAreKept`. `BooksBalance` speaks of the system at
rest, so `OpenBooks` says what the balances are at any moment: what the rows say,
corrected by the tasks that are between a movement of money and its row (deducted
and not yet on a row; restored or paid while the row still says Pending; credited
and not yet on a row; approved at once and not yet paid out). Each step moves a
balance and one of these counts alike (`BooksMove`), and at rest the counts of
tasks are zero. Two facts keep the counts right: what pends is to be paid from here
(`PendingIsPaidHere`), and a shop credit that found a wallet will find it
(`WalletStays`). Each exception that `BooksBalance` names is needed by one step of
the proof and by no other: the steps under "decided", "wallet", "credit",
"misplaced" and "death" are those that would break the count.

Assumptions, all evaluated by TLC in the runs: in `YaysCall` `DialsAssumption` (nobody
dials themselves: `signaling.ts` 89), `NullAssumption`, `EventsAssumption`,
`MaxFaultsAssumption`; in `YaysPoints` `ActivitiesAssumption`, `PointsAssumption`
(payments are positive), `FiniteAssumption` (finitely many requests and activities),
`BoundsAssumption`; in `NotificationDelivery` `PopulationAssumption`, `KeysAssumption`,
`FaultsAssumption`; in `Announcements` `AnnouncementsAssumption` (their keys are not
those of messages or calls), `AudienceAssumption` (finitely many users),
`PageAssumption`; in `Membership` `UsersAssumption`, `ProcessesAssumption` (finitely
many), `RolesAssumption`, `BoundsAssumption`; in `SchedulerLease` `BoundsAssumption`,
`NamesAssumption`; in `NuggetMoney` `MoneyAssumption` (amounts are positive, a fee is
less than them, and finitely many requests are in flight).

Only model-checked: `RingResolves`, `GoesOut` and `SomebodySchedules`. They are
liveness under fairness, which is beyond the prover. Every other property that a
passing run checks has a theorem.

## 6. Not modelled, and why

P2P (`platform/p2p.operations.ts`, `services/p2pCron.service.ts`) was read.
Its status writes are unconditional, its availability is written back from an
earlier read, and its escrow tests results that are never false; the hazards name
these places. Its documents promise nothing that a run could hold it to, so a
model would have no property that means anything. The payment transaction lock is
one upsert under a unique index: nothing interleaves inside it, and the order
flows that hold the lock are outside the models.

Orders, wallets, subscriptions, exchanges and chains are branches over outside
services and carry no protocol of their own that a small model would capture.
Community posts, polls, events and reports are single conditional updates of one
document. Users, KYC/KYB, shop, airdrops, whitelist, analytics and AI are requests
over single rows. E-mail and market data are I/O. Mining rewards are floating-point
arithmetic over reports. Chat stores and relays; what it pushes is notification
delivery's. ICE server configuration is a pure function of the environment.

Most of the source is of these kinds (the files under `platform/` and the
controllers above all), so the modules map to a small part of its lines.

Inside the modelled components: the creation of an account of points and
`qualify()`, which nothing calls; deliveries without a dedupe key; the member
count and the expiry of invites; a community's creation and removal; the total
mined. `PROJECT.json` says it component by component.

## 7. Plan

1. `CallLifecycle`, `YaysCall`, `YaysPoints` and their proofs: done.
2. `NotificationDelivery`: done, with its proofs.
3. `Announcements`, composed with 2: done, with its proofs.
4. `Membership`: done, with its proofs. An abstract status machine of one member
   was considered and dropped: the status writes of the code are unconditional, so
   it would allow nearly every step.
5. `NuggetMoney` (withdrawals, transfers, shop credits): done, with proofs of all
   its properties.
6. `SchedulerLease`: done, with its proofs.
7. P2P and the transaction lock: dropped, for the reasons in section 6.
8. `PointsBook` and `Broadcast`, the sums of the ledger and the misses of the
   pages: done, with proofs. What is left is liveness, which stays with TLC.
