----------------------------- MODULE NuggetMoney -----------------------------
(***************************************************************************)
(* The calls that move a user's Nuggets: transfers of a station owner      *)
(* (nuggetTransfer.service.ts), withdrawals of ad revenue and their        *)
(* approval or rejection (miningStationEarnings.service.ts 2464-2625,      *)
(* miningWithdrawRequest.service.ts 105-328) and the credits of the shop   *)
(* (shoperpalBtcyCredit.service.ts).                                       *)
(*                                                                         *)
(* A handler is a request in flight, in any process; each of its calls of  *)
(* the database is one step, and the transaction of a transfer is one      *)
(* step.  All amounts are the same one; a balance is what these calls made *)
(* of it.  The total mined moves with the transferable balance and is left *)
(* out, and so are the checks of the people involved, which may refuse.    *)
(* requestWithdrawal() and its rows ("mining_balance") have no caller.     *)
(***************************************************************************)
EXTENDS Integers, Sequences, FiniteSets

CONSTANTS
  Users,
  Owners,       \* the station owners, who may transfer
  Keys,         \* idempotency keys
  Handlers,
  Amount,       \* of every transfer, withdrawal and credit
  Fee,          \* of a withdrawal
  Start,        \* every balance at first
  RequiredAds,  \* ads to watch for a transfer
  MaxAds,       \* bounds on the ads watched, ...
  MaxCalls,     \* ... on the requests made ...
  MaxFaults     \* ... and on those that die

ASSUME MoneyAssumption ==
  /\ Owners \subseteq Users /\ IsFiniteSet(Handlers)
  /\ {Amount, RequiredAds} \subseteq Nat \ {0}
  /\ {Fee, Start, MaxAds, MaxCalls, MaxFaults} \subseteq Nat
  /\ Fee < Amount

VARIABLES
  transferable,  \* userMiningBalance: transferableBalance, ...
  adRevenue,     \* ... adRevenueTransferableBalance ...
  migrated,      \* ... and migratedBalance
  stellar,       \* the Stellar wallet of a user
  internal,      \* its wallets of INTERNAL_BTCY_NETWORK
  transfers, requests, credits,  \* the rows, in the order they were made
  ads,           \* ads watched for a kind of transfer that no transfer consumed
  tasks,
  watched,       \* history: all ads watched for it
  upset,         \* history: what happened that the code does not guard against
  calls, faults  \* requests made and died so far

balances == <<transferable, adRevenue, migrated, stellar, internal>>
rows == <<transfers, requests, credits>>
history == <<watched, upset, calls, faults>>
vars == <<balances, rows, ads, tasks, history>>

-----------------------------------------------------------------------------
NoKey == "none"
Idle == [op |-> "idle"]
Sources == {"mined", "withdrawn"}
Methods == {"USDT", "BTCY"}   \* USDC goes as USDT
Verdicts == {"Approved", "Rejected"}

\* createTransferAdKey(): who sends to whom from what (every amount is the same).
AdKeys == {a \in Owners \X Users \X Sources : a[1] # a[2]}
AdKey(t) == <<t.user, t.to, t.source>>

Transfers == [op : {"transfer"}, step : {"lookup", "ads", "commit"}, user : Owners,
              to : Users, source : Sources, key : Keys \cup {NoKey},
              client : {"mobile", "web"}]
Withdrawals == [op : {"withdraw"}, step : {"check", "deduct", "create", "pay", "push"},
                user : Users, method : Methods, request : Nat]   \* its row, once made
Decisions == [op : {"decide"}, step : {"find", "money", "status"},
              request : Nat \ {0}, verdict : Verdicts]
Credits == [op : {"credit"}, step : {"lookup", "wallet", "pay", "push", "row"},
            user : Users, key : Keys]

\* A request, with how often it was paid and refunded as history.
Requests == [user : Users, method : Methods, status : Verdicts \cup {"Pending"},
             paid : Nat, refunded : Nat]

MoneyTypeOK ==
  /\ {transferable, migrated, stellar} \subseteq [Users -> Nat]
  /\ adRevenue \in [Users -> Int]
  /\ internal \in [Users -> Seq(Nat)]
  /\ transfers \in Seq([user : Owners, to : Users, source : Sources,
                        key : Keys \cup {NoKey}, client : {"mobile", "web"}])
  /\ requests \in Seq(Requests)
  /\ credits \in Seq([user : Users, key : Keys])
  /\ ads \in [AdKeys -> Nat] /\ watched \in [AdKeys -> 0..MaxAds]
  /\ tasks \in [Handlers -> {Idle} \cup Transfers \cup Withdrawals \cup Decisions \cup Credits]
  /\ upset \subseteq {"decided", "wallet", "credit", "misplaced", "ads", "death"}
  /\ calls \in 0..MaxCalls /\ faults \in 0..MaxFaults

Init ==
  /\ transferable = [u \in Users |-> Start]
  /\ adRevenue = [u \in Users |-> Start]
  /\ stellar = [u \in Users |-> Start]
  /\ migrated = [u \in Users |-> 0]
  /\ internal = [u \in Users |-> <<>>]
  /\ transfers = <<>> /\ requests = <<>> /\ credits = <<>>
  /\ ads = [a \in AdKeys |-> 0] /\ watched = [a \in AdKeys |-> 0]
  /\ tasks = [h \in Handlers |-> Idle]
  /\ upset = {} /\ calls = 0 /\ faults = 0

Begin(h, t) ==
  /\ tasks[h] = Idle
  /\ calls < MaxCalls
  /\ calls' = calls + 1
  /\ tasks' = [tasks EXCEPT ![h] = t]
  /\ UNCHANGED <<balances, rows, ads, watched, upset, faults>>

At(h, op, step) == tasks[h].op = op /\ tasks[h].step = step
GoTo(h, step) == tasks' = [tasks EXCEPT ![h].step = step]
Return(h) == tasks' = [tasks EXCEPT ![h] = Idle]
Add(balance, u, n) == [balance EXCEPT ![u] = @ + n]
Upset(what, happened) == upset' = IF happened THEN upset \cup {what} ELSE upset

-----------------------------------------------------------------------------
(* submitTransfer() and logTransferAdWatch().                              *)

Transfer(h) ==
  \E u \in Owners, v \in Users, s \in Sources, k \in Keys \cup {NoKey},
     c \in {"mobile", "web"} :
    /\ u # v
    /\ Begin(h, [op |-> "transfer", step |-> "lookup", user |-> u, to |-> v,
                 source |-> s, key |-> k, client |-> c])

\* A transfer of u under k is in the way of another.  The unique index has a row
\* without key too, as the sender's name is in it.  (Slip: keys may come again.)
Taken_slip(u, k) == FALSE
Taken(u, k) == \E i \in DOMAIN transfers : transfers[i].user = u /\ transfers[i].key = k

\* A retry of what was done is answered with it.
TransferLookup(h) ==
  /\ At(h, "transfer", "lookup")
  /\ LET t == tasks[h] IN
     IF t.key # NoKey /\ Taken(t.user, t.key) THEN Return(h) ELSE GoTo(h, "ads")
  /\ UNCHANGED <<balances, rows, ads, history>>

\* The people are checked, and for a phone the ads it has watched.
TransferAds(h) ==
  /\ At(h, "transfer", "ads")
  /\ \/ /\ tasks[h].client = "mobile" => ads[AdKey(tasks[h])] >= RequiredAds
        /\ GoTo(h, "commit")
     \/ Return(h)
  /\ UNCHANGED <<balances, rows, ads, history>>

\* (Slip: the debit is not conditional.)
Covered_slip(u, source) == TRUE
Covered(u, source) ==
  (IF source = "mined" THEN transferable ELSE stellar)[u] >= Amount

\* The ads are consumed with the transfer they were for.  (Slip: they stay.)
AfterTransfer_slip(t) == ads
AfterTransfer(t) == IF t.client = "web" THEN ads ELSE [ads EXCEPT ![AdKey(t)] = 0]

TransferCommit(h) ==
  /\ At(h, "transfer", "commit")
  /\ Return(h)
  /\ LET t == tasks[h] IN
     IF Covered(t.user, t.source) /\ ~Taken(t.user, t.key)
     THEN /\ IF t.source = "mined"
             THEN /\ transferable' = Add(Add(transferable, t.user, -Amount), t.to, Amount)
                  /\ UNCHANGED stellar
             ELSE /\ stellar' = Add(stellar, t.user, -Amount)
                  /\ transferable' = Add(transferable, t.to, Amount)
          /\ transfers' = Append(transfers, [user |-> t.user, to |-> t.to, source |-> t.source,
                                             key |-> t.key, client |-> t.client])
          /\ ads' = AfterTransfer(t)
          /\ Upset("ads", t.client = "mobile" /\ ads[AdKey(t)] < RequiredAds)
     ELSE UNCHANGED <<transferable, stellar, transfers, ads, upset>>
  /\ UNCHANGED <<adRevenue, migrated, internal, requests, credits,
                 watched, calls, faults>>

WatchAd(a) ==
  /\ watched[a] < MaxAds
  /\ watched' = Add(watched, a, 1)
  /\ ads' = Add(ads, a, 1)
  /\ UNCHANGED <<balances, rows, tasks, upset, calls, faults>>

\* The ads are too old by now.
AdsExpire(a) ==
  /\ ads[a] > 0
  /\ ads' = [ads EXCEPT ![a] = 0]
  /\ UNCHANGED <<balances, rows, tasks, history>>

-----------------------------------------------------------------------------
(* submitStationWithdrawal() and requestAdRevenueWithdrawal().             *)

Withdraw(h) ==
  \E u \in Users, m \in Methods :
    Begin(h, [op |-> "withdraw", step |-> "check", user |-> u, method |-> m,
              request |-> 0])

WithdrawCheck(h) ==
  /\ At(h, "withdraw", "check")
  /\ IF adRevenue[tasks[h].user] < Amount THEN Return(h) ELSE GoTo(h, "deduct")
  /\ UNCHANGED <<balances, rows, ads, history>>

WithdrawDeduct(h) ==
  /\ At(h, "withdraw", "deduct")
  /\ adRevenue' = Add(adRevenue, tasks[h].user, -Amount)
  /\ GoTo(h, "create")
  /\ UNCHANGED <<transferable, migrated, stellar, internal, rows, ads, history>>

\* A payout to the wallet here is approved at once, before it is paid.
FirstStatus(method) == IF method = "BTCY" THEN "Approved" ELSE "Pending"

WithdrawCreate(h) ==
  /\ At(h, "withdraw", "create")
  /\ LET t == tasks[h] IN
     /\ requests' = Append(requests, [user |-> t.user, method |-> t.method,
                                      status |-> FirstStatus(t.method),
                                      paid |-> 0, refunded |-> 0])
     /\ IF t.method = "BTCY"
        THEN tasks' = [tasks EXCEPT ![h].step = "pay", ![h].request = Len(requests) + 1]
        ELSE Return(h)
  /\ UNCHANGED <<balances, transfers, credits, ads, history>>

Paid(r) == requests' = [requests EXCEPT ![r].paid = @ + 1]

\* creditInternalBtcyWallet() adds to every wallet that matches ...
WithdrawPay(h) ==
  /\ At(h, "withdraw", "pay")
  /\ LET u == tasks[h].user IN
     IF internal[u] = <<>>
     THEN GoTo(h, "push") /\ UNCHANGED <<internal, requests>>
     ELSE /\ internal' = [internal EXCEPT ![u] = [i \in DOMAIN @ |-> @[i] + Amount - Fee]]
          /\ Paid(tasks[h].request)
          /\ Return(h)
  /\ UNCHANGED <<transferable, adRevenue, migrated, stellar, transfers, credits, ads, history>>

\* ... or makes one, if there was none when it looked, as the shop does.
PushWallet(u, n) ==
  /\ internal' = [internal EXCEPT ![u] = Append(@, n)]
  /\ Upset("wallet", internal[u] # <<>>)

WithdrawPush(h) ==
  /\ At(h, "withdraw", "push")
  /\ PushWallet(tasks[h].user, Amount - Fee)
  /\ Paid(tasks[h].request)
  /\ Return(h)
  /\ UNCHANGED <<transferable, adRevenue, migrated, stellar, transfers, credits, ads,
                 watched, calls, faults>>

-----------------------------------------------------------------------------
(* processWithdrawal() and rejectWithdrawal().                             *)

Decide(h) ==
  \E r \in DOMAIN requests, v \in Verdicts :
    Begin(h, [op |-> "decide", step |-> "find", request |-> r, verdict |-> v])

\* A pending request was read: the money moves first.  (Slip: only the status does.)
FirstWrite_slip == "status"
FirstWrite == "money"

DecideFind(h) ==
  /\ At(h, "decide", "find")
  /\ IF requests[tasks[h].request].status = "Pending"
     THEN GoTo(h, FirstWrite) ELSE Return(h)
  /\ UNCHANGED <<balances, rows, ads, history>>

\* A rejection restores what was deducted.  (Slip: what would have been paid out.)
Restored_slip == Amount - Fee
Restored == Amount

DecideMoney(h) ==
  /\ At(h, "decide", "money")
  /\ LET r == tasks[h].request  u == requests[r].user IN
     IF tasks[h].verdict = "Approved"
     THEN /\ migrated' = Add(migrated, u, Amount)
          /\ Paid(r)
          /\ UNCHANGED adRevenue
     ELSE /\ adRevenue' = Add(adRevenue, u, Restored)
          /\ requests' = [requests EXCEPT ![r].refunded = @ + 1]
          /\ UNCHANGED migrated
  /\ GoTo(h, "status")
  /\ UNCHANGED <<transferable, stellar, internal, transfers, credits, ads, history>>

\* The status is set whatever it has become.
DecideStatus(h) ==
  /\ At(h, "decide", "status")
  /\ LET r == tasks[h].request IN
     /\ requests' = [requests EXCEPT ![r].status = tasks[h].verdict]
     /\ Upset("decided", requests[r].status # "Pending")
  /\ Return(h)
  /\ UNCHANGED <<balances, transfers, credits, ads, watched, calls, faults>>

-----------------------------------------------------------------------------
(* credit() of the shop.                                                   *)

Credit(h) ==
  \E u \in Users, k \in Keys :
    Begin(h, [op |-> "credit", step |-> "lookup", user |-> u, key |-> k])

Credited(k) == \E i \in DOMAIN credits : credits[i].key = k

CreditLookup(h) ==
  /\ At(h, "credit", "lookup")
  /\ IF Credited(tasks[h].key) THEN Return(h) ELSE GoTo(h, "wallet")
  /\ UNCHANGED <<balances, rows, ads, history>>

CreditWallet(h) ==
  /\ At(h, "credit", "wallet")
  /\ GoTo(h, IF internal[tasks[h].user] = <<>> THEN "push" ELSE "pay")
  /\ UNCHANGED <<balances, rows, ads, history>>

\* The filter names the symbol and the network apart, without $elemMatch, and the
\* positional $ is then the first wallet that has either: the one here, or Stellar's.
CreditPay(h) ==
  /\ At(h, "credit", "pay")
  /\ LET u == tasks[h].user IN
     \/ /\ internal' = [internal EXCEPT ![u][1] = @ + Amount]
        /\ UNCHANGED <<stellar, upset>>
     \/ /\ stellar' = Add(stellar, u, Amount)
        /\ Upset("misplaced", TRUE)
        /\ UNCHANGED internal
  /\ GoTo(h, "row")
  /\ UNCHANGED <<transferable, adRevenue, migrated, rows, ads,
                 watched, calls, faults>>

CreditPush(h) ==
  /\ At(h, "credit", "push")
  /\ PushWallet(tasks[h].user, Amount)
  /\ GoTo(h, "row")
  /\ UNCHANGED <<transferable, adRevenue, migrated, stellar, rows, ads,
                 watched, calls, faults>>

\* The row comes last, under a unique key.
CreditRow(h) ==
  /\ At(h, "credit", "row")
  /\ LET t == tasks[h] IN
     /\ credits' = IF Credited(t.key) THEN credits
                   ELSE Append(credits, [user |-> t.user, key |-> t.key])
     /\ Upset("credit", Credited(t.key))
  /\ Return(h)
  /\ UNCHANGED <<balances, transfers, requests, ads, watched, calls, faults>>

-----------------------------------------------------------------------------
\* The process dies, or a call of the database throws, with what is written written.
Dies(h) ==
  /\ tasks[h] # Idle
  /\ faults < MaxFaults
  /\ faults' = faults + 1
  /\ Upset("death", TRUE)
  /\ Return(h)
  /\ UNCHANGED <<balances, rows, ads, watched, calls>>

Next ==
  \/ \E h \in Handlers :
       \/ Transfer(h) \/ TransferLookup(h) \/ TransferAds(h) \/ TransferCommit(h)
       \/ Withdraw(h) \/ WithdrawCheck(h) \/ WithdrawDeduct(h) \/ WithdrawCreate(h)
       \/ WithdrawPay(h) \/ WithdrawPush(h)
       \/ Decide(h) \/ DecideFind(h) \/ DecideMoney(h) \/ DecideStatus(h)
       \/ Credit(h) \/ CreditLookup(h) \/ CreditWallet(h) \/ CreditPay(h)
       \/ CreditPush(h) \/ CreditRow(h)
       \/ Dies(h)
  \/ \E a \in AdKeys : WatchAd(a) \/ AdsExpire(a)

Spec == Init /\ [][Next]_vars

-----------------------------------------------------------------------------
(* Properties.                                                             *)

Transferred(u, s) ==
  Cardinality({i \in DOMAIN transfers : transfers[i].user = u /\ transfers[i].source = s})
Received(u) == Cardinality({i \in DOMAIN transfers : transfers[i].to = u})
ShopCredits(u) == Cardinality({i \in DOMAIN credits : credits[i].user = u})
Requested(u, methods, statuses) ==
  Cardinality({r \in DOMAIN requests : /\ requests[r].user = u
                                       /\ requests[r].method \in methods
                                       /\ requests[r].status \in statuses})

\* A user's balances are what the rows say: transfers sent and received, withdrawals
\* that pend or are approved, payouts and credits.
BooksOf(u) ==
  /\ transferable[u] = Start + Amount * (Received(u) - Transferred(u, "mined"))
  /\ stellar[u] = Start - Amount * Transferred(u, "withdrawn")
  /\ adRevenue[u] = Start - Amount * Requested(u, Methods, {"Pending", "Approved"})
  /\ migrated[u] = Amount * Requested(u, {"USDT"}, {"Approved"})
  /\ (IF internal[u] = <<>> THEN 0 ELSE internal[u][1])
       = Amount * ShopCredits(u) + (Amount - Fee) * Requested(u, {"BTCY"}, {"Approved"})

\* When nothing is in flight the books balance, whatever was interleaved, unless a
\* request died half done, a credit went to the wrong wallet, or one of the races the
\* code does not guard against was lost: two decisions of one request, two first
\* wallets of one user, two credits of one key (miningWithdrawRequest.service.ts:196,
\* shoperpalBtcyCredit.service.ts:54 and 104).  The books are the code's, not those of
\* README-mining-station-walkthrough.md:268-281 and 320: a BTCY withdrawal, which they
\* have pend and be added to migratedBalance, is approved at once and never added.
BooksBalance ==
  (upset \subseteq {"ads"} /\ \A h \in Handlers : tasks[h] = Idle)
    => \A u \in Users : BooksOf(u)

\* An instant payout of the request is on its way.
AboutToPay(r) ==
  \E h \in Handlers : /\ At(h, "withdraw", "pay") \/ At(h, "withdraw", "push")
                      /\ tasks[h].request = r

\* A decision is recorded after the money it is about has moved, whoever dies or
\* decides at the same time: a withdrawal recorded as rejected was refunded and one
\* recorded as approved was paid (miningWithdrawRequest.service.ts:223 and 291 come
\* last).  The BTCY row is the other way round, written as approved (161) before
\* creditInternalBtcyWallet() pays it (miningStationEarnings.service.ts:2542): it is
\* paid, or is about to be, or something died.
DecidedWasMoved ==
  \A r \in DOMAIN requests :
    /\ requests[r].status = "Rejected" => requests[r].refunded > 0
    /\ requests[r].status = "Approved" =>
         \/ requests[r].paid > 0
         \/ requests[r].method = "BTCY" /\ (AboutToPay(r) \/ "death" \in upset)

\* A key moves Nuggets once, however often and on however many devices its transfer
\* is sent (models/nuggetTransfer.ts:36-39).
KeyMovesOnce ==
  \A i, j \in DOMAIN transfers :
    (transfers[i].user = transfers[j].user /\ transfers[i].key = transfers[j].key
       /\ transfers[i].key # NoKey) => i = j

\* Every transfer from a phone was paid for with ads of its own, unless two of them
\* counted the same ads (nuggetTransfer.service.ts:152, outside the transaction).
AdsPayOnce ==
  "ads" \notin upset =>
    \A a \in AdKeys :
      RequiredAds * Cardinality({i \in DOMAIN transfers : /\ AdKey(transfers[i]) = a
                                                          /\ transfers[i].client = "mobile"})
        <= watched[a]
=============================================================================
