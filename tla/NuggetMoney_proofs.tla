------------------------- MODULE NuggetMoney_proofs -------------------------
(***************************************************************************)
(* Theorems about NuggetMoney, for any number of requests in flight, users,*)
(* keys, amounts, ads and faults.                                          *)
(***************************************************************************)
EXTENDS NuggetMoney, FiniteSetTheorems, SequenceTheorems, TLAPS

USE MoneyAssumption

-----------------------------------------------------------------------------
(* The tasks of the handlers.                                              *)

AllTasks == {Idle} \cup Transfers \cup Withdrawals \cup Decisions \cup Credits

LEMMA TaskKinds ==
  ASSUME MoneyTypeOK, NEW h \in Handlers
  PROVE  /\ tasks[h] \in AllTasks
         /\ tasks[h].op = "transfer" => tasks[h] \in Transfers
         /\ tasks[h].op = "withdraw" => tasks[h] \in Withdrawals
         /\ tasks[h].op = "decide" => tasks[h] \in Decisions
         /\ tasks[h].op = "credit" => tasks[h] \in Credits
<1>1. tasks[h] \in AllTasks
  BY DEF MoneyTypeOK, AllTasks
<1>2. /\ \A t \in {Idle} : t.op = "idle"
      /\ \A t \in Transfers : t.op = "transfer"
      /\ \A t \in Withdrawals : t.op = "withdraw"
      /\ \A t \in Decisions : t.op = "decide"
      /\ \A t \in Credits : t.op = "credit"
  BY DEF Idle, Transfers, Withdrawals, Decisions, Credits
<1>3. tasks[h] \in {Idle} \cup Transfers \cup Withdrawals \cup Decisions \cup Credits
  BY <1>1, Zenon DEF AllTasks
<1>. QED BY <1>1, <1>2, <1>3

LEMMA TasksTyped ==
  ASSUME MoneyTypeOK, NEW h \in Handlers, NEW t \in AllTasks, tasks' = [tasks EXCEPT ![h] = t]
  PROVE  tasks' \in [Handlers -> AllTasks]
  BY DEF MoneyTypeOK, AllTasks

LEMMA IdleIsATask == Idle \in AllTasks
  BY DEF AllTasks

LEMMA ReturnTyped ==
  ASSUME MoneyTypeOK, NEW h \in Handlers, Return(h)
  PROVE  tasks' \in [Handlers -> AllTasks]
  BY TasksTyped, IdleIsATask DEF Return

\* A task goes on, as the task it is.
LEMMA GoToTyped ==
  ASSUME MoneyTypeOK, NEW h \in Handlers, NEW step, GoTo(h, step),
         \/ tasks[h] \in Transfers /\ step \in {"ads", "commit"}
         \/ tasks[h] \in Withdrawals /\ step \in {"deduct", "create", "pay", "push"}
         \/ tasks[h] \in Decisions /\ step \in {"money", "status"}
         \/ tasks[h] \in Credits /\ step \in {"wallet", "pay", "push", "row"}
  PROVE  tasks' \in [Handlers -> AllTasks]
<1>1. PICK t : t = [tasks[h] EXCEPT !.step = step]
  OBVIOUS
<1>2. tasks' = [tasks EXCEPT ![h] = t]
  BY <1>1 DEF GoTo
<1>3. CASE tasks[h] \in Transfers /\ step \in {"ads", "commit"}
  <2>1. t \in Transfers
    BY <1>1, <1>3 DEF Transfers
  <2>. QED BY <1>2, <2>1, TasksTyped DEF AllTasks
<1>4. CASE tasks[h] \in Withdrawals /\ step \in {"deduct", "create", "pay", "push"}
  <2>1. t \in Withdrawals
    BY <1>1, <1>4 DEF Withdrawals
  <2>. QED BY <1>2, <2>1, TasksTyped DEF AllTasks
<1>5. CASE tasks[h] \in Decisions /\ step \in {"money", "status"}
  <2>1. t \in Decisions
    BY <1>1, <1>5 DEF Decisions
  <2>. QED BY <1>2, <2>1, TasksTyped DEF AllTasks
<1>6. CASE tasks[h] \in Credits /\ step \in {"wallet", "pay", "push", "row"}
  <2>1. t \in Credits
    BY <1>1, <1>6 DEF Credits
  <2>. QED BY <1>2, <2>1, TasksTyped DEF AllTasks
<1>. QED BY <1>3, <1>4, <1>5, <1>6

-----------------------------------------------------------------------------
(* Type correctness.                                                       *)

LEMMA AddTyped ==
  ASSUME NEW balance \in [Users -> Int], NEW u \in Users, NEW n \in Int
  PROVE  /\ Add(balance, u, n) \in [Users -> Int]
         /\ balance \in [Users -> Nat] /\ balance[u] + n \in Nat => Add(balance, u, n) \in [Users -> Nat]
  BY DEF Add

\* All of the type invariant but the tasks.
MoneyTyped ==
  /\ transferable \in [Users -> Nat] /\ migrated \in [Users -> Nat] /\ stellar \in [Users -> Nat]
  /\ adRevenue \in [Users -> Int]
  /\ internal \in [Users -> Seq(Nat)]
  /\ transfers \in Seq([user : Owners, to : Users, source : Sources,
                        key : Keys \cup {NoKey}, client : {"mobile", "web"}])
  /\ requests \in Seq(Requests)
  /\ credits \in Seq([user : Users, key : Keys])
  /\ ads \in [AdKeys -> Nat] /\ watched \in [AdKeys -> 0..MaxAds]
  /\ upset \subseteq {"decided", "wallet", "credit", "misplaced", "ads", "death"}
  /\ calls \in 0..MaxCalls /\ faults \in 0..MaxFaults

LEMMA TypeSplits == MoneyTypeOK <=> MoneyTyped /\ tasks \in [Handlers -> AllTasks]
  BY DEF MoneyTypeOK, MoneyTyped, AllTasks

LEMMA TypeJoins ==
  ASSUME MoneyTyped', tasks' \in [Handlers -> AllTasks]
  PROVE  MoneyTypeOK'
  BY DEF MoneyTypeOK, MoneyTyped, AllTasks

LEMMA InitMoneyTyped == Init => MoneyTypeOK
<1>. SUFFICES ASSUME Init PROVE MoneyTypeOK
  OBVIOUS
<1>1. tasks \in [Handlers -> AllTasks]
  BY IdleIsATask DEF Init
<1>2. MoneyTyped
  BY EmptySeq DEF Init, MoneyTyped
<1>. QED BY <1>1, <1>2, TypeSplits

\* A request begins.
LEMMA BeginTyped ==
  ASSUME MoneyTypeOK, NEW h \in Handlers, NEW t \in AllTasks, Begin(h, t)
  PROVE  MoneyTypeOK'
<1>1. tasks' \in [Handlers -> AllTasks]
  BY TasksTyped DEF Begin
<1>2. /\ UNCHANGED <<transferable, adRevenue, migrated, stellar, internal, transfers, requests,
                     credits, ads, watched, upset, faults>>
      /\ calls < MaxCalls /\ calls' = calls + 1
  BY DEF Begin, balances, rows
<1>3. MoneyTyped
  BY TypeSplits
<1>4. calls' \in 0..MaxCalls
  BY <1>2, <1>3 DEF MoneyTyped
<1>5. MoneyTyped'
  BY <1>2, <1>3, <1>4 DEF MoneyTyped
<1>. QED BY <1>1, <1>5, TypeJoins

LEMMA BeginningsTyped ==
  ASSUME MoneyTypeOK, NEW h \in Handlers, Transfer(h) \/ Withdraw(h) \/ Decide(h) \/ Credit(h)
  PROVE  MoneyTypeOK'
<1>1. CASE Transfer(h)
  <2>1. PICK u \in Owners, v \in Users, s \in Sources, k \in Keys \cup {NoKey},
             c \in {"mobile", "web"} : Transfer(h)!(u, v, s, k, c)
    BY <1>1, Zenon DEF Transfer
  <2>2. [op |-> "transfer", step |-> "lookup", user |-> u, to |-> v,
         source |-> s, key |-> k, client |-> c] \in Transfers
    BY DEF Transfers
  <2>. QED BY <2>1, <2>2, BeginTyped DEF AllTasks
<1>2. CASE Withdraw(h)
  <2>1. PICK u \in Users, m \in Methods : Withdraw(h)!(u, m)
    BY <1>2 DEF Withdraw
  <2>2. [op |-> "withdraw", step |-> "check", user |-> u, method |-> m, request |-> 0]
         \in Withdrawals
    BY DEF Withdrawals
  <2>. QED BY <2>1, <2>2, BeginTyped DEF AllTasks
<1>3. CASE Decide(h)
  <2>1. PICK r \in DOMAIN requests, v \in Verdicts : Decide(h)!(r, v)
    BY <1>3 DEF Decide
  <2>2. r \in Nat \ {0}
    BY LenProperties DEF MoneyTypeOK
  <2>3. [op |-> "decide", step |-> "find", request |-> r, verdict |-> v] \in Decisions
    BY <2>2 DEF Decisions
  <2>. QED BY <2>1, <2>3, BeginTyped DEF AllTasks
<1>4. CASE Credit(h)
  <2>1. PICK u \in Users, k \in Keys : Credit(h)!(u, k)
    BY <1>4 DEF Credit
  <2>2. [op |-> "credit", step |-> "lookup", user |-> u, key |-> k] \in Credits
    BY DEF Credits
  <2>. QED BY <2>1, <2>2, BeginTyped DEF AllTasks
<1>. QED BY <1>1, <1>2, <1>3, <1>4

\* A step that changes only the task.
LEMMA QuietTyped ==
  ASSUME MoneyTypeOK, tasks' \in [Handlers -> AllTasks], UNCHANGED <<balances, rows, ads, history>>
  PROVE  MoneyTypeOK'
<1>1. UNCHANGED <<transferable, adRevenue, migrated, stellar, internal, transfers, requests,
                  credits, ads, watched, upset, calls, faults>>
  BY DEF balances, rows, history
<1>2. MoneyTyped
  BY TypeSplits
<1>3. MoneyTyped'
  BY <1>1, <1>2 DEF MoneyTyped
<1>. QED BY <1>3, TypeJoins

LEMMA ChecksTyped ==
  ASSUME MoneyTypeOK, NEW h \in Handlers,
         \/ TransferLookup(h) \/ TransferAds(h) \/ WithdrawCheck(h) \/ DecideFind(h)
         \/ CreditLookup(h) \/ CreditWallet(h)
  PROVE  MoneyTypeOK'
<1>1. UNCHANGED <<balances, rows, ads, history>>
  BY DEF TransferLookup, TransferAds, WithdrawCheck, DecideFind, CreditLookup, CreditWallet
<1>2. \/ Return(h)
      \/ tasks[h].op = "transfer" /\ (GoTo(h, "ads") \/ GoTo(h, "commit"))
      \/ tasks[h].op = "withdraw" /\ GoTo(h, "deduct")
      \/ tasks[h].op = "decide" /\ GoTo(h, "money")
      \/ tasks[h].op = "credit" /\ (GoTo(h, "wallet") \/ GoTo(h, "push") \/ GoTo(h, "pay"))
  BY DEF TransferLookup, TransferAds, WithdrawCheck, DecideFind, CreditLookup, CreditWallet,
         At, FirstWrite
<1>3. tasks' \in [Handlers -> AllTasks]
  <2>1. CASE Return(h)
    BY <2>1, ReturnTyped
  <2>2. CASE tasks[h].op = "transfer" /\ (GoTo(h, "ads") \/ GoTo(h, "commit"))
    BY <2>2, TaskKinds, GoToTyped
  <2>3. CASE tasks[h].op = "withdraw" /\ GoTo(h, "deduct")
    BY <2>3, TaskKinds, GoToTyped
  <2>4. CASE tasks[h].op = "decide" /\ GoTo(h, "money")
    BY <2>4, TaskKinds, GoToTyped
  <2>5. CASE tasks[h].op = "credit" /\ (GoTo(h, "wallet") \/ GoTo(h, "push") \/ GoTo(h, "pay"))
    BY <2>5, TaskKinds, GoToTyped
  <2>. QED BY <1>2, <2>1, <2>2, <2>3, <2>4, <2>5
<1>. QED BY <1>1, <1>3, QuietTyped

\* Who is in a transfer that is to be committed.
LEMMA TransferFields ==
  ASSUME NEW t \in Transfers
  PROVE  /\ t.user \in Owners /\ t.user \in Users /\ t.to \in Users /\ t.source \in Sources
         /\ t.key \in Keys \cup {NoKey} /\ t.client \in {"mobile", "web"}
  BY DEF Transfers

RowOf(t) == [user |-> t.user, to |-> t.to, source |-> t.source, key |-> t.key, client |-> t.client]

\* A commit makes the transfer, or nothing but an end of the task.
LEMMA CommitMakes ==
  ASSUME NEW h \in Handlers, TransferCommit(h), NEW t, t = tasks[h]
  PROVE  \/ /\ Covered(t.user, t.source) /\ ~Taken(t.user, t.key)
            /\ \/ /\ t.source = "mined"
                  /\ transferable' = Add(Add(transferable, t.user, -Amount), t.to, Amount)
                  /\ UNCHANGED stellar
               \/ /\ t.source # "mined"
                  /\ stellar' = Add(stellar, t.user, -Amount)
                  /\ transferable' = Add(transferable, t.to, Amount)
            /\ transfers' = Append(transfers, RowOf(t))
            /\ ads' = AfterTransfer(t)
            /\ Upset("ads", t.client = "mobile" /\ ads[AdKey(t)] < RequiredAds)
         \/ UNCHANGED <<transferable, stellar, transfers, ads, upset>>
  BY Zenon DEF TransferCommit, RowOf

LEMMA CommitTyped ==
  ASSUME MoneyTypeOK, NEW h \in Handlers, TransferCommit(h)
  PROVE  MoneyTypeOK'
<1>1. PICK t : t = tasks[h]
  OBVIOUS
<1>2. t \in Transfers
  BY <1>1, TaskKinds DEF TransferCommit, At
<1>3. MoneyTyped
  BY TypeSplits
<1>4. /\ Return(h)
      /\ UNCHANGED <<adRevenue, migrated, internal, requests, credits, watched, calls, faults>>
  BY DEF TransferCommit
<1>5. CASE UNCHANGED <<transferable, stellar, transfers, ads, upset>>
  <2>1. MoneyTyped'
    BY <1>3, <1>4, <1>5 DEF MoneyTyped
  <2>. QED BY <1>4, <2>1, ReturnTyped, TypeJoins
<1>6. CASE /\ Covered(t.user, t.source)
           /\ \/ /\ t.source = "mined"
                 /\ transferable' = Add(Add(transferable, t.user, -Amount), t.to, Amount)
                 /\ UNCHANGED stellar
              \/ /\ t.source # "mined"
                 /\ stellar' = Add(stellar, t.user, -Amount)
                 /\ transferable' = Add(transferable, t.to, Amount)
           /\ transfers' = Append(transfers, RowOf(t))
           /\ ads' = AfterTransfer(t)
           /\ Upset("ads", t.client = "mobile" /\ ads[AdKey(t)] < RequiredAds)
  <2>1. t.user \in Users /\ t.to \in Users
    BY <1>2, TransferFields
  <2>2. /\ transferable \in [Users -> Nat] /\ stellar \in [Users -> Nat]
        /\ t.source = "mined" => transferable[t.user] >= Amount
        /\ t.source # "mined" => stellar[t.user] >= Amount
    BY <1>3, <1>6 DEF MoneyTyped, Covered
  <2>3. transferable' \in [Users -> Nat] /\ stellar' \in [Users -> Nat]
    <3>1. Amount \in Nat
      OBVIOUS
    <3>2. CASE t.source = "mined"
      <4>1. PICK b : b = [transferable EXCEPT ![t.user] = @ + (-Amount)]
        OBVIOUS
      <4>2. b \in [Users -> Nat]
        BY <2>1, <2>2, <3>1, <3>2, <4>1
      <4>3. transferable' = [b EXCEPT ![t.to] = @ + Amount] /\ UNCHANGED stellar
        BY <1>6, <3>2, <4>1 DEF Add
      <4>. QED BY <2>1, <2>2, <3>1, <4>2, <4>3
    <3>3. CASE t.source # "mined"
      <4>1. /\ stellar' = [stellar EXCEPT ![t.user] = @ + (-Amount)]
            /\ transferable' = [transferable EXCEPT ![t.to] = @ + Amount]
        BY <1>6, <3>3 DEF Add
      <4>. QED BY <2>1, <2>2, <3>1, <3>3, <4>1
    <3>. QED BY <3>2, <3>3
  <2>4. RowOf(t) \in [user : Owners, to : Users, source : Sources,
                      key : Keys \cup {NoKey}, client : {"mobile", "web"}]
    BY <1>2, TransferFields DEF RowOf
  <2>5. transfers' \in Seq([user : Owners, to : Users, source : Sources,
                            key : Keys \cup {NoKey}, client : {"mobile", "web"}])
    BY <1>3, <1>6, <2>4, AppendProperties DEF MoneyTyped
  <2>6. ads' \in [AdKeys -> Nat]
    BY <1>3, <1>6 DEF MoneyTyped, AfterTransfer
  <2>7. upset' \subseteq {"decided", "wallet", "credit", "misplaced", "ads", "death"}
    BY <1>3, <1>6 DEF MoneyTyped, Upset
  <2>8. MoneyTyped'
    BY <1>3, <1>4, <2>3, <2>5, <2>6, <2>7 DEF MoneyTyped
  <2>. QED BY <1>4, <2>8, ReturnTyped, TypeJoins
<1>. QED BY <1>1, <1>5, <1>6, CommitMakes

LEMMA AdsTyped ==
  ASSUME MoneyTypeOK, NEW a \in AdKeys, WatchAd(a) \/ AdsExpire(a)
  PROVE  MoneyTypeOK'
<1>1. MoneyTyped
  BY TypeSplits
<1>2. /\ UNCHANGED <<transferable, adRevenue, migrated, stellar, internal, transfers, requests,
                     credits, tasks, upset, calls, faults>>
      /\ \/ /\ watched[a] < MaxAds
            /\ watched' = [watched EXCEPT ![a] = @ + 1] /\ ads' = [ads EXCEPT ![a] = @ + 1]
         \/ UNCHANGED watched /\ ads' = [ads EXCEPT ![a] = 0]
  BY DEF WatchAd, AdsExpire, balances, rows, history, Add
<1>3. ads' \in [AdKeys -> Nat] /\ watched' \in [AdKeys -> 0..MaxAds]
  <2>1. ads \in [AdKeys -> Nat] /\ watched \in [AdKeys -> 0..MaxAds] /\ MaxAds \in Nat
    BY <1>1 DEF MoneyTyped
  <2>2. ads[a] + 1 \in Nat /\ (watched[a] < MaxAds => watched[a] + 1 \in 0..MaxAds)
    BY <2>1
  <2>. HIDE DEF AdKeys
  <2>. QED BY <1>2, <2>1, <2>2
<1>4. MoneyTyped'
  BY <1>1, <1>2, <1>3 DEF MoneyTyped
<1>5. tasks' \in [Handlers -> AllTasks]
  BY <1>2, TypeSplits
<1>. QED BY <1>4, <1>5, TypeJoins

LEMMA WithdrawalFields ==
  ASSUME MoneyTypeOK, NEW h \in Handlers, tasks[h].op = "withdraw"
  PROVE  /\ tasks[h] \in Withdrawals /\ tasks[h].user \in Users /\ tasks[h].method \in Methods
  BY TaskKinds DEF Withdrawals

\* Pushing a wallet.
LEMMA PushTyped ==
  ASSUME MoneyTyped, NEW u \in Users, NEW n \in Nat, PushWallet(u, n)
  PROVE  /\ internal' \in [Users -> Seq(Nat)]
         /\ upset' \subseteq {"decided", "wallet", "credit", "misplaced", "ads", "death"}
<1>1. internal[u] \in Seq(Nat)
  BY DEF MoneyTyped
<1>2. Append(internal[u], n) \in Seq(Nat)
  BY <1>1, AppendProperties
<1>. QED BY <1>2 DEF PushWallet, Upset, MoneyTyped

LEMMA NewRequestTyped ==
  ASSUME NEW u \in Users, NEW m \in Methods
  PROVE  [user |-> u, method |-> m, status |-> FirstStatus(m), paid |-> 0, refunded |-> 0]
           \in Requests
  BY DEF Requests, FirstStatus, Verdicts

\* What the withdrawal of a task has in hand when its row is made.
LEMMA CreatesTask ==
  ASSUME MoneyTypeOK, NEW h \in Handlers, WithdrawCreate(h)
  PROVE  \/ tasks[h].method # "BTCY" /\ Return(h)
         \/ /\ tasks[h].method = "BTCY"
            /\ \E t \in Withdrawals : /\ tasks' = [tasks EXCEPT ![h] = t]
                                     /\ t.op = "withdraw" /\ t.step = "pay"
                                     /\ t.user = tasks[h].user
                                     /\ t.request = Len(requests) + 1
<1>1. PICK n : n = Len(requests) + 1
  OBVIOUS
<1>2. n \in Nat
  BY <1>1, LenProperties DEF MoneyTypeOK
<1>3. PICK t : t = [tasks[h] EXCEPT !.step = "pay", !.request = n]
  OBVIOUS
<1>4. tasks[h] \in Withdrawals
  BY WithdrawalFields DEF WithdrawCreate, At
<1>5. /\ t \in Withdrawals /\ t.op = "withdraw" /\ t.step = "pay" /\ t.request = n
      /\ t.user = tasks[h].user
  BY <1>2, <1>3, <1>4 DEF Withdrawals
<1>6. \/ tasks[h].method # "BTCY" /\ Return(h)
      \/ /\ tasks[h].method = "BTCY"
         /\ tasks' = [tasks EXCEPT ![h].step = "pay", ![h].request = n]
  BY <1>1, Zenon DEF WithdrawCreate
<1>7. [tasks EXCEPT ![h].step = "pay", ![h].request = n] = [tasks EXCEPT ![h] = t]
  BY <1>3 DEF MoneyTypeOK
<1>. QED BY <1>1, <1>5, <1>6, <1>7

LEMMA PaidTyped ==
  ASSUME requests \in Seq(Requests), NEW r, Paid(r)
  PROVE  /\ requests' \in Seq(Requests) /\ DOMAIN requests' = DOMAIN requests
         /\ \A q \in DOMAIN requests : q # r => requests'[q] = requests[q]
         /\ r \in DOMAIN requests =>
              /\ requests'[r].user = requests[r].user /\ requests'[r].method = requests[r].method
              /\ requests'[r].status = requests[r].status
              /\ requests'[r].refunded = requests[r].refunded
              /\ requests'[r].paid = requests[r].paid + 1
<1>1. CASE r \notin DOMAIN requests
  <2>1. DOMAIN requests = 1..Len(requests) /\ requests = [q \in DOMAIN requests |-> requests[q]]
    BY LenProperties
  <2>2. PICK row : requests' = [requests EXCEPT ![r] = row]
    BY DEF Paid
  <2>3. [requests EXCEPT ![r] = row] = requests
    BY <1>1, <2>1, Zenon
  <2>. QED BY <1>1, <2>2, <2>3
<1>2. CASE r \in DOMAIN requests
  <2>1. r \in 1..Len(requests) /\ requests[r] \in Requests
    BY <1>2, LenProperties, ElementOfSeq
  <2>2. PICK row : row = [requests[r] EXCEPT !.paid = @ + 1]
    OBVIOUS
  <2>3. PICK n : n = requests[r].paid + 1
    OBVIOUS
  <2>4. n \in Nat
    BY <2>1, <2>3 DEF Requests
  <2>5. /\ row \in Requests /\ row.user = requests[r].user /\ row.method = requests[r].method
        /\ row.status = requests[r].status /\ row.refunded = requests[r].refunded
        /\ row.paid = n
    BY <2>1, <2>2, <2>3, <2>4 DEF Requests
  <2>6. requests' = [requests EXCEPT ![r] = row]
    BY <2>2 DEF Paid
  <2>7. requests' \in Seq(Requests)
    BY <2>1, <2>5, <2>6, ExceptSeq
  <2>. QED BY <1>2, <2>1, <2>3, <2>5, <2>6, <2>7
<1>. QED BY <1>1, <1>2

LEMMA WithdrawTyped ==
  ASSUME MoneyTypeOK, NEW h \in Handlers,
         WithdrawDeduct(h) \/ WithdrawCreate(h) \/ WithdrawPay(h) \/ WithdrawPush(h)
  PROVE  MoneyTypeOK'
<1>1. MoneyTyped
  BY TypeSplits
<1>2. /\ tasks[h] \in Withdrawals /\ tasks[h].user \in Users /\ tasks[h].method \in Methods
  BY WithdrawalFields DEF WithdrawDeduct, WithdrawCreate, WithdrawPay, WithdrawPush, At
<1>3. Amount \in Nat /\ Amount - Fee \in Nat
  OBVIOUS
<1>4. CASE WithdrawDeduct(h)
  <2>1. /\ adRevenue' = Add(adRevenue, tasks[h].user, -Amount) /\ GoTo(h, "create")
        /\ UNCHANGED <<transferable, migrated, stellar, internal, transfers, requests, credits,
                       ads, watched, upset, calls, faults>>
    BY <1>4 DEF WithdrawDeduct, rows, history
  <2>2. adRevenue' \in [Users -> Int]
    <3>1. adRevenue \in [Users -> Int] /\ -Amount \in Int
      BY <1>1, <1>3 DEF MoneyTyped
    <3>. QED BY <1>2, <2>1, <3>1, AddTyped
  <2>3. MoneyTyped'
    BY <1>1, <2>1, <2>2 DEF MoneyTyped
  <2>. QED BY <1>2, <2>1, <2>3, GoToTyped, TypeJoins
<1>5. CASE WithdrawCreate(h)
  <2>1. /\ requests' = Append(requests, [user |-> tasks[h].user, method |-> tasks[h].method,
                                         status |-> FirstStatus(tasks[h].method),
                                         paid |-> 0, refunded |-> 0])
        /\ UNCHANGED <<transferable, adRevenue, migrated, stellar, internal, transfers, credits,
                       ads, watched, upset, calls, faults>>
    BY <1>5 DEF WithdrawCreate, balances, history
  <2>2. requests' \in Seq(Requests)
    BY <1>1, <1>2, <2>1, NewRequestTyped, AppendProperties DEF MoneyTyped
  <2>3. MoneyTyped'
    BY <1>1, <2>1, <2>2 DEF MoneyTyped
  <2>4. tasks' \in [Handlers -> AllTasks]
    BY <1>5, CreatesTask, TasksTyped, ReturnTyped DEF AllTasks
  <2>. QED BY <2>3, <2>4, TypeJoins
<1>6. CASE WithdrawPay(h)
  <2>0. PICK u : u = tasks[h].user
    OBVIOUS
  <2>1. /\ \/ GoTo(h, "push") /\ UNCHANGED <<internal, requests>>
           \/ /\ internal' = [internal EXCEPT ![u] = [i \in DOMAIN @ |-> @[i] + Amount - Fee]]
              /\ Paid(tasks[h].request) /\ Return(h)
        /\ UNCHANGED <<transferable, adRevenue, migrated, stellar, transfers, credits,
                       ads, watched, upset, calls, faults>>
    BY <1>6, <2>0 DEF WithdrawPay, history
  <2>2. internal[u] \in Seq(Nat) /\ u \in Users /\ internal \in [Users -> Seq(Nat)]
    BY <1>1, <1>2, <2>0 DEF MoneyTyped
  <2>3. [i \in DOMAIN internal[u] |-> internal[u][i] + Amount - Fee] \in Seq(Nat)
    <3>1. DOMAIN internal[u] = 1..Len(internal[u]) /\ Len(internal[u]) \in Nat
      BY <2>2, LenProperties
    <3>2. \A i \in 1..Len(internal[u]) : internal[u][i] \in Nat
      BY <2>2, ElementOfSeq
    <3>3. \A i \in 1..Len(internal[u]) : internal[u][i] + Amount - Fee \in Nat
      BY SMTT(20), <3>2
    <3>. QED BY <3>1, <3>3
  <2>4. internal' \in [Users -> Seq(Nat)]
    BY <2>1, <2>2, <2>3
  <2>7. requests' \in Seq(Requests)
    BY <1>1, <2>1, PaidTyped DEF MoneyTyped
  <2>5. MoneyTyped'
    BY <1>1, <2>1, <2>4, <2>7 DEF MoneyTyped
  <2>6. tasks' \in [Handlers -> AllTasks]
    BY <1>2, <2>1, GoToTyped, ReturnTyped
  <2>. QED BY <2>5, <2>6, TypeJoins
<1>7. CASE WithdrawPush(h)
  <2>1. /\ PushWallet(tasks[h].user, Amount - Fee) /\ Return(h) /\ Paid(tasks[h].request)
        /\ UNCHANGED <<transferable, adRevenue, migrated, stellar, transfers, credits,
                       ads, watched, calls, faults>>
    BY <1>7 DEF WithdrawPush
  <2>2. /\ internal' \in [Users -> Seq(Nat)]
        /\ upset' \subseteq {"decided", "wallet", "credit", "misplaced", "ads", "death"}
    BY <1>1, <1>2, <1>3, <2>1, PushTyped
  <2>4. requests' \in Seq(Requests)
    BY <1>1, <2>1, PaidTyped DEF MoneyTyped
  <2>3. MoneyTyped'
    BY <1>1, <2>1, <2>2, <2>4 DEF MoneyTyped
  <2>. QED BY <2>1, <2>3, ReturnTyped, TypeJoins
<1>. QED BY <1>4, <1>5, <1>6, <1>7

LEMMA CreditFields ==
  ASSUME MoneyTypeOK, NEW h \in Handlers, tasks[h].op = "credit"
  PROVE  tasks[h] \in Credits /\ tasks[h].user \in Users /\ tasks[h].key \in Keys
  BY TaskKinds DEF Credits

LEMMA CreditTyped ==
  ASSUME MoneyTypeOK, NEW h \in Handlers, CreditPay(h) \/ CreditPush(h) \/ CreditRow(h)
  PROVE  MoneyTypeOK'
<1>1. MoneyTyped
  BY TypeSplits
<1>2. tasks[h] \in Credits /\ tasks[h].user \in Users /\ tasks[h].key \in Keys
  BY CreditFields DEF CreditPay, CreditPush, CreditRow, At
<1>0. PICK u : u = tasks[h].user
  OBVIOUS
<1>3. Amount \in Nat
  OBVIOUS
<1>4. CASE CreditPay(h)
  <2>1. /\ \/ internal' = [internal EXCEPT ![u][1] = @ + Amount] /\ UNCHANGED <<stellar, upset>>
           \/ stellar' = Add(stellar, u, Amount) /\ Upset("misplaced", TRUE) /\ UNCHANGED internal
        /\ GoTo(h, "row")
        /\ UNCHANGED <<transferable, adRevenue, migrated, transfers, requests, credits,
                       ads, watched, calls, faults>>
    BY <1>0, <1>4 DEF CreditPay, rows
  <2>2. internal \in [Users -> Seq(Nat)] /\ internal[u] \in Seq(Nat) /\ stellar \in [Users -> Nat]
    BY <1>0, <1>1, <1>2 DEF MoneyTyped
  <2>3. [internal[u] EXCEPT ![1] = @ + Amount] \in Seq(Nat)
    <3>1. DOMAIN internal[u] = 1..Len(internal[u]) /\ Len(internal[u]) \in Nat
      BY <2>2, LenProperties
    <3>2. CASE 1 \in 1..Len(internal[u])
      <4>1. internal[u][1] + Amount \in Nat
        BY <1>3, <2>2, <3>2, ElementOfSeq
      <4>. QED BY <2>2, <3>2, <4>1, ExceptSeq
    <3>3. CASE 1 \notin 1..Len(internal[u])
      <4>1. [internal[u] EXCEPT ![1] = @ + Amount] = internal[u]
        BY <3>1, <3>3, <2>2
      <4>. QED BY <2>2, <4>1
    <3>. QED BY <3>2, <3>3
  <2>4. internal' \in [Users -> Seq(Nat)]
    BY <1>0, <1>2, <2>1, <2>2, <2>3
  <2>5. stellar' \in [Users -> Nat]
    <3>1. stellar[u] + Amount \in Nat
      BY <1>0, <1>2, <1>3, <2>2
    <3>2. [stellar EXCEPT ![u] = stellar[u] + Amount] \in [Users -> Nat]
      BY <2>2, <3>1
    <3>3. Add(stellar, u, Amount) \in [Users -> Nat]
      BY <3>2, Zenon DEF Add
    <3>. QED BY <2>1, <2>2, <3>3
  <2>6. upset' \subseteq {"decided", "wallet", "credit", "misplaced", "ads", "death"}
    BY <1>1, <2>1 DEF Upset, MoneyTyped
  <2>7. MoneyTyped'
    BY <1>1, <2>1, <2>4, <2>5, <2>6 DEF MoneyTyped
  <2>. QED BY <1>2, <2>1, <2>7, GoToTyped, TypeJoins
<1>5. CASE CreditPush(h)
  <2>1. /\ PushWallet(tasks[h].user, Amount) /\ GoTo(h, "row")
        /\ UNCHANGED <<transferable, adRevenue, migrated, stellar, transfers, requests, credits,
                       ads, watched, calls, faults>>
    BY <1>5 DEF CreditPush, rows
  <2>2. /\ internal' \in [Users -> Seq(Nat)]
        /\ upset' \subseteq {"decided", "wallet", "credit", "misplaced", "ads", "death"}
    BY <1>1, <1>2, <1>3, <2>1, PushTyped
  <2>3. MoneyTyped'
    BY <1>1, <2>1, <2>2 DEF MoneyTyped
  <2>. QED BY <1>2, <2>1, <2>3, GoToTyped, TypeJoins
<1>6. CASE CreditRow(h)
  <2>0. PICK row : row = [user |-> tasks[h].user, key |-> tasks[h].key]
    OBVIOUS
  <2>1. /\ credits' = credits \/ credits' = Append(credits, row)
        /\ Upset("credit", Credited(tasks[h].key)) /\ Return(h)
        /\ UNCHANGED <<transferable, adRevenue, migrated, stellar, internal, transfers, requests,
                       ads, watched, calls, faults>>
    BY <1>6, <2>0 DEF CreditRow, balances
  <2>2. row \in [user : Users, key : Keys]
    BY <1>2, <2>0
  <2>3. credits' \in Seq([user : Users, key : Keys])
    <3>1. credits \in Seq([user : Users, key : Keys])
      BY <1>1 DEF MoneyTyped
    <3>2. Append(credits, row) \in Seq([user : Users, key : Keys])
      BY <2>2, <3>1, AppendProperties
    <3>. QED BY <2>1, <3>1, <3>2
  <2>4. upset' \subseteq {"decided", "wallet", "credit", "misplaced", "ads", "death"}
    BY <1>1, <2>1 DEF Upset, MoneyTyped
  <2>5. MoneyTyped'
    BY <1>1, <2>1, <2>3, <2>4 DEF MoneyTyped
  <2>. QED BY <2>1, <2>5, ReturnTyped, TypeJoins
<1>. QED BY <1>4, <1>5, <1>6

LEMMA DiesTyped ==
  ASSUME MoneyTypeOK, NEW h \in Handlers, Dies(h)
  PROVE  MoneyTypeOK'
<1>1. MoneyTyped
  BY TypeSplits
<1>2. /\ faults < MaxFaults /\ faults' = faults + 1 /\ Upset("death", TRUE) /\ Return(h)
      /\ UNCHANGED <<transferable, adRevenue, migrated, stellar, internal, transfers, requests,
                     credits, ads, watched, calls>>
  BY DEF Dies, balances, rows
<1>3. /\ faults' \in 0..MaxFaults
      /\ upset' \subseteq {"decided", "wallet", "credit", "misplaced", "ads", "death"}
  BY <1>1, <1>2 DEF MoneyTyped, Upset
<1>4. MoneyTyped'
  BY <1>1, <1>2, <1>3 DEF MoneyTyped
<1>. QED BY <1>2, <1>4, ReturnTyped, TypeJoins

-----------------------------------------------------------------------------
(* Decisions.  Who is to write a status has moved the money already.       *)

Moved(r, verdict) ==
  /\ verdict = "Approved" => requests[r].paid > 0
  /\ verdict = "Rejected" => requests[r].refunded > 0

\* What the status of a row says was done.
RowIsTrue(r) == Moved(r, requests[r].status)

Knows(t) ==
  t.op = "decide" => /\ t.request \in DOMAIN requests
                     /\ t.step = "status" => Moved(t.request, t.verdict)

DecisionsKnow == \A h \in Handlers : Knows(tasks[h])

\* What was paid or refunded stays so.
RequestsGrow ==
  /\ requests' \in Seq(Requests) /\ DOMAIN requests \subseteq DOMAIN requests'
  /\ \A r \in DOMAIN requests : /\ requests'[r].method = requests[r].method
                                /\ requests'[r].paid >= requests[r].paid
                                /\ requests'[r].refunded >= requests[r].refunded

LEMMA RequestFields ==
  ASSUME MoneyTypeOK, NEW r \in DOMAIN requests
  PROVE  /\ requests[r] \in Requests /\ r \in 1..Len(requests)
         /\ requests[r].user \in Users /\ requests[r].method \in Methods
         /\ requests[r].paid \in Nat /\ requests[r].refunded \in Nat
         /\ requests[r].status \in Verdicts \cup {"Pending"}
<1>1. requests \in Seq(Requests)
  BY DEF MoneyTypeOK
<1>2. r \in 1..Len(requests)
  BY <1>1, LenProperties
<1>3. requests[r] \in Requests
  BY <1>1, <1>2, ElementOfSeq
<1>. QED BY <1>2, <1>3 DEF Requests

LEMMA MovedStays ==
  ASSUME MoneyTypeOK, RequestsGrow, NEW r \in DOMAIN requests, NEW v, Moved(r, v)
  PROVE  Moved(r, v)'
<1>1. requests'[r] \in Requests
  <2>1. r \in DOMAIN requests' /\ requests' \in Seq(Requests)
    BY DEF RequestsGrow
  <2>2. r \in 1..Len(requests')
    BY <2>1, LenProperties
  <2>. QED BY <2>1, <2>2, ElementOfSeq
<1>2. requests'[r].paid \in Nat /\ requests'[r].refunded \in Nat
  BY <1>1 DEF Requests
<1>3. requests[r].paid \in Nat /\ requests[r].refunded \in Nat
  BY RequestFields
<1>4. requests'[r].paid >= requests[r].paid /\ requests'[r].refunded >= requests[r].refunded
  BY DEF RequestsGrow
<1>5. /\ requests[r].paid > 0 => requests'[r].paid > 0
      /\ requests[r].refunded > 0 => requests'[r].refunded > 0
  BY <1>2, <1>3, <1>4
<1>. QED BY <1>5 DEF Moved

LEMMA KnowsStays ==
  ASSUME MoneyTypeOK, RequestsGrow, NEW t, Knows(t)
  PROVE  Knows(t)'
<1>1. CASE t.op # "decide"
  BY <1>1 DEF Knows
<1>2. CASE t.op = "decide"
  <2>1. t.request \in DOMAIN requests /\ t.request \in DOMAIN requests'
    BY <1>2 DEF Knows, RequestsGrow
  <2>. QED BY <1>2, <2>1, MovedStays DEF Knows
<1>. QED BY <1>1, <1>2

LEMMA TaskKnows ==
  ASSUME MoneyTypeOK, DecisionsKnow, RequestsGrow, NEW h \in Handlers, NEW t,
         tasks' = [tasks EXCEPT ![h] = t], Knows(t)'
  PROVE  DecisionsKnow'
<1>1. ASSUME NEW g \in Handlers PROVE Knows(tasks[g])'
  <2>1. CASE g = h
    <3>1. tasks'[g] = t
      BY <2>1 DEF MoneyTypeOK
    <3>. QED BY <3>1 DEF Knows, Moved
  <2>2. CASE g # h
    <3>1. PICK e : e = tasks[g]
      OBVIOUS
    <3>2. tasks'[g] = e /\ Knows(e)
      BY <2>2, <3>1 DEF MoneyTypeOK, DecisionsKnow
    <3>3. Knows(e)'
      BY <3>2, KnowsStays
    <3>. QED BY <3>2, <3>3 DEF Knows, Moved
  <2>. QED BY <2>1, <2>2
<1>. QED BY <1>1 DEF DecisionsKnow

LEMMA NothingChanges ==
  ASSUME MoneyTypeOK, UNCHANGED requests
  PROVE  RequestsGrow
<1>1. \A r \in DOMAIN requests : requests[r].paid \in Nat /\ requests[r].refunded \in Nat
  BY RequestFields
<1>2. \A r \in DOMAIN requests : /\ requests[r].paid >= requests[r].paid
                                 /\ requests[r].refunded >= requests[r].refunded
  BY <1>1
<1>3. requests \in Seq(Requests) /\ requests' = requests
  BY DEF MoneyTypeOK
<1>. QED BY <1>2, <1>3 DEF RequestsGrow

LEMMA ReturnKnows ==
  ASSUME MoneyTypeOK, DecisionsKnow, RequestsGrow, NEW h \in Handlers, Return(h)
  PROVE  DecisionsKnow'
<1>1. Knows(Idle)'
  BY DEF Knows, Idle
<1>. QED BY <1>1, TaskKnows DEF Return

\* A task that decides nothing goes on.
LEMMA GoToKnows ==
  ASSUME MoneyTypeOK, DecisionsKnow, RequestsGrow, NEW h \in Handlers, NEW step,
         GoTo(h, step), tasks[h].op \in {"transfer", "withdraw", "credit"}
  PROVE  DecisionsKnow'
<1>1. PICK t : t = [tasks[h] EXCEPT !.step = step]
  OBVIOUS
<1>2. t.op = tasks[h].op
  BY <1>1, TaskKinds DEF Transfers, Withdrawals, Credits
<1>3. Knows(t)'
  BY <1>2 DEF Knows
<1>. QED BY <1>1, <1>3, TaskKnows DEF GoTo

LEMMA DecisionFields ==
  ASSUME MoneyTypeOK, DecisionsKnow, NEW h \in Handlers, tasks[h].op = "decide"
  PROVE  /\ tasks[h] \in Decisions /\ tasks[h].verdict \in Verdicts
         /\ tasks[h].request \in DOMAIN requests
         /\ tasks[h].step = "status" => Moved(tasks[h].request, tasks[h].verdict)
<1>1. tasks[h] \in Decisions /\ tasks[h].verdict \in Verdicts
  BY TaskKinds DEF Decisions
<1>. QED BY <1>1 DEF DecisionsKnow, Knows

\* A decision goes on: to its money at will, to the status once the money moved.
LEMMA DecisionGoesOn ==
  ASSUME MoneyTypeOK, DecisionsKnow, RequestsGrow, NEW h \in Handlers, NEW step,
         NEW r, NEW v, r = tasks[h].request, v = tasks[h].verdict,
         GoTo(h, step), tasks[h].op = "decide", step = "status" => Moved(r, v)'
  PROVE  DecisionsKnow'
<1>1. PICK t : t = [tasks[h] EXCEPT !.step = step]
  OBVIOUS
<1>2. t.op = "decide" /\ t.request = r /\ t.verdict = v /\ t.step = step
  BY <1>1, TaskKinds DEF Decisions
<1>3. r \in DOMAIN requests'
  BY DecisionFields DEF RequestsGrow
<1>4. Knows(t)'
  BY <1>2, <1>3 DEF Knows
<1>. QED BY <1>1, <1>4, TaskKnows DEF GoTo

\* One field of one row changes.
LEMMA RowTyped ==
  ASSUME MoneyTypeOK, NEW r \in DOMAIN requests, NEW row \in Requests,
         requests' = [requests EXCEPT ![r] = row],
         row.method = requests[r].method, row.paid >= requests[r].paid,
         row.refunded >= requests[r].refunded
  PROVE  RequestsGrow
<1>1. requests \in Seq(Requests) /\ r \in 1..Len(requests)
  BY RequestFields DEF MoneyTypeOK
<1>2. requests' \in Seq(Requests)
  BY <1>1, ExceptSeq
<1>3. DOMAIN requests' = DOMAIN requests
  BY <1>1
<1>4. ASSUME NEW q \in DOMAIN requests
      PROVE  /\ requests'[q].method = requests[q].method
             /\ requests'[q].paid >= requests[q].paid
             /\ requests'[q].refunded >= requests[q].refunded
  <2>1. CASE q = r
    BY <2>1
  <2>2. CASE q # r
    <3>1. requests'[q] = requests[q]
      BY <2>2
    <3>2. requests[q].paid \in Nat /\ requests[q].refunded \in Nat
      BY RequestFields
    <3>3. requests[q].paid >= requests[q].paid /\ requests[q].refunded >= requests[q].refunded
      BY <3>2
    <3>. QED BY <3>1, <3>3
  <2>. QED BY <2>1, <2>2
<1>. QED BY <1>2, <1>3, <1>4 DEF RequestsGrow

\* A decision moves the money, and the row says so.
LEMMA MoneyMoves ==
  ASSUME MoneyTypeOK, DecisionsKnow, NEW h \in Handlers, DecideMoney(h)
  PROVE  /\ MoneyTypeOK' /\ RequestsGrow /\ DecisionsKnow'
         /\ \A q \in DOMAIN requests' : q \in DOMAIN requests /\ requests'[q].status = requests[q].status
<1>0. PICK r, v, u : r = tasks[h].request /\ v = tasks[h].verdict /\ u = requests[r].user
  OBVIOUS
<1>1. tasks[h].op = "decide" /\ tasks[h] \in Decisions /\ v \in Verdicts /\ r \in DOMAIN requests
  BY <1>0, DecisionFields DEF DecideMoney, At
<1>2. /\ requests[r] \in Requests /\ r \in 1..Len(requests) /\ u \in Users
      /\ requests[r].paid \in Nat /\ requests[r].refunded \in Nat
  BY <1>0, <1>1, RequestFields
<1>3. PICK row : row = IF v = "Approved" THEN [requests[r] EXCEPT !.paid = @ + 1]
                                         ELSE [requests[r] EXCEPT !.refunded = @ + 1]
  OBVIOUS
<1>4. requests[r].paid + 1 \in Nat /\ requests[r].refunded + 1 \in Nat
  BY SMTT(20), <1>2
<1>5. /\ row \in Requests /\ row.method = requests[r].method /\ row.status = requests[r].status
      /\ row.paid >= requests[r].paid /\ row.refunded >= requests[r].refunded
      /\ v = "Approved" => row.paid > 0
      /\ v = "Rejected" => row.refunded > 0
  <2>1. CASE v = "Approved"
    <3>1. PICK n \in Nat : n = requests[r].paid + 1
      BY <1>4
    <3>2. row = [requests[r] EXCEPT !.paid = n]
      BY <1>3, <2>1, <3>1
    <3>3. /\ row \in Requests /\ row.method = requests[r].method /\ row.status = requests[r].status
          /\ row.paid = n /\ row.refunded = requests[r].refunded
      BY <1>2, <3>2 DEF Requests
    <3>. QED BY SMTT(20), <1>2, <2>1, <3>1, <3>3
  <2>2. CASE v # "Approved"
    <3>1. PICK n \in Nat : n = requests[r].refunded + 1
      BY <1>4
    <3>2. row = [requests[r] EXCEPT !.refunded = n]
      BY <1>3, <2>2, <3>1
    <3>3. /\ row \in Requests /\ row.method = requests[r].method /\ row.status = requests[r].status
          /\ row.paid = requests[r].paid /\ row.refunded = n
      BY <1>2, <3>2 DEF Requests
    <3>. QED BY SMTT(20), <1>2, <2>2, <3>1, <3>3
  <2>. QED BY <2>1, <2>2
<1>6. /\ \/ /\ v = "Approved" /\ migrated' = Add(migrated, u, Amount) /\ UNCHANGED adRevenue
            /\ requests' = [requests EXCEPT ![r].paid = @ + 1]
         \/ /\ v # "Approved" /\ adRevenue' = Add(adRevenue, u, Restored) /\ UNCHANGED migrated
            /\ requests' = [requests EXCEPT ![r].refunded = @ + 1]
      /\ GoTo(h, "status")
      /\ UNCHANGED <<transferable, stellar, internal, transfers, credits, ads, watched, upset,
                     calls, faults>>
  BY <1>0, Zenon DEF DecideMoney, Paid, history
<1>7. requests' = [requests EXCEPT ![r] = row]
  BY <1>3, <1>6
<1>8. MoneyTyped /\ requests \in Seq(Requests)
  BY TypeSplits DEF MoneyTyped
<1>9. RequestsGrow
  BY <1>1, <1>5, <1>7, RowTyped
<1>10. migrated' \in [Users -> Nat] /\ adRevenue' \in [Users -> Int]
  <2>1. migrated \in [Users -> Nat] /\ adRevenue \in [Users -> Int] /\ Amount \in Nat
    BY <1>8 DEF MoneyTyped
  <2>2. migrated[u] + Amount \in Nat /\ adRevenue[u] + Amount \in Int
    BY SMTT(20), <1>2, <2>1
  <2>. QED BY <1>2, <1>6, <2>1, <2>2 DEF Add, Restored
<1>11. MoneyTyped'
  BY <1>6, <1>8, <1>9, <1>10 DEF MoneyTyped, RequestsGrow
<1>12. MoneyTypeOK'
  BY <1>1, <1>6, <1>11, GoToTyped, TypeJoins
<1>13. requests'[r] = row
  BY <1>2, <1>7, <1>8
<1>14. Moved(r, v)'
  BY <1>5, <1>13 DEF Moved
<1>15. DecisionsKnow'
  BY <1>0, <1>1, <1>6, <1>9, <1>14, DecisionGoesOn
<1>16. \A q \in DOMAIN requests' : q \in DOMAIN requests /\ requests'[q].status = requests[q].status
  BY <1>5, <1>7, <1>8
<1>. QED BY <1>9, <1>12, <1>15, <1>16

\* A decision writes its status, of which the row says that it is true.
LEMMA StatusIsWritten ==
  ASSUME MoneyTypeOK, DecisionsKnow, NEW h \in Handlers, DecideStatus(h)
  PROVE  /\ MoneyTypeOK' /\ RequestsGrow /\ DecisionsKnow'
         /\ \A q \in DOMAIN requests' :
              \/ q \in DOMAIN requests /\ requests'[q].status = requests[q].status
              \/ RowIsTrue(q)'
<1>0. PICK r, v : r = tasks[h].request /\ v = tasks[h].verdict
  OBVIOUS
<1>1. tasks[h].op = "decide" /\ v \in Verdicts /\ r \in DOMAIN requests /\ Moved(r, v)
  BY <1>0, DecisionFields DEF DecideStatus, At
<1>2. /\ requests[r] \in Requests /\ r \in 1..Len(requests)
      /\ requests[r].paid \in Nat /\ requests[r].refunded \in Nat
  BY <1>1, RequestFields
<1>3. PICK row : row = [requests[r] EXCEPT !.status = v]
  OBVIOUS
<1>4. /\ row \in Requests /\ row.method = requests[r].method /\ row.status = v
      /\ row.paid = requests[r].paid /\ row.refunded = requests[r].refunded
  BY <1>1, <1>2, <1>3 DEF Requests
<1>5. row.paid >= requests[r].paid /\ row.refunded >= requests[r].refunded
  BY <1>2, <1>4
<1>6. /\ requests' = [requests EXCEPT ![r].status = v]
      /\ Upset("decided", requests[r].status # "Pending") /\ Return(h)
      /\ UNCHANGED <<transferable, adRevenue, migrated, stellar, internal, transfers, credits,
                     ads, watched, calls, faults>>
  BY <1>0, Zenon DEF DecideStatus, balances
<1>7. requests' = [requests EXCEPT ![r] = row]
  BY <1>3, <1>6
<1>8. MoneyTyped /\ requests \in Seq(Requests)
  BY TypeSplits DEF MoneyTyped
<1>9. RequestsGrow
  BY <1>1, <1>4, <1>5, <1>7, RowTyped
<1>10. upset' \subseteq {"decided", "wallet", "credit", "misplaced", "ads", "death"}
  BY <1>6, <1>8 DEF MoneyTyped, Upset
<1>11. MoneyTyped'
  BY <1>6, <1>8, <1>9, <1>10 DEF MoneyTyped, RequestsGrow
<1>12. MoneyTypeOK' /\ DecisionsKnow'
  BY <1>6, <1>9, <1>11, ReturnTyped, TypeJoins, ReturnKnows
<1>13. Moved(r, v)'
  BY <1>1, <1>9, MovedStays
<1>14. requests'[r] = row
  BY <1>2, <1>7, <1>8
<1>15. RowIsTrue(r)'
  BY <1>4, <1>13, <1>14 DEF Moved, RowIsTrue
<1>16. ASSUME NEW q \in DOMAIN requests'
       PROVE  \/ q \in DOMAIN requests /\ requests'[q].status = requests[q].status
              \/ RowIsTrue(q)'
  <2>1. CASE q = r
    BY <1>15, <2>1
  <2>2. CASE q # r
    BY <1>7, <1>8, <2>2
  <2>. QED BY <2>1, <2>2
<1>. QED BY <1>9, <1>12, <1>16

\* Who is about to pay goes on to, pays, or was killed.
PayersStay ==
  /\ upset \subseteq upset'
  /\ \A q \in DOMAIN requests : AboutToPay(q) =>
       AboutToPay(q)' \/ requests'[q].paid > 0 \/ "death" \in upset'

\* A row that was made is not decided, or paid out here next.
LEMMA TruthStays ==
  ASSUME MoneyTypeOK, DecidedWasMoved, RequestsGrow, PayersStay,
         \A q \in DOMAIN requests' :
            \/ q \in DOMAIN requests /\ requests'[q].status = requests[q].status
            \/ RowIsTrue(q)'
            \/ requests'[q].status = "Pending"
            \/ /\ requests'[q].method = "BTCY" /\ requests'[q].status = "Approved"
               /\ AboutToPay(q)'
  PROVE  DecidedWasMoved'
<1>1. ASSUME NEW q \in DOMAIN requests'
      PROVE  /\ requests'[q].status = "Rejected" => requests'[q].refunded > 0
             /\ requests'[q].status = "Approved" =>
                  \/ requests'[q].paid > 0
                  \/ requests'[q].method = "BTCY" /\ (AboutToPay(q)' \/ "death" \in upset')
  <2>1. CASE q \in DOMAIN requests /\ requests'[q].status = requests[q].status
    <3>1. PICK s : s = requests[q].status
      OBVIOUS
    <3>2. CASE Moved(q, s)
      <4>1. Moved(q, s)'
        BY <2>1, <3>2, MovedStays
      <4>. QED BY <2>1, <3>1, <4>1 DEF Moved
    <3>3. CASE ~Moved(q, s)
      <4>1. /\ s = "Approved" /\ requests[q].method = "BTCY"
            /\ AboutToPay(q) \/ "death" \in upset
        BY <2>1, <3>1, <3>3 DEF DecidedWasMoved, Moved
      <4>2. AboutToPay(q)' \/ requests'[q].paid > 0 \/ "death" \in upset'
        BY <2>1, <4>1 DEF PayersStay
      <4>3. requests'[q].method = "BTCY" /\ requests'[q].status = "Approved"
        BY <2>1, <3>1, <4>1 DEF RequestsGrow
      <4>. QED BY <4>2, <4>3
    <3>. QED BY <3>2, <3>3
  <2>2. CASE RowIsTrue(q)'
    BY <2>2 DEF RowIsTrue, Moved
  <2>3. CASE requests'[q].status = "Pending"
    BY <2>3
  <2>4. CASE /\ requests'[q].method = "BTCY" /\ requests'[q].status = "Approved"
             /\ AboutToPay(q)'
    BY <2>4
  <2>. QED BY <2>1, <2>2, <2>3, <2>4
<1>. QED BY <1>1 DEF DecidedWasMoved

LEMMA RowIsMade ==
  ASSUME MoneyTypeOK, NEW h \in Handlers, WithdrawCreate(h)
  PROVE  /\ RequestsGrow
         /\ \A q \in DOMAIN requests' :
              \/ q \in DOMAIN requests /\ requests'[q].status = requests[q].status
              \/ requests'[q].status = "Pending"
              \/ /\ requests'[q].method = "BTCY" /\ requests'[q].status = "Approved"
                 /\ AboutToPay(q)'
<1>1. PICK m : m = tasks[h].method
  OBVIOUS
<1>2. PICK row : row = [user |-> tasks[h].user, method |-> m, status |-> FirstStatus(m),
                        paid |-> 0, refunded |-> 0]
  OBVIOUS
<1>3. requests' = Append(requests, row)
  BY <1>1, <1>2, Zenon DEF WithdrawCreate
<1>4. row \in Requests
  BY <1>1, <1>2, WithdrawalFields, NewRequestTyped DEF WithdrawCreate, At
<1>5. requests \in Seq(Requests)
  BY DEF MoneyTypeOK
<1>6. /\ requests' \in Seq(Requests) /\ Len(requests') = Len(requests) + 1
      /\ \A i \in 1..Len(requests) : requests'[i] = requests[i]
      /\ requests'[Len(requests) + 1] = row
  BY <1>3, <1>4, <1>5, AppendProperties
<1>7. /\ DOMAIN requests = 1..Len(requests) /\ DOMAIN requests' = 1..(Len(requests) + 1)
      /\ Len(requests) \in Nat
  BY <1>5, <1>6, LenProperties
<1>8. DOMAIN requests \subseteq DOMAIN requests'
  BY <1>7
<1>9. \A r \in DOMAIN requests : requests'[r] = requests[r]
  BY <1>6, <1>7
<1>10. \A r \in DOMAIN requests : /\ requests[r].paid >= requests[r].paid
                                  /\ requests[r].refunded >= requests[r].refunded
  <2>1. \A r \in DOMAIN requests : requests[r].paid \in Nat /\ requests[r].refunded \in Nat
    BY RequestFields
  <2>. QED BY <2>1
<1>11. RequestsGrow
  BY <1>6, <1>8, <1>9, <1>10 DEF RequestsGrow
<1>14. PICK n : n = Len(requests) + 1
  OBVIOUS
<1>12. \/ row.status = "Pending"
       \/ /\ row.method = "BTCY" /\ row.status = "Approved"
          /\ AboutToPay(n)'
  <2>1. CASE m # "BTCY"
    BY <1>2, <2>1 DEF FirstStatus
  <2>2. CASE m = "BTCY"
    <3>1. row.method = "BTCY" /\ row.status = "Approved"
      BY <1>2, <2>2 DEF FirstStatus
    <3>2. tasks' = [tasks EXCEPT ![h].step = "pay", ![h].request = Len(requests) + 1]
      BY <1>1, <2>2, Zenon DEF WithdrawCreate
    <3>3. tasks[h] \in Withdrawals /\ tasks[h].op = "withdraw"
      BY WithdrawalFields DEF WithdrawCreate, At
    <3>4. /\ tasks'[h].op = "withdraw" /\ tasks'[h].step = "pay"
          /\ tasks'[h].request = n
      BY <1>14, <3>2, <3>3 DEF MoneyTypeOK, Withdrawals
    <3>. QED BY <3>1, <3>4 DEF AboutToPay, At
  <2>. QED BY <2>1, <2>2
<1>13. ASSUME NEW q \in DOMAIN requests'
       PROVE  \/ q \in DOMAIN requests /\ requests'[q].status = requests[q].status
              \/ requests'[q].status = "Pending"
              \/ /\ requests'[q].method = "BTCY" /\ requests'[q].status = "Approved"
                 /\ AboutToPay(q)'
  <2>1. q \in DOMAIN requests \/ q = n
    BY <1>7, <1>14
  <2>2. CASE q \in DOMAIN requests
    BY <1>9, <2>2
  <2>3. CASE q = n
    BY <1>6, <1>12, <1>14, <2>3
  <2>. QED BY <2>1, <2>2, <2>3
<1>. QED BY <1>11, <1>13

\* What is paid was so for good, and nothing else of the rows changes.
LEMMA PaymentGrows ==
  ASSUME MoneyTypeOK, NEW r, Paid(r)
  PROVE  /\ RequestsGrow
         /\ \A q \in DOMAIN requests' : q \in DOMAIN requests /\ requests'[q].status = requests[q].status
         /\ r \in DOMAIN requests => requests'[r].paid > 0
<1>1. requests \in Seq(Requests)
  BY DEF MoneyTypeOK
<1>2. /\ requests' \in Seq(Requests) /\ DOMAIN requests' = DOMAIN requests
      /\ \A q \in DOMAIN requests : q # r => requests'[q] = requests[q]
      /\ r \in DOMAIN requests =>
           /\ requests'[r].method = requests[r].method /\ requests'[r].status = requests[r].status
           /\ requests'[r].refunded = requests[r].refunded
           /\ requests'[r].paid = requests[r].paid + 1
  BY <1>1, PaidTyped
<1>3. ASSUME NEW q \in DOMAIN requests
      PROVE  /\ requests'[q].method = requests[q].method /\ requests'[q].status = requests[q].status
             /\ requests'[q].paid >= requests[q].paid /\ requests'[q].refunded >= requests[q].refunded
             /\ q = r => requests'[q].paid > 0
  <2>1. requests[q].paid \in Nat /\ requests[q].refunded \in Nat
    BY RequestFields
  <2>2. CASE q # r
    BY <1>2, <2>1, <2>2
  <2>3. CASE q = r
    BY <1>2, <2>1, <2>3
  <2>. QED BY <2>2, <2>3
<1>. QED BY <1>2, <1>3 DEF RequestsGrow

-----------------------------------------------------------------------------
(* The steps, and what they leave alone.                                   *)

LEMMA OnlyCommits ==
  ASSUME Next
  PROVE  \/ UNCHANGED <<transfers, ads, watched>> /\ upset \subseteq upset'
         \/ \E h \in Handlers : TransferCommit(h)
         \/ \E a \in AdKeys : (WatchAd(a) \/ AdsExpire(a)) /\ UNCHANGED <<transfers, upset>>
<1>. USE DEF balances, rows, history
<1>1. ASSUME NEW h \in Handlers, Transfer(h) \/ Withdraw(h) \/ Decide(h) \/ Credit(h)
      PROVE  UNCHANGED <<transfers, ads, watched, upset>>
  <2>1. PICK t : Begin(h, t)
    BY <1>1, Zenon DEF Transfer, Withdraw, Decide, Credit
  <2>. QED BY <2>1 DEF Begin
<1>2. ASSUME NEW h \in Handlers, TransferLookup(h) \/ TransferAds(h) \/ WithdrawCheck(h)
                                   \/ WithdrawDeduct(h) \/ WithdrawCreate(h) \/ WithdrawPay(h)
      PROVE  UNCHANGED <<transfers, ads, watched, upset>>
  BY <1>2 DEF TransferLookup, TransferAds, WithdrawCheck, WithdrawDeduct, WithdrawCreate, WithdrawPay
<1>3. ASSUME NEW h \in Handlers, DecideFind(h) \/ DecideMoney(h) \/ CreditLookup(h) \/ CreditWallet(h)
      PROVE  UNCHANGED <<transfers, ads, watched, upset>>
  BY <1>3 DEF DecideFind, DecideMoney, CreditLookup, CreditWallet
<1>4. ASSUME NEW h \in Handlers, \/ WithdrawPush(h) \/ DecideStatus(h) \/ CreditPay(h)
                                 \/ CreditPush(h) \/ CreditRow(h) \/ Dies(h)
      PROVE  UNCHANGED <<transfers, ads, watched>> /\ upset \subseteq upset'
  <2>1. UNCHANGED <<transfers, ads, watched>>
    BY <1>4 DEF WithdrawPush, DecideStatus, CreditPay, CreditPush, CreditRow, Dies
  <2>2. UNCHANGED upset \/ \E what, happened : Upset(what, happened)
    BY <1>4, Zenon DEF WithdrawPush, DecideStatus, CreditPay, CreditPush, CreditRow, Dies, PushWallet
  <2>. QED BY <2>1, <2>2 DEF Upset
<1>5. ASSUME NEW a \in AdKeys, WatchAd(a) \/ AdsExpire(a)
      PROVE  UNCHANGED <<transfers, upset>>
  BY <1>5 DEF WatchAd, AdsExpire
<1>. QED BY <1>1, <1>2, <1>3, <1>4, <1>5, Zenon DEF Next

\* What happened has happened.
LEMMA UpsetGrows ==
  ASSUME Next
  PROVE  upset \subseteq upset'
<1>1. CASE \E h \in Handlers : TransferCommit(h)
  <2>1. UNCHANGED upset \/ \E happened : Upset("ads", happened)
    BY <1>1, Zenon DEF TransferCommit
  <2>. QED BY <2>1 DEF Upset
<1>. QED BY <1>1, OnlyCommits

AtPayment(h) == At(h, "withdraw", "pay") \/ At(h, "withdraw", "push")

\* The payers but one go on when it does.
LEMMA OnePayerMoves ==
  ASSUME MoneyTypeOK, upset \subseteq upset', NEW h \in Handlers, NEW t,
         tasks' = [tasks EXCEPT ![h] = t],
         \/ ~AtPayment(h)
         \/ t.op = "withdraw" /\ t.step \in {"pay", "push"} /\ t.request = tasks[h].request
         \/ tasks[h].request \in DOMAIN requests => requests'[tasks[h].request].paid > 0
         \/ "death" \in upset'
  PROVE  PayersStay
<1>1. ASSUME NEW q \in DOMAIN requests, AboutToPay(q)
      PROVE  AboutToPay(q)' \/ requests'[q].paid > 0 \/ "death" \in upset'
  <2>1. PICK g \in Handlers : AtPayment(g) /\ tasks[g].request = q
    BY <1>1 DEF AboutToPay, AtPayment
  <2>2. CASE g # h
    <3>1. tasks'[g] = tasks[g]
      BY <2>2 DEF MoneyTypeOK
    <3>. QED BY <2>1, <3>1 DEF AboutToPay, AtPayment, At
  <2>3. CASE g = h
    <3>1. CASE t.op = "withdraw" /\ t.step \in {"pay", "push"} /\ t.request = tasks[h].request
      <4>1. tasks'[h] = t
        BY DEF MoneyTypeOK
      <4>2. AtPayment(h)' /\ tasks'[h].request = q
        BY <2>1, <2>3, <3>1, <4>1 DEF AtPayment, At
      <4>. QED BY <4>2 DEF AboutToPay, AtPayment, At
    <3>. QED BY <2>1, <2>3, <3>1
  <2>. QED BY <2>2, <2>3
<1>. QED BY <1>1 DEF PayersStay

DecisionInv == MoneyTypeOK /\ DecisionsKnow /\ DecidedWasMoved

\* A step of a handler that is not paying.
LEMMA OthersDoNotPay ==
  ASSUME MoneyTypeOK, NEW h \in Handlers,
         \/ Transfer(h) \/ TransferLookup(h) \/ TransferAds(h) \/ TransferCommit(h)
         \/ Withdraw(h) \/ WithdrawCheck(h) \/ WithdrawDeduct(h) \/ WithdrawCreate(h)
         \/ Decide(h) \/ DecideFind(h) \/ DecideMoney(h) \/ DecideStatus(h)
         \/ Credit(h) \/ CreditLookup(h) \/ CreditWallet(h) \/ CreditPay(h)
         \/ CreditPush(h) \/ CreditRow(h)
  PROVE  ~AtPayment(h) /\ \E t : tasks' = [tasks EXCEPT ![h] = t]
<1>. DEFINE Changes == \E t : tasks' = [tasks EXCEPT ![h] = t]
<1>1. /\ Return(h) => Changes
      /\ \A step : GoTo(h, step) => Changes
      /\ \A t : Begin(h, t) => Changes
  BY Zenon DEF Return, GoTo, Begin
<1>2. /\ tasks[h] = Idle => ~AtPayment(h)
      /\ \A op, step : At(h, op, step) /\ (op # "withdraw" \/ step \notin {"pay", "push"})
                        => ~AtPayment(h)
  BY DEF AtPayment, At, Idle
<1>. HIDE DEF Changes
<1>3. CASE Transfer(h) \/ Withdraw(h) \/ Decide(h) \/ Credit(h)
  <2>1. PICK t : Begin(h, t)
    BY <1>3, Zenon DEF Transfer, Withdraw, Decide, Credit
  <2>. QED BY <1>1, <1>2, <2>1 DEF Begin, Changes
<1>4. CASE TransferLookup(h) \/ TransferAds(h) \/ TransferCommit(h)
  <2>1. Return(h) \/ \E step : GoTo(h, step)
    BY <1>4, Zenon DEF TransferLookup, TransferAds, TransferCommit
  <2>2. \E step : At(h, "transfer", step)
    BY <1>4, Zenon DEF TransferLookup, TransferAds, TransferCommit
  <2>. QED BY <1>1, <1>2, <2>1, <2>2 DEF Changes
<1>5. CASE WithdrawCheck(h) \/ WithdrawDeduct(h) \/ WithdrawCreate(h)
  <2>1. Changes
    <3>1. CASE WithdrawCreate(h)
      BY <1>1, <3>1, CreatesTask DEF Changes
    <3>2. CASE WithdrawCheck(h) \/ WithdrawDeduct(h)
      <4>1. Return(h) \/ \E step : GoTo(h, step)
        BY <3>2, Zenon DEF WithdrawCheck, WithdrawDeduct
      <4>. QED BY <1>1, <4>1
    <3>. QED BY <1>5, <3>1, <3>2
  <2>2. \E step \in {"check", "deduct", "create"} : At(h, "withdraw", step)
    BY <1>5 DEF WithdrawCheck, WithdrawDeduct, WithdrawCreate
  <2>. QED BY <1>2, <2>1, <2>2 DEF Changes
<1>6. CASE DecideFind(h) \/ DecideMoney(h) \/ DecideStatus(h)
  <2>1. Return(h) \/ \E step : GoTo(h, step)
    BY <1>6, Zenon DEF DecideFind, DecideMoney, DecideStatus
  <2>2. \E step : At(h, "decide", step)
    BY <1>6, Zenon DEF DecideFind, DecideMoney, DecideStatus
  <2>. QED BY <1>1, <1>2, <2>1, <2>2 DEF Changes
<1>7. CASE \/ CreditLookup(h) \/ CreditWallet(h) \/ CreditPay(h) \/ CreditPush(h)
           \/ CreditRow(h)
  <2>1. Return(h) \/ \E step : GoTo(h, step)
    BY <1>7, Zenon DEF CreditLookup, CreditWallet, CreditPay, CreditPush, CreditRow
  <2>2. \E step : At(h, "credit", step)
    BY <1>7, Zenon DEF CreditLookup, CreditWallet, CreditPay, CreditPush, CreditRow
  <2>. QED BY <1>1, <1>2, <2>1, <2>2 DEF Changes
<1>. QED BY <1>3, <1>4, <1>5, <1>6, <1>7

LEMMA PayersGoOn ==
  ASSUME MoneyTypeOK, Next
  PROVE  PayersStay
<1>0. upset \subseteq upset'
  BY UpsetGrows
<1>1. ASSUME NEW h \in Handlers,
             \/ Transfer(h) \/ TransferLookup(h) \/ TransferAds(h) \/ TransferCommit(h)
             \/ Withdraw(h) \/ WithdrawCheck(h) \/ WithdrawDeduct(h) \/ WithdrawCreate(h)
             \/ Decide(h) \/ DecideFind(h) \/ DecideMoney(h) \/ DecideStatus(h)
             \/ Credit(h) \/ CreditLookup(h) \/ CreditWallet(h) \/ CreditPay(h)
             \/ CreditPush(h) \/ CreditRow(h)
      PROVE  PayersStay
  <2>1. ~AtPayment(h)
    BY <1>1, OthersDoNotPay
  <2>2. PICK t : tasks' = [tasks EXCEPT ![h] = t]
    BY <1>1, OthersDoNotPay
  <2>. QED BY <1>0, <2>1, <2>2, OnePayerMoves
<1>2. ASSUME NEW h \in Handlers, WithdrawPay(h) \/ WithdrawPush(h)
      PROVE  PayersStay
  <2>1. CASE Paid(tasks[h].request)
    <3>1. tasks[h].request \in DOMAIN requests => requests'[tasks[h].request].paid > 0
      BY <2>1, PaymentGrows
    <3>2. \E t : tasks' = [tasks EXCEPT ![h] = t]
      BY <1>2, Zenon DEF WithdrawPay, WithdrawPush, Return, GoTo
    <3>. QED BY <1>0, <3>1, <3>2, OnePayerMoves
  <2>2. CASE ~Paid(tasks[h].request)
    <3>1. GoTo(h, "push") /\ tasks[h].op = "withdraw"
      BY <1>2, <2>2, Zenon DEF WithdrawPay, WithdrawPush, At
    <3>2. PICK t : t = [tasks[h] EXCEPT !.step = "push"]
      OBVIOUS
    <3>3. t.op = "withdraw" /\ t.step = "push" /\ t.request = tasks[h].request
      BY <3>1, <3>2, TaskKinds DEF Withdrawals
    <3>4. tasks' = [tasks EXCEPT ![h] = t]
      BY <3>1, <3>2 DEF GoTo
    <3>. QED BY <1>0, <3>3, <3>4, OnePayerMoves
  <2>. QED BY <2>1, <2>2
<1>3. ASSUME NEW h \in Handlers, Dies(h)
      PROVE  PayersStay
  <2>1. "death" \in upset' /\ tasks' = [tasks EXCEPT ![h] = Idle]
    BY <1>3 DEF Dies, Upset, Return
  <2>. QED BY <1>0, <2>1, OnePayerMoves
<1>4. ASSUME NEW a \in AdKeys, WatchAd(a) \/ AdsExpire(a)
      PROVE  PayersStay
  <2>1. UNCHANGED tasks
    BY <1>4 DEF WatchAd, AdsExpire
  <2>. QED BY <1>0, <2>1 DEF PayersStay, AboutToPay, At
<1>. QED BY <1>1, <1>2, <1>3, <1>4, Zenon DEF Next

LEMMA StepTyped ==
  ASSUME DecisionInv, Next
  PROVE  MoneyTypeOK'
<1>. USE DEF DecisionInv
<1>1. ASSUME NEW h \in Handlers,
             \/ Transfer(h) \/ TransferLookup(h) \/ TransferAds(h) \/ TransferCommit(h)
             \/ Withdraw(h) \/ WithdrawCheck(h) \/ WithdrawDeduct(h) \/ WithdrawCreate(h)
             \/ WithdrawPay(h) \/ WithdrawPush(h)
             \/ Decide(h) \/ DecideFind(h) \/ DecideMoney(h) \/ DecideStatus(h)
             \/ Credit(h) \/ CreditLookup(h) \/ CreditWallet(h) \/ CreditPay(h)
             \/ CreditPush(h) \/ CreditRow(h)
             \/ Dies(h)
      PROVE  MoneyTypeOK'
  BY <1>1, BeginningsTyped, ChecksTyped, CommitTyped, WithdrawTyped, MoneyMoves, StatusIsWritten,
     CreditTyped, DiesTyped
<1>2. ASSUME NEW a \in AdKeys, WatchAd(a) \/ AdsExpire(a)
      PROVE  MoneyTypeOK'
  BY <1>2, AdsTyped
<1>. QED BY <1>1, <1>2, Zenon DEF Next

\* A request that begins decides a row there is, if any.
LEMMA BeginningsKnow ==
  ASSUME DecisionInv, NEW h \in Handlers, Transfer(h) \/ Withdraw(h) \/ Decide(h) \/ Credit(h)
  PROVE  DecisionsKnow' /\ UNCHANGED requests
<1>. USE DEF DecisionInv
<1>1. ASSUME NEW t, Begin(h, t), Knows(t)
      PROVE  DecisionsKnow' /\ UNCHANGED requests
  <2>1. tasks' = [tasks EXCEPT ![h] = t] /\ UNCHANGED requests
    BY <1>1 DEF Begin, rows
  <2>2. RequestsGrow
    BY <2>1, NothingChanges
  <2>3. Knows(t)'
    BY <1>1, <2>2, KnowsStays
  <2>. QED BY <2>1, <2>2, <2>3, TaskKnows
<1>2. CASE Transfer(h)
  <2>1. PICK u \in Owners, v \in Users, s \in Sources, k \in Keys \cup {NoKey},
             c \in {"mobile", "web"} : Transfer(h)!(u, v, s, k, c)
    BY <1>2, Zenon DEF Transfer
  <2>2. Knows([op |-> "transfer", step |-> "lookup", user |-> u, to |-> v,
               source |-> s, key |-> k, client |-> c])
    BY DEF Knows
  <2>. QED BY <1>1, <2>1, <2>2
<1>3. CASE Withdraw(h)
  <2>1. PICK u \in Users, m \in Methods : Withdraw(h)!(u, m)
    BY <1>3 DEF Withdraw
  <2>2. Knows([op |-> "withdraw", step |-> "check", user |-> u, method |-> m, request |-> 0])
    BY DEF Knows
  <2>. QED BY <1>1, <2>1, <2>2
<1>4. CASE Decide(h)
  <2>1. PICK r \in DOMAIN requests, v \in Verdicts : Decide(h)!(r, v)
    BY <1>4 DEF Decide
  <2>2. Knows([op |-> "decide", step |-> "find", request |-> r, verdict |-> v])
    BY DEF Knows
  <2>. QED BY <1>1, <2>1, <2>2
<1>5. CASE Credit(h)
  <2>1. PICK u \in Users, k \in Keys : Credit(h)!(u, k)
    BY <1>5 DEF Credit
  <2>2. Knows([op |-> "credit", step |-> "lookup", user |-> u, key |-> k])
    BY DEF Knows
  <2>. QED BY <1>1, <2>1, <2>2
<1>. QED BY <1>2, <1>3, <1>4, <1>5

\* A step of another kind than a decision.
LEMMA OthersKnow ==
  ASSUME DecisionInv, NEW h \in Handlers,
         \/ TransferLookup(h) \/ TransferAds(h) \/ TransferCommit(h)
         \/ WithdrawCheck(h) \/ WithdrawDeduct(h)
         \/ CreditLookup(h) \/ CreditWallet(h) \/ CreditPay(h) \/ CreditPush(h) \/ CreditRow(h)
         \/ DecideFind(h) \/ Dies(h)
  PROVE  DecisionsKnow' /\ UNCHANGED requests
<1>. USE DEF DecisionInv
<1>1. UNCHANGED requests
  BY DEF TransferLookup, TransferAds, TransferCommit, WithdrawCheck, WithdrawDeduct,
         CreditLookup, CreditWallet, CreditPay, CreditPush, CreditRow, DecideFind,
         Dies, rows
<1>2. RequestsGrow
  BY <1>1, NothingChanges
<1>3. CASE Return(h)
  BY <1>1, <1>2, <1>3, ReturnKnows
<1>4. CASE DecideFind(h) /\ ~Return(h)
  <2>1. tasks[h].op = "decide" /\ GoTo(h, "money")
    BY <1>4 DEF DecideFind, At, FirstWrite
  <2>. QED BY <1>1, <1>2, <2>1, DecisionGoesOn
<1>5. CASE ~DecideFind(h) /\ ~Return(h)
  <2>. DEFINE Elsewhere == tasks[h].op \in {"transfer", "withdraw", "credit"} /\ \E step : GoTo(h, step)
  <2>1. Elsewhere
    <3>1. ASSUME TransferLookup(h) \/ TransferAds(h) \/ TransferCommit(h) PROVE Elsewhere
      BY <1>5, <3>1, Zenon DEF TransferLookup, TransferAds, TransferCommit, At
    <3>2. ASSUME WithdrawCheck(h) \/ WithdrawDeduct(h)
          PROVE  Elsewhere
      BY <1>5, <3>2, Zenon DEF WithdrawCheck, WithdrawDeduct, At
    <3>3. ASSUME \/ CreditLookup(h) \/ CreditWallet(h) \/ CreditPay(h) \/ CreditPush(h)
                 \/ CreditRow(h)
          PROVE  Elsewhere
      BY <1>5, <3>3, Zenon DEF CreditLookup, CreditWallet, CreditPay, CreditPush, CreditRow, At
    <3>. QED BY <1>5, <3>1, <3>2, <3>3 DEF Dies
  <2>2. PICK step : GoTo(h, step)
    BY <2>1
  <2>. QED BY <1>1, <1>2, <2>1, <2>2, GoToKnows
<1>. QED BY <1>1, <1>3, <1>4, <1>5

LEMMA DecisionStep ==
  ASSUME DecisionInv, Next
  PROVE  DecisionInv'
<1>. USE DEF DecisionInv
<1>0. PayersStay
  BY PayersGoOn
<1>1. ASSUME DecisionsKnow', UNCHANGED requests
      PROVE  DecisionsKnow' /\ DecidedWasMoved'
  BY <1>0, <1>1, NothingChanges, TruthStays
<1>2. ASSUME NEW h \in Handlers, Transfer(h) \/ Withdraw(h) \/ Decide(h) \/ Credit(h)
      PROVE  DecisionsKnow' /\ DecidedWasMoved'
  BY <1>1, <1>2, BeginningsKnow
<1>3. ASSUME NEW h \in Handlers,
             \/ TransferLookup(h) \/ TransferAds(h) \/ TransferCommit(h)
             \/ WithdrawCheck(h) \/ WithdrawDeduct(h)
             \/ CreditLookup(h) \/ CreditWallet(h) \/ CreditPay(h) \/ CreditPush(h)
             \/ CreditRow(h) \/ DecideFind(h) \/ Dies(h)
      PROVE  DecisionsKnow' /\ DecidedWasMoved'
  BY <1>1, <1>3, OthersKnow
<1>4. ASSUME NEW h \in Handlers, WithdrawCreate(h)
      PROVE  DecisionsKnow' /\ DecidedWasMoved'
  <2>1. RequestsGrow /\ DecidedWasMoved'
    BY <1>0, <1>4, RowIsMade, TruthStays
  <2>2. CASE Return(h)
    BY <2>1, <2>2, ReturnKnows
  <2>3. CASE ~Return(h)
    <3>1. PICK t \in Withdrawals : tasks' = [tasks EXCEPT ![h] = t] /\ t.op = "withdraw"
      BY <1>4, <2>3, CreatesTask
    <3>2. Knows(t)'
      BY <3>1 DEF Knows
    <3>. QED BY <2>1, <3>1, <3>2, TaskKnows
  <2>. QED BY <2>2, <2>3
<1>5. ASSUME NEW h \in Handlers, DecideMoney(h)
      PROVE  DecisionsKnow' /\ DecidedWasMoved'
  BY <1>0, <1>5, MoneyMoves, TruthStays
<1>6. ASSUME NEW h \in Handlers, DecideStatus(h)
      PROVE  DecisionsKnow' /\ DecidedWasMoved'
  BY <1>0, <1>6, StatusIsWritten, TruthStays
<1>9. ASSUME NEW h \in Handlers, WithdrawPay(h) \/ WithdrawPush(h)
      PROVE  DecisionsKnow' /\ DecidedWasMoved'
  <2>1. tasks[h].op = "withdraw" /\ (Return(h) \/ GoTo(h, "push"))
    BY <1>9, Zenon DEF WithdrawPay, WithdrawPush, At
  <2>2. CASE UNCHANGED requests
    BY <1>1, <2>1, <2>2, NothingChanges, ReturnKnows, GoToKnows
  <2>3. CASE Paid(tasks[h].request)
    <3>1. /\ RequestsGrow
          /\ \A q \in DOMAIN requests' :
               q \in DOMAIN requests /\ requests'[q].status = requests[q].status
      BY <2>3, PaymentGrows
    <3>. QED BY <1>0, <2>1, <3>1, ReturnKnows, GoToKnows, TruthStays
  <2>. QED BY <1>9, <2>2, <2>3, Zenon DEF WithdrawPay, WithdrawPush
<1>7. ASSUME NEW a \in AdKeys, WatchAd(a) \/ AdsExpire(a)
      PROVE  DecisionsKnow' /\ DecidedWasMoved'
  <2>1. UNCHANGED <<tasks, requests>>
    BY <1>7 DEF WatchAd, AdsExpire, rows
  <2>2. DecisionsKnow'
    BY <2>1 DEF DecisionsKnow, Knows, Moved
  <2>. QED BY <1>1, <2>1, <2>2
<1>8. DecisionsKnow' /\ DecidedWasMoved'
  BY <1>2, <1>3, <1>4, <1>5, <1>6, <1>7, <1>9, Zenon DEF Next
<1>. QED BY <1>8, StepTyped

-----------------------------------------------------------------------------
(* Transfers.  They are made by commits only, and the ads watched for those *)
(* there are and for those to come were watched.                            *)

OfPhone(a) == {i \in DOMAIN transfers : AdKey(transfers[i]) = a /\ transfers[i].client = "mobile"}

AdsAreBacked ==
  "ads" \notin upset =>
    \A a \in AdKeys : RequiredAds * Cardinality(OfPhone(a)) + ads[a] <= watched[a]

LEMMA NewTransfer ==
  ASSUME MoneyTypeOK, NEW h \in Handlers, NEW t, t = tasks[h], TransferCommit(h),
         transfers' = Append(transfers, RowOf(t))
  PROVE  /\ DOMAIN transfers = 1..Len(transfers) /\ Len(transfers) \in Nat
         /\ DOMAIN transfers' = 1..(Len(transfers) + 1)
         /\ \A i \in DOMAIN transfers : transfers'[i] = transfers[i]
         /\ transfers'[Len(transfers) + 1] = RowOf(t)
<1>. DEFINE Rows == [user : Owners, to : Users, source : Sources,
                     key : Keys \cup {NoKey}, client : {"mobile", "web"}]
<1>1. t \in Transfers
  BY TaskKinds DEF TransferCommit, At
<1>2. RowOf(t) \in Rows /\ transfers \in Seq(Rows)
  BY <1>1, TransferFields DEF RowOf, MoneyTypeOK
<1>. HIDE DEF Rows
<1>3. /\ transfers' \in Seq(Rows) /\ Len(transfers') = Len(transfers) + 1
      /\ \A i \in 1..Len(transfers) : transfers'[i] = transfers[i]
      /\ transfers'[Len(transfers) + 1] = RowOf(t)
  BY <1>2, AppendProperties
<1>. QED BY <1>2, <1>3, LenProperties

LEMMA KeysStep ==
  ASSUME MoneyTypeOK, KeyMovesOnce, Next
  PROVE  KeyMovesOnce'
<1>1. CASE UNCHANGED transfers
  BY <1>1 DEF KeyMovesOnce
<1>2. CASE (\E h \in Handlers : TransferCommit(h)) /\ ~UNCHANGED transfers
  <2>1. PICK h \in Handlers : TransferCommit(h)
    BY <1>2
  <2>2. PICK t : t = tasks[h]
    OBVIOUS
  <2>3. transfers' = Append(transfers, RowOf(t)) /\ ~Taken(t.user, t.key)
    BY <1>2, <2>1, <2>2, CommitMakes
  <2>4. /\ DOMAIN transfers = 1..Len(transfers) /\ Len(transfers) \in Nat
        /\ DOMAIN transfers' = 1..(Len(transfers) + 1)
        /\ \A i \in DOMAIN transfers : transfers'[i] = transfers[i]
        /\ transfers'[Len(transfers) + 1] = RowOf(t)
    BY <2>1, <2>2, <2>3, NewTransfer
  <2>5. \A i \in DOMAIN transfers : ~(transfers[i].user = t.user /\ transfers[i].key = t.key)
    BY <2>3 DEF Taken
  <2>6. RowOf(t).user = t.user /\ RowOf(t).key = t.key
    BY DEF RowOf
  <2>7. \A i \in DOMAIN transfers' : i \in DOMAIN transfers \/ i = Len(transfers) + 1
    BY <2>4
  <2>. QED BY <2>4, <2>5, <2>6, <2>7 DEF KeyMovesOnce
<1>. QED BY <1>1, <1>2, OnlyCommits

LEMMA PhoneTransfersAreFinite ==
  ASSUME MoneyTypeOK, NEW a
  PROVE  IsFiniteSet(OfPhone(a)) /\ Cardinality(OfPhone(a)) \in Nat
<1>1. DOMAIN transfers = 1..Len(transfers) /\ Len(transfers) \in Nat
  BY LenProperties DEF MoneyTypeOK
<1>2. IsFiniteSet(1..Len(transfers))
  BY <1>1, FS_Interval
<1>3. OfPhone(a) \subseteq 1..Len(transfers)
  BY <1>1 DEF OfPhone
<1>. QED BY <1>2, <1>3, FS_Subset, FS_CardinalityType

\* The arithmetic of a transfer that was paid for.
LEMMA PaidFor ==
  ASSUME NEW c \in Nat, NEW n \in Nat, NEW w \in Nat, RequiredAds * c + n <= w, n >= RequiredAds
  PROVE  RequiredAds * (c + 1) + 0 <= w
<1>1. RequiredAds \in Nat
  OBVIOUS
<1>2. RequiredAds * c \in Nat
  BY <1>1
<1>3. RequiredAds * (c + 1) = RequiredAds * c + RequiredAds
  BY <1>1
<1>. QED BY <1>1, <1>2, <1>3

LEMMA AdsStep ==
  ASSUME MoneyTypeOK, AdsAreBacked, Next
  PROVE  AdsAreBacked'
<1>1. CASE UNCHANGED <<transfers, ads, watched>> /\ upset \subseteq upset'
  BY <1>1 DEF AdsAreBacked, OfPhone
<1>2. ASSUME NEW b \in AdKeys, WatchAd(b) \/ AdsExpire(b), UNCHANGED <<transfers, upset>>
      PROVE  AdsAreBacked'
  <2>1. SUFFICES ASSUME "ads" \notin upset, NEW a \in AdKeys
                 PROVE  RequiredAds * Cardinality(OfPhone(a)) + ads'[a] <= watched'[a]
    BY <1>2 DEF AdsAreBacked, OfPhone
  <2>2. PICK n : n = RequiredAds * Cardinality(OfPhone(a))
    OBVIOUS
  <2>3. n \in Nat
    BY <2>2, PhoneTransfersAreFinite
  <2>4. ads[a] \in Nat /\ watched[a] \in Nat /\ n + ads[a] <= watched[a]
    BY <2>1, <2>2 DEF MoneyTypeOK, AdsAreBacked
  <2>5. \/ ads'[a] = ads[a] + 1 /\ watched'[a] = watched[a] + 1
        \/ ads'[a] = 0 /\ watched'[a] = watched[a]
        \/ ads'[a] = ads[a] /\ watched'[a] = watched[a]
    <3>1. ads \in [AdKeys -> Nat] /\ watched \in [AdKeys -> 0..MaxAds]
      BY DEF MoneyTypeOK
    <3>2. \/ watched' = [watched EXCEPT ![b] = @ + 1] /\ ads' = [ads EXCEPT ![b] = @ + 1]
          \/ UNCHANGED watched /\ ads' = [ads EXCEPT ![b] = 0]
      BY <1>2 DEF WatchAd, AdsExpire, Add, history
    <3>. HIDE DEF AdKeys
    <3>. QED BY <3>1, <3>2
  <2>6. n + ads'[a] <= watched'[a]
    BY <2>3, <2>4, <2>5
  <2>. QED BY <2>2, <2>6
<1>3. ASSUME NEW h \in Handlers, TransferCommit(h),
             ~(UNCHANGED <<transfers, ads, watched>> /\ upset \subseteq upset')
      PROVE  AdsAreBacked'
  <2>1. PICK t : t = tasks[h]
    OBVIOUS
  <2>2. t \in Transfers
    BY <1>3, <2>1, TaskKinds DEF TransferCommit, At
  <2>3. /\ transfers' = Append(transfers, RowOf(t)) /\ ads' = AfterTransfer(t)
        /\ Upset("ads", t.client = "mobile" /\ ads[AdKey(t)] < RequiredAds)
        /\ UNCHANGED watched
    <3>1. UNCHANGED watched
      BY <1>3 DEF TransferCommit
    <3>. QED BY <1>3, <2>1, <3>1, CommitMakes
  <2>4. /\ DOMAIN transfers = 1..Len(transfers) /\ Len(transfers) \in Nat
        /\ DOMAIN transfers' = 1..(Len(transfers) + 1)
        /\ \A i \in DOMAIN transfers : transfers'[i] = transfers[i]
        /\ transfers'[Len(transfers) + 1] = RowOf(t)
    BY <1>3, <2>1, <2>3, NewTransfer
  <2>5. RowOf(t).client = t.client /\ AdKey(RowOf(t)) = AdKey(t)
    BY DEF RowOf, AdKey
  <2>6. SUFFICES ASSUME "ads" \notin upset', NEW a \in AdKeys
                 PROVE  (RequiredAds * Cardinality(OfPhone(a)) + ads[a] <= watched[a])'
    BY DEF AdsAreBacked
  <2>7. "ads" \notin upset /\ ~(t.client = "mobile" /\ ads[AdKey(t)] < RequiredAds)
    BY <2>3, <2>6 DEF Upset
  <2>8. PICK c, n, w : c = Cardinality(OfPhone(a)) /\ n = ads[a] /\ w = watched[a]
    OBVIOUS
  <2>9. c \in Nat /\ n \in Nat /\ w \in Nat /\ RequiredAds * c + n <= w
    <3>1. c \in Nat
      BY <2>8, PhoneTransfersAreFinite
    <3>2. n \in Nat /\ w \in Nat
      BY <2>8 DEF MoneyTypeOK
    <3>3. RequiredAds * c + n <= w
      BY <2>7, <2>8 DEF AdsAreBacked
    <3>. QED BY <3>1, <3>2, <3>3
  <2>10. \A i \in DOMAIN transfers' : i \in DOMAIN transfers \/ i = Len(transfers) + 1
    BY <2>4
  <2>11. DOMAIN transfers \subseteq DOMAIN transfers' /\ Len(transfers) + 1 \in DOMAIN transfers'
         /\ Len(transfers) + 1 \notin DOMAIN transfers
    BY <2>4
  <2>12. CASE t.client = "mobile" /\ AdKey(t) = a
    <3>1. OfPhone(a)' = OfPhone(a) \cup {Len(transfers) + 1}
      BY <2>4, <2>5, <2>10, <2>11, <2>12 DEF OfPhone
    <3>2. Len(transfers) + 1 \notin OfPhone(a)
      BY <2>11 DEF OfPhone
    <3>3. Cardinality(OfPhone(a)') = c + 1
      BY <2>8, <3>1, <3>2, PhoneTransfersAreFinite, FS_AddElement
    <3>4. ads'[a] = 0
      BY <2>3, <2>12 DEF AfterTransfer, MoneyTypeOK
    <3>5. n >= RequiredAds
      BY <2>7, <2>8, <2>9, <2>12
    <3>6. RequiredAds * (c + 1) + 0 <= w
      BY <2>9, <3>5, PaidFor
    <3>. QED BY <2>3, <2>8, <3>3, <3>4, <3>6
  <2>13. CASE ~(t.client = "mobile" /\ AdKey(t) = a)
    <3>1. OfPhone(a)' = OfPhone(a)
      BY <2>4, <2>5, <2>10, <2>11, <2>13 DEF OfPhone
    <3>2. ads'[a] = n
      <4>1. t.client \in {"mobile", "web"} /\ ads \in [AdKeys -> Nat]
        BY <2>2, TransferFields DEF MoneyTypeOK
      <4>. HIDE DEF AdKeys
      <4>. QED BY <2>3, <2>8, <2>13, <4>1 DEF AfterTransfer
    <3>. QED BY <2>3, <2>8, <2>9, <3>1, <3>2
  <2>. QED BY <2>12, <2>13
<1>. QED BY <1>1, <1>2, <1>3, OnlyCommits

-----------------------------------------------------------------------------
(* The theorems.                                                           *)

MoneyInv == DecisionInv /\ KeyMovesOnce /\ AdsAreBacked

LEMMA InitMoney == Init => MoneyInv
<1>. SUFFICES ASSUME Init PROVE MoneyInv
  OBVIOUS
<1>1. MoneyTypeOK
  BY InitMoneyTyped
<1>2. DecisionsKnow
  BY DEF Init, DecisionsKnow, Knows, Idle
<1>3. transfers = <<>> /\ requests = <<>> /\ DOMAIN transfers = {} /\ DOMAIN requests = {}
  BY DEF Init
<1>4. DecidedWasMoved /\ KeyMovesOnce
  BY <1>3 DEF DecidedWasMoved, KeyMovesOnce
<1>5. AdsAreBacked
  <2>1. \A a \in AdKeys : OfPhone(a) = {} /\ ads[a] = 0 /\ watched[a] = 0
    BY <1>3 DEF OfPhone, Init
  <2>2. Cardinality({}) = 0
    BY FS_EmptySet
  <2>3. RequiredAds * 0 + 0 <= 0
    OBVIOUS
  <2>. QED BY <2>1, <2>2, <2>3 DEF AdsAreBacked
<1>. QED BY <1>1, <1>2, <1>4, <1>5 DEF MoneyInv, DecisionInv

LEMMA MoneyStep == MoneyInv /\ [Next]_vars => MoneyInv'
<1>. SUFFICES ASSUME MoneyInv, [Next]_vars PROVE MoneyInv'
  OBVIOUS
<1>1. CASE Next
  BY <1>1, DecisionStep, KeysStep, AdsStep DEF MoneyInv, DecisionInv
<1>2. CASE UNCHANGED vars
  <2>1. UNCHANGED <<transferable, adRevenue, migrated, stellar, internal, transfers, requests,
                    credits, ads, watched, upset, calls, faults>> /\ UNCHANGED tasks
    BY <1>2 DEF vars, balances, rows, history
  <2>2. MoneyTypeOK'
    BY <2>1 DEF MoneyInv, DecisionInv, MoneyTypeOK
  <2>3. DecisionsKnow' /\ DecidedWasMoved' /\ KeyMovesOnce' /\ AdsAreBacked'
    BY <2>1 DEF MoneyInv, DecisionInv, DecisionsKnow, Knows, Moved, DecidedWasMoved, AboutToPay,
       At, KeyMovesOnce, AdsAreBacked, OfPhone
  <2>. QED BY <2>2, <2>3 DEF MoneyInv, DecisionInv
<1>. QED BY <1>1, <1>2

\* The states are of their type: no balance but the ad revenue's can be overdrawn.
THEOREM BalancesTyped == Spec => []MoneyTypeOK
<1>1. MoneyInv => MoneyTypeOK
  BY DEF MoneyInv, DecisionInv
<1>. QED BY InitMoney, MoneyStep, <1>1, PTL DEF Spec

\* What is recorded as rejected was refunded, and what is recorded as approved was paid;
\* a BTCY withdrawal is approved first, and then paid unless something dies.
THEOREM RecordsAreTrue == Spec => []DecidedWasMoved
<1>1. MoneyInv => DecidedWasMoved
  BY DEF MoneyInv, DecisionInv
<1>. QED BY InitMoney, MoneyStep, <1>1, PTL DEF Spec

\* No key moves Nuggets twice.
THEOREM KeysMoveOnce == Spec => []KeyMovesOnce
<1>1. MoneyInv => KeyMovesOnce
  BY DEF MoneyInv
<1>. QED BY InitMoney, MoneyStep, <1>1, PTL DEF Spec

\* Transfers from phones are paid for with ads, each with its own.
THEOREM AdsArePaid == Spec => []AdsPayOnce
<1>1. ASSUME MoneyInv PROVE AdsPayOnce
  <2>1. SUFFICES ASSUME "ads" \notin upset, NEW a \in AdKeys
                 PROVE  RequiredAds * Cardinality(OfPhone(a)) <= watched[a]
    BY DEF AdsPayOnce, OfPhone
  <2>2. PICK n : n = RequiredAds * Cardinality(OfPhone(a))
    OBVIOUS
  <2>3. n \in Nat
    BY <1>1, <2>2, PhoneTransfersAreFinite DEF MoneyInv, DecisionInv
  <2>4. ads[a] \in Nat /\ watched[a] \in Nat /\ n + ads[a] <= watched[a]
    BY <1>1, <2>1, <2>2 DEF MoneyInv, DecisionInv, MoneyTypeOK, AdsAreBacked
  <2>. QED BY <2>2, <2>3, <2>4
<1>. QED BY InitMoney, MoneyStep, <1>1, PTL DEF Spec
=============================================================================
