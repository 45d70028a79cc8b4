-------------------------- MODULE NuggetBooks_proofs --------------------------
(***************************************************************************)
(* The books of NuggetMoney balance, for any number of requests in flight, *)
(* users, keys and amounts.  The invariant says what the balances are      *)
(* while requests are in flight: what the rows say, corrected by the tasks *)
(* that are between a movement of money and its row.  Each step moves a    *)
(* balance and a count of rows or tasks alike.                             *)
(***************************************************************************)
EXTENDS NuggetMoney_proofs

USE MoneyAssumption

-----------------------------------------------------------------------------
(* What is in flight.                                                      *)

Creates(t, u) == t.op = "withdraw" /\ t.step = "create" /\ t.user = u
Pays(t, u) == t.op = "withdraw" /\ t.step \in {"pay", "push"} /\ t.user = u
Books(t, u) == t.op = "credit" /\ t.step = "row" /\ t.user = u
Decides(t, u, v) ==
  /\ t.op = "decide" /\ t.step = "status" /\ t.verdict = v
  /\ requests[t.request].user = u

Creating(u) == {h \in Handlers : Creates(tasks[h], u)}
Paying(u) == {h \in Handlers : Pays(tasks[h], u)}
Booking(u) == {h \in Handlers : Books(tasks[h], u)}
Deciding(u, v) == {h \in Handlers : Decides(tasks[h], u, v)}

\* A task that is between a movement of money and its row, or the other way around.
Midway(t) == \/ t.op = "withdraw" /\ t.step \in {"create", "pay", "push"}
             \/ t.op = "credit" /\ t.step = "row"
             \/ t.op = "decide" /\ t.step = "status"

\* What the rows say, with what is in flight: deducted and not yet on a row, restored or
\* paid with a row that does not say so yet, credited without a row, on a row and not paid.
Net(u) == Received(u) - Transferred(u, "mined")
Sent(u) == Transferred(u, "withdrawn")
Held(u) == Requested(u, Methods, {"Pending", "Approved"})
             + Cardinality(Creating(u)) - Cardinality(Deciding(u, "Rejected"))
Given(u) == Requested(u, {"USDT"}, {"Approved"}) + Cardinality(Deciding(u, "Approved"))
Shopped(u) == ShopCredits(u) + Cardinality(Booking(u))
PaidOut(u) == Requested(u, {"BTCY"}, {"Approved"}) - Cardinality(Paying(u))

Wallet(u) == IF internal[u] = <<>> THEN 0 ELSE internal[u][1]

OpenBooksOf(u) ==
  /\ transferable[u] = Start + Amount * Net(u)
  /\ stellar[u] = Start - Amount * Sent(u)
  /\ adRevenue[u] = Start - Amount * Held(u)
  /\ migrated[u] = Amount * Given(u)
  /\ Wallet(u) = Amount * Shopped(u) + (Amount - Fee) * PaidOut(u)

Undisturbed == upset \subseteq {"ads"}
OpenBooks == Undisturbed => \A u \in Users : OpenBooksOf(u)

\* Only a payout from here may pend, and a credit that looked for a wallet and found
\* one will find one.
PendingIsPaidHere ==
  \A r \in DOMAIN requests : requests[r].status = "Pending" => requests[r].method = "USDT"
WalletStays == \A h \in Handlers : At(h, "credit", "pay") => internal[tasks[h].user] # <<>>

-----------------------------------------------------------------------------
(* Counting.                                                               *)

One(b) == IF b THEN 1 ELSE 0

\* Sets that differ at x at most.
LEMMA DifferAt ==
  ASSUME NEW S, NEW T, NEW x, IsFiniteSet(S), IsFiniteSet(T), S \ {x} = T \ {x}
  PROVE  /\ Cardinality(S) \in Nat /\ Cardinality(T) \in Nat
         /\ Cardinality(T) = Cardinality(S) + One(x \in T) - One(x \in S)
<1>. DEFINE R == S \ {x}
<1>1. IsFiniteSet(R) /\ x \notin R
  BY FS_Subset
<1>2. Cardinality(R) \in Nat /\ Cardinality(R \cup {x}) = Cardinality(R) + 1
  BY <1>1, FS_CardinalityType, FS_AddElement
<1>3. Cardinality(S) = Cardinality(R) + One(x \in S)
  <2>1. CASE x \in S
    <3>1. S = R \cup {x}
      BY <2>1
    <3>. QED BY <1>2, <2>1, <3>1 DEF One
  <2>2. CASE x \notin S
    <3>1. S = R
      BY <2>2
    <3>. QED BY <1>2, <2>2, <3>1 DEF One
  <2>. QED BY <2>1, <2>2
<1>4. Cardinality(T) = Cardinality(R) + One(x \in T)
  <2>1. R = T \ {x}
    OBVIOUS
  <2>2. CASE x \in T
    <3>1. T = R \cup {x}
      BY <2>1, <2>2
    <3>. QED BY <1>2, <2>2, <3>1 DEF One
  <2>3. CASE x \notin T
    <3>1. T = R
      BY <2>1, <2>3
    <3>. QED BY <1>2, <2>3, <3>1 DEF One
  <2>. QED BY <2>2, <2>3
<1>. HIDE DEF R
<1>5. One(x \in S) \in {0, 1} /\ One(x \in T) \in {0, 1}
  BY DEF One
<1>. QED BY <1>2, <1>3, <1>4, <1>5

\* Handlers of which the task fits, before and after h goes on.
LEMMA HandlersDiffer ==
  ASSUME NEW h \in Handlers, NEW S, NEW T, NEW was \in BOOLEAN, NEW is \in BOOLEAN,
         S \subseteq Handlers, T \subseteq Handlers,
         \A g \in Handlers \ {h} : g \in S <=> g \in T,
         h \in S <=> was, h \in T <=> is
  PROVE  /\ Cardinality(S) \in Nat
         /\ Cardinality(T) = Cardinality(S) + One(is) - One(was)
<1>1. IsFiniteSet(S) /\ IsFiniteSet(T)
  BY FS_Subset
<1>2. S \ {h} = T \ {h}
  OBVIOUS
<1>3. One(h \in S) = One(was) /\ One(h \in T) = One(is)
  BY DEF One
<1>. QED BY <1>1, <1>2, <1>3, DifferAt

\* A task becomes another, and requests stay whose they are.
Becomes(h, old, new) ==
  /\ old = tasks[h] /\ tasks' = [tasks EXCEPT ![h] = new]
  /\ \A r \in DOMAIN requests : requests'[r].user = requests[r].user

\* What is in flight moves with it.
FlightMoves(old, new, u) ==
  /\ Cardinality(Creating(u))' = Cardinality(Creating(u)) + One(Creates(new, u)) - One(Creates(old, u))
  /\ Cardinality(Paying(u))' = Cardinality(Paying(u)) + One(Pays(new, u)) - One(Pays(old, u))
  /\ Cardinality(Booking(u))' = Cardinality(Booking(u)) + One(Books(new, u)) - One(Books(old, u))
  /\ \A v \in Verdicts :
       Cardinality(Deciding(u, v))' =
         Cardinality(Deciding(u, v)) + One(Decides(new, u, v)') - One(Decides(old, u, v))

LEMMA InFlightMoves ==
  ASSUME MoneyTypeOK, DecisionsKnow, NEW h \in Handlers, NEW old, NEW new, Becomes(h, old, new),
         NEW u \in Users
  PROVE  FlightMoves(old, new, u)
<1>1. /\ old = tasks[h] /\ tasks'[h] = new /\ \A g \in Handlers \ {h} : tasks'[g] = tasks[g]
      /\ \A r \in DOMAIN requests : requests'[r].user = requests[r].user
  BY DEF MoneyTypeOK, Becomes
<1>2. /\ Cardinality(Creating(u)) \in Nat
      /\ Cardinality(Creating(u))' = Cardinality(Creating(u)) + One(Creates(new, u)) - One(Creates(old, u))
  <2>1. \A g \in Handlers \ {h} : g \in Creating(u) <=> g \in Creating(u)'
    BY <1>1 DEF Creating, Creates
  <2>2. (h \in Creating(u) <=> Creates(old, u)) /\ (h \in Creating(u)' <=> Creates(new, u))
    BY <1>1 DEF Creating, Creates
  <2>3. Creating(u) \subseteq Handlers /\ Creating(u)' \subseteq Handlers
    BY DEF Creating
  <2>4. Creates(old, u) \in BOOLEAN /\ Creates(new, u) \in BOOLEAN
    BY DEF Creates
  <2>5. /\ Cardinality(Creating(u)) \in Nat
        /\ Cardinality(Creating(u)') = Cardinality(Creating(u)) + One(Creates(new, u)) - One(Creates(old, u))
    BY <2>1, <2>2, <2>3, <2>4, HandlersDiffer
  <2>. QED BY <2>5
<1>3. /\ Cardinality(Paying(u)) \in Nat
      /\ Cardinality(Paying(u))' = Cardinality(Paying(u)) + One(Pays(new, u)) - One(Pays(old, u))
  <2>1. \A g \in Handlers \ {h} : g \in Paying(u) <=> g \in Paying(u)'
    BY <1>1 DEF Paying, Pays
  <2>2. (h \in Paying(u) <=> Pays(old, u)) /\ (h \in Paying(u)' <=> Pays(new, u))
    BY <1>1 DEF Paying, Pays
  <2>3. Paying(u) \subseteq Handlers /\ Paying(u)' \subseteq Handlers
    BY DEF Paying
  <2>4. Pays(old, u) \in BOOLEAN /\ Pays(new, u) \in BOOLEAN
    BY DEF Pays
  <2>5. /\ Cardinality(Paying(u)) \in Nat
        /\ Cardinality(Paying(u)') = Cardinality(Paying(u)) + One(Pays(new, u)) - One(Pays(old, u))
    BY <2>1, <2>2, <2>3, <2>4, HandlersDiffer
  <2>. QED BY <2>5
<1>4. /\ Cardinality(Booking(u)) \in Nat
      /\ Cardinality(Booking(u))' = Cardinality(Booking(u)) + One(Books(new, u)) - One(Books(old, u))
  <2>1. \A g \in Handlers \ {h} : g \in Booking(u) <=> g \in Booking(u)'
    BY <1>1 DEF Booking, Books
  <2>2. (h \in Booking(u) <=> Books(old, u)) /\ (h \in Booking(u)' <=> Books(new, u))
    BY <1>1 DEF Booking, Books
  <2>3. Booking(u) \subseteq Handlers /\ Booking(u)' \subseteq Handlers
    BY DEF Booking
  <2>4. Books(old, u) \in BOOLEAN /\ Books(new, u) \in BOOLEAN
    BY DEF Books
  <2>5. /\ Cardinality(Booking(u)) \in Nat
        /\ Cardinality(Booking(u)') = Cardinality(Booking(u)) + One(Books(new, u)) - One(Books(old, u))
    BY <2>1, <2>2, <2>3, <2>4, HandlersDiffer
  <2>. QED BY <2>5
<1>5. ASSUME NEW v \in Verdicts
      PROVE  /\ Cardinality(Deciding(u, v)) \in Nat
             /\ Cardinality(Deciding(u, v))' =
                  Cardinality(Deciding(u, v)) + One(Decides(new, u, v)') - One(Decides(old, u, v))
  <2>1. ASSUME NEW g \in Handlers \ {h} PROVE g \in Deciding(u, v) <=> g \in Deciding(u, v)'
    <3>1. tasks[g].op = "decide" => tasks[g].request \in DOMAIN requests
      BY DEF DecisionsKnow, Knows
    <3>. QED BY <1>1, <3>1 DEF Deciding, Decides
  <2>2. (h \in Deciding(u, v) <=> Decides(old, u, v)) /\ (h \in Deciding(u, v)' <=> Decides(new, u, v)')
    BY <1>1 DEF Deciding, Decides
  <2>3. Deciding(u, v) \subseteq Handlers /\ Deciding(u, v)' \subseteq Handlers
    BY DEF Deciding
  <2>4. Decides(old, u, v) \in BOOLEAN /\ Decides(new, u, v)' \in BOOLEAN
    BY DEF Decides
  <2>5. /\ Cardinality(Deciding(u, v)) \in Nat
        /\ Cardinality(Deciding(u, v)') =
             Cardinality(Deciding(u, v)) + One(Decides(new, u, v)') - One(Decides(old, u, v))
    BY <2>1, <2>2, <2>3, <2>4, HandlersDiffer
  <2>. QED BY <2>5
<1>. QED BY <1>2, <1>3, <1>4, <1>5 DEF FlightMoves

\* Rows that fit: two sets of rows that differ in one at most.
OneRowApart(n, r, S, T) ==
  /\ S \subseteq 1..n /\ T \subseteq 1..n
  /\ \A i \in (1..n) \ {r} : i \in S <=> i \in T

LEMMA RowsDiffer ==
  ASSUME NEW n \in Nat, NEW r, NEW S, NEW T, OneRowApart(n, r, S, T)
  PROVE  /\ Cardinality(S) \in Nat
         /\ r \notin S /\ r \notin T => Cardinality(T) = Cardinality(S)
         /\ r \notin S /\ r \in T => Cardinality(T) = Cardinality(S) + 1
         /\ r \in S /\ r \notin T => Cardinality(T) = Cardinality(S) - 1
         /\ r \in S /\ r \in T => Cardinality(T) = Cardinality(S)
<1>1. IsFiniteSet(1..n)
  BY FS_Interval
<1>2. IsFiniteSet(S) /\ IsFiniteSet(T)
  BY <1>1, FS_Subset DEF OneRowApart
<1>3. S \ {r} = T \ {r}
  BY DEF OneRowApart
<1>4. /\ Cardinality(S) \in Nat
      /\ Cardinality(T) = Cardinality(S) + One(r \in T) - One(r \in S)
  BY <1>2, <1>3, DifferAt
<1>. QED BY <1>4 DEF One

LEMMA RowsAreCounted ==
  ASSUME MoneyTypeOK, NEW u
  PROVE  /\ Received(u) \in Nat /\ ShopCredits(u) \in Nat
         /\ \A s : Transferred(u, s) \in Nat
         /\ \A M, S : Requested(u, M, S) \in Nat
<1>1. ASSUME NEW n \in Nat, NEW S, S \subseteq 1..n PROVE Cardinality(S) \in Nat
  <2>1. IsFiniteSet(1..n)
    BY FS_Interval
  <2>2. IsFiniteSet(S)
    BY <1>1, <2>1, FS_Subset
  <2>. QED BY <2>2, FS_CardinalityType
<1>2. /\ DOMAIN transfers = 1..Len(transfers) /\ Len(transfers) \in Nat
      /\ DOMAIN requests = 1..Len(requests) /\ Len(requests) \in Nat
      /\ DOMAIN credits = 1..Len(credits) /\ Len(credits) \in Nat
  BY LenProperties DEF MoneyTypeOK
<1>3. Received(u) \in Nat
  <2>1. {i \in DOMAIN transfers : transfers[i].to = u} \subseteq 1..Len(transfers)
    BY <1>2
  <2>. QED BY <1>1, <1>2, <2>1 DEF Received
<1>4. ShopCredits(u) \in Nat
  <2>1. {i \in DOMAIN credits : credits[i].user = u} \subseteq 1..Len(credits)
    BY <1>2
  <2>. QED BY <1>1, <1>2, <2>1 DEF ShopCredits
<1>5. ASSUME NEW s PROVE Transferred(u, s) \in Nat
  <2>1. {i \in DOMAIN transfers : transfers[i].user = u /\ transfers[i].source = s}
          \subseteq 1..Len(transfers)
    BY <1>2
  <2>. QED BY <1>1, <1>2, <2>1 DEF Transferred
<1>6. ASSUME NEW M, NEW S PROVE Requested(u, M, S) \in Nat
  <2>1. {r \in DOMAIN requests : /\ requests[r].user = u
                                 /\ requests[r].method \in M
                                 /\ requests[r].status \in S} \subseteq 1..Len(requests)
    BY <1>2
  <2>. QED BY <1>1, <1>2, <2>1 DEF Requested
<1>. QED BY <1>3, <1>4, <1>5, <1>6

LEMMA WalletIsANumber ==
  ASSUME MoneyTypeOK, NEW u \in Users
  PROVE  /\ Wallet(u) \in Int /\ internal[u] \in Seq(Nat)
         /\ internal[u] # <<>> => 1 \in DOMAIN internal[u] /\ internal[u][1] \in Nat
<1>1. internal[u] \in Seq(Nat)
  BY DEF MoneyTypeOK
<1>2. ASSUME internal[u] # <<>> PROVE 1 \in DOMAIN internal[u] /\ internal[u][1] \in Nat
  <2>1. Len(internal[u]) \in Nat /\ Len(internal[u]) # 0 /\ DOMAIN internal[u] = 1..Len(internal[u])
    BY <1>1, <1>2, EmptySeq, LenProperties
  <2>2. 1 \in 1..Len(internal[u])
    BY <2>1
  <2>. QED BY <1>1, <2>1, <2>2, ElementOfSeq
<1>. QED BY <1>1, <1>2 DEF Wallet

\* A sum follows its count.
LEMMA Follows ==
  ASSUME NEW k \in Int, NEW c \in Int, NEW d \in Int
  PROVE  k * (c + d) = k * c + k * d /\ k * c \in Int /\ k * d \in Int
<1>1. k * c \in Int /\ k * d \in Int
  OBVIOUS
<1>2. k * (c + d) = k * c + k * d
  OBVIOUS
<1>. QED BY <1>1, <1>2

LEMMA FlightIsCounted ==
  ASSUME NEW u
  PROVE  /\ Cardinality(Creating(u)) \in Nat /\ Cardinality(Paying(u)) \in Nat
         /\ Cardinality(Booking(u)) \in Nat
         /\ \A v : Cardinality(Deciding(u, v)) \in Nat
<1>1. ASSUME NEW S, S \subseteq Handlers PROVE Cardinality(S) \in Nat
  BY <1>1, FS_Subset, FS_CardinalityType
<1>2. /\ Creating(u) \subseteq Handlers /\ Paying(u) \subseteq Handlers /\ Booking(u) \subseteq Handlers
      /\ \A v : Deciding(u, v) \subseteq Handlers
  BY DEF Creating, Paying, Booking, Deciding
<1>. QED BY <1>1, <1>2

LEMMA SumsAreNumbers ==
  ASSUME MoneyTypeOK, NEW u \in Users
  PROVE  /\ Net(u) \in Int /\ Sent(u) \in Int /\ Held(u) \in Int /\ Given(u) \in Int
         /\ Shopped(u) \in Int /\ PaidOut(u) \in Int
         /\ transferable[u] \in Int /\ stellar[u] \in Int /\ adRevenue[u] \in Int
         /\ migrated[u] \in Int /\ Wallet(u) \in Int
<1>1. Net(u) \in Int /\ Sent(u) \in Int
  BY RowsAreCounted DEF Net, Sent
<1>2. Held(u) \in Int /\ Given(u) \in Int
  <2>1. /\ Requested(u, Methods, {"Pending", "Approved"}) \in Nat
        /\ Requested(u, {"USDT"}, {"Approved"}) \in Nat
    BY RowsAreCounted
  <2>2. /\ Cardinality(Creating(u)) \in Nat /\ Cardinality(Deciding(u, "Rejected")) \in Nat
        /\ Cardinality(Deciding(u, "Approved")) \in Nat
    BY FlightIsCounted
  <2>. QED BY <2>1, <2>2 DEF Held, Given
<1>3. Shopped(u) \in Int /\ PaidOut(u) \in Int
  <2>1. ShopCredits(u) \in Nat /\ Requested(u, {"BTCY"}, {"Approved"}) \in Nat
    BY RowsAreCounted
  <2>2. Cardinality(Booking(u)) \in Nat /\ Cardinality(Paying(u)) \in Nat
    BY FlightIsCounted
  <2>. QED BY <2>1, <2>2 DEF Shopped, PaidOut
<1>4. transferable[u] \in Int /\ stellar[u] \in Int /\ adRevenue[u] \in Int /\ migrated[u] \in Int
  BY DEF MoneyTypeOK
<1>. QED BY <1>1, <1>2, <1>3, <1>4, WalletIsANumber

\* The balances of u move as what its rows and tasks say.
Moves(u, i, g, o, m, s, p) ==
  /\ Net(u)' = Net(u) + i /\ transferable'[u] = transferable[u] + Amount * i
  /\ Sent(u)' = Sent(u) + g /\ stellar'[u] = stellar[u] - Amount * g
  /\ Held(u)' = Held(u) + o /\ adRevenue'[u] = adRevenue[u] - Amount * o
  /\ Given(u)' = Given(u) + m /\ migrated'[u] = migrated[u] + Amount * m
  /\ Shopped(u)' = Shopped(u) + s /\ PaidOut(u)' = PaidOut(u) + p
  /\ Wallet(u)' = Wallet(u) + Amount * s + (Amount - Fee) * p

\* Books that balance go on to balance, if the balances move as the rows do.
LEMMA BooksMove ==
  ASSUME MoneyTypeOK, NEW u \in Users, OpenBooksOf(u),
         NEW i \in Int, NEW g \in Int, NEW o \in Int, NEW m \in Int, NEW s \in Int, NEW p \in Int,
         Moves(u, i, g, o, m, s, p)
  PROVE  OpenBooksOf(u)'
<1>0. /\ Net(u)' = Net(u) + i /\ transferable'[u] = transferable[u] + Amount * i
      /\ Sent(u)' = Sent(u) + g /\ stellar'[u] = stellar[u] - Amount * g
      /\ Held(u)' = Held(u) + o /\ adRevenue'[u] = adRevenue[u] - Amount * o
      /\ Given(u)' = Given(u) + m /\ migrated'[u] = migrated[u] + Amount * m
      /\ Shopped(u)' = Shopped(u) + s /\ PaidOut(u)' = PaidOut(u) + p
      /\ Wallet(u)' = Wallet(u) + Amount * s + (Amount - Fee) * p
  BY DEF Moves
<1>1. Amount \in Int /\ Amount - Fee \in Int /\ Start \in Int
  OBVIOUS
<1>2. /\ Net(u) \in Int /\ Sent(u) \in Int /\ Held(u) \in Int /\ Given(u) \in Int
      /\ Shopped(u) \in Int /\ PaidOut(u) \in Int
      /\ transferable[u] \in Int /\ stellar[u] \in Int /\ adRevenue[u] \in Int
      /\ migrated[u] \in Int /\ Wallet(u) \in Int
  BY SumsAreNumbers
<1>3. transferable'[u] = Start + Amount * Net(u)'
  <2>1. Amount * (Net(u) + i) = Amount * Net(u) + Amount * i
        /\ Amount * Net(u) \in Int /\ Amount * i \in Int
    BY <1>1, <1>2, Follows
  <2>2. transferable[u] = Start + Amount * Net(u)
    BY DEF OpenBooksOf
  <2>. QED BY <1>0, <1>1, <2>1, <2>2
<1>4. stellar'[u] = Start - Amount * Sent(u)'
  <2>1. Amount * (Sent(u) + g) = Amount * Sent(u) + Amount * g
        /\ Amount * Sent(u) \in Int /\ Amount * g \in Int
    BY <1>1, <1>2, Follows
  <2>2. stellar[u] = Start - Amount * Sent(u)
    BY DEF OpenBooksOf
  <2>. QED BY <1>0, <1>1, <2>1, <2>2
<1>5. adRevenue'[u] = Start - Amount * Held(u)'
  <2>1. Amount * (Held(u) + o) = Amount * Held(u) + Amount * o
        /\ Amount * Held(u) \in Int /\ Amount * o \in Int
    BY <1>1, <1>2, Follows
  <2>2. adRevenue[u] = Start - Amount * Held(u)
    BY DEF OpenBooksOf
  <2>. QED BY <1>0, <1>1, <2>1, <2>2
<1>6. migrated'[u] = Amount * Given(u)'
  <2>1. Amount * (Given(u) + m) = Amount * Given(u) + Amount * m
    BY <1>1, <1>2, Follows
  <2>2. migrated[u] = Amount * Given(u)
    BY DEF OpenBooksOf
  <2>. QED BY <1>0, <2>1, <2>2
<1>7. Wallet(u)' = Amount * Shopped(u)' + (Amount - Fee) * PaidOut(u)'
  <2>1. /\ Amount * (Shopped(u) + s) = Amount * Shopped(u) + Amount * s
        /\ Amount * Shopped(u) \in Int /\ Amount * s \in Int
    BY <1>1, <1>2, Follows
  <2>2. PICK k \in Int : k = Amount - Fee
    BY <1>1
  <2>3. k * (PaidOut(u) + p) = k * PaidOut(u) + k * p /\ k * PaidOut(u) \in Int /\ k * p \in Int
    BY <1>2, Follows
  <2>4. Wallet(u) = Amount * Shopped(u) + k * PaidOut(u)
    BY <2>2 DEF OpenBooksOf
  <2>5. Wallet(u)' = Wallet(u) + Amount * s + k * p
    BY <1>0, <2>2
  <2>6. Wallet(u)' = Amount * (Shopped(u) + s) + k * (PaidOut(u) + p)
    BY <2>1, <2>3, <2>4, <2>5
  <2>. QED BY <1>0, <2>2, <2>6
<1>. QED BY <1>3, <1>4, <1>5, <1>6, <1>7 DEF OpenBooksOf

-----------------------------------------------------------------------------
(* What moves with the rows, and what with the tasks.                      *)

\* Transfers and requests that are left alone.
LEMMA TransfersStand ==
  ASSUME NEW u, UNCHANGED transfers
  PROVE  Net(u)' = Net(u) /\ Sent(u)' = Sent(u)
  BY DEF Net, Sent, Received, Transferred

LEMMA RequestsStand ==
  ASSUME NEW u, UNCHANGED requests
  PROVE  \A M, S : Requested(u, M, S)' = Requested(u, M, S)
  BY DEF Requested

\* What a step makes of what is held, given, shopped and paid out.
TasksMake(old, new, u) ==
  /\ Held(u)' = Requested(u, Methods, {"Pending", "Approved"})'
                  + (Cardinality(Creating(u)) + One(Creates(new, u)) - One(Creates(old, u)))
                  - (Cardinality(Deciding(u, "Rejected"))
                       + One(Decides(new, u, "Rejected")') - One(Decides(old, u, "Rejected")))
  /\ Given(u)' = Requested(u, {"USDT"}, {"Approved"})'
                   + (Cardinality(Deciding(u, "Approved"))
                        + One(Decides(new, u, "Approved")') - One(Decides(old, u, "Approved")))
  /\ Shopped(u)' = ShopCredits(u)' + (Cardinality(Booking(u)) + One(Books(new, u)) - One(Books(old, u)))
  /\ PaidOut(u)' = Requested(u, {"BTCY"}, {"Approved"})'
                     - (Cardinality(Paying(u)) + One(Pays(new, u)) - One(Pays(old, u)))

LEMMA TasksMove ==
  ASSUME MoneyTypeOK, DecisionsKnow, NEW h \in Handlers, NEW old, NEW new, Becomes(h, old, new),
         NEW u \in Users
  PROVE  TasksMake(old, new, u)
<1>1. {"Approved", "Rejected"} = Verdicts
  BY DEF Verdicts
<1>2. /\ Cardinality(Creating(u))' = Cardinality(Creating(u)) + One(Creates(new, u)) - One(Creates(old, u))
      /\ Cardinality(Paying(u))' = Cardinality(Paying(u)) + One(Pays(new, u)) - One(Pays(old, u))
      /\ Cardinality(Booking(u))' = Cardinality(Booking(u)) + One(Books(new, u)) - One(Books(old, u))
      /\ \A v \in Verdicts :
           Cardinality(Deciding(u, v))' =
             Cardinality(Deciding(u, v)) + One(Decides(new, u, v)') - One(Decides(old, u, v))
  BY InFlightMoves DEF FlightMoves
<1>3. \A v \in {"Approved", "Rejected"} :
        Cardinality(Deciding(u, v))' =
          Cardinality(Deciding(u, v)) + One(Decides(new, u, v)') - One(Decides(old, u, v))
  BY <1>1, <1>2
<1>. QED BY <1>2, <1>3 DEF Held, Given, Shopped, PaidOut, TasksMake

\* A task that was not midway, and is not.
LEMMA TasksStand ==
  ASSUME MoneyTypeOK, DecisionsKnow, NEW h \in Handlers, NEW new,
         tasks' = [tasks EXCEPT ![h] = new], ~Midway(tasks[h]), ~Midway(new),
         UNCHANGED <<requests, credits>>, NEW u \in Users
  PROVE  /\ Held(u)' = Held(u) /\ Given(u)' = Given(u) /\ Shopped(u)' = Shopped(u)
         /\ PaidOut(u)' = PaidOut(u)
<1>0. PICK old : old = tasks[h]
  OBVIOUS
<1>1. UNCHANGED <<requests, credits>>
  OBVIOUS
<1>2. /\ ~Creates(old, u) /\ ~Creates(new, u) /\ ~Pays(old, u) /\ ~Pays(new, u)
      /\ ~Books(old, u) /\ ~Books(new, u)
      /\ \A v : ~Decides(old, u, v) /\ ~Decides(new, u, v)'
  BY <1>0 DEF Midway, Creates, Pays, Books, Decides
<1>3. /\ Held(u)' = Requested(u, Methods, {"Pending", "Approved"})
                      + Cardinality(Creating(u)) - Cardinality(Deciding(u, "Rejected"))
      /\ Given(u)' = Requested(u, {"USDT"}, {"Approved"}) + Cardinality(Deciding(u, "Approved"))
      /\ Shopped(u)' = ShopCredits(u) + Cardinality(Booking(u))
      /\ PaidOut(u)' = Requested(u, {"BTCY"}, {"Approved"}) - Cardinality(Paying(u))
  <2>1. /\ Held(u)' = Requested(u, Methods, {"Pending", "Approved"})'
                        + (Cardinality(Creating(u)) + One(Creates(new, u)) - One(Creates(old, u)))
                        - (Cardinality(Deciding(u, "Rejected"))
                             + One(Decides(new, u, "Rejected")') - One(Decides(old, u, "Rejected")))
        /\ Given(u)' = Requested(u, {"USDT"}, {"Approved"})'
                         + (Cardinality(Deciding(u, "Approved"))
                              + One(Decides(new, u, "Approved")') - One(Decides(old, u, "Approved")))
        /\ Shopped(u)' = ShopCredits(u)' + (Cardinality(Booking(u)) + One(Books(new, u)) - One(Books(old, u)))
        /\ PaidOut(u)' = Requested(u, {"BTCY"}, {"Approved"})'
                           - (Cardinality(Paying(u)) + One(Pays(new, u)) - One(Pays(old, u)))
    <3>1. Becomes(h, old, new)
      BY <1>0, <1>1 DEF Becomes
    <3>. QED BY <3>1, TasksMove DEF TasksMake
  <2>2. /\ One(Creates(new, u)) = 0 /\ One(Creates(old, u)) = 0
        /\ One(Pays(new, u)) = 0 /\ One(Pays(old, u)) = 0
        /\ One(Books(new, u)) = 0 /\ One(Books(old, u)) = 0
        /\ One(Decides(new, u, "Approved")') = 0 /\ One(Decides(old, u, "Approved")) = 0
        /\ One(Decides(new, u, "Rejected")') = 0 /\ One(Decides(old, u, "Rejected")) = 0
    BY <1>2 DEF One
  <2>3. /\ \A M, S : Requested(u, M, S)' = Requested(u, M, S)
        /\ ShopCredits(u)' = ShopCredits(u)
    BY <1>1, RequestsStand DEF ShopCredits
  <2>4. /\ Cardinality(Creating(u)) \in Nat /\ Cardinality(Paying(u)) \in Nat
        /\ Cardinality(Booking(u)) \in Nat
        /\ Cardinality(Deciding(u, "Rejected")) \in Nat /\ Cardinality(Deciding(u, "Approved")) \in Nat
    BY FlightIsCounted
  <2>. QED BY <2>1, <2>2, <2>3, <2>4
<1>. QED BY <1>3 DEF Held, Given, Shopped, PaidOut

LEMMA QuietBooks ==
  ASSUME MoneyTypeOK, DecisionsKnow, NEW h \in Handlers, NEW new,
         tasks' = [tasks EXCEPT ![h] = new], ~Midway(tasks[h]), ~Midway(new),
         UNCHANGED <<balances, rows>>, NEW u \in Users, OpenBooksOf(u)
  PROVE  OpenBooksOf(u)'
<1>1. UNCHANGED <<transferable, adRevenue, migrated, stellar, internal, transfers, requests, credits>>
  BY DEF balances, rows
<1>2. /\ Held(u)' = Held(u) /\ Given(u)' = Given(u) /\ Shopped(u)' = Shopped(u)
      /\ PaidOut(u)' = PaidOut(u)
  BY <1>1, TasksStand
<1>3. Wallet(u)' = Wallet(u) /\ Net(u)' = Net(u) /\ Sent(u)' = Sent(u)
  BY <1>1, TransfersStand DEF Wallet
<1>. QED BY <1>1, <1>2, <1>3 DEF OpenBooksOf

-----------------------------------------------------------------------------
(* The steps.                                                              *)

LEMMA GoesOn ==
  ASSUME MoneyTypeOK, NEW h \in Handlers, NEW step, GoTo(h, step),
         tasks[h].op \in {"transfer", "withdraw", "decide", "credit"}
  PROVE  \E new : /\ tasks' = [tasks EXCEPT ![h] = new]
                  /\ new.op = tasks[h].op /\ new.step = step
                  /\ new.op \in {"withdraw", "credit"} => new.user = tasks[h].user
                  /\ new.op = "decide" => /\ new.request = tasks[h].request
                                          /\ new.verdict = tasks[h].verdict
<1>1. PICK new : new = [tasks[h] EXCEPT !.step = step]
  OBVIOUS
<1>2. tasks' = [tasks EXCEPT ![h] = new]
  BY <1>1 DEF GoTo
<1>3. /\ tasks[h] \in Transfers => new.op = tasks[h].op /\ new.step = step
      /\ tasks[h] \in Withdrawals => /\ new.op = tasks[h].op /\ new.step = step
                                     /\ new.user = tasks[h].user
      /\ tasks[h] \in Credits => /\ new.op = tasks[h].op /\ new.step = step
                                 /\ new.user = tasks[h].user
      /\ tasks[h] \in Decisions => /\ new.op = tasks[h].op /\ new.step = step
                                   /\ new.request = tasks[h].request
                                   /\ new.verdict = tasks[h].verdict
  BY <1>1 DEF Transfers, Withdrawals, Credits, Decisions
<1>. QED BY <1>2, <1>3, TaskKinds

LEMMA QuietSteps ==
  ASSUME MoneyTypeOK, NEW h \in Handlers,
         \/ Transfer(h) \/ TransferLookup(h) \/ TransferAds(h) \/ Withdraw(h) \/ WithdrawCheck(h)
         \/ Decide(h) \/ DecideFind(h) \/ Credit(h) \/ CreditLookup(h) \/ CreditWallet(h)
  PROVE  /\ UNCHANGED <<balances, rows>> /\ ~Midway(tasks[h])
         /\ \E new : tasks' = [tasks EXCEPT ![h] = new] /\ ~Midway(new)
<1>1. ASSUME NEW new, Begin(h, new), new.step \in {"lookup", "check", "find"}
      PROVE  /\ UNCHANGED <<balances, rows>> /\ ~Midway(tasks[h])
             /\ tasks' = [tasks EXCEPT ![h] = new] /\ ~Midway(new)
  BY <1>1 DEF Begin, Midway, Idle
<1>2. CASE Transfer(h)
  <2>1. PICK u \in Owners, v \in Users, s \in Sources, k \in Keys \cup {NoKey},
             c \in {"mobile", "web"} : Transfer(h)!(u, v, s, k, c)
    BY <1>2, Zenon DEF Transfer
  <2>. QED BY <1>1, <2>1
<1>3. CASE Withdraw(h)
  <2>1. PICK u \in Users, m \in Methods : Withdraw(h)!(u, m)
    BY <1>3, Zenon DEF Withdraw
  <2>. QED BY <1>1, <2>1
<1>4. CASE Decide(h)
  <2>1. PICK r \in DOMAIN requests, v \in Verdicts : Decide(h)!(r, v)
    BY <1>4, Zenon DEF Decide
  <2>. QED BY <1>1, <2>1
<1>5. CASE Credit(h)
  <2>1. PICK u \in Users, k \in Keys : Credit(h)!(u, k)
    BY <1>5, Zenon DEF Credit
  <2>. QED BY <1>1, <2>1
<1>6. CASE \/ TransferLookup(h) \/ TransferAds(h) \/ WithdrawCheck(h) \/ DecideFind(h)
           \/ CreditLookup(h) \/ CreditWallet(h)
  <2>1. UNCHANGED <<balances, rows>>
    BY <1>6 DEF TransferLookup, TransferAds, WithdrawCheck, DecideFind, CreditLookup, CreditWallet
  <2>2. /\ tasks[h].op \in {"transfer", "withdraw", "decide", "credit"}
        /\ \/ Return(h)
           \/ tasks[h].op = "transfer" /\ (GoTo(h, "ads") \/ GoTo(h, "commit"))
           \/ tasks[h].op = "withdraw" /\ GoTo(h, "deduct")
           \/ tasks[h].op = "decide" /\ GoTo(h, "money")
           \/ tasks[h].op = "credit" /\ (GoTo(h, "wallet") \/ GoTo(h, "push") \/ GoTo(h, "pay"))
    BY <1>6 DEF TransferLookup, TransferAds, WithdrawCheck, DecideFind, CreditLookup, CreditWallet,
       At, FirstWrite
  <2>3. ~Midway(tasks[h])
    BY <1>6 DEF TransferLookup, TransferAds, WithdrawCheck, DecideFind, CreditLookup, CreditWallet,
       At, Midway
  <2>4. CASE Return(h)
    <3>1. ~Midway(Idle)
      BY DEF Midway, Idle
    <3>. QED BY <2>1, <2>3, <2>4, <3>1 DEF Return
  <2>5. CASE ~Return(h)
    <3>1. PICK step : /\ GoTo(h, step)
                      /\ \/ tasks[h].op = "transfer"
                         \/ tasks[h].op = "withdraw" /\ step = "deduct"
                         \/ tasks[h].op = "decide" /\ step = "money"
                         \/ tasks[h].op = "credit" /\ step \in {"wallet", "push", "pay"}
      BY <2>2, <2>5
    <3>2. PICK new : /\ tasks' = [tasks EXCEPT ![h] = new]
                     /\ new.op = tasks[h].op /\ new.step = step
      BY <2>2, <3>1, GoesOn
    <3>3. ~Midway(new)
      BY <3>1, <3>2 DEF Midway
    <3>. QED BY <2>1, <2>3, <3>2, <3>3
  <2>. QED BY <2>4, <2>5
<1>. QED BY <1>2, <1>3, <1>4, <1>5, <1>6

\* A transfer: who sends has less and who receives more.
LEMMA CommitBalances ==
  ASSUME MoneyTypeOK, DecisionsKnow, NEW h \in Handlers, TransferCommit(h),
         NEW u \in Users, OpenBooksOf(u)
  PROVE  OpenBooksOf(u)'
<1>1. PICK t : t = tasks[h]
  OBVIOUS
<1>2. /\ t \in Transfers /\ t.user \in Users /\ t.to \in Users /\ t.source \in Sources
      /\ ~Midway(t)
  BY <1>1, TaskKinds, TransferFields DEF TransferCommit, At, Midway
<1>3. /\ tasks' = [tasks EXCEPT ![h] = Idle]
      /\ UNCHANGED <<adRevenue, migrated, internal, requests, credits>>
  BY DEF TransferCommit, Return
<1>4. ~Midway(Idle)
  BY DEF Midway, Idle
<1>5. /\ Held(u)' = Held(u) /\ Given(u)' = Given(u) /\ Shopped(u)' = Shopped(u)
      /\ PaidOut(u)' = PaidOut(u) /\ Wallet(u)' = Wallet(u)
  BY <1>1, <1>2, <1>3, <1>4, TasksStand DEF Wallet
<1>6. CASE UNCHANGED <<transferable, stellar, transfers>>
  BY <1>3, <1>5, <1>6, TransfersStand DEF OpenBooksOf
<1>7. CASE /\ \/ /\ t.source = "mined"
                 /\ transferable' = Add(Add(transferable, t.user, -Amount), t.to, Amount)
                 /\ UNCHANGED stellar
              \/ /\ t.source # "mined"
                 /\ stellar' = Add(stellar, t.user, -Amount)
                 /\ transferable' = Add(transferable, t.to, Amount)
           /\ transfers' = Append(transfers, RowOf(t))
  <2>1. /\ DOMAIN transfers = 1..Len(transfers) /\ Len(transfers) \in Nat
        /\ DOMAIN transfers' = 1..(Len(transfers) + 1)
        /\ \A i \in DOMAIN transfers : transfers'[i] = transfers[i]
        /\ transfers'[Len(transfers) + 1] = RowOf(t)
    BY <1>1, <1>7, NewTransfer
  <2>2. RowOf(t).user = t.user /\ RowOf(t).to = t.to /\ RowOf(t).source = t.source
    BY DEF RowOf
  <2>3. PICK n \in Nat : n = Len(transfers) + 1
    BY <2>1
  <2>4. /\ DOMAIN transfers \subseteq 1..n /\ DOMAIN transfers' = 1..n /\ n \in 1..n
        /\ n \notin DOMAIN transfers
        /\ \A i \in (1..n) \ {n} : i \in DOMAIN transfers /\ transfers'[i] = transfers[i]
        /\ transfers'[n] = RowOf(t)
    BY <2>1, <2>3
  <2>5. Received(u) \in Nat /\ Received(u)' = Received(u) + One(t.to = u)
    <3>1. PICK S, T : /\ S = {i \in DOMAIN transfers : transfers[i].to = u}
                      /\ T = {i \in DOMAIN transfers' : transfers'[i].to = u}
      OBVIOUS
    <3>2. /\ OneRowApart(n, n, S, T)
          /\ (n \in S <=> FALSE) /\ (n \in T <=> t.to = u)
      BY <2>2, <2>4, <3>1 DEF OneRowApart
    <3>3. /\ Cardinality(S) \in Nat
          /\ n \notin T => Cardinality(T) = Cardinality(S)
          /\ n \in T => Cardinality(T) = Cardinality(S) + 1
      BY <3>2, RowsDiffer
    <3>. QED BY <3>1, <3>2, <3>3 DEF Received, One
  <2>6. ASSUME NEW s
        PROVE  /\ Transferred(u, s) \in Nat
               /\ Transferred(u, s)' = Transferred(u, s) + One(t.user = u /\ t.source = s)
    <3>1. PICK S, T : /\ S = {i \in DOMAIN transfers : transfers[i].user = u /\ transfers[i].source = s}
                      /\ T = {i \in DOMAIN transfers' : transfers'[i].user = u /\ transfers'[i].source = s}
      OBVIOUS
    <3>2. /\ OneRowApart(n, n, S, T)
          /\ (n \in S <=> FALSE) /\ (n \in T <=> (t.user = u /\ t.source = s))
      BY <2>2, <2>4, <3>1 DEF OneRowApart
    <3>3. /\ Cardinality(S) \in Nat
          /\ n \notin T => Cardinality(T) = Cardinality(S)
          /\ n \in T => Cardinality(T) = Cardinality(S) + 1
      BY <3>2, RowsDiffer
    <3>. QED BY <3>1, <3>2, <3>3 DEF Transferred, One
  <2>7. PICK to, mined, sent : /\ to = One(t.to = u)
                               /\ mined = One(t.user = u /\ t.source = "mined")
                               /\ sent = One(t.user = u /\ t.source = "withdrawn")
    OBVIOUS
  <2>8. to \in {0, 1} /\ mined \in {0, 1} /\ sent \in {0, 1}
    BY <2>7 DEF One
  <2>9. Net(u)' = Net(u) + (to - mined) /\ Sent(u)' = Sent(u) + sent
    <3>1. /\ Received(u) \in Nat /\ Received(u)' = Received(u) + to
          /\ Transferred(u, "mined") \in Nat
          /\ Transferred(u, "mined")' = Transferred(u, "mined") + mined
          /\ Transferred(u, "withdrawn")' = Transferred(u, "withdrawn") + sent
      BY <2>5, <2>6, <2>7
    <3>. QED BY <2>8, <3>1 DEF Net, Sent
  <2>10. /\ transferable'[u] = transferable[u] + Amount * (to - mined)
         /\ stellar'[u] = stellar[u] - Amount * sent
    <3>1. /\ transferable \in [Users -> Nat] /\ stellar \in [Users -> Nat] /\ Amount \in Nat
          /\ transferable[u] \in Nat /\ stellar[u] \in Nat
      BY DEF MoneyTypeOK
    <3>2. CASE t.source = "mined"
      <4>1. UNCHANGED stellar /\ transferable' = Add(Add(transferable, t.user, -Amount), t.to, Amount)
        BY <1>7, <3>2
      <4>2. sent = 0 /\ mined = One(t.user = u)
        BY <2>7, <3>2 DEF One
      <4>3. PICK b : b = [transferable EXCEPT ![t.user] = @ + (-Amount)]
        OBVIOUS
      <4>4. b \in [Users -> Int] /\ b[u] = transferable[u] - (IF t.user = u THEN Amount ELSE 0)
        BY <1>2, <3>1, <4>3
      <4>5. transferable' = [b EXCEPT ![t.to] = @ + Amount]
        BY <4>1, <4>3 DEF Add
      <4>6. transferable'[u] = b[u] + (IF t.to = u THEN Amount ELSE 0)
        BY <1>2, <3>1, <4>4, <4>5
      <4>. QED BY <2>7, <3>1, <4>1, <4>2, <4>4, <4>6 DEF One
    <3>3. CASE t.source # "mined"
      <4>1. t.source = "withdrawn"
        BY <1>2, <3>3 DEF Sources
      <4>2. /\ stellar' = [stellar EXCEPT ![t.user] = @ + (-Amount)]
            /\ transferable' = [transferable EXCEPT ![t.to] = @ + Amount]
        BY <1>7, <3>3 DEF Add
      <4>3. mined = 0 /\ sent = One(t.user = u)
        BY <2>7, <3>3, <4>1 DEF One
      <4>4. /\ stellar'[u] = stellar[u] - (IF t.user = u THEN Amount ELSE 0)
            /\ transferable'[u] = transferable[u] + (IF t.to = u THEN Amount ELSE 0)
        BY <1>2, <3>1, <4>2
      <4>. QED BY <2>7, <3>1, <4>3, <4>4 DEF One
    <3>. QED BY <3>2, <3>3
  <2>11. Moves(u, to - mined, sent, 0, 0, 0, 0)
    BY <1>3, <1>5, <2>9, <2>10, SumsAreNumbers DEF Moves
  <2>12. to - mined \in Int /\ sent \in Int /\ 0 \in Int
    BY <2>8
  <2>. QED BY <2>11, <2>12, BooksMove
<1>. QED BY <1>1, <1>6, <1>7, CommitMakes

LEMMA CountsAreNumbers ==
  ASSUME MoneyTypeOK, NEW u
  PROVE  /\ Requested(u, Methods, {"Pending", "Approved"}) \in Nat
         /\ Requested(u, {"USDT"}, {"Approved"}) \in Nat
         /\ Requested(u, {"BTCY"}, {"Approved"}) \in Nat /\ ShopCredits(u) \in Nat
         /\ Cardinality(Creating(u)) \in Nat /\ Cardinality(Paying(u)) \in Nat
         /\ Cardinality(Booking(u)) \in Nat
         /\ Cardinality(Deciding(u, "Rejected")) \in Nat
         /\ Cardinality(Deciding(u, "Approved")) \in Nat
  BY RowsAreCounted, FlightIsCounted

LEMMA CountsStand ==
  ASSUME NEW u, UNCHANGED requests
  PROVE  /\ Requested(u, Methods, {"Pending", "Approved"})' = Requested(u, Methods, {"Pending", "Approved"})
         /\ Requested(u, {"USDT"}, {"Approved"})' = Requested(u, {"USDT"}, {"Approved"})
         /\ Requested(u, {"BTCY"}, {"Approved"})' = Requested(u, {"BTCY"}, {"Approved"})
  BY RequestsStand

\* A deduction is held, with its row to come.
LEMMA DeductBalances ==
  ASSUME MoneyTypeOK, DecisionsKnow, NEW h \in Handlers, WithdrawDeduct(h),
         NEW u \in Users, OpenBooksOf(u)
  PROVE  OpenBooksOf(u)'
<1>1. PICK old, w : old = tasks[h] /\ w = old.user
  OBVIOUS
<1>2. /\ old.op = "withdraw" /\ old.step = "deduct" /\ w \in Users
      /\ adRevenue' = [adRevenue EXCEPT ![w] = @ + (-Amount)] /\ GoTo(h, "create")
      /\ UNCHANGED <<transferable, migrated, stellar, internal, transfers, requests, credits>>
  BY <1>1, WithdrawalFields DEF WithdrawDeduct, At, Add, rows
<1>3. PICK new : /\ tasks' = [tasks EXCEPT ![h] = new]
                 /\ new.op = "withdraw" /\ new.step = "create" /\ new.user = w
  BY <1>1, <1>2, GoesOn
<1>4. Becomes(h, old, new)
  BY <1>1, <1>2, <1>3 DEF Becomes
<1>5. /\ \A v : ~Decides(old, u, v) /\ ~Decides(new, u, v)'
      /\ ~Books(old, u) /\ ~Books(new, u) /\ ~Pays(old, u) /\ ~Pays(new, u) /\ ~Creates(old, u)
      /\ Creates(new, u) <=> w = u
  BY <1>2, <1>3 DEF Decides, Books, Pays, Creates
<1>6. PICK n : n = One(w = u)
  OBVIOUS
<1>7. /\ n \in {0, 1} /\ One(Creates(new, u)) = n /\ One(Creates(old, u)) = 0
      /\ One(Books(old, u)) = 0 /\ One(Books(new, u)) = 0
      /\ One(Pays(old, u)) = 0 /\ One(Pays(new, u)) = 0
      /\ One(Decides(new, u, "Approved")') = 0 /\ One(Decides(old, u, "Approved")) = 0
      /\ One(Decides(new, u, "Rejected")') = 0 /\ One(Decides(old, u, "Rejected")) = 0
  BY <1>5, <1>6 DEF One
<1>8. TasksMake(old, new, u) /\ ShopCredits(u)' = ShopCredits(u)
  BY <1>2, <1>4, TasksMove DEF ShopCredits
<1>9. /\ Held(u)' = Held(u) + n /\ Given(u)' = Given(u)
      /\ Shopped(u)' = Shopped(u) /\ PaidOut(u)' = PaidOut(u)
  BY <1>2, <1>7, <1>8, CountsAreNumbers, CountsStand DEF TasksMake, Held, Given, Shopped, PaidOut
<1>10. Net(u)' = Net(u) /\ Sent(u)' = Sent(u) /\ Wallet(u)' = Wallet(u)
  BY <1>2, TransfersStand DEF Wallet
<1>11. adRevenue'[u] = adRevenue[u] - Amount * n
  <2>1. adRevenue \in [Users -> Int] /\ Amount \in Nat
    BY DEF MoneyTypeOK
  <2>2. CASE w = u
    BY <1>2, <1>6, <2>1, <2>2 DEF One
  <2>3. CASE w # u
    BY <1>2, <1>6, <2>1, <2>3 DEF One
  <2>. QED BY <2>2, <2>3
<1>12. Moves(u, 0, 0, n, 0, 0, 0)
  BY <1>2, <1>9, <1>10, <1>11, SumsAreNumbers DEF Moves
<1>13. n \in Int /\ 0 \in Int
  BY <1>7
<1>. QED BY <1>12, <1>13, BooksMove

\* Rows that fit.
Fits(row, u, M, S) == row.user = u /\ row.method \in M /\ row.status \in S

LEMMA RequestAdded ==
  ASSUME MoneyTypeOK, NEW row \in Requests, requests' = Append(requests, row),
         NEW u, NEW M, NEW S
  PROVE  /\ ~Fits(row, u, M, S) => Requested(u, M, S)' = Requested(u, M, S)
         /\ Fits(row, u, M, S) => Requested(u, M, S)' = Requested(u, M, S) + 1
<1>1. requests \in Seq(Requests)
  BY DEF MoneyTypeOK
<1>2. /\ requests' \in Seq(Requests) /\ Len(requests') = Len(requests) + 1
      /\ \A i \in 1..Len(requests) : requests'[i] = requests[i]
      /\ requests'[Len(requests) + 1] = row
  BY <1>1, AppendProperties
<1>3. /\ DOMAIN requests = 1..Len(requests) /\ DOMAIN requests' = 1..(Len(requests) + 1)
      /\ Len(requests) \in Nat
  BY <1>1, <1>2, LenProperties
<1>4. PICK n \in Nat : n = Len(requests) + 1
  BY <1>3
<1>5. /\ DOMAIN requests \subseteq 1..n /\ DOMAIN requests' = 1..n /\ n \in 1..n
      /\ n \notin DOMAIN requests /\ requests'[n] = row
      /\ \A i \in (1..n) \ {n} : i \in DOMAIN requests /\ requests'[i] = requests[i]
  BY <1>2, <1>3, <1>4
<1>6. PICK F, G : /\ F = {r \in DOMAIN requests : Fits(requests[r], u, M, S)}
                  /\ G = {r \in DOMAIN requests' : Fits(requests'[r], u, M, S)}
  OBVIOUS
<1>7. OneRowApart(n, n, F, G) /\ n \notin F /\ (n \in G <=> Fits(row, u, M, S))
  <2>. HIDE DEF Fits
  <2>. QED BY <1>5, <1>6 DEF OneRowApart
<1>8. Requested(u, M, S) = Cardinality(F) /\ Requested(u, M, S)' = Cardinality(G)
  BY <1>6 DEF Requested, Fits
<1>9. /\ n \notin G => Cardinality(G) = Cardinality(F)
      /\ n \in G => Cardinality(G) = Cardinality(F) + 1
  BY <1>7, RowsDiffer
<1>. QED BY <1>7, <1>8, <1>9

RowBecomes(r, row) == r \in DOMAIN requests /\ requests' = [requests EXCEPT ![r] = row]

LEMMA RequestChanged ==
  ASSUME MoneyTypeOK, NEW r, NEW row, RowBecomes(r, row), NEW u, NEW M, NEW S
  PROVE  /\ (Fits(requests[r], u, M, S) <=> Fits(row, u, M, S))
             => Requested(u, M, S)' = Requested(u, M, S)
         /\ ~Fits(requests[r], u, M, S) /\ Fits(row, u, M, S)
             => Requested(u, M, S)' = Requested(u, M, S) + 1
         /\ Fits(requests[r], u, M, S) /\ ~Fits(row, u, M, S)
             => Requested(u, M, S)' = Requested(u, M, S) - 1
<1>1. PICK n \in Nat : n = Len(requests) /\ DOMAIN requests = 1..n
  BY LenProperties DEF MoneyTypeOK
<1>2. /\ DOMAIN requests' = 1..n /\ requests'[r] = row /\ r \in 1..n
      /\ \A i \in (1..n) \ {r} : requests'[i] = requests[i]
  BY <1>1 DEF RowBecomes
<1>3. PICK F, G : /\ F = {i \in DOMAIN requests : Fits(requests[i], u, M, S)}
                  /\ G = {i \in DOMAIN requests' : Fits(requests'[i], u, M, S)}
  OBVIOUS
<1>4. /\ OneRowApart(n, r, F, G)
      /\ (r \in F <=> Fits(requests[r], u, M, S)) /\ (r \in G <=> Fits(row, u, M, S))
  BY <1>1, <1>2, <1>3 DEF OneRowApart
<1>5. Requested(u, M, S) = Cardinality(F) /\ Requested(u, M, S)' = Cardinality(G)
  BY <1>3 DEF Requested, Fits
<1>. QED BY <1>4, <1>5, RowsDiffer

\* A payment changes none of the counts.
LEMMA PaymentCounts ==
  ASSUME MoneyTypeOK, NEW r, Paid(r) \/ UNCHANGED requests
  PROVE  /\ \A u, M, S : Requested(u, M, S)' = Requested(u, M, S)
         /\ \A q \in DOMAIN requests : requests'[q].user = requests[q].user
<1>1. requests \in Seq(Requests)
  BY DEF MoneyTypeOK
<1>2. /\ DOMAIN requests' = DOMAIN requests
      /\ \A q \in DOMAIN requests : /\ requests'[q].user = requests[q].user
                                    /\ requests'[q].method = requests[q].method
                                    /\ requests'[q].status = requests[q].status
  <2>1. CASE Paid(r)
    <3>1. /\ DOMAIN requests' = DOMAIN requests
          /\ \A q \in DOMAIN requests : q # r => requests'[q] = requests[q]
          /\ r \in DOMAIN requests =>
               /\ requests'[r].user = requests[r].user /\ requests'[r].method = requests[r].method
               /\ requests'[r].status = requests[r].status
      BY <1>1, <2>1, PaidTyped
    <3>. QED BY <3>1
  <2>2. CASE UNCHANGED requests
    BY <2>2
  <2>. QED BY <2>1, <2>2
<1>. QED BY <1>2 DEF Requested

\* A request that is made says what was held, and pends or is to be paid out.
LEMMA CreateBalances ==
  ASSUME MoneyTypeOK, DecisionsKnow, NEW h \in Handlers, WithdrawCreate(h),
         NEW u \in Users, OpenBooksOf(u)
  PROVE  OpenBooksOf(u)'
<1>1. PICK old, w, m : old = tasks[h] /\ w = old.user /\ m = old.method
  OBVIOUS
<1>2. PICK row : row = [user |-> w, method |-> m, status |-> FirstStatus(m), paid |-> 0, refunded |-> 0]
  OBVIOUS
<1>3. /\ old.op = "withdraw" /\ old.step = "create" /\ w \in Users /\ m \in Methods
      /\ requests' = Append(requests, row)
      /\ UNCHANGED <<transferable, adRevenue, migrated, stellar, internal, transfers, credits>>
  BY <1>1, <1>2, WithdrawalFields DEF WithdrawCreate, At, balances
<1>4. PICK new : /\ tasks' = [tasks EXCEPT ![h] = new]
                 /\ m = "BTCY" => new.op = "withdraw" /\ new.step = "pay" /\ new.user = w
                 /\ m # "BTCY" => new.op = "idle"
  <2>1. CASE m = "BTCY"
    <3>1. PICK new : /\ tasks' = [tasks EXCEPT ![h] = new]
                     /\ new.op = "withdraw" /\ new.step = "pay" /\ new.user = w
      BY <1>1, <2>1, CreatesTask
    <3>. QED BY <2>1, <3>1
  <2>2. CASE m # "BTCY"
    <3>1. tasks' = [tasks EXCEPT ![h] = Idle] /\ Idle.op = "idle"
      BY <1>1, <2>2, CreatesTask DEF Return, Idle
    <3>. QED BY <2>2, <3>1
  <2>. QED BY <2>1, <2>2
<1>5. row \in Requests
  BY <1>2, <1>3, NewRequestTyped
<1>6. Becomes(h, old, new)
  <2>1. \A r \in DOMAIN requests : requests'[r] = requests[r]
    <3>1. requests \in Seq(Requests)
      BY DEF MoneyTypeOK
    <3>. QED BY <1>3, <1>5, <3>1, AppendProperties, LenProperties
  <2>. QED BY <1>1, <1>4, <2>1 DEF Becomes
<1>7. /\ \A v : ~Decides(old, u, v) /\ ~Decides(new, u, v)'
      /\ ~Books(old, u) /\ ~Books(new, u) /\ ~Pays(old, u) /\ ~Creates(new, u)
      /\ Creates(old, u) <=> w = u
      /\ Pays(new, u) <=> m = "BTCY" /\ w = u
  BY <1>1, <1>3, <1>4 DEF Decides, Books, Pays, Creates
<1>8. PICK n, b : n = One(w = u) /\ b = One(m = "BTCY" /\ w = u)
  OBVIOUS
<1>9. /\ n \in {0, 1} /\ b \in {0, 1} /\ One(Creates(new, u)) = 0 /\ One(Creates(old, u)) = n
      /\ One(Books(old, u)) = 0 /\ One(Books(new, u)) = 0
      /\ One(Pays(old, u)) = 0 /\ One(Pays(new, u)) = b
      /\ One(Decides(new, u, "Approved")') = 0 /\ One(Decides(old, u, "Approved")) = 0
      /\ One(Decides(new, u, "Rejected")') = 0 /\ One(Decides(old, u, "Rejected")) = 0
  BY <1>7, <1>8 DEF One
<1>10. /\ Fits(row, u, Methods, {"Pending", "Approved"}) <=> w = u
       /\ Fits(row, u, {"BTCY"}, {"Approved"}) <=> (m = "BTCY" /\ w = u)
       /\ ~Fits(row, u, {"USDT"}, {"Approved"})
  BY <1>2, <1>3 DEF Fits, FirstStatus, Methods
<1>11. /\ Requested(u, Methods, {"Pending", "Approved"})'
             = Requested(u, Methods, {"Pending", "Approved"}) + n
       /\ Requested(u, {"USDT"}, {"Approved"})' = Requested(u, {"USDT"}, {"Approved"})
       /\ Requested(u, {"BTCY"}, {"Approved"})' = Requested(u, {"BTCY"}, {"Approved"}) + b
  <2>1. ASSUME NEW M, NEW S
        PROVE  /\ ~Fits(row, u, M, S) => Requested(u, M, S)' = Requested(u, M, S)
               /\ Fits(row, u, M, S) => Requested(u, M, S)' = Requested(u, M, S) + 1
    <3>1. requests' = Append(requests, row)
      BY <1>3
    <3>. QED BY <1>5, <3>1, RequestAdded
  <2>2. /\ w = u => n = 1
        /\ w # u => n = 0
        /\ m = "BTCY" /\ w = u => b = 1
        /\ ~(m = "BTCY" /\ w = u) => b = 0
    BY <1>8 DEF One
  <2>. QED BY <1>10, <2>1, <2>2, CountsAreNumbers
<1>12. TasksMake(old, new, u) /\ ShopCredits(u)' = ShopCredits(u)
  BY <1>3, <1>6, TasksMove DEF ShopCredits
<1>13. /\ Held(u)' = Held(u) /\ Given(u)' = Given(u)
       /\ Shopped(u)' = Shopped(u) /\ PaidOut(u)' = PaidOut(u)
  BY <1>9, <1>11, <1>12, CountsAreNumbers DEF TasksMake, Held, Given, Shopped, PaidOut
<1>14. Net(u)' = Net(u) /\ Sent(u)' = Sent(u) /\ Wallet(u)' = Wallet(u)
  BY <1>3, TransfersStand DEF Wallet
<1>. QED BY <1>3, <1>13, <1>14 DEF OpenBooksOf

\* A payout: the wallet gets what the row promised, or a wallet is to be made.
LEMMA PayBalances ==
  ASSUME MoneyTypeOK, DecisionsKnow, NEW h \in Handlers, WithdrawPay(h),
         NEW u \in Users, OpenBooksOf(u)
  PROVE  OpenBooksOf(u)'
<1>1. PICK old, w : old = tasks[h] /\ w = old.user
  OBVIOUS
<1>2. /\ old.op = "withdraw" /\ old.step = "pay" /\ w \in Users
      /\ \/ GoTo(h, "push") /\ UNCHANGED internal
         \/ /\ internal[w] # <<>> /\ Return(h)
            /\ internal' = [internal EXCEPT ![w] = [i \in DOMAIN @ |-> @[i] + Amount - Fee]]
      /\ UNCHANGED <<transferable, adRevenue, migrated, stellar, transfers, credits>>
  BY <1>1, WithdrawalFields DEF WithdrawPay, At
<1>14. Paid(old.request) \/ UNCHANGED requests
  BY <1>1, Zenon DEF WithdrawPay
<1>15. /\ \A M, S : Requested(u, M, S)' = Requested(u, M, S)
       /\ \A q \in DOMAIN requests : requests'[q].user = requests[q].user
  BY <1>14, PaymentCounts
<1>3. PICK new : /\ tasks' = [tasks EXCEPT ![h] = new]
                 /\ \/ /\ UNCHANGED internal
                       /\ new.op = "withdraw" /\ new.step = "push" /\ new.user = w
                    \/ /\ internal[w] # <<>> /\ new.op = "idle"
                       /\ internal' = [internal EXCEPT ![w] = [i \in DOMAIN @ |-> @[i] + Amount - Fee]]
  <2>1. CASE GoTo(h, "push") /\ UNCHANGED internal
    <3>1. GoTo(h, "push") /\ tasks[h].op = "withdraw" /\ tasks[h].user = w
      BY <1>1, <1>2, <2>1
    <3>2. PICK new : /\ tasks' = [tasks EXCEPT ![h] = new]
                     /\ new.op = "withdraw" /\ new.step = "push" /\ new.user = w
      BY <3>1, GoesOn
    <3>. QED BY <2>1, <3>2
  <2>2. CASE /\ internal[w] # <<>> /\ Return(h)
             /\ internal' = [internal EXCEPT ![w] = [i \in DOMAIN @ |-> @[i] + Amount - Fee]]
    <3>1. tasks' = [tasks EXCEPT ![h] = Idle] /\ Idle.op = "idle"
      BY <2>2 DEF Return, Idle
    <3>. QED BY <2>2, <3>1
  <2>. QED BY <1>2, <2>1, <2>2
<1>0. UNCHANGED <<transferable, adRevenue, migrated, stellar, transfers, credits>>
  BY <1>2
<1>4. Becomes(h, old, new)
  BY <1>1, <1>15, <1>3 DEF Becomes
<1>5. /\ \A v : ~Decides(old, u, v) /\ ~Decides(new, u, v)'
      /\ ~Books(old, u) /\ ~Books(new, u) /\ ~Creates(old, u) /\ ~Creates(new, u)
      /\ Pays(old, u) <=> w = u
      /\ Pays(new, u) <=> new.op = "withdraw" /\ w = u
  BY <1>1, <1>2, <1>3 DEF Decides, Books, Pays, Creates
<1>6. PICK n, b : n = One(new.op = "idle" /\ w = u) /\ b = One(Pays(new, u))
  OBVIOUS
<1>7. /\ n \in {0, 1} /\ b \in {0, 1} /\ One(Creates(new, u)) = 0 /\ One(Creates(old, u)) = 0
      /\ One(Books(old, u)) = 0 /\ One(Books(new, u)) = 0
      /\ One(Pays(old, u)) = n + b /\ One(Pays(new, u)) = b
      /\ One(Decides(new, u, "Approved")') = 0 /\ One(Decides(old, u, "Approved")) = 0
      /\ One(Decides(new, u, "Rejected")') = 0 /\ One(Decides(old, u, "Rejected")) = 0
  BY <1>3, <1>5, <1>6 DEF One
<1>8. TasksMake(old, new, u) /\ ShopCredits(u)' = ShopCredits(u)
  BY <1>0, <1>4, TasksMove DEF ShopCredits
<1>9. /\ Held(u)' = Held(u) /\ Given(u)' = Given(u)
      /\ Shopped(u)' = Shopped(u) /\ PaidOut(u)' = PaidOut(u) + n
  BY <1>15, <1>7, <1>8, CountsAreNumbers DEF TasksMake, Held, Given, Shopped, PaidOut
<1>10. Net(u)' = Net(u) /\ Sent(u)' = Sent(u)
  BY <1>0, TransfersStand
<1>11. Wallet(u)' = Wallet(u) + (Amount - Fee) * n
  <2>1. Amount - Fee \in Int /\ Wallet(u) \in Int
    BY WalletIsANumber
  <2>2. CASE new.op = "idle" /\ w = u
    <3>1. 1 \in DOMAIN internal[u] /\ internal[u][1] \in Nat /\ internal[u] # <<>>
      BY <1>3, <2>2, WalletIsANumber
    <3>2. internal'[u] = [i \in DOMAIN internal[u] |-> internal[u][i] + Amount - Fee]
      BY <1>2, <1>3, <2>2 DEF MoneyTypeOK
    <3>3. internal'[u] # <<>> /\ internal'[u][1] = internal[u][1] + Amount - Fee
      BY <3>1, <3>2
    <3>4. Wallet(u)' = Wallet(u) + (Amount - Fee)
      BY <3>1, <3>3 DEF Wallet
    <3>5. n = 1
      BY <1>6, <2>2 DEF One
    <3>. QED BY <2>1, <3>4, <3>5
  <2>3. CASE ~(new.op = "idle" /\ w = u)
    <3>1. n = 0
      BY <1>6, <2>3 DEF One
    <3>2. internal'[u] = internal[u]
      BY <1>2, <1>3, <2>3 DEF MoneyTypeOK
    <3>3. Wallet(u)' = Wallet(u)
      BY <3>2 DEF Wallet
    <3>. QED BY <2>1, <3>1, <3>3
  <2>. QED BY <2>2, <2>3
<1>12. Moves(u, 0, 0, 0, 0, 0, n)
  <2>1. Wallet(u)' = Wallet(u) + Amount * 0 + (Amount - Fee) * n
    BY <1>11, WalletIsANumber
  <2>. QED BY <1>0, <1>9, <1>10, <2>1, SumsAreNumbers DEF Moves
<1>13. n \in Int /\ 0 \in Int
  BY <1>7
<1>. QED BY <1>12, <1>13, BooksMove

\* Pushing a wallet where none was.
LEMMA PushedWallet ==
  ASSUME MoneyTypeOK, NEW w \in Users, NEW n \in Nat, PushWallet(w, n), Undisturbed', NEW u \in Users
  PROVE  /\ w = u => Wallet(u)' = Wallet(u) + n
         /\ w # u => Wallet(u)' = Wallet(u)
<1>1. internal[w] = <<>>
  BY DEF PushWallet, Upset, Undisturbed
<1>2. internal' = [internal EXCEPT ![w] = Append(<<>>, n)]
  BY <1>1 DEF PushWallet
<1>3. Append(<<>>, n) # <<>> /\ Append(<<>>, n)[1] = n
  <2>1. Append(<<>>, n) = <<n>>
    OBVIOUS
  <2>. QED BY <2>1
<1>4. CASE w = u
  <2>1. internal'[u] = Append(<<>>, n)
    BY <1>2, <1>4 DEF MoneyTypeOK
  <2>2. Wallet(u) = 0 /\ Wallet(u)' = n
    BY <1>1, <1>3, <1>4, <2>1 DEF Wallet
  <2>. QED BY <1>4, <2>2
<1>5. CASE w # u
  <2>1. internal'[u] = internal[u]
    BY <1>2, <1>5 DEF MoneyTypeOK
  <2>. QED BY <1>5, <2>1 DEF Wallet
<1>. QED BY <1>4, <1>5

LEMMA PushBalances ==
  ASSUME MoneyTypeOK, DecisionsKnow, NEW h \in Handlers, WithdrawPush(h), Undisturbed',
         NEW u \in Users, OpenBooksOf(u)
  PROVE  OpenBooksOf(u)'
<1>1. PICK old, w : old = tasks[h] /\ w = old.user
  OBVIOUS
<1>2. /\ old.op = "withdraw" /\ old.step = "push" /\ w \in Users
      /\ PushWallet(w, Amount - Fee) /\ tasks' = [tasks EXCEPT ![h] = Idle]
      /\ UNCHANGED <<transferable, adRevenue, migrated, stellar, transfers, credits>>
  BY <1>1, WithdrawalFields DEF WithdrawPush, At, Return
<1>13. Paid(old.request)
  BY <1>1, Zenon DEF WithdrawPush
<1>14. /\ \A M, S : Requested(u, M, S)' = Requested(u, M, S)
       /\ \A q \in DOMAIN requests : requests'[q].user = requests[q].user
  BY <1>13, PaymentCounts
<1>3. Becomes(h, old, Idle)
  BY <1>1, <1>2, <1>14 DEF Becomes
<1>4. /\ \A v : ~Decides(old, u, v) /\ ~Decides(Idle, u, v)'
      /\ ~Books(old, u) /\ ~Books(Idle, u) /\ ~Creates(old, u) /\ ~Creates(Idle, u)
      /\ Pays(old, u) <=> w = u
      /\ ~Pays(Idle, u)
  BY <1>1, <1>2 DEF Decides, Books, Pays, Creates, Idle
<1>5. PICK n : n = One(w = u)
  OBVIOUS
<1>6. /\ n \in {0, 1} /\ One(Creates(Idle, u)) = 0 /\ One(Creates(old, u)) = 0
      /\ One(Books(old, u)) = 0 /\ One(Books(Idle, u)) = 0
      /\ One(Pays(old, u)) = n /\ One(Pays(Idle, u)) = 0
      /\ One(Decides(Idle, u, "Approved")') = 0 /\ One(Decides(old, u, "Approved")) = 0
      /\ One(Decides(Idle, u, "Rejected")') = 0 /\ One(Decides(old, u, "Rejected")) = 0
  BY <1>4, <1>5 DEF One
<1>7. TasksMake(old, Idle, u) /\ ShopCredits(u)' = ShopCredits(u)
  BY <1>2, <1>3, TasksMove DEF ShopCredits
<1>8. /\ Held(u)' = Held(u) /\ Given(u)' = Given(u)
      /\ Shopped(u)' = Shopped(u) /\ PaidOut(u)' = PaidOut(u) + n
  BY <1>14, <1>6, <1>7, CountsAreNumbers DEF TasksMake, Held, Given, Shopped, PaidOut
<1>9. Net(u)' = Net(u) /\ Sent(u)' = Sent(u)
  BY <1>2, TransfersStand
<1>10. Wallet(u)' = Wallet(u) + (Amount - Fee) * n
  <2>1. Amount - Fee \in Nat /\ Wallet(u) \in Int
    BY WalletIsANumber
  <2>2. CASE w = u
    BY <1>2, <1>5, <2>1, <2>2, PushedWallet DEF One
  <2>3. CASE w # u
    BY <1>2, <1>5, <2>1, <2>3, PushedWallet DEF One
  <2>. QED BY <2>2, <2>3
<1>11. Moves(u, 0, 0, 0, 0, 0, n)
  <2>1. Amount \in Int /\ (Amount - Fee) * n \in Int
    BY <1>6
  <2>. QED BY <1>2, <1>8, <1>9, <1>10, <2>1, SumsAreNumbers DEF Moves
<1>12. n \in Int /\ 0 \in Int
  BY <1>6
<1>. QED BY <1>11, <1>12, BooksMove

\* A decision moves its money, and its row is to follow.
LEMMA MoneyBalances ==
  ASSUME MoneyTypeOK, DecisionsKnow, NEW h \in Handlers, DecideMoney(h),
         NEW u \in Users, OpenBooksOf(u)
  PROVE  OpenBooksOf(u)'
<1>1. PICK old, r, v, w : /\ old = tasks[h] /\ r = old.request /\ v = old.verdict
                          /\ w = requests[r].user
  OBVIOUS
<1>2. /\ old.op = "decide" /\ old.step = "money" /\ v \in Verdicts /\ r \in DOMAIN requests
      /\ requests[r] \in Requests /\ w \in Users
      /\ requests[r].paid \in Nat /\ requests[r].refunded \in Nat
  BY <1>1, DecisionFields, RequestFields DEF DecideMoney, At
<1>3. /\ \/ /\ v = "Approved" /\ migrated' = Add(migrated, w, Amount) /\ UNCHANGED adRevenue
            /\ requests' = [requests EXCEPT ![r].paid = @ + 1]
         \/ /\ v # "Approved" /\ adRevenue' = Add(adRevenue, w, Restored) /\ UNCHANGED migrated
            /\ requests' = [requests EXCEPT ![r].refunded = @ + 1]
      /\ GoTo(h, "status")
      /\ UNCHANGED <<transferable, stellar, internal, transfers, credits>>
  BY <1>1, Zenon DEF DecideMoney, Paid
<1>4. PICK row : /\ requests' = [requests EXCEPT ![r] = row]
                 /\ row.user = w /\ row.method = requests[r].method /\ row.status = requests[r].status
  <2>1. CASE requests' = [requests EXCEPT ![r].paid = @ + 1]
    <3>1. PICK row : row = [requests[r] EXCEPT !.paid = @ + 1]
      OBVIOUS
    <3>2. requests' = [requests EXCEPT ![r] = row]
      BY <2>1, <3>1
    <3>3. row.user = w /\ row.method = requests[r].method /\ row.status = requests[r].status
      BY <1>1, <1>2, <3>1 DEF Requests
    <3>. QED BY <3>2, <3>3
  <2>2. CASE requests' = [requests EXCEPT ![r].refunded = @ + 1]
    <3>1. PICK row : row = [requests[r] EXCEPT !.refunded = @ + 1]
      OBVIOUS
    <3>2. requests' = [requests EXCEPT ![r] = row]
      BY <2>2, <3>1
    <3>3. row.user = w /\ row.method = requests[r].method /\ row.status = requests[r].status
      BY <1>1, <1>2, <3>1 DEF Requests
    <3>. QED BY <3>2, <3>3
  <2>. QED BY <1>3, <2>1, <2>2
<1>5. PICK new : /\ tasks' = [tasks EXCEPT ![h] = new]
                 /\ new.op = "decide" /\ new.step = "status" /\ new.request = r /\ new.verdict = v
  <2>1. GoTo(h, "status") /\ tasks[h].op = "decide" /\ tasks[h].request = r /\ tasks[h].verdict = v
    BY <1>1, <1>2, <1>3
  <2>. QED BY <2>1, GoesOn
<1>6. requests \in Seq(Requests)
  BY DEF MoneyTypeOK
<1>7. \A q \in DOMAIN requests : requests'[q].user = requests[q].user
  BY <1>1, <1>4, <1>6
<1>8. Becomes(h, old, new)
  BY <1>1, <1>5, <1>7 DEF Becomes
<1>9. requests'[r].user = w
  BY <1>1, <1>2, <1>7
<1>10. /\ \A x : ~Decides(old, u, x)
       /\ \A x : Decides(new, u, x)' <=> v = x /\ w = u
       /\ ~Books(old, u) /\ ~Books(new, u) /\ ~Creates(old, u) /\ ~Creates(new, u)
       /\ ~Pays(old, u) /\ ~Pays(new, u)
  BY <1>2, <1>5, <1>9 DEF Decides, Books, Pays, Creates
<1>11. PICK a, b : a = One(v = "Approved" /\ w = u) /\ b = One(v = "Rejected" /\ w = u)
  OBVIOUS
<1>12. /\ a \in {0, 1} /\ b \in {0, 1} /\ One(Creates(new, u)) = 0 /\ One(Creates(old, u)) = 0
       /\ One(Books(old, u)) = 0 /\ One(Books(new, u)) = 0
       /\ One(Pays(old, u)) = 0 /\ One(Pays(new, u)) = 0
       /\ One(Decides(new, u, "Approved")') = a /\ One(Decides(old, u, "Approved")) = 0
       /\ One(Decides(new, u, "Rejected")') = b /\ One(Decides(old, u, "Rejected")) = 0
  BY <1>10, <1>11 DEF One
<1>13. /\ Requested(u, Methods, {"Pending", "Approved"})' = Requested(u, Methods, {"Pending", "Approved"})
       /\ Requested(u, {"USDT"}, {"Approved"})' = Requested(u, {"USDT"}, {"Approved"})
       /\ Requested(u, {"BTCY"}, {"Approved"})' = Requested(u, {"BTCY"}, {"Approved"})
  <2>1. \A M, S : Fits(requests[r], u, M, S) <=> Fits(row, u, M, S)
    BY <1>1, <1>4 DEF Fits
  <2>2. RowBecomes(r, row)
    BY <1>2, <1>4 DEF RowBecomes
  <2>. QED BY <2>1, <2>2, RequestChanged
<1>14. TasksMake(old, new, u) /\ ShopCredits(u)' = ShopCredits(u)
  BY <1>3, <1>8, TasksMove DEF ShopCredits
<1>15. /\ Held(u)' = Held(u) + (-b) /\ Given(u)' = Given(u) + a
       /\ Shopped(u)' = Shopped(u) /\ PaidOut(u)' = PaidOut(u)
  BY <1>12, <1>13, <1>14, CountsAreNumbers DEF TasksMake, Held, Given, Shopped, PaidOut
<1>16. UNCHANGED <<transferable, stellar, internal, transfers, credits>>
  BY <1>3
<1>17. Net(u)' = Net(u) /\ Sent(u)' = Sent(u) /\ Wallet(u)' = Wallet(u)
  BY <1>16, TransfersStand DEF Wallet
<1>18. adRevenue'[u] = adRevenue[u] - Amount * (-b) /\ migrated'[u] = migrated[u] + Amount * a
  <2>1. /\ adRevenue \in [Users -> Int] /\ migrated \in [Users -> Nat] /\ Amount \in Nat
        /\ Restored = Amount
    BY DEF MoneyTypeOK, Restored
  <2>2. CASE v = "Approved"
    <3>1. migrated' = [migrated EXCEPT ![w] = @ + Amount] /\ UNCHANGED adRevenue
      BY <1>3, <2>2 DEF Add
    <3>2. b = 0 /\ a = One(w = u)
      BY <1>11, <2>2 DEF One
    <3>3. migrated'[u] = migrated[u] + (IF w = u THEN Amount ELSE 0)
      BY <1>2, <2>1, <3>1
    <3>. QED BY <2>1, <3>1, <3>2, <3>3 DEF One
  <2>3. CASE v # "Approved"
    <3>1. adRevenue' = [adRevenue EXCEPT ![w] = @ + Amount] /\ UNCHANGED migrated
      BY <1>3, <2>1, <2>3 DEF Add
    <3>2. a = 0 /\ b = One(w = u)
      BY <1>2, <1>11, <2>3 DEF One, Verdicts
    <3>3. adRevenue'[u] = adRevenue[u] + (IF w = u THEN Amount ELSE 0)
      BY <1>2, <2>1, <3>1
    <3>. QED BY <2>1, <3>1, <3>2, <3>3 DEF One
  <2>. QED BY <2>2, <2>3
<1>19. Moves(u, 0, 0, -b, a, 0, 0)
  BY <1>15, <1>16, <1>17, <1>18, SumsAreNumbers DEF Moves
<1>20. a \in Int /\ -b \in Int /\ 0 \in Int
  BY <1>12
<1>. QED BY <1>19, <1>20, BooksMove

\* A decision that was not disturbed writes the status of what was moved.
LEMMA StatusBalances ==
  ASSUME MoneyTypeOK, DecisionsKnow, PendingIsPaidHere, NEW h \in Handlers, DecideStatus(h),
         Undisturbed', NEW u \in Users, OpenBooksOf(u)
  PROVE  OpenBooksOf(u)'
<1>1. PICK old, r, v, w : /\ old = tasks[h] /\ r = old.request /\ v = old.verdict
                          /\ w = requests[r].user
  OBVIOUS
<1>2. /\ old.op = "decide" /\ old.step = "status" /\ v \in Verdicts /\ r \in DOMAIN requests
      /\ requests[r] \in Requests /\ w \in Users
  BY <1>1, DecisionFields, RequestFields DEF DecideStatus, At
<1>3. /\ requests' = [requests EXCEPT ![r].status = v] /\ tasks' = [tasks EXCEPT ![h] = Idle]
      /\ UNCHANGED <<transferable, adRevenue, migrated, stellar, internal, transfers, credits>>
  BY <1>1, Zenon DEF DecideStatus, balances, Return
<1>4. requests[r].status = "Pending" /\ requests[r].method = "USDT"
  <2>1. Upset("decided", requests[r].status # "Pending")
    BY <1>1, Zenon DEF DecideStatus
  <2>2. requests[r].status = "Pending"
    BY <2>1 DEF Upset, Undisturbed
  <2>. QED BY <1>2, <2>2 DEF PendingIsPaidHere
<1>5. PICK row : row = [requests[r] EXCEPT !.status = v]
  OBVIOUS
<1>6. /\ requests' = [requests EXCEPT ![r] = row]
      /\ row.user = w /\ row.method = "USDT" /\ row.status = v
  BY <1>1, <1>2, <1>3, <1>4, <1>5 DEF Requests
<1>7. requests \in Seq(Requests)
  BY DEF MoneyTypeOK
<1>8. \A q \in DOMAIN requests : requests'[q].user = requests[q].user
  BY <1>1, <1>6, <1>7
<1>9. Becomes(h, old, Idle)
  BY <1>1, <1>3, <1>8 DEF Becomes
<1>10. /\ \A x : Decides(old, u, x) <=> v = x /\ w = u
       /\ \A x : ~Decides(Idle, u, x)'
       /\ ~Books(old, u) /\ ~Books(Idle, u) /\ ~Creates(old, u) /\ ~Creates(Idle, u)
       /\ ~Pays(old, u) /\ ~Pays(Idle, u)
  BY <1>1, <1>2 DEF Decides, Books, Pays, Creates, Idle
<1>11. PICK a, b : a = One(v = "Approved" /\ w = u) /\ b = One(v = "Rejected" /\ w = u)
  OBVIOUS
<1>12. /\ a \in {0, 1} /\ b \in {0, 1} /\ One(Creates(Idle, u)) = 0 /\ One(Creates(old, u)) = 0
       /\ One(Books(old, u)) = 0 /\ One(Books(Idle, u)) = 0
       /\ One(Pays(old, u)) = 0 /\ One(Pays(Idle, u)) = 0
       /\ One(Decides(Idle, u, "Approved")') = 0 /\ One(Decides(old, u, "Approved")) = a
       /\ One(Decides(Idle, u, "Rejected")') = 0 /\ One(Decides(old, u, "Rejected")) = b
  BY <1>10, <1>11 DEF One
<1>13. /\ Fits(requests[r], u, Methods, {"Pending", "Approved"}) <=> w = u
       /\ Fits(row, u, Methods, {"Pending", "Approved"}) <=> (v = "Approved" /\ w = u)
       /\ ~Fits(requests[r], u, {"USDT"}, {"Approved"})
       /\ Fits(row, u, {"USDT"}, {"Approved"}) <=> (v = "Approved" /\ w = u)
       /\ ~Fits(requests[r], u, {"BTCY"}, {"Approved"})
       /\ ~Fits(row, u, {"BTCY"}, {"Approved"})
  BY <1>1, <1>2, <1>4, <1>6 DEF Fits, Methods, Verdicts
<1>14. /\ Requested(u, Methods, {"Pending", "Approved"})'
             = Requested(u, Methods, {"Pending", "Approved"}) - b
       /\ Requested(u, {"USDT"}, {"Approved"})' = Requested(u, {"USDT"}, {"Approved"}) + a
       /\ Requested(u, {"BTCY"}, {"Approved"})' = Requested(u, {"BTCY"}, {"Approved"})
  <2>1. RowBecomes(r, row)
    BY <1>2, <1>6 DEF RowBecomes
  <2>2. v \in {"Approved", "Rejected"}
    BY <1>2 DEF Verdicts
  <2>. QED BY <1>11, <1>13, <2>1, <2>2, RequestChanged, CountsAreNumbers DEF One
<1>15. TasksMake(old, Idle, u) /\ ShopCredits(u)' = ShopCredits(u)
  BY <1>3, <1>9, TasksMove DEF ShopCredits
<1>16. /\ Held(u)' = Held(u) /\ Given(u)' = Given(u)
       /\ Shopped(u)' = Shopped(u) /\ PaidOut(u)' = PaidOut(u)
  BY <1>12, <1>14, <1>15, CountsAreNumbers DEF TasksMake, Held, Given, Shopped, PaidOut
<1>17. Net(u)' = Net(u) /\ Sent(u)' = Sent(u) /\ Wallet(u)' = Wallet(u)
  BY <1>3, TransfersStand DEF Wallet
<1>. QED BY <1>3, <1>16, <1>17 DEF OpenBooksOf

\* The wallet is credited, with the row to come.
LEMMA CreditMoves ==
  ASSUME MoneyTypeOK, DecisionsKnow, NEW h \in Handlers, NEW old, NEW w,
         old = tasks[h], w = old.user, old.op = "credit", old.step \in {"pay", "push"},
         GoTo(h, "row"),
         UNCHANGED <<transferable, adRevenue, migrated, stellar, transfers, requests, credits>>,
         NEW u \in Users, OpenBooksOf(u),
         w = u => Wallet(u)' = Wallet(u) + Amount,
         w # u => Wallet(u)' = Wallet(u)
  PROVE  OpenBooksOf(u)'
<1>1. PICK new : /\ tasks' = [tasks EXCEPT ![h] = new]
                 /\ new.op = "credit" /\ new.step = "row" /\ new.user = w
  BY GoesOn
<1>2. Becomes(h, old, new)
  BY <1>1 DEF Becomes
<1>3. /\ \A v : ~Decides(old, u, v) /\ ~Decides(new, u, v)'
      /\ ~Books(old, u) /\ ~Creates(old, u) /\ ~Creates(new, u) /\ ~Pays(old, u) /\ ~Pays(new, u)
      /\ Books(new, u) <=> w = u
  BY <1>1 DEF Decides, Books, Pays, Creates
<1>4. PICK n : n = One(w = u)
  OBVIOUS
<1>5. /\ n \in {0, 1} /\ One(Creates(new, u)) = 0 /\ One(Creates(old, u)) = 0
      /\ One(Books(old, u)) = 0 /\ One(Books(new, u)) = n
      /\ One(Pays(old, u)) = 0 /\ One(Pays(new, u)) = 0
      /\ One(Decides(new, u, "Approved")') = 0 /\ One(Decides(old, u, "Approved")) = 0
      /\ One(Decides(new, u, "Rejected")') = 0 /\ One(Decides(old, u, "Rejected")) = 0
  BY <1>3, <1>4 DEF One
<1>6. TasksMake(old, new, u) /\ ShopCredits(u)' = ShopCredits(u)
  BY <1>2, TasksMove DEF ShopCredits
<1>7. /\ Held(u)' = Held(u) /\ Given(u)' = Given(u)
      /\ Shopped(u)' = Shopped(u) + n /\ PaidOut(u)' = PaidOut(u)
  BY <1>5, <1>6, CountsAreNumbers, CountsStand DEF TasksMake, Held, Given, Shopped, PaidOut
<1>8. Net(u)' = Net(u) /\ Sent(u)' = Sent(u)
  BY TransfersStand
<1>9. Wallet(u)' = Wallet(u) + Amount * n + (Amount - Fee) * 0
  BY <1>4, WalletIsANumber DEF One
<1>10. Moves(u, 0, 0, 0, 0, n, 0)
  BY <1>7, <1>8, <1>9, SumsAreNumbers DEF Moves
<1>11. n \in Int /\ 0 \in Int
  BY <1>5
<1>. QED BY <1>10, <1>11, BooksMove

LEMMA CreditBalances ==
  ASSUME MoneyTypeOK, DecisionsKnow, WalletStays, NEW h \in Handlers, CreditPay(h) \/ CreditPush(h),
         Undisturbed', NEW u \in Users, OpenBooksOf(u)
  PROVE  OpenBooksOf(u)'
<1>1. PICK old, w : old = tasks[h] /\ w = old.user
  OBVIOUS
<1>2. /\ old.op = "credit" /\ old.step \in {"pay", "push"} /\ w \in Users /\ GoTo(h, "row")
      /\ UNCHANGED <<transferable, adRevenue, migrated, transfers, requests, credits>>
  BY <1>1, CreditFields DEF CreditPay, CreditPush, At, rows
<1>3. CASE CreditPay(h)
  <2>1. /\ internal' = [internal EXCEPT ![w][1] = @ + Amount] /\ UNCHANGED stellar
        /\ internal[w] # <<>>
    <3>1. internal[w] # <<>>
      BY <1>1, <1>3 DEF CreditPay, WalletStays
    <3>2. \/ internal' = [internal EXCEPT ![w][1] = @ + Amount] /\ UNCHANGED stellar
          \/ Upset("misplaced", TRUE)
      BY <1>1, <1>3, Zenon DEF CreditPay
    <3>3. ~Upset("misplaced", TRUE)
      BY DEF Upset, Undisturbed
    <3>. QED BY <3>1, <3>2, <3>3
  <2>2. Amount \in Nat /\ Wallet(u) \in Int
    BY WalletIsANumber
  <2>3. ASSUME w = u PROVE Wallet(u)' = Wallet(u) + Amount
    <3>1. 1 \in DOMAIN internal[u] /\ internal[u] # <<>>
      BY <2>1, <2>3, WalletIsANumber
    <3>2. internal'[u] = [internal[u] EXCEPT ![1] = @ + Amount]
      BY <2>1, <2>3 DEF MoneyTypeOK
    <3>3. internal'[u][1] = internal[u][1] + Amount /\ 1 \in DOMAIN internal'[u]
      BY <3>1, <3>2
    <3>4. internal'[u] # <<>>
      BY <3>3
    <3>. QED BY <3>1, <3>3, <3>4 DEF Wallet
  <2>4. ASSUME w # u PROVE Wallet(u)' = Wallet(u)
    <3>1. internal'[u] = internal[u]
      BY <2>1, <2>4 DEF MoneyTypeOK
    <3>. QED BY <3>1 DEF Wallet
  <2>. QED BY <1>1, <1>2, <2>1, <2>3, <2>4, CreditMoves
<1>4. CASE CreditPush(h)
  <2>1. PushWallet(w, Amount) /\ UNCHANGED stellar /\ Amount \in Nat
    BY <1>1, <1>4 DEF CreditPush
  <2>2. /\ w = u => Wallet(u)' = Wallet(u) + Amount
        /\ w # u => Wallet(u)' = Wallet(u)
    BY <1>2, <2>1, PushedWallet
  <2>. QED BY <1>1, <1>2, <2>1, <2>2, CreditMoves
<1>. QED BY <1>3, <1>4

\* The row of a credit, under a key that had none.
LEMMA RowBalances ==
  ASSUME MoneyTypeOK, DecisionsKnow, NEW h \in Handlers, CreditRow(h), Undisturbed',
         NEW u \in Users, OpenBooksOf(u)
  PROVE  OpenBooksOf(u)'
<1>1. PICK old, w, row : /\ old = tasks[h] /\ w = old.user
                         /\ row = [user |-> old.user, key |-> old.key]
  OBVIOUS
<1>2. /\ old.op = "credit" /\ old.step = "row" /\ w \in Users /\ old.key \in Keys
      /\ tasks' = [tasks EXCEPT ![h] = Idle]
      /\ UNCHANGED <<transferable, adRevenue, migrated, stellar, internal, transfers, requests>>
  BY <1>1, CreditFields DEF CreditRow, At, Return, balances
<1>3. credits' = Append(credits, row)
  BY <1>1 DEF CreditRow, Upset, Undisturbed
<1>4. row \in [user : Users, key : Keys] /\ row.user = w
  BY <1>1, <1>2
<1>5. credits \in Seq([user : Users, key : Keys])
  BY DEF MoneyTypeOK
<1>6. PICK n : n = One(w = u)
  OBVIOUS
<1>7. ShopCredits(u)' = ShopCredits(u) + n
  <2>. DEFINE Rows == [user : Users, key : Keys]
  <2>1. row \in Rows /\ credits \in Seq(Rows)
    BY <1>4, <1>5
  <2>. HIDE DEF Rows
  <2>2. /\ credits' \in Seq(Rows) /\ Len(credits') = Len(credits) + 1
        /\ \A i \in 1..Len(credits) : credits'[i] = credits[i]
        /\ credits'[Len(credits) + 1] = row
    BY <1>3, <2>1, AppendProperties
  <2>3. /\ DOMAIN credits = 1..Len(credits) /\ DOMAIN credits' = 1..(Len(credits) + 1)
        /\ Len(credits) \in Nat
    BY <2>1, <2>2, LenProperties
  <2>4. PICK m \in Nat : m = Len(credits) + 1
    BY <2>3
  <2>5. /\ DOMAIN credits \subseteq 1..m /\ DOMAIN credits' = 1..m /\ m \in 1..m
        /\ m \notin DOMAIN credits /\ credits'[m] = row
        /\ \A i \in (1..m) \ {m} : i \in DOMAIN credits /\ credits'[i] = credits[i]
    BY <2>2, <2>3, <2>4
  <2>6. PICK F, G : /\ F = {i \in DOMAIN credits : credits[i].user = u}
                    /\ G = {i \in DOMAIN credits' : credits'[i].user = u}
    OBVIOUS
  <2>7. OneRowApart(m, m, F, G) /\ m \notin F /\ (m \in G <=> w = u)
    BY <1>4, <2>5, <2>6 DEF OneRowApart
  <2>8. ShopCredits(u) = Cardinality(F) /\ ShopCredits(u)' = Cardinality(G)
    BY <2>6 DEF ShopCredits
  <2>. QED BY <1>6, <2>7, <2>8, RowsDiffer DEF One
<1>8. Becomes(h, old, Idle)
  BY <1>1, <1>2 DEF Becomes
<1>9. /\ \A v : ~Decides(old, u, v) /\ ~Decides(Idle, u, v)'
      /\ ~Books(Idle, u) /\ ~Creates(old, u) /\ ~Creates(Idle, u) /\ ~Pays(old, u) /\ ~Pays(Idle, u)
      /\ Books(old, u) <=> w = u
  BY <1>1, <1>2 DEF Decides, Books, Pays, Creates, Idle
<1>10. /\ n \in {0, 1} /\ One(Creates(Idle, u)) = 0 /\ One(Creates(old, u)) = 0
       /\ One(Books(old, u)) = n /\ One(Books(Idle, u)) = 0
       /\ One(Pays(old, u)) = 0 /\ One(Pays(Idle, u)) = 0
       /\ One(Decides(Idle, u, "Approved")') = 0 /\ One(Decides(old, u, "Approved")) = 0
       /\ One(Decides(Idle, u, "Rejected")') = 0 /\ One(Decides(old, u, "Rejected")) = 0
  BY <1>6, <1>9 DEF One
<1>11. TasksMake(old, Idle, u)
  BY <1>8, TasksMove
<1>12. /\ Held(u)' = Held(u) /\ Given(u)' = Given(u)
       /\ Shopped(u)' = Shopped(u) /\ PaidOut(u)' = PaidOut(u)
  BY <1>2, <1>7, <1>10, <1>11, CountsAreNumbers, CountsStand DEF TasksMake, Held, Given, Shopped, PaidOut
<1>13. Net(u)' = Net(u) /\ Sent(u)' = Sent(u) /\ Wallet(u)' = Wallet(u)
  BY <1>2, TransfersStand DEF Wallet
<1>. QED BY <1>2, <1>12, <1>13 DEF OpenBooksOf

-----------------------------------------------------------------------------
(* The invariant.                                                          *)

BooksInv == MoneyInv /\ PendingIsPaidHere /\ WalletStays /\ OpenBooks

\* Books with nothing that changes them.
LEMMA BooksStand ==
  ASSUME NEW u, OpenBooksOf(u),
         UNCHANGED <<transferable, adRevenue, migrated, stellar, internal, transfers, requests,
                     credits, tasks>>
  PROVE  OpenBooksOf(u)'
  BY DEF OpenBooksOf, Net, Sent, Held, Given, Shopped, PaidOut, Wallet, Received, Transferred,
     Requested, ShopCredits, Creating, Paying, Booking, Deciding, Decides

\* The books of everyone go on, for every step.
LEMMA OpenBooksStep ==
  ASSUME BooksInv, Next
  PROVE  OpenBooks'
<1>1. MoneyTypeOK /\ DecisionsKnow /\ PendingIsPaidHere /\ WalletStays
  BY DEF BooksInv, MoneyInv, DecisionInv
<1>2. SUFFICES ASSUME Undisturbed', NEW u \in Users PROVE OpenBooksOf(u)'
  BY DEF OpenBooks
<1>3. OpenBooksOf(u)
  <2>1. upset \subseteq upset'
    <3>1. CASE \E h \in Handlers : TransferCommit(h)
      BY <3>1, CommitMakes DEF Upset
    <3>2. CASE ~\E h \in Handlers : TransferCommit(h)
      BY <3>2, OnlyCommits
    <3>. QED BY <3>1, <3>2
  <2>. QED BY <1>2, <2>1 DEF Undisturbed, OpenBooks, BooksInv
<1>4. ASSUME NEW h \in Handlers,
             \/ Transfer(h) \/ TransferLookup(h) \/ TransferAds(h) \/ Withdraw(h) \/ WithdrawCheck(h)
             \/ Decide(h) \/ DecideFind(h) \/ Credit(h) \/ CreditLookup(h) \/ CreditWallet(h)
      PROVE  OpenBooksOf(u)'
  <2>1. PICK new : /\ UNCHANGED <<balances, rows>> /\ ~Midway(tasks[h])
                   /\ tasks' = [tasks EXCEPT ![h] = new] /\ ~Midway(new)
    BY <1>1, <1>4, QuietSteps
  <2>. QED BY <1>1, <1>3, <2>1, QuietBooks
<1>5. ASSUME NEW h \in Handlers,
             \/ TransferCommit(h) \/ WithdrawDeduct(h) \/ WithdrawCreate(h) \/ WithdrawPay(h)
             \/ WithdrawPush(h)
      PROVE  OpenBooksOf(u)'
  BY <1>1, <1>2, <1>3, <1>5, CommitBalances, DeductBalances, CreateBalances, PayBalances, PushBalances
<1>6. ASSUME NEW h \in Handlers,
             DecideMoney(h) \/ DecideStatus(h) \/ CreditPay(h) \/ CreditPush(h) \/ CreditRow(h)
      PROVE  OpenBooksOf(u)'
  BY <1>1, <1>2, <1>3, <1>6, MoneyBalances, StatusBalances, CreditBalances, RowBalances
<1>7. ASSUME NEW h \in Handlers PROVE ~Dies(h)
  BY <1>2 DEF Dies, Upset, Undisturbed
<1>8. ASSUME NEW a \in AdKeys, WatchAd(a) \/ AdsExpire(a)
      PROVE  OpenBooksOf(u)'
  <2>1. UNCHANGED <<transferable, adRevenue, migrated, stellar, internal, transfers, requests,
                    credits, tasks>>
    BY <1>8 DEF WatchAd, AdsExpire, balances, rows
  <2>. QED BY <1>3, <2>1, BooksStand
<1>. QED BY <1>4, <1>5, <1>6, <1>7, <1>8, Zenon DEF Next

\* Only what is to be paid from here is made to pend, and no status goes back to it.
LEMMA PendingStep ==
  ASSUME MoneyTypeOK, DecisionsKnow, PendingIsPaidHere, Next
  PROVE  PendingIsPaidHere'
<1>1. CASE UNCHANGED requests
  BY <1>1 DEF PendingIsPaidHere
<1>2. ASSUME NEW h \in Handlers, WithdrawCreate(h)
      PROVE  PendingIsPaidHere'
  <2>1. PICK m, row : /\ m = tasks[h].method
                      /\ row = [user |-> tasks[h].user, method |-> m, status |-> FirstStatus(m),
                                paid |-> 0, refunded |-> 0]
    OBVIOUS
  <2>2. requests' = Append(requests, row)
    BY <1>2, <2>1, Zenon DEF WithdrawCreate
  <2>3. tasks[h].op = "withdraw"
    BY <1>2 DEF WithdrawCreate, At
  <2>4. row \in Requests /\ m \in Methods
    BY <2>1, <2>3, WithdrawalFields, NewRequestTyped
  <2>5. row.status = "Pending" => row.method = "USDT"
    BY <2>1, <2>4 DEF FirstStatus, Methods
  <2>6. requests \in Seq(Requests)
    BY DEF MoneyTypeOK
  <2>7. /\ Len(requests') = Len(requests) + 1 /\ requests' \in Seq(Requests)
        /\ \A i \in 1..Len(requests) : requests'[i] = requests[i]
        /\ requests'[Len(requests) + 1] = row
    BY <2>2, <2>4, <2>6, AppendProperties
  <2>8. /\ DOMAIN requests = 1..Len(requests) /\ DOMAIN requests' = 1..(Len(requests) + 1)
        /\ Len(requests) \in Nat
    BY <2>6, <2>7, LenProperties
  <2>9. \A q \in DOMAIN requests' : q \in DOMAIN requests \/ q = Len(requests) + 1
    BY <2>8
  <2>. QED BY <2>5, <2>7, <2>8, <2>9 DEF PendingIsPaidHere
<1>3. ASSUME NEW h \in Handlers, DecideMoney(h)
      PROVE  PendingIsPaidHere'
  BY <1>3, MoneyMoves DEF PendingIsPaidHere, RequestsGrow
<1>4. ASSUME NEW h \in Handlers, DecideStatus(h)
      PROVE  PendingIsPaidHere'
  <2>1. PICK r, v : r = tasks[h].request /\ v = tasks[h].verdict
    OBVIOUS
  <2>2. v \in Verdicts /\ requests' = [requests EXCEPT ![r].status = v]
    BY <1>4, <2>1, DecisionFields DEF DecideStatus, At
  <2>3. requests \in Seq(Requests)
    BY DEF MoneyTypeOK
  <2>4. ASSUME NEW q \in DOMAIN requests', requests'[q].status = "Pending"
        PROVE  requests'[q].method = "USDT"
    <3>1. q \in DOMAIN requests /\ requests[q] \in Requests
      BY <2>2, <2>3, <2>4, RequestFields
    <3>2. q # r
      BY <2>2, <2>3, <2>4, <3>1 DEF Verdicts, Requests
    <3>3. requests'[q] = requests[q]
      BY <2>2, <2>3, <3>1, <3>2
    <3>. QED BY <2>4, <3>1, <3>3 DEF PendingIsPaidHere
  <2>. QED BY <2>4 DEF PendingIsPaidHere
<1>5. ASSUME NEW h \in Handlers, Transfer(h) \/ Withdraw(h) \/ Decide(h) \/ Credit(h)
      PROVE  UNCHANGED requests
  <2>1. PICK t : Begin(h, t)
    BY <1>5, Zenon DEF Transfer, Withdraw, Decide, Credit
  <2>. QED BY <2>1 DEF Begin, rows
<1>6. ASSUME NEW h \in Handlers,
             \/ TransferLookup(h) \/ TransferAds(h) \/ TransferCommit(h)
             \/ WithdrawCheck(h) \/ WithdrawDeduct(h)
             \/ CreditLookup(h) \/ CreditWallet(h) \/ CreditPay(h) \/ CreditPush(h) \/ CreditRow(h)
             \/ DecideFind(h) \/ Dies(h)
      PROVE  UNCHANGED requests
  BY <1>6 DEF TransferLookup, TransferAds, TransferCommit, WithdrawCheck, WithdrawDeduct,
     CreditLookup, CreditWallet, CreditPay, CreditPush, CreditRow, DecideFind, Dies, rows
<1>7. ASSUME NEW a \in AdKeys, WatchAd(a) \/ AdsExpire(a)
      PROVE  UNCHANGED requests
  BY <1>7 DEF WatchAd, AdsExpire, rows
<1>8. ASSUME NEW h \in Handlers, WithdrawPay(h) \/ WithdrawPush(h)
      PROVE  PendingIsPaidHere'
  <2>1. CASE Paid(tasks[h].request)
    <3>1. /\ \A q \in DOMAIN requests' :
               q \in DOMAIN requests /\ requests'[q].status = requests[q].status
          /\ \A q \in DOMAIN requests : requests'[q].method = requests[q].method
      BY <2>1, PaymentGrows DEF RequestsGrow
    <3>. QED BY <3>1 DEF PendingIsPaidHere
  <2>2. CASE ~Paid(tasks[h].request)
    BY <1>1, <1>8, <2>2, Zenon DEF WithdrawPay, WithdrawPush
  <2>. QED BY <2>1, <2>2
<1>. QED BY <1>1, <1>2, <1>3, <1>4, <1>5, <1>6, <1>7, <1>8, Zenon DEF Next

\* Wallets stay, and a credit goes on to pay only where it found one.
LEMMA WalletStep ==
  ASSUME MoneyTypeOK, WalletStays, Next
  PROVE  WalletStays'
<1>1. ASSUME NEW h \in Handlers, NEW new, tasks' = [tasks EXCEPT ![h] = new],
             new.op = "credit" /\ new.step = "pay" => internal'[new.user] # <<>>,
             \A u \in Users : internal[u] # <<>> => internal'[u] # <<>>
      PROVE  WalletStays'
  <2>1. ASSUME NEW g \in Handlers, At(g, "credit", "pay")' PROVE internal'[tasks'[g].user] # <<>>
    <3>1. CASE g = h
      BY <1>1, <2>1, <3>1 DEF At, MoneyTypeOK
    <3>2. CASE g # h
      <4>1. tasks'[g] = tasks[g]
        BY <1>1, <3>2 DEF MoneyTypeOK
      <4>2. At(g, "credit", "pay") /\ tasks[g].user \in Users
        BY <2>1, <4>1, CreditFields DEF At
      <4>3. internal[tasks[g].user] # <<>>
        BY <4>2 DEF WalletStays
      <4>. QED BY <1>1, <4>1, <4>2, <4>3
    <3>. QED BY <3>1, <3>2
  <2>. QED BY <2>1 DEF WalletStays
<1>2. ASSUME NEW h \in Handlers, Return(h), \A u \in Users : internal[u] # <<>> => internal'[u] # <<>>
      PROVE  WalletStays'
  BY <1>1, <1>2 DEF Return, Idle
<1>3. ASSUME NEW h \in Handlers, NEW step, GoTo(h, step), step # "pay" \/ tasks[h].op # "credit",
             tasks[h].op \in {"transfer", "withdraw", "decide", "credit"},
             \A u \in Users : internal[u] # <<>> => internal'[u] # <<>>
      PROVE  WalletStays'
  <2>1. PICK new : tasks' = [tasks EXCEPT ![h] = new] /\ new.op = tasks[h].op /\ new.step = step
    BY <1>3, GoesOn
  <2>. QED BY <1>1, <1>3, <2>1
<1>4. ASSUME NEW h \in Handlers, Transfer(h) \/ Withdraw(h) \/ Decide(h) \/ Credit(h)
      PROVE  WalletStays'
  <2>1. ASSUME NEW t, Begin(h, t), t.step \in {"lookup", "check", "find"} PROVE WalletStays'
    <3>1. UNCHANGED internal /\ tasks' = [tasks EXCEPT ![h] = t]
      BY <2>1 DEF Begin, balances
    <3>. QED BY <1>1, <2>1, <3>1
  <2>2. PICK t : Begin(h, t) /\ t.step \in {"lookup", "check", "find"}
    <3>1. CASE Transfer(h)
      <4>1. PICK u \in Owners, v \in Users, s \in Sources, k \in Keys \cup {NoKey},
                 c \in {"mobile", "web"} : Transfer(h)!(u, v, s, k, c)
        BY <3>1, Zenon DEF Transfer
      <4>. QED BY <4>1
    <3>2. CASE Withdraw(h)
      <4>1. PICK u \in Users, m \in Methods : Withdraw(h)!(u, m)
        BY <3>2, Zenon DEF Withdraw
      <4>. QED BY <4>1
    <3>3. CASE Decide(h)
      <4>1. PICK r \in DOMAIN requests, v \in Verdicts : Decide(h)!(r, v)
        BY <3>3, Zenon DEF Decide
      <4>. QED BY <4>1
    <3>4. CASE Credit(h)
      <4>1. PICK u \in Users, k \in Keys : Credit(h)!(u, k)
        BY <3>4, Zenon DEF Credit
      <4>. QED BY <4>1
    <3>. QED BY <1>4, <3>1, <3>2, <3>3, <3>4
  <2>. QED BY <2>1, <2>2
<1>5. ASSUME NEW h \in Handlers,
             \/ TransferLookup(h) \/ TransferAds(h) \/ TransferCommit(h) \/ WithdrawCheck(h)
             \/ WithdrawDeduct(h) \/ DecideFind(h) \/ DecideMoney(h)
             \/ DecideStatus(h) \/ CreditLookup(h) \/ CreditRow(h) \/ Dies(h)
      PROVE  WalletStays'
  <2>1. UNCHANGED internal
    BY <1>5 DEF TransferLookup, TransferAds, TransferCommit, WithdrawCheck, WithdrawDeduct,
       DecideFind, DecideMoney, DecideStatus, CreditLookup, CreditRow, Dies, balances
  <2>2. \/ Return(h)
        \/ tasks[h].op \in {"transfer", "withdraw", "decide"} /\ \E step : GoTo(h, step)
        \/ tasks[h].op = "credit" /\ GoTo(h, "wallet")
    <3>1. CASE TransferLookup(h) \/ TransferAds(h) \/ TransferCommit(h)
      BY <3>1 DEF TransferLookup, TransferAds, TransferCommit, At
    <3>2. CASE WithdrawCheck(h) \/ WithdrawDeduct(h)
      BY <3>2 DEF WithdrawCheck, WithdrawDeduct, At
    <3>3. CASE DecideFind(h) \/ DecideMoney(h) \/ DecideStatus(h)
      BY <3>3 DEF DecideFind, DecideMoney, DecideStatus, At
    <3>4. CASE CreditLookup(h) \/ CreditRow(h) \/ Dies(h)
      BY <3>4 DEF CreditLookup, CreditRow, Dies, At
    <3>. QED BY <1>5, <3>1, <3>2, <3>3, <3>4
  <2>. QED BY <1>2, <1>3, <2>1, <2>2
<1>10. ASSUME NEW h \in Handlers, WithdrawCreate(h)
      PROVE  WalletStays'
  <2>1. UNCHANGED internal
    BY <1>10 DEF WithdrawCreate, balances
  <2>2. CASE Return(h)
    BY <1>2, <2>1, <2>2
  <2>3. CASE ~Return(h)
    <3>1. PICK t : tasks' = [tasks EXCEPT ![h] = t] /\ t.op = "withdraw"
      BY <1>10, <2>3, CreatesTask
    <3>. QED BY <1>1, <2>1, <3>1
  <2>. QED BY <2>2, <2>3
<1>6. ASSUME NEW h \in Handlers, CreditWallet(h)
      PROVE  WalletStays'
  <2>1. /\ tasks[h].op = "credit" /\ UNCHANGED internal
        /\ GoTo(h, IF internal[tasks[h].user] = <<>> THEN "push" ELSE "pay")
    BY <1>6 DEF CreditWallet, At, balances
  <2>2. CASE internal[tasks[h].user] = <<>>
    <3>1. GoTo(h, "push")
      BY <2>1, <2>2
    <3>. QED BY <1>3, <2>1, <3>1
  <2>3. CASE internal[tasks[h].user] # <<>>
    <3>1. GoTo(h, "pay")
      BY <2>1, <2>3
    <3>2. PICK new : /\ tasks' = [tasks EXCEPT ![h] = new]
                     /\ new.op = "credit" /\ new.user = tasks[h].user
      BY <2>1, <3>1, GoesOn
    <3>. QED BY <1>1, <2>1, <2>3, <3>2
  <2>. QED BY <2>2, <2>3
<1>7. ASSUME NEW h \in Handlers, WithdrawPay(h) \/ CreditPay(h)
      PROVE  WalletStays'
  <2>1. PICK w : w = tasks[h].user
    OBVIOUS
  <2>2. /\ \/ UNCHANGED internal
           \/ internal' = [internal EXCEPT ![w] = [i \in DOMAIN @ |-> @[i] + Amount - Fee]]
           \/ internal' = [internal EXCEPT ![w][1] = @ + Amount]
        /\ Return(h) \/ GoTo(h, "push") \/ GoTo(h, "row")
        /\ tasks[h].op \in {"withdraw", "credit"}
    <3>1. CASE WithdrawPay(h)
      BY <2>1, <3>1 DEF WithdrawPay, At
    <3>2. CASE CreditPay(h)
      BY <2>1, <3>2 DEF CreditPay, At
    <3>. QED BY <1>7, <3>1, <3>2
  <2>3. ASSUME NEW u \in Users, internal[u] # <<>> PROVE internal'[u] # <<>>
    <3>1. 1 \in DOMAIN internal[u]
      BY <2>3, WalletIsANumber
    <3>2. DOMAIN internal'[u] = DOMAIN internal[u]
      <4>1. CASE UNCHANGED internal
        BY <4>1
      <4>2. CASE internal' = [internal EXCEPT ![w] = [i \in DOMAIN @ |-> @[i] + Amount - Fee]]
        BY <4>2 DEF MoneyTypeOK
      <4>3. CASE internal' = [internal EXCEPT ![w][1] = @ + Amount]
        BY <4>3 DEF MoneyTypeOK
      <4>. QED BY <2>2, <4>1, <4>2, <4>3
    <3>3. DOMAIN <<>> = {}
      OBVIOUS
    <3>. QED BY <3>1, <3>2, <3>3
  <2>. QED BY <1>2, <1>3, <2>2, <2>3
<1>8. ASSUME NEW h \in Handlers, WithdrawPush(h) \/ CreditPush(h)
      PROVE  WalletStays'
  <2>1. PICK w, n : w = tasks[h].user /\ internal' = [internal EXCEPT ![w] = Append(@, n)]
    BY <1>8 DEF WithdrawPush, CreditPush, PushWallet
  <2>2. tasks[h].op \in {"withdraw", "credit"} /\ (Return(h) \/ GoTo(h, "row"))
    BY <1>8 DEF WithdrawPush, CreditPush, At
  <2>3. ASSUME NEW u \in Users, internal[u] # <<>> PROVE internal'[u] # <<>>
    <3>1. CASE u = w
      <4>1. internal'[u] = Append(internal[u], n) /\ internal[u] \in Seq(Nat)
        BY <2>1, <3>1 DEF MoneyTypeOK
      <4>2. Len(internal'[u]) = Len(internal[u]) + 1 /\ Len(internal[u]) \in Nat
        BY SMTT(20), <4>1
      <4>3. Len(internal'[u]) # 0 /\ Len(<<>>) = 0
        BY <4>2
      <4>. QED BY <4>3
    <3>2. CASE u # w
      <4>1. internal'[u] = internal[u]
        BY <2>1, <3>2 DEF MoneyTypeOK
      <4>. QED BY <2>3, <4>1
    <3>. QED BY <3>1, <3>2
  <2>. QED BY <1>2, <1>3, <2>2, <2>3
<1>9. ASSUME NEW a \in AdKeys, WatchAd(a) \/ AdsExpire(a)
      PROVE  WalletStays'
  BY <1>9 DEF WatchAd, AdsExpire, balances, WalletStays, At
<1>. QED BY <1>4, <1>5, <1>6, <1>7, <1>8, <1>9, <1>10, Zenon DEF Next

LEMMA InitBooks == Init => BooksInv
<1>. SUFFICES ASSUME Init PROVE BooksInv
  OBVIOUS
<1>1. MoneyInv /\ MoneyTypeOK
  BY InitMoney DEF MoneyInv, DecisionInv
<1>2. /\ transfers = <<>> /\ requests = <<>> /\ credits = <<>>
      /\ DOMAIN transfers = {} /\ DOMAIN requests = {} /\ DOMAIN credits = {}
      /\ \A h \in Handlers : tasks[h].op = "idle"
  BY DEF Init, Idle
<1>3. PendingIsPaidHere /\ WalletStays
  BY <1>2 DEF PendingIsPaidHere, WalletStays, At
<1>4. ASSUME NEW u \in Users PROVE OpenBooksOf(u)
  <2>1. Cardinality({}) = 0
    BY FS_EmptySet
  <2>2. Received(u) = 0 /\ ShopCredits(u) = 0 /\ \A s : Transferred(u, s) = 0
    BY <1>2, <2>1 DEF Received, ShopCredits, Transferred
  <2>3. \A M, S : Requested(u, M, S) = 0
    BY <1>2, <2>1 DEF Requested
  <2>4. /\ Creating(u) = {} /\ Paying(u) = {} /\ Booking(u) = {}
        /\ \A v : Deciding(u, v) = {}
    BY <1>2 DEF Creating, Paying, Booking, Deciding, Creates, Pays, Books, Decides
  <2>5. Net(u) = 0 /\ Sent(u) = 0 /\ Held(u) = 0 /\ Given(u) = 0 /\ Shopped(u) = 0 /\ PaidOut(u) = 0
    <3>1. Net(u) = 0 /\ Sent(u) = 0
      BY <2>2 DEF Net, Sent
    <3>2. /\ Requested(u, Methods, {"Pending", "Approved"}) = 0
          /\ Requested(u, {"USDT"}, {"Approved"}) = 0 /\ Requested(u, {"BTCY"}, {"Approved"}) = 0
      BY <2>3
    <3>3. /\ Cardinality(Creating(u)) = 0 /\ Cardinality(Paying(u)) = 0
          /\ Cardinality(Booking(u)) = 0 /\ Cardinality(Deciding(u, "Rejected")) = 0
          /\ Cardinality(Deciding(u, "Approved")) = 0
      BY <2>1, <2>4
    <3>. QED BY <2>2, <3>1, <3>2, <3>3 DEF Held, Given, Shopped, PaidOut
  <2>6. /\ transferable[u] = Start /\ stellar[u] = Start /\ adRevenue[u] = Start
        /\ migrated[u] = 0 /\ Wallet(u) = 0
    BY DEF Init, Wallet
  <2>7. Start \in Int /\ Amount \in Int /\ Amount - Fee \in Int
    OBVIOUS
  <2>8. Amount * 0 = 0 /\ (Amount - Fee) * 0 = 0
    BY <2>7
  <2>. QED BY <2>5, <2>6, <2>7, <2>8 DEF OpenBooksOf
<1>. QED BY <1>1, <1>3, <1>4 DEF BooksInv, OpenBooks

LEMMA BooksStep == BooksInv /\ [Next]_vars => BooksInv'
<1>. SUFFICES ASSUME BooksInv, [Next]_vars PROVE BooksInv'
  OBVIOUS
<1>1. MoneyInv'
  BY MoneyStep DEF BooksInv
<1>2. CASE Next
  BY <1>1, <1>2, OpenBooksStep, PendingStep, WalletStep DEF BooksInv, MoneyInv, DecisionInv
<1>3. CASE UNCHANGED vars
  <2>1. UNCHANGED <<transferable, adRevenue, migrated, stellar, internal, transfers, requests,
                    credits, upset, tasks>>
    BY <1>3 DEF vars, balances, rows, history
  <2>2. PendingIsPaidHere' /\ WalletStays'
    BY <2>1 DEF BooksInv, PendingIsPaidHere, WalletStays, At
  <2>3. OpenBooks'
    <3>1. ASSUME NEW u \in Users, OpenBooksOf(u) PROVE OpenBooksOf(u)'
      BY <2>1, <3>1, BooksStand
    <3>. QED BY <2>1, <3>1 DEF BooksInv, OpenBooks, Undisturbed
  <2>. QED BY <1>1, <2>2, <2>3 DEF BooksInv
<1>. QED BY <1>2, <1>3

\* Whenever nothing is in flight, everybody's balances are what the rows of transfers,
\* withdrawals and credits say (nuggetTransfer.service.ts, miningStationEarnings.service.ts,
\* miningWithdrawRequest.service.ts and shoperpalBtcyCredit.service.ts write both), unless a
\* request died half done, a credit went to the wrong wallet or a race that the code does
\* not guard against was lost.
THEOREM BooksAreKept == Spec => []BooksBalance
<1>1. ASSUME BooksInv PROVE BooksBalance
  <2>1. SUFFICES ASSUME upset \subseteq {"ads"}, \A h \in Handlers : tasks[h] = Idle, NEW u \in Users
                 PROVE  BooksOf(u)
    BY DEF BooksBalance
  <2>2. OpenBooksOf(u) /\ MoneyTypeOK
    BY <1>1, <2>1 DEF BooksInv, MoneyInv, DecisionInv, OpenBooks, Undisturbed
  <2>3. \A h \in Handlers : tasks[h].op = "idle"
    BY <2>1 DEF Idle
  <2>4. /\ Creating(u) = {} /\ Paying(u) = {} /\ Booking(u) = {}
        /\ \A v : Deciding(u, v) = {}
    BY <2>3 DEF Creating, Paying, Booking, Deciding, Creates, Pays, Books, Decides
  <2>5. Cardinality({}) = 0
    BY FS_EmptySet
  <2>6. /\ Net(u) = Received(u) - Transferred(u, "mined") /\ Sent(u) = Transferred(u, "withdrawn")
        /\ Held(u) = Requested(u, Methods, {"Pending", "Approved"})
        /\ Given(u) = Requested(u, {"USDT"}, {"Approved"})
        /\ Shopped(u) = ShopCredits(u) /\ PaidOut(u) = Requested(u, {"BTCY"}, {"Approved"})
    BY <2>2, <2>4, <2>5, CountsAreNumbers DEF Net, Sent, Held, Given, Shopped, PaidOut
  <2>. QED BY <2>2, <2>6 DEF OpenBooksOf, BooksOf, Wallet
<1>. QED BY InitBooks, BooksStep, <1>1, PTL DEF Spec
=============================================================================
