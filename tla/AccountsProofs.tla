--------------------------- MODULE AccountsProofs ---------------------------
(***************************************************************************)
(* What holds of Accounts for any users, orders and number of requests at  *)
(* once, and whatever requests arrive.  At the centre: a transaction that  *)
(* has written a balance holds its advisory lock, and what it has written  *)
(* is the committed balance plus its own entries.                          *)
(***************************************************************************)
EXTENDS Accounts, SequenceTheorems, TLAPS

Cancels == {"cancel", "cancel_internal"}

Shape(x) ==
  /\ x = [op |-> x.op, at |-> x.at, want |-> x.want, id |-> x.id, order |-> x.order,
          filled |-> x.filled, fill |-> x.fill, known |-> x.known, bal |-> x.bal,
          sum |-> x.sum, rows |-> x.rows, ok |-> x.ok]
  /\ x.ok \in BOOLEAN

\* The statements a request can be at.
Stage(x) ==
  \/ x.op = "idle" /\ x.at = "idle" /\ x.want = << >>
  \/ x.op = "place" /\ x.at \in {"apply", "done"}
  \/ x.op \in Cancels /\ x.at \in {"row", "apply", "done"}
  \/ x.op = "settle" /\ x.at \in {"check", "buyer", "seller", "commit", "done"}

\* What never changes about an order, and decides what it locks.
SameLock(o, p) ==
  o.user = p.user /\ o.side = p.side /\ o.price = p.price /\ o.quantity = p.quantity

RequestOK(x) ==
  /\ Shape(x) /\ Stage(x)
  /\ x.want \in Seq(Keys)
  /\ x.known \subseteq DOMAIN orders
  /\ Function(x.bal, Keys, Int) /\ x.sum \in [Keys -> Int]
  /\ \A id \in DOMAIN x.rows :
       id \in DOMAIN orders /\ x.rows[id] \in Order /\ SameLock(x.rows[id], orders[id])
  /\ x.op = "place" /\ x.at = "apply" =>
       x.order \in Order /\ x.id \in OrderIds /\ x.id <= ids /\ x.id \notin DOMAIN orders
  /\ x.op \in Cancels /\ x.at # "done" => x.id \in DOMAIN orders /\ x.filled \in Int
  /\ x.op = "settle" /\ x.at # "done" => x.fill \in Fill

\* The balances the rest of a transaction is going to write.
NeedsKey(x, k) ==
  \/ x.op = "place" /\ x.at = "apply" /\ k = LockKey(x.order)
  \/ x.op \in Cancels /\ x.at = "apply" /\ UnlockAmount(orders[x.id], x.filled) > 0
                      /\ k = LockKey(orders[x.id])
  \/ x.op = "settle" /\ x.at \in {"buyer", "seller"} /\ \E id \in x.known : k[1] = orders[id].user

\* They are locked, or going to be before it goes on.
Held(x, t) ==
  \A k \in Keys : NeedsKey(x, k) =>
    advisory[k] = t \/ \E i \in 1 .. Len(x.want) : x.want[i] = k

\* What the transaction of t has written so far.
Written(x, t) ==
  \A k \in Keys :
    IF k \in DOMAIN x.bal
      THEN advisory[k] = t /\ x.bal[k] = balances[k] + x.sum[k] /\ x.bal[k] >= 0
      ELSE x.sum[k] = 0

SlotOK(x, t) == RequestOK(x) /\ Held(x, t) /\ Written(x, t)

TablesOK ==
  /\ balances \in [Keys -> Int]
  /\ Function(orders, OrderIds, Order)
  /\ trades \subseteq Fill
  /\ ids \in 0 .. MaxOrders
  /\ \A id \in DOMAIN orders : id <= ids
  /\ Function(applied, Fill, Nat)

LocksOK ==
  /\ advisory \in [Keys -> Slots \cup {NoSlot}]
  /\ rowLock \in [OrderIds -> Slots \cup {NoSlot}]

Money == balances = ledger /\ \A k \in Keys : balances[k] >= 0

\* No two requests have drawn the same order id.
IdsDiffer ==
  \A s, t \in Slots :
    tx[s].op = "place" /\ tx[s].at = "apply" /\ tx[t].op = "place" /\ tx[t].at = "apply"
      /\ tx[s].id = tx[t].id => s = t

\* The inductive invariant.
IInv ==
  /\ TablesOK /\ LocksOK /\ Money /\ IdsDiffer
  /\ DOMAIN tx = Slots /\ tx = [t \in Slots |-> tx[t]]
  /\ \A t \in Slots : SlotOK(tx[t], t)

\* The orders whose rows a settlement has marked so far, and the quantity it added to one.
Marked(x) ==
  x.known \cap ((IF x.at \in {"seller", "commit"} THEN {x.fill.buy} ELSE {})
                   \cup (IF x.at = "commit" THEN {x.fill.sell} ELSE {}))

Part(x, id) ==
  (IF x.at \in {"seller", "commit"} /\ id = x.fill.buy THEN x.fill.quantity ELSE 0)
    + (IF x.at = "commit" /\ id = x.fill.sell THEN x.fill.quantity ELSE 0)

\* What becomes of order o when quantity is added to it: nothing if it was cancelled.
MarkedBy(o, p, quantity) ==
  IF o.status = "cancelled" THEN p = o
  ELSE p.status # "cancelled" /\ p.filled = o.filled + quantity

\* The entries of a settlement so far, lock and payment of a party set off.
Entries(x) ==
  [k \in Keys |->
     (IF /\ x.at \in {"seller", "commit"} /\ x.fill.buy \in x.known
         /\ k = <<orders[x.fill.buy].user, "base">>
        THEN x.fill.quantity ELSE 0)
     + (IF /\ x.at = "commit" /\ x.fill.sell \in x.known
           /\ k = <<orders[x.fill.sell].user, "quote">>
          THEN QuoteAmount(x.fill.price, x.fill.quantity) ELSE 0)]

\* Whoever has read a row in order to write it holds it until it ends, so that what it read
\* is still there when it commits.
RowsOK(x, t) ==
  /\ x.op \in Cancels /\ x.at = "apply" =>
       rowLock[x.id] = t /\ orders[x.id].status # "cancelled"
  /\ x.op = "cancel" /\ x.at = "apply" => x.filled = orders[x.id].filled
  /\ x.op = "place" /\ x.at = "apply" => x.order \in NewOrder
  /\ DOMAIN x.rows = Marked(x)
  /\ \A id \in Marked(x) :
       rowLock[id] = t /\ MarkedBy(orders[id], x.rows[id], Part(x, id))
  /\ x.sum = Entries(x)

RInv == \A t \in Slots : RowsOK(tx[t], t)

-----------------------------------------------------------------------------
(* Arithmetic of locks and entries. *)

LEMMA RoundFacts ==
  ASSUME NEW n \in Int, NEW d \in Nat \ {0}
  PROVE  RoundHalfEven(n, d) \in Int
<1>1. n \div d \in Int
  OBVIOUS
<1> QED BY <1>1 DEF RoundHalfEven

LEMMA QuoteFacts ==
  ASSUME NEW p \in Prices, NEW q \in Int
  PROVE  QuoteAmount(p, q) \in Int
<1>1. p * q \in Int
  BY PricesAssumption
<1> QED BY <1>1, RoundFacts, NumbersAssumption DEF QuoteAmount

LEMMA OrderFacts ==
  ASSUME NEW o \in Order
  PROVE  /\ o.user \in Users /\ o.quantity \in Int /\ o.filled \in Int
         /\ LockKey(o) \in Keys /\ LockAmount(o) \in Int
<1>1. o.user \in Users /\ o.quantity \in Int /\ o.filled \in Int
      /\ o.price \in Prices \cup {NoPrice} /\ o.side \in {"bid", "ask"}
  BY QuantitiesAssumption DEF Order
<1>2. o.side = "bid" => o.price \in Prices
  BY <1>1 DEF Order
<1>3. LockKey(o) \in Keys
  BY <1>1 DEF LockKey, Keys, Assets
<1>4. LockAmount(o) \in Int
  BY <1>1, <1>2, QuoteFacts DEF LockAmount
<1> QED BY <1>1, <1>3, <1>4

LEMMA UnlockFacts ==
  ASSUME NEW o \in Order, NEW filled \in Int
  PROVE  UnlockAmount(o, filled) \in Int
<1>1. o.quantity \in Int /\ LockAmount(o) \in Int
  BY OrderFacts
<1>2. /\ LockAmount(o) * (o.quantity - filled) \in Int
      /\ LockAmount(o) * (filled - o.quantity) \in Int
  BY <1>1
<1>3. CASE o.quantity > 0
  BY <1>1, <1>2, <1>3, RoundFacts DEF UnlockAmount
<1>4. CASE o.quantity < 0
  BY <1>1, <1>2, <1>4, RoundFacts DEF UnlockAmount
<1> QED BY <1>1, <1>3, <1>4 DEF UnlockAmount

LEMMA SameLockFacts ==
  ASSUME NEW o, NEW p, SameLock(o, p), NEW filled
  PROVE  /\ LockKey(o) = LockKey(p)
         /\ UnlockAmount(o, filled) = UnlockAmount(p, filled)
BY DEF SameLock, LockKey, UnlockAmount, LockAmount

\* An entry appended to the ledger, refused or not.
LEMMA PostFacts ==
  ASSUME NEW x, NEW k \in Keys, NEW amount \in Int, NEW type,
         Shape(x), Function(x.bal, Keys, Int), x.sum \in [Keys -> Int],
         balances \in [Keys -> Int],
         NEW y, y = Post(x, k, amount, type)
  PROVE  /\ Shape(y)
         /\ y.op = x.op /\ y.at = x.at /\ y.want = x.want /\ y.id = x.id /\ y.order = x.order
         /\ y.filled = x.filled /\ y.fill = x.fill /\ y.known = x.known /\ y.rows = x.rows
         /\ Function(y.bal, Keys, Int) /\ y.sum \in [Keys -> Int]
<1> DEFINE new == Seen(x, k) + amount
<1>1. Seen(x, k) \in Int /\ new \in Int
  BY DEF Seen, Function
<1>2. /\ y.bal = [j \in DOMAIN x.bal \cup {k} |-> IF j = k THEN new ELSE x.bal[j]]
      /\ y.sum = [x.sum EXCEPT ![k] = @ + amount]
      /\ y.ok = (x.ok /\ ~Refused(new, type))
      /\ y.op = x.op /\ y.at = x.at /\ y.want = x.want /\ y.id = x.id /\ y.order = x.order
      /\ y.filled = x.filled /\ y.fill = x.fill /\ y.known = x.known /\ y.rows = x.rows
  BY DEF Post, Shape
<1>3. y = [op |-> x.op, at |-> x.at, want |-> x.want, id |-> x.id, order |-> x.order,
           filled |-> x.filled, fill |-> x.fill, known |-> x.known, bal |-> y.bal,
           sum |-> y.sum, rows |-> x.rows, ok |-> y.ok]
  <2>1. y = [x EXCEPT !.bal = y.bal, !.sum = y.sum, !.ok = y.ok]
    BY <1>2 DEF Post
  <2>2. x = [op |-> x.op, at |-> x.at, want |-> x.want, id |-> x.id, order |-> x.order,
             filled |-> x.filled, fill |-> x.fill, known |-> x.known, bal |-> x.bal,
             sum |-> x.sum, rows |-> x.rows, ok |-> x.ok]
    BY DEF Shape
  <2> QED BY <2>1, <2>2
<1>4. Shape(y)
  <2>1. y.ok \in BOOLEAN
    <3>1. (x.ok /\ ~Refused(new, type)) \in BOOLEAN
      OBVIOUS
    <3> QED BY <3>1, <1>2, Zenon
  <2>2. y = [op |-> y.op, at |-> y.at, want |-> y.want, id |-> y.id, order |-> y.order,
             filled |-> y.filled, fill |-> y.fill, known |-> y.known, bal |-> y.bal,
             sum |-> y.sum, rows |-> y.rows, ok |-> y.ok]
    BY <1>3
  <2>3. Shape(y)
    BY <2>1, <2>2, Zenon DEF Shape
  <2> QED BY <2>3
<1>5. Function(y.bal, Keys, Int) /\ y.sum \in [Keys -> Int]
  BY <1>1, <1>2 DEF Function
<1>6. Shape(y) /\ Function(y.bal, Keys, Int) /\ y.sum \in [Keys -> Int]
      /\ y.op = x.op /\ y.at = x.at /\ y.want = x.want /\ y.id = x.id /\ y.order = x.order
      /\ y.filled = x.filled /\ y.fill = x.fill /\ y.known = x.known /\ y.rows = x.rows
  BY <1>2, <1>4, <1>5
<1> QED BY <1>6

LEMMA PostSum ==
  ASSUME NEW x, NEW k, NEW amount, NEW type, Shape(x), x.sum \in [Keys -> Int],
         NEW y, y = Post(x, k, amount, type), NEW j \in Keys
  PROVE  y.sum[j] = IF j = k THEN x.sum[j] + amount ELSE x.sum[j]
<1>1. y.sum = [x.sum EXCEPT ![k] = @ + amount]
  BY DEF Post, Shape
<1> QED BY <1>1

LEMMA PostOk ==
  ASSUME NEW x, NEW k \in Keys, NEW amount \in Int, NEW type,
         Shape(x), Function(x.bal, Keys, Int), balances \in [Keys -> Int],
         NEW y, y = Post(x, k, amount, type), y.ok
  PROVE  x.ok /\ Seen(x, k) + amount >= 0
<1> DEFINE new == Seen(x, k) + amount
<1>1. y.ok = (x.ok /\ ~Refused(new, type))
  BY DEF Post, Shape
<1>2. ~Refused(new, type) => new >= 0
  <2>1. Seen(x, k) \in Int /\ new \in Int
    BY DEF Seen, Function
  <2> QED BY <2>1 DEF Refused
<1> HIDE DEF new
<1> QED BY <1>1, <1>2, Zenon DEF new

\* It keeps what is Written when it is appended under its advisory lock and not refused.
LEMMA PostWritten ==
  ASSUME NEW x, NEW t \in Slots, NEW k \in Keys, NEW amount \in Int, NEW type,
         Shape(x), Function(x.bal, Keys, Int), x.sum \in [Keys -> Int], Written(x, t),
         balances \in [Keys -> Int], advisory[k] = t,
         NEW y, y = Post(x, k, amount, type)
  PROVE  /\ y.ok => Written(y, t)
         /\ Seen(x, k) + amount >= 0 => Written(y, t)
<1> DEFINE new == Seen(x, k) + amount
<1>1. Seen(x, k) \in Int /\ new \in Int
  BY DEF Seen, Function
<1>2. /\ y.bal = [j \in DOMAIN x.bal \cup {k} |-> IF j = k THEN new ELSE x.bal[j]]
      /\ y.sum = [x.sum EXCEPT ![k] = @ + amount]
  BY DEF Post, Shape
<1>3. new >= 0 => Written(y, t)
  <2> SUFFICES ASSUME new >= 0, NEW j \in Keys
               PROVE  IF j \in DOMAIN y.bal
                        THEN advisory[j] = t /\ y.bal[j] = balances[j] + y.sum[j] /\ y.bal[j] >= 0
                        ELSE y.sum[j] = 0
    BY DEF Written
  <2>1. CASE j = k
    <3>1. /\ k \in DOMAIN x.bal => x.bal[k] = balances[k] + x.sum[k]
          /\ k \notin DOMAIN x.bal => x.sum[k] = 0
      BY DEF Written
    <3>2. Seen(x, k) = balances[k] + x.sum[k]
      BY <3>1, <1>1 DEF Seen, Written
    <3> QED BY <2>1, <3>2, <1>1, <1>2
  <2>2. CASE j # k
    BY <2>2, <1>2 DEF Written
  <2> QED BY <2>1, <2>2
<1>4. y.ok => new >= 0
  BY PostOk, Zenon
<1> HIDE DEF new
<1> QED BY <1>3, <1>4, Zenon DEF new

-----------------------------------------------------------------------------
(* The four ways in which a step changes the state. *)

LEMMA BlankFacts ==
  /\ Shape(Blank) /\ Function(Blank.bal, Keys, Int) /\ Blank.sum \in [Keys -> Int]
  /\ Blank.want = << >> /\ Blank.want \in Seq(Keys) /\ Blank.known = {}
  /\ DOMAIN Blank.bal = {} /\ DOMAIN Blank.rows = {}
  /\ \A k \in Keys : Blank.sum[k] = 0
BY DEF Blank, Shape, Function

LEMMA InitIInv == Init => IInv
<1> SUFFICES ASSUME Init PROVE IInv
  OBVIOUS
<1>1. TablesOK /\ LocksOK /\ Money
  BY NumbersAssumption DEF Init, TablesOK, LocksOK, Money, Function
<1>2. \A t \in Slots : tx[t] = Blank
  BY DEF Init
<1>3. IdsDiffer /\ DOMAIN tx = Slots /\ tx = [t \in Slots |-> tx[t]]
  BY <1>2 DEF Init, IdsDiffer, Blank
<1>4. Blank.op = "idle" /\ Blank.at = "idle"
  BY DEF Blank
<1>5. \A t \in Slots : SlotOK(tx[t], t)
  BY <1>2, <1>4, BlankFacts DEF SlotOK, RequestOK, Stage, Held, NeedsKey, Written, Cancels
<1> QED BY <1>1, <1>3, <1>5 DEF IInv

\* A slot works on, or begins, and the tables stay as they are.
LEMMA LocalStep ==
  ASSUME IInv, NEW t \in Slots, NEW y, SlotOK(y, t),
         tx' = [tx EXCEPT ![t] = y],
         y.op # "place" \/ y.at # "apply",
         UNCHANGED <<balances, ledger, orders, trades, ids, advisory, applied>>,
         rowLock' \in [OrderIds -> Slots \cup {NoSlot}]
  PROVE  IInv'
<1>1. (TablesOK /\ LocksOK /\ Money)'
  BY DEF IInv, TablesOK, LocksOK, Money
<1>2. DOMAIN tx' = Slots /\ tx' = [s \in Slots |-> tx'[s]]
  BY DEF IInv
<1>3. tx'[t] = y /\ \A s \in Slots : s # t => tx'[s] = tx[s]
  BY DEF IInv
<1>4. IdsDiffer'
  BY <1>3 DEF IInv, IdsDiffer
<1>5. \A s \in Slots : SlotOK(tx'[s], s)
  BY <1>3 DEF IInv
<1>6. \A s \in Slots : SlotOK(tx[s], s)'
  BY <1>5 DEF SlotOK, RequestOK, Held, NeedsKey, Written, Function, UnlockAmount
<1> QED BY <1>1, <1>2, <1>4, <1>6 DEF IInv

LEMMA AnswerFacts ==
  ASSUME NEW x, NEW ok \in BOOLEAN
  PROVE  LET y == Answer(x, ok)
         IN /\ Shape(y) /\ y.op = x.op /\ y.at = "done"
            /\ Function(y.bal, Keys, Int) /\ y.sum \in [Keys -> Int]
            /\ y.want = << >> /\ y.want \in Seq(Keys) /\ y.known = {}
            /\ DOMAIN y.bal = {} /\ DOMAIN y.rows = {}
            /\ \A k \in Keys : y.sum[k] = 0
<1> DEFINE y == Answer(x, ok)
           z == [op |-> x.op, at |-> "done", want |-> << >>, id |-> x.id, order |-> x.order,
                 filled |-> 0, fill |-> x.fill, known |-> {}, bal |-> << >>,
                 sum |-> [k \in Keys |-> 0], rows |-> << >>, ok |-> ok]
<1>1. y = z
  <2>1. Blank = [op |-> "idle", at |-> "idle", want |-> << >>, id |-> 0, order |-> << >>,
                 filled |-> 0, fill |-> << >>, known |-> {}, bal |-> << >>, sum |-> Blank.sum,
                 rows |-> << >>, ok |-> TRUE]
        /\ Blank.sum = [k \in Keys |-> 0]
    BY DEF Blank
  <2>2. /\ y.op = x.op /\ y.at = "done" /\ y.want = << >> /\ y.id = x.id /\ y.order = x.order
        /\ y.filled = 0 /\ y.fill = x.fill /\ y.known = {} /\ y.bal = << >>
        /\ y.sum = Blank.sum /\ y.rows = << >>
    BY <2>1 DEF Answer
  <2>3. y.ok = ok
    BY <2>1 DEF Answer
  <2>4. y = [Blank EXCEPT !.op = x.op, !.at = "done", !.id = x.id, !.order = x.order,
                          !.fill = x.fill, !.ok = ok]
    BY DEF Answer
  <2> HIDE DEF y
  <2>5. y = [op |-> y.op, at |-> y.at, want |-> y.want, id |-> y.id, order |-> y.order,
             filled |-> y.filled, fill |-> y.fill, known |-> y.known, bal |-> y.bal,
             sum |-> y.sum, rows |-> y.rows, ok |-> y.ok]
    BY <2>1, <2>4
  <2> QED BY <2>1, <2>5, <2>2, <2>3
<1>2. Shape(z)
  BY DEF Shape
<1>3. /\ z.op = x.op /\ z.at = "done"
      /\ Function(z.bal, Keys, Int) /\ z.sum \in [Keys -> Int]
      /\ z.want = << >> /\ z.want \in Seq(Keys) /\ z.known = {}
      /\ DOMAIN z.bal = {} /\ DOMAIN z.rows = {}
      /\ \A k \in Keys : z.sum[k] = 0
  BY DEF Function
<1> HIDE DEF y, z
<1>4. /\ Shape(y) /\ y.op = x.op /\ y.at = "done"
      /\ Function(y.bal, Keys, Int) /\ y.sum \in [Keys -> Int]
      /\ y.want = << >> /\ y.want \in Seq(Keys) /\ y.known = {}
      /\ DOMAIN y.bal = {} /\ DOMAIN y.rows = {}
      /\ \A k \in Keys : y.sum[k] = 0
  BY <1>1, <1>2, <1>3
<1> QED BY <1>4 DEF y

\* A request is answered, and its locks are gone.
LEMMA AnswerStep ==
  ASSUME IInv, NEW t \in Slots, NEW x, NEW ok \in BOOLEAN,
         x.op = tx[t].op, tx[t].op # "idle",
         tx' = [tx EXCEPT ![t] = Answer(x, ok)],
         advisory' = Release(advisory, t), rowLock' = Release(rowLock, t)
  PROVE  /\ LocksOK' /\ IdsDiffer'
         /\ DOMAIN tx' = Slots /\ tx' = [s \in Slots |-> tx'[s]]
         /\ SlotOK(tx[t], t)'
         /\ \A s \in Slots : s # t => tx'[s] = tx[s]
         /\ \A k \in Keys : IF advisory[k] = t THEN advisory'[k] = NoSlot
                                               ELSE advisory'[k] = advisory[k]
<1> DEFINE y == Answer(x, ok)
<1>1. /\ Shape(y) /\ y.op = x.op /\ y.at = "done"
      /\ Function(y.bal, Keys, Int) /\ y.sum \in [Keys -> Int]
      /\ y.want = << >> /\ y.want \in Seq(Keys) /\ y.known = {}
      /\ DOMAIN y.bal = {} /\ DOMAIN y.rows = {}
      /\ \A k \in Keys : y.sum[k] = 0
  BY AnswerFacts
<1> HIDE DEF y
<1>2. /\ tx'[t] = y /\ DOMAIN tx' = Slots /\ tx' = [s \in Slots |-> tx'[s]]
      /\ \A s \in Slots : s # t => tx'[s] = tx[s]
  BY DEF IInv, y
<1>3. \A k \in Keys : IF advisory[k] = t THEN advisory'[k] = NoSlot
                                         ELSE advisory'[k] = advisory[k]
  BY DEF IInv, LocksOK, Release
<1>4. LocksOK'
  BY DEF IInv, LocksOK, Release
<1>5. IdsDiffer'
  BY <1>1, <1>2 DEF IInv, IdsDiffer
<1>6. Stage(y)
  BY <1>1 DEF IInv, SlotOK, RequestOK, Stage
<1>7. SlotOK(y, t)'
  BY <1>1, <1>6 DEF SlotOK, RequestOK, Held, NeedsKey, Written
<1> QED BY <1>2, <1>3, <1>4, <1>5, <1>7

\* What is held by others stays held.
LEMMA AbortStep ==
  ASSUME IInv, NEW t \in Slots, NEW ok \in BOOLEAN, Abort(t, ok), tx[t].op # "idle"
  PROVE  IInv'
<1>1. /\ tx' = [tx EXCEPT ![t] = Answer(tx[t], ok)]
      /\ advisory' = Release(advisory, t) /\ rowLock' = Release(rowLock, t)
      /\ UNCHANGED <<balances, ledger, orders, trades, ids, applied>>
  BY DEF Abort
<1>2. /\ LocksOK' /\ IdsDiffer'
      /\ DOMAIN tx' = Slots /\ tx' = [s \in Slots |-> tx'[s]]
      /\ SlotOK(tx[t], t)'
      /\ \A s \in Slots : s # t => tx'[s] = tx[s]
      /\ \A k \in Keys : IF advisory[k] = t THEN advisory'[k] = NoSlot
                                            ELSE advisory'[k] = advisory[k]
  BY <1>1, AnswerStep
<1>3. TablesOK' /\ Money'
  BY <1>1 DEF IInv, TablesOK, Money
<1>4. ASSUME NEW s \in Slots, s # t PROVE SlotOK(tx[s], s)'
  <2>1. SlotOK(tx[s], s) /\ tx'[s] = tx[s]
    BY <1>2, <1>4 DEF IInv
  <2>2. RequestOK(tx[s])'
    BY <1>1, <2>1 DEF SlotOK, RequestOK, Function
  <2>3. Held(tx[s], s)'
    <3> SUFFICES ASSUME NEW k \in Keys, NeedsKey(tx[s], k)'
                 PROVE  advisory'[k] = s \/ \E i \in 1 .. Len(tx[s].want) : tx[s].want[i] = k
      BY <2>1 DEF Held
    <3>1. NeedsKey(tx[s], k)
      BY <1>1, <2>1 DEF NeedsKey, UnlockAmount
    <3> QED BY <3>1, <2>1, <1>2, <1>4 DEF SlotOK, Held
  <2>4. Written(tx[s], s)'
    BY <1>1, <1>2, <1>4, <2>1 DEF SlotOK, Written
  <2> QED BY <2>2, <2>3, <2>4 DEF SlotOK
<1> QED BY <1>2, <1>3, <1>4 DEF IInv

\* A transaction commits x.
LEMMA CommitStep ==
  ASSUME IInv, NEW t \in Slots, NEW x, Commit(t, x), x.op = tx[t].op, x.op # "idle",
         Function(x.bal, Keys, Int), x.sum \in [Keys -> Int], Written(x, t),
         \A id \in DOMAIN x.rows :
           /\ x.rows[id] \in Order
           /\ IF id \in DOMAIN orders THEN SameLock(x.rows[id], orders[id])
              ELSE tx[t].op = "place" /\ tx[t].at = "apply" /\ id = tx[t].id,
         trades' \subseteq Fill, Function(applied', Fill, Nat)
  PROVE  IInv'
<1>1. /\ balances' = [k \in Keys |-> Seen(x, k)]
      /\ ledger' = [k \in Keys |-> ledger[k] + x.sum[k]]
      /\ orders' = [id \in DOMAIN orders \cup DOMAIN x.rows |->
                      IF id \in DOMAIN x.rows THEN x.rows[id] ELSE orders[id]]
      /\ tx' = [tx EXCEPT ![t] = Answer(x, TRUE)]
      /\ advisory' = Release(advisory, t) /\ rowLock' = Release(rowLock, t)
      /\ ids' = ids
  BY DEF Commit, Row
<1>2. /\ LocksOK' /\ IdsDiffer'
      /\ DOMAIN tx' = Slots /\ tx' = [s \in Slots |-> tx'[s]]
      /\ SlotOK(tx[t], t)'
      /\ \A s \in Slots : s # t => tx'[s] = tx[s]
      /\ \A k \in Keys : IF advisory[k] = t THEN advisory'[k] = NoSlot
                                            ELSE advisory'[k] = advisory[k]
  BY <1>1, AnswerStep
<1>3. \A k \in Keys :
        /\ balances[k] \in Int /\ ledger[k] = balances[k] /\ balances[k] >= 0
        /\ balances'[k] \in Int /\ balances'[k] = balances[k] + x.sum[k]
        /\ balances'[k] >= 0
        /\ k \notin DOMAIN x.bal => balances'[k] = balances[k]
  BY <1>1 DEF IInv, TablesOK, Money, Written, Seen, Function
<1>4. Money'
  <2>1. balances' = [k \in Keys |-> balances'[k]]
    BY <1>1
  <2>2. ledger' = [k \in Keys |-> balances'[k]]
    BY <1>1, <1>3
  <2> QED BY <1>3, <2>1, <2>2 DEF Money
<1>5. \A id \in DOMAIN x.rows : id \in OrderIds /\ id <= ids
  BY DEF IInv, TablesOK, Function, SlotOK, RequestOK
<1>6. TablesOK'
  <2>1. Function(orders', OrderIds, Order)
    BY <1>1, <1>5 DEF IInv, TablesOK, Function
  <2>2. balances' \in [Keys -> Int]
    <3>1. balances' = [k \in Keys |-> balances'[k]]
      BY <1>1
    <3> QED BY <1>3, <3>1
  <2>3. \A id \in DOMAIN orders' : id <= ids'
    BY <1>1, <1>5 DEF IInv, TablesOK
  <2> QED BY <1>1, <2>1, <2>2, <2>3 DEF IInv, TablesOK
<1>7. \A id \in DOMAIN orders : id \in DOMAIN orders' /\ SameLock(orders'[id], orders[id])
  BY <1>1 DEF SameLock
<1>8. ASSUME NEW s \in Slots, s # t PROVE SlotOK(tx[s], s)'
  <2>1. SlotOK(tx[s], s) /\ tx'[s] = tx[s]
    BY <1>2, <1>8 DEF IInv
  <2>2. RequestOK(tx[s])'
    <3>1. tx[s].op = "place" /\ tx[s].at = "apply" => tx[s].id \notin DOMAIN orders'
      BY <1>1, <1>8, <2>1 DEF IInv, IdsDiffer, SlotOK, RequestOK
    <3>2. \A id \in DOMAIN tx[s].rows : id \in DOMAIN orders' /\ tx[s].rows[id] \in Order
                                      /\ SameLock(tx[s].rows[id], orders'[id])
      BY <1>7, <2>1 DEF SlotOK, RequestOK, SameLock
    <3> QED BY <1>1, <1>7, <2>1, <3>1, <3>2 DEF SlotOK, RequestOK
  <2>3. Held(tx[s], s)'
    <3> SUFFICES ASSUME NEW k \in Keys, NeedsKey(tx[s], k)'
                 PROVE  advisory'[k] = s \/ \E i \in 1 .. Len(tx[s].want) : tx[s].want[i] = k
      BY <2>1 DEF Held
    <3>1. NeedsKey(tx[s], k)
      <4>1. tx[s].op \in Cancels /\ tx[s].at = "apply" =>
              /\ LockKey(orders'[tx[s].id]) = LockKey(orders[tx[s].id])
              /\ UnlockAmount(orders'[tx[s].id], tx[s].filled)
                   = UnlockAmount(orders[tx[s].id], tx[s].filled)
        <5> SUFFICES ASSUME tx[s].op \in Cancels, tx[s].at = "apply"
                     PROVE  /\ LockKey(orders'[tx[s].id]) = LockKey(orders[tx[s].id])
                            /\ UnlockAmount(orders'[tx[s].id], tx[s].filled)
                                 = UnlockAmount(orders[tx[s].id], tx[s].filled)
          OBVIOUS
        <5>1. tx[s].id \in DOMAIN orders
          BY <2>1 DEF SlotOK, RequestOK
        <5>2. SameLock(orders'[tx[s].id], orders[tx[s].id])
          BY <5>1, <1>7
        <5> QED BY <5>2, SameLockFacts
      <4>2. \A id \in tx[s].known : orders'[id].user = orders[id].user
        BY <1>7, <2>1 DEF SlotOK, RequestOK, SameLock
      <4> QED BY <2>1, <4>1, <4>2 DEF NeedsKey
    <3> QED BY <3>1, <2>1, <1>2, <1>8 DEF SlotOK, Held
  <2>4. Written(tx[s], s)'
    <3>1. \A k \in Keys : k \in DOMAIN tx[s].bal =>
            advisory[k] = s /\ advisory'[k] = s /\ k \notin DOMAIN x.bal
      BY <1>2, <1>8, <2>1 DEF SlotOK, Written
    <3>2. \A k \in Keys : k \in DOMAIN tx[s].bal => balances'[k] = balances[k]
      BY <1>3, <3>1
    <3> QED BY <2>1, <3>1, <3>2 DEF SlotOK, Written
  <2> QED BY <2>2, <2>3, <2>4 DEF SlotOK
<1> QED BY <1>2, <1>4, <1>6, <1>8 DEF IInv

-----------------------------------------------------------------------------
(* Requests and statements, one by one. *)

\* A request as it arrives: a record like Blank that has written nothing.
Rec(y) ==
  [op |-> y.op, at |-> y.at, want |-> y.want, id |-> y.id, order |-> y.order,
   filled |-> y.filled, fill |-> y.fill, known |-> y.known, bal |-> y.bal, sum |-> y.sum,
   rows |-> y.rows, ok |-> y.ok]

LEMMA FreshFacts ==
  ASSUME NEW y, y = Rec(y), y.known = {}, y.bal = << >>, y.sum = [k \in Keys |-> 0],
         y.rows = << >>, y.ok = TRUE
  PROVE  /\ Shape(y) /\ Function(y.bal, Keys, Int) /\ y.sum \in [Keys -> Int]
         /\ DOMAIN y.bal = {} /\ DOMAIN y.rows = {}
         /\ \A k \in Keys : y.sum[k] = 0
<1>1. Shape(y)
  BY Zenon DEF Shape, Rec
<1>2. Function(y.bal, Keys, Int) /\ y.sum \in [Keys -> Int]
  BY DEF Function
<1> QED BY <1>1, <1>2

LEMMA BlankShape ==
  /\ Blank = [op |-> "idle", at |-> "idle", want |-> << >>, id |-> 0, order |-> << >>,
              filled |-> 0, fill |-> << >>, known |-> {}, bal |-> << >>, sum |-> Blank.sum,
              rows |-> << >>, ok |-> TRUE]
  /\ Blank.sum = [k \in Keys |-> 0]
BY DEF Blank

\* settle asks for both balances of every user it has an order of.
LEMMA LockOrderFacts ==
  ASSUME TablesOK, NEW f \in Fill, Known(f) # {}
  PROVE  /\ LockOrder(f) \in Seq(Keys)
         /\ \A k \in Keys, id \in Known(f) : k[1] = orders[id].user =>
              \E i \in 1 .. Len(LockOrder(f)) : LockOrder(f)[i] = k
<1> DEFINE us == Parties(f)
           first == CHOOSE u \in us : \A v \in us : u <= v
           last == CHOOSE u \in us : \A v \in us : u >= v
           Both(u) == << <<u, "base">>, <<u, "quote">> >>
<1>1. LockOrder(f) = IF first = last THEN Both(first) ELSE Both(first) \o Both(last)
  BY DEF LockOrder
<1>2. us \subseteq Users
  BY OrderFacts DEF TablesOK, Function, Parties, Known
<1>3. PICK a, b : us = {a, b} /\ a \in Nat /\ b \in Nat
  <2>1. f.buy \in DOMAIN orders \/ f.sell \in DOMAIN orders
    BY DEF Known
  <2>2. CASE f.buy \in DOMAIN orders /\ f.sell \in DOMAIN orders
    <3>1. us = {orders[f.buy].user, orders[f.sell].user}
      BY <2>2 DEF Parties, Known
    <3> QED BY <3>1, <1>2, UsersAssumption
  <2>3. CASE f.buy \in DOMAIN orders /\ f.sell \notin DOMAIN orders
    <3>1. us = {orders[f.buy].user, orders[f.buy].user}
      BY <2>3 DEF Parties, Known
    <3> QED BY <3>1, <1>2, UsersAssumption
  <2>4. CASE f.buy \notin DOMAIN orders /\ f.sell \in DOMAIN orders
    <3>1. us = {orders[f.sell].user, orders[f.sell].user}
      BY <2>4 DEF Parties, Known
    <3> QED BY <3>1, <1>2, UsersAssumption
  <2> QED BY <2>1, <2>2, <2>3, <2>4
<1> HIDE DEF us
<1>4. first \in us /\ \A v \in us : first <= v
  <2>1. \E u \in us : \A v \in us : u <= v
    BY <1>3
  <2> QED BY <2>1
<1>5. last \in us /\ \A v \in us : last >= v
  <2>1. \E u \in us : \A v \in us : u >= v
    BY <1>3
  <2> QED BY <2>1
<1> HIDE DEF first, last
<1>6. \A u \in us : u = first \/ u = last
  BY <1>3, <1>4, <1>5
<1>7. \A u \in us : <<u, "base">> \in Keys /\ <<u, "quote">> \in Keys
  BY <1>2 DEF Keys, Assets
<1>8. LockOrder(f) \in Seq(Keys)
  <2>1. Both(first) \in Seq(Keys) /\ Both(last) \in Seq(Keys)
    BY <1>4, <1>5, <1>7
  <2> QED BY <2>1, <1>1, ConcatProperties
<1>9. ASSUME NEW k \in Keys, k[1] \in us
      PROVE  \E i \in 1 .. Len(LockOrder(f)) : LockOrder(f)[i] = k
  <2>1. k = <<k[1], "base">> \/ k = <<k[1], "quote">>
    BY DEF Keys, Assets
  <2>2. \A u : Len(Both(u)) = 2 /\ Both(u)[1] = <<u, "base">> /\ Both(u)[2] = <<u, "quote">>
    OBVIOUS
  <2>3. CASE first = last
    BY <2>1, <2>2, <2>3, <1>1, <1>6, <1>9
  <2>4. CASE first # last
    <3>1. /\ Len(LockOrder(f)) = 4
          /\ LockOrder(f)[1] = <<first, "base">> /\ LockOrder(f)[2] = <<first, "quote">>
          /\ LockOrder(f)[3] = <<last, "base">> /\ LockOrder(f)[4] = <<last, "quote">>
      <4>1. Both(first) \in Seq(Keys) /\ Both(last) \in Seq(Keys)
        BY <1>4, <1>5, <1>7
      <4> HIDE DEF Both
      <4>2. LockOrder(f) = Both(first) \o Both(last)
        BY <2>4, <1>1
      <4>3. /\ Len(LockOrder(f)) = 4
            /\ LockOrder(f)[1] = Both(first)[1] /\ LockOrder(f)[2] = Both(first)[2]
            /\ LockOrder(f)[3] = Both(last)[1] /\ LockOrder(f)[4] = Both(last)[2]
        <5>1. Len(Both(first)) = 2 /\ Len(Both(last)) = 2
          BY <2>2
        <5>2. /\ Len(Both(first) \o Both(last)) = Len(Both(first)) + Len(Both(last))
              /\ \A i \in 1 .. Len(Both(first)) + Len(Both(last)) :
                   (Both(first) \o Both(last))[i] =
                     IF i <= Len(Both(first)) THEN Both(first)[i]
                                              ELSE Both(last)[i - Len(Both(first))]
          BY <4>1, ConcatProperties
        <5> QED BY <4>2, <5>1, <5>2
      <4> QED BY <4>3, <2>2
    <3>2. k \in {<<first, "base">>, <<first, "quote">>, <<last, "base">>, <<last, "quote">>}
      BY <2>1, <1>6, <1>9
    <3>3. k = LockOrder(f)[1] \/ k = LockOrder(f)[2] \/ k = LockOrder(f)[3]
                              \/ k = LockOrder(f)[4]
      BY <3>1, <3>2
    <3> QED BY <3>1, <3>3
  <2> QED BY <2>3, <2>4
<1>10. \A id \in Known(f) : orders[id].user \in us
  BY DEF us, Parties
<1> QED BY <1>8, <1>9, <1>10

LEMMA RequestPlaceStep ==
  ASSUME IInv, NEW t \in Slots, NEW o \in NewOrder, RequestPlace(t, o)
  PROVE  IInv'
<1>1. PICK y : y = [Blank EXCEPT !.op = "place", !.at = "apply", !.want = <<LockKey(o)>>,
                                 !.id = ids + 1, !.order = o]
  OBVIOUS
<1>2. /\ ids < MaxOrders /\ ids' = ids + 1
      /\ tx[t].op = "idle" /\ tx' = [tx EXCEPT ![t] = y]
      /\ UNCHANGED <<balances, ledger, orders, trades, advisory, rowLock, applied>>
  BY <1>1 DEF RequestPlace, Request
<1>3. o \in Order /\ LockKey(o) \in Keys
  BY OrderFacts DEF NewOrder
<1>4. /\ Shape(y) /\ Function(y.bal, Keys, Int) /\ y.sum \in [Keys -> Int]
      /\ y.op = "place" /\ y.at = "apply" /\ y.want = <<LockKey(o)>>
      /\ y.id = ids + 1 /\ y.order = o
      /\ y.known = {} /\ DOMAIN y.bal = {} /\ DOMAIN y.rows = {}
      /\ \A k \in Keys : y.sum[k] = 0
  <2>1. y = Rec(y)
    BY <1>1, BlankShape DEF Rec
  <2>2. /\ y.op = "place" /\ y.at = "apply" /\ y.want = <<LockKey(o)>>
        /\ y.id = ids + 1 /\ y.order = o
        /\ y.known = {} /\ y.bal = << >> /\ y.rows = << >>
    BY <1>1, BlankShape
  <2>3. y.sum = [k \in Keys |-> 0] /\ y.ok = TRUE
    BY <1>1, BlankShape
  <2> QED BY <2>1, <2>2, <2>3, FreshFacts
<1>5. /\ tx'[t] = y /\ DOMAIN tx' = Slots /\ tx' = [s \in Slots |-> tx'[s]]
      /\ \A s \in Slots : s # t => tx'[s] = tx[s]
  BY <1>2 DEF IInv
<1>6. ids \in Nat /\ ids' \in 0 .. MaxOrders /\ ids' \in OrderIds
      /\ \A id \in DOMAIN orders : id \in OrderIds /\ id <= ids
  BY <1>2, NumbersAssumption DEF IInv, TablesOK, OrderIds, Function
<1>7. (TablesOK /\ LocksOK /\ Money)'
  <2>1. \A id \in DOMAIN orders' : id <= ids'
    BY <1>2, <1>6 DEF OrderIds
  <2> QED BY <1>2, <1>6, <2>1 DEF IInv, TablesOK, LocksOK, Money, Function
<1>8. IdsDiffer'
  <2>1. \A s \in Slots : tx[s].op = "place" /\ tx[s].at = "apply" => tx[s].id # ids + 1
    BY <1>6 DEF IInv, SlotOK, RequestOK, OrderIds
  <2> QED BY <1>4, <1>5, <2>1 DEF IInv, IdsDiffer
<1>9. SlotOK(y, t)'
  <2>1. y.id \in OrderIds /\ y.id <= ids' /\ y.id \notin DOMAIN orders'
    BY <1>2, <1>4, <1>6 DEF OrderIds
  <2>2. RequestOK(y)'
    BY <1>2, <1>3, <1>4, <2>1 DEF RequestOK, Stage, Cancels
  <2>3. Held(y, t)'
    BY <1>3, <1>4 DEF Held, NeedsKey, Cancels
  <2>4. Written(y, t)'
    BY <1>2, <1>4 DEF Written
  <2> QED BY <2>2, <2>3, <2>4 DEF SlotOK
<1>10. ASSUME NEW s \in Slots, s # t PROVE SlotOK(tx[s], s)'
  <2>1. SlotOK(tx[s], s) /\ tx'[s] = tx[s]
    BY <1>5, <1>10 DEF IInv
  <2>2. RequestOK(tx[s])'
    BY <1>2, <1>6, <2>1 DEF SlotOK, RequestOK, OrderIds
  <2>3. Held(tx[s], s)' /\ Written(tx[s], s)'
    BY <1>2, <2>1 DEF SlotOK, Held, NeedsKey, Written, UnlockAmount
  <2> QED BY <2>2, <2>3 DEF SlotOK
<1> QED BY <1>5, <1>7, <1>8, <1>9, <1>10 DEF IInv

\* A slot takes up a request that has written nothing and needs nothing yet.
LEMMA RequestStep ==
  ASSUME IInv, NEW t \in Slots, NEW y, Request(t, y), UNCHANGED ids,
         RequestOK(y), y.op # "place", y.at \in {"idle", "row", "check"},
         DOMAIN y.bal = {}, \A k \in Keys : y.sum[k] = 0
  PROVE  IInv'
<1>1. /\ tx' = [tx EXCEPT ![t] = y]
      /\ UNCHANGED <<balances, ledger, orders, trades, advisory, rowLock, applied>>
  BY DEF Request
<1>2. Held(y, t) /\ Written(y, t)
  BY DEF Held, NeedsKey, Written
<1>3. rowLock' \in [OrderIds -> Slots \cup {NoSlot}]
  BY <1>1 DEF IInv, LocksOK
<1> QED BY <1>1, <1>2, <1>3, LocalStep DEF SlotOK

LEMMA RequestCancelStep ==
  ASSUME IInv, NEW t \in Slots, NEW id, RequestCancel(t, id)
  PROVE  IInv'
<1>1. PICK y : y = [Blank EXCEPT !.op = "cancel", !.at = "row", !.id = id]
  OBVIOUS
<1>2. Request(t, y) /\ UNCHANGED ids /\ id \in DOMAIN orders
  BY <1>1 DEF RequestCancel
<1>3. /\ Shape(y) /\ Function(y.bal, Keys, Int) /\ y.sum \in [Keys -> Int]
      /\ y.op = "cancel" /\ y.at = "row" /\ y.want = << >> /\ y.want \in Seq(Keys)
      /\ y.id = id /\ y.filled = 0
      /\ y.known = {} /\ DOMAIN y.bal = {} /\ DOMAIN y.rows = {}
      /\ \A k \in Keys : y.sum[k] = 0
  <2>1. y = Rec(y)
    BY <1>1, BlankShape DEF Rec
  <2>2. /\ y.op = "cancel" /\ y.at = "row" /\ y.want = << >> /\ y.id = id /\ y.filled = 0
        /\ y.known = {} /\ y.bal = << >> /\ y.rows = << >>
    BY <1>1, BlankShape
  <2>3. y.sum = [k \in Keys |-> 0] /\ y.ok = TRUE
    BY <1>1, BlankShape
  <2>4. << >> \in Seq(Keys)
    OBVIOUS
  <2> QED BY <2>1, <2>2, <2>3, <2>4, FreshFacts
<1>4. RequestOK(y)
  BY <1>2, <1>3 DEF RequestOK, Stage, Cancels
<1> QED BY <1>2, <1>3, <1>4, RequestStep

LEMMA RequestCancelInternalStep ==
  ASSUME IInv, NEW t \in Slots, NEW id, NEW filled \in Int, RequestCancelInternal(t, id, filled)
  PROVE  IInv'
<1>1. PICK y : y = [Blank EXCEPT !.op = "cancel_internal", !.at = "row", !.id = id,
                                 !.filled = filled]
  OBVIOUS
<1>2. Request(t, y) /\ UNCHANGED ids /\ id \in DOMAIN orders
  BY <1>1 DEF RequestCancelInternal
<1>3. /\ Shape(y) /\ Function(y.bal, Keys, Int) /\ y.sum \in [Keys -> Int]
      /\ y.op = "cancel_internal" /\ y.at = "row" /\ y.want = << >> /\ y.want \in Seq(Keys)
      /\ y.id = id /\ y.filled = filled
      /\ y.known = {} /\ DOMAIN y.bal = {} /\ DOMAIN y.rows = {}
      /\ \A k \in Keys : y.sum[k] = 0
  <2>1. y = Rec(y)
    BY <1>1, BlankShape DEF Rec
  <2>2. /\ y.op = "cancel_internal" /\ y.at = "row" /\ y.want = << >> /\ y.id = id
        /\ y.filled = filled
        /\ y.known = {} /\ y.bal = << >> /\ y.rows = << >>
    BY <1>1, BlankShape
  <2>3. y.sum = [k \in Keys |-> 0] /\ y.ok = TRUE
    BY <1>1, BlankShape
  <2>4. << >> \in Seq(Keys)
    OBVIOUS
  <2> QED BY <2>1, <2>2, <2>3, <2>4, FreshFacts
<1>4. RequestOK(y)
  BY <1>2, <1>3 DEF RequestOK, Stage, Cancels
<1> QED BY <1>2, <1>3, <1>4, RequestStep

LEMMA RequestSettleStep ==
  ASSUME IInv, NEW t \in Slots, NEW f \in Fill, RequestSettle(t, f)
  PROVE  IInv'
<1>1. PICK y : y = [Blank EXCEPT !.op = "settle", !.at = "check", !.fill = f]
  OBVIOUS
<1>2. Request(t, y) /\ UNCHANGED ids
  BY <1>1 DEF RequestSettle
<1>3. /\ Shape(y) /\ Function(y.bal, Keys, Int) /\ y.sum \in [Keys -> Int]
      /\ y.op = "settle" /\ y.at = "check" /\ y.want = << >> /\ y.want \in Seq(Keys)
      /\ y.fill = f
      /\ y.known = {} /\ DOMAIN y.bal = {} /\ DOMAIN y.rows = {}
      /\ \A k \in Keys : y.sum[k] = 0
  <2>1. y = Rec(y)
    BY <1>1, BlankShape DEF Rec
  <2>2. /\ y.op = "settle" /\ y.at = "check" /\ y.want = << >> /\ y.fill = f
        /\ y.known = {} /\ y.bal = << >> /\ y.rows = << >>
    BY <1>1, BlankShape
  <2>3. y.sum = [k \in Keys |-> 0] /\ y.ok = TRUE
    BY <1>1, BlankShape
  <2>4. << >> \in Seq(Keys)
    OBVIOUS
  <2> QED BY <2>1, <2>2, <2>3, <2>4, FreshFacts
<1>4. RequestOK(y)
  BY <1>2, <1>3 DEF RequestOK, Stage, Cancels
<1> QED BY <1>2, <1>3, <1>4, RequestStep

LEMMA CollectStep ==
  ASSUME IInv, NEW t \in Slots, Collect(t)
  PROVE  IInv'
<1>1. PICK y : y = Blank
  OBVIOUS
<1>2. /\ tx' = [tx EXCEPT ![t] = y]
      /\ UNCHANGED <<balances, ledger, orders, trades, ids, advisory, rowLock, applied>>
  BY <1>1 DEF Collect
<1>3. y.op = "idle" /\ y.at = "idle"
  BY <1>1 DEF Blank
<1>4. SlotOK(y, t)
  BY <1>1, <1>3, BlankFacts DEF SlotOK, RequestOK, Stage, Held, NeedsKey, Written, Cancels
<1>5. rowLock' \in [OrderIds -> Slots \cup {NoSlot}]
  BY <1>2 DEF IInv, LocksOK
<1> QED BY <1>2, <1>3, <1>4, <1>5, LocalStep

LEMMA AdvisoryLockStep ==
  ASSUME IInv, NEW t \in Slots, AdvisoryLock(t)
  PROVE  IInv'
<1>1. PICK h : h = Head(tx[t].want)
  OBVIOUS
<1>2. PICK y : y = [tx[t] EXCEPT !.want = Tail(@)]
  OBVIOUS
<1>3. /\ tx[t].want # << >> /\ advisory[h] \in {NoSlot, t}
      /\ advisory' = [advisory EXCEPT ![h] = t]
      /\ tx' = [tx EXCEPT ![t] = y]
      /\ UNCHANGED <<balances, ledger, orders, trades, ids, rowLock, applied>>
  BY <1>1, <1>2 DEF AdvisoryLock, Free, IInv
<1>4. SlotOK(tx[t], t) /\ Shape(tx[t]) /\ tx[t].want \in Seq(Keys)
  BY DEF IInv, SlotOK, RequestOK
<1>5. h \in Keys
  BY <1>1, <1>3, <1>4
<1>6. /\ tx'[t] = y /\ DOMAIN tx' = Slots /\ tx' = [s \in Slots |-> tx'[s]]
      /\ \A s \in Slots : s # t => tx'[s] = tx[s]
  BY <1>3 DEF IInv
<1>7. /\ advisory' \in [Keys -> Slots \cup {NoSlot}] /\ advisory'[h] = t
      /\ \A k \in Keys : advisory[k] = t => advisory'[k] = t
      /\ \A s \in Slots, k \in Keys : s # t /\ advisory[k] = s => advisory'[k] = s
  BY <1>3, <1>5, SlotsAssumption DEF IInv, LocksOK
<1>8. (TablesOK /\ LocksOK /\ Money)'
  BY <1>3, <1>7 DEF IInv, TablesOK, LocksOK, Money
<1>9. /\ Shape(y) /\ y.want = Tail(tx[t].want) /\ y.op = tx[t].op /\ y.at = tx[t].at
      /\ y.id = tx[t].id /\ y.order = tx[t].order /\ y.filled = tx[t].filled
      /\ y.fill = tx[t].fill /\ y.known = tx[t].known /\ y.bal = tx[t].bal
      /\ y.sum = tx[t].sum /\ y.rows = tx[t].rows
  BY <1>2, <1>4 DEF Shape
<1>10. IdsDiffer'
  BY <1>6, <1>9 DEF IInv, IdsDiffer
<1>11. SlotOK(y, t)'
  <2>1. Stage(y)
    BY <1>3, <1>4, <1>9 DEF SlotOK, RequestOK, Stage
  <2>2. y.want \in Seq(Keys)
    BY <1>3, <1>4, <1>9
  <2>3. RequestOK(y)'
    BY <1>3, <1>4, <1>9, <2>1, <2>2 DEF SlotOK, RequestOK
  <2>4. Held(y, t)'
    <3> SUFFICES ASSUME NEW k \in Keys, NeedsKey(y, k)'
                 PROVE  advisory'[k] = t \/ \E i \in 1 .. Len(y.want) : y.want[i] = k
      BY DEF Held
    <3>1. NeedsKey(tx[t], k)
      BY <1>3, <1>9 DEF NeedsKey, UnlockAmount
    <3>2. CASE advisory[k] = t
      BY <3>2, <1>7
    <3>3. CASE \E i \in 1 .. Len(tx[t].want) : tx[t].want[i] = k
      <4>1. PICK i \in 1 .. Len(tx[t].want) : tx[t].want[i] = k
        BY <3>3
      <4>2. CASE i = 1
        BY <4>1, <4>2, <1>1, <1>4, <1>7
      <4>3. CASE i # 1
        <5>1. i - 1 \in 1 .. Len(y.want) /\ y.want[i - 1] = k
          BY <4>1, <4>3, <1>3, <1>4, <1>9
        <5> QED BY <5>1
      <4> QED BY <4>2, <4>3
    <3> QED BY <3>1, <3>2, <3>3, <1>4 DEF SlotOK, Held
  <2>5. Written(y, t)'
    BY <1>3, <1>4, <1>7, <1>9 DEF SlotOK, Written
  <2> QED BY <2>3, <2>4, <2>5 DEF SlotOK
<1>12. ASSUME NEW s \in Slots, s # t PROVE SlotOK(tx[s], s)'
  <2>1. SlotOK(tx[s], s) /\ tx'[s] = tx[s]
    BY <1>6, <1>12 DEF IInv
  <2>2. RequestOK(tx[s])'
    BY <1>3, <2>1 DEF SlotOK, RequestOK
  <2>3. Held(tx[s], s)'
    <3> SUFFICES ASSUME NEW k \in Keys, NeedsKey(tx[s], k)'
                 PROVE  advisory'[k] = s \/ \E i \in 1 .. Len(tx[s].want) : tx[s].want[i] = k
      BY <2>1 DEF Held
    <3>1. NeedsKey(tx[s], k)
      BY <1>3, <2>1 DEF NeedsKey, UnlockAmount
    <3> QED BY <3>1, <2>1, <1>7, <1>12 DEF SlotOK, Held
  <2>4. Written(tx[s], s)'
    BY <1>3, <1>7, <1>12, <2>1 DEF SlotOK, Written
  <2> QED BY <2>2, <2>3, <2>4 DEF SlotOK
<1> QED BY <1>6, <1>8, <1>10, <1>11, <1>12 DEF IInv

\* A balance that the next statement writes is locked once there is nothing left to lock.
LEMMA LockedFacts ==
  ASSUME IInv, NEW t \in Slots, tx[t].want = << >>, NEW k \in Keys, NeedsKey(tx[t], k)
  PROVE  advisory[k] = t
BY DEF IInv, SlotOK, Held

LEMMA PlaceApplyStep ==
  ASSUME IInv, NEW t \in Slots, PlaceApply(t)
  PROVE  IInv'
<1>1. PICK x : x = tx[t]
  OBVIOUS
<1> DEFINE k == LockKey(x.order)
           amount == -LockAmount(x.order)
<1>2. PICK y : y = Post(x, k, amount, "lock")
  OBVIOUS
<1>3. PICK z : z = [y EXCEPT !.rows = Put(@, x.id, x.order)]
  OBVIOUS
<1>4. /\ x.op = "place" /\ x.at = "apply" /\ x.want = << >>
      /\ IF y.ok THEN Commit(t, z) /\ UNCHANGED <<trades, applied>> ELSE Abort(t, FALSE)
  BY <1>1, <1>2, <1>3 DEF PlaceApply, At
<1>5. /\ Shape(x) /\ Function(x.bal, Keys, Int) /\ x.sum \in [Keys -> Int] /\ Written(x, t)
      /\ x.order \in Order /\ x.id \notin DOMAIN orders
      /\ \A id \in DOMAIN x.rows : id \in DOMAIN orders /\ x.rows[id] \in Order
                                  /\ SameLock(x.rows[id], orders[id])
  BY <1>1, <1>4 DEF IInv, SlotOK, RequestOK
<1>6. k \in Keys /\ amount \in Int
  BY <1>5, OrderFacts
<1>7. advisory[k] = t
  BY <1>1, <1>4, <1>6, LockedFacts DEF NeedsKey
<1> HIDE DEF k, amount
<1>8. CASE y.ok
  <2>1. /\ Shape(y) /\ y.op = x.op /\ y.rows = x.rows
        /\ Function(y.bal, Keys, Int) /\ y.sum \in [Keys -> Int] /\ Written(y, t)
    <3>1. balances \in [Keys -> Int]
      BY DEF IInv, TablesOK
    <3>2. /\ Shape(y) /\ y.op = x.op /\ y.rows = x.rows
          /\ Function(y.bal, Keys, Int) /\ y.sum \in [Keys -> Int]
      BY <1>2, <1>5, <1>6, <1>7, <3>1, PostFacts
    <3>3. y.ok => Written(y, t)
      BY <1>2, <1>5, <1>6, <1>7, <3>1, PostWritten, Zenon
    <3> QED BY <1>8, <3>2, <3>3, Zenon
  <2>2. /\ z.op = y.op /\ z.bal = y.bal /\ z.sum = y.sum
        /\ z.rows = Put(y.rows, x.id, x.order)
    BY <1>3, <2>1 DEF Shape
  <2>3. Written(z, t)
    BY <2>1, <2>2 DEF Written
  <2>4. \A id \in DOMAIN z.rows :
          /\ z.rows[id] \in Order
          /\ IF id \in DOMAIN orders THEN SameLock(z.rows[id], orders[id])
             ELSE tx[t].op = "place" /\ tx[t].at = "apply" /\ id = tx[t].id
    BY <1>1, <1>4, <1>5, <2>1, <2>2 DEF Put
  <2>5. trades' \subseteq Fill /\ Function(applied', Fill, Nat)
    BY <1>4, <1>8 DEF IInv, TablesOK
  <2> QED BY <1>1, <1>4, <1>8, <2>1, <2>2, <2>3, <2>4, <2>5, CommitStep
<1>9. CASE ~y.ok
  BY <1>1, <1>4, <1>9, AbortStep
<1> QED BY <1>8, <1>9

LEMMA CancelLookupStep ==
  ASSUME IInv, NEW t \in Slots, CancelLookup(t)
  PROVE  IInv'
<1>1. PICK x : x = tx[t]
  OBVIOUS
<1>2. PICK o : o = orders[x.id]
  OBVIOUS
<1>3. PICK filled : filled = IF x.op = "cancel" THEN o.filled ELSE x.filled
  OBVIOUS
<1>4. PICK want : want = IF UnlockAmount(o, filled) > 0 THEN <<LockKey(o)>> ELSE << >>
  OBVIOUS
<1>5. x.op \in Cancels /\ x.at = "row"
  BY <1>1 DEF CancelLookup, At, Cancels
<1>6. /\ Shape(x) /\ Function(x.bal, Keys, Int) /\ x.sum \in [Keys -> Int] /\ Written(x, t)
      /\ x.known \subseteq DOMAIN orders
      /\ \A id \in DOMAIN x.rows : id \in DOMAIN orders /\ x.rows[id] \in Order
                                  /\ SameLock(x.rows[id], orders[id])
      /\ x.id \in DOMAIN orders /\ x.filled \in Int
  BY <1>1, <1>5 DEF IInv, SlotOK, RequestOK
<1>7. o \in Order /\ x.id \in OrderIds
  BY <1>2, <1>6 DEF IInv, TablesOK, Function
<1>8. LockKey(o) \in Keys /\ filled \in Int /\ UnlockAmount(o, filled) \in Int
  BY <1>3, <1>6, <1>7, OrderFacts, UnlockFacts
<1>9. CASE o.status \notin Live \/ o.quantity = 0
  <2>1. Abort(t, FALSE)
    BY <1>1, <1>2, <1>9 DEF CancelLookup
  <2> QED BY <2>1, <1>1, <1>5, AbortStep DEF Cancels
<1>10. CASE o.status \in Live /\ o.quantity # 0
  <2>1. PICK y : y = [x EXCEPT !.at = "apply", !.filled = filled, !.want = want]
    OBVIOUS
  <2>2. /\ rowLock' = [rowLock EXCEPT ![x.id] = t]
        /\ tx' = [tx EXCEPT ![t].at = "apply", ![t].filled = filled, ![t].want = want]
        /\ UNCHANGED <<balances, ledger, orders, trades, ids, advisory, applied>>
    BY <1>1, <1>2, <1>3, <1>4, <1>10 DEF CancelLookup
  <2>3. tx' = [tx EXCEPT ![t] = y]
    BY <2>1, <2>2, <1>1 DEF IInv
  <2>4. /\ Shape(y) /\ y.want = want /\ y.op = x.op /\ y.at = "apply" /\ y.id = x.id
        /\ y.filled = filled /\ y.known = x.known /\ y.bal = x.bal /\ y.sum = x.sum
        /\ y.rows = x.rows
    BY <2>1, <1>6 DEF Shape
  <2>5. want \in Seq(Keys)
    BY <1>4, <1>8
  <2>6. RequestOK(y)
    BY <1>5, <1>6, <1>8, <2>4, <2>5 DEF RequestOK, Stage, Cancels
  <2>7. Held(y, t)
    BY <1>2, <1>4, <1>5, <2>4 DEF Held, NeedsKey, Cancels
  <2>8. Written(y, t)
    BY <1>6, <2>4 DEF Written
  <2>9. rowLock' \in [OrderIds -> Slots \cup {NoSlot}]
    BY <2>2, <1>7 DEF IInv, LocksOK
  <2>10. SlotOK(y, t) /\ y.op # "place"
    BY <1>5, <2>4, <2>6, <2>7, <2>8 DEF SlotOK, Cancels
  <2> QED BY <2>2, <2>3, <2>9, <2>10, LocalStep
<1> QED BY <1>9, <1>10

LEMMA CancelApplyStep ==
  ASSUME IInv, NEW t \in Slots, CancelApply(t)
  PROVE  IInv'
<1>1. PICK x : x = tx[t]
  OBVIOUS
<1>2. PICK o : o = orders[x.id]
  OBVIOUS
<1> DEFINE k == LockKey(o)
           amount == UnlockAmount(o, x.filled)
<1>3. PICK y : y = IF amount > 0 THEN Post(x, k, amount, "unlock") ELSE x
  OBVIOUS
<1>4. PICK after : after = [o EXCEPT !.status = "cancelled", !.filled = x.filled]
  OBVIOUS
<1>5. PICK z : z = [y EXCEPT !.rows = Put(@, x.id, after)]
  OBVIOUS
<1>6. /\ x.op \in Cancels /\ x.at = "apply" /\ x.want = << >>
      /\ Commit(t, z) /\ UNCHANGED <<trades, applied>>
  BY <1>1, <1>2, <1>3, <1>4, <1>5 DEF CancelApply, At, Cancels
<1>7. /\ Shape(x) /\ Function(x.bal, Keys, Int) /\ x.sum \in [Keys -> Int] /\ Written(x, t)
      /\ \A id \in DOMAIN x.rows : id \in DOMAIN orders /\ x.rows[id] \in Order
                                  /\ SameLock(x.rows[id], orders[id])
      /\ x.id \in DOMAIN orders /\ x.filled \in Int
  BY <1>1, <1>6 DEF IInv, SlotOK, RequestOK, Cancels
<1>8. o \in Order
  BY <1>2, <1>7 DEF IInv, TablesOK, Function
<1>9. k \in Keys /\ amount \in Int
  BY <1>7, <1>8, OrderFacts, UnlockFacts
<1>10. amount > 0 => advisory[k] = t
  BY <1>1, <1>2, <1>6, <1>9, LockedFacts DEF NeedsKey
<1> HIDE DEF k, amount
<1>11. balances \in [Keys -> Int] /\ \A j \in Keys : balances[j] >= 0
  BY DEF IInv, TablesOK, Money
<1>12. /\ Shape(y) /\ y.op = x.op /\ y.rows = x.rows
       /\ Function(y.bal, Keys, Int) /\ y.sum \in [Keys -> Int] /\ Written(y, t)
  <2>1. CASE amount > 0
    <3>1. Seen(x, k) + amount >= 0
      BY <2>1, <1>7, <1>9, <1>11 DEF Seen, Written, Function
    <3>2. y = Post(x, k, amount, "unlock")
      BY <1>3, <2>1
    <3> QED BY <3>1, <3>2, <2>1, <1>7, <1>9, <1>10, <1>11, PostFacts, PostWritten
  <2>2. CASE ~(amount > 0)
    <3>1. y = x
      BY <2>2, <1>3
    <3> QED BY <3>1, <1>7
  <2> QED BY <2>1, <2>2
<1>13. /\ z.op = x.op /\ z.bal = y.bal /\ z.sum = y.sum /\ z.rows = Put(x.rows, x.id, after)
  BY <1>5, <1>12 DEF Shape
<1>14. after \in Order /\ SameLock(after, orders[x.id])
  BY <1>2, <1>4, <1>7, <1>8 DEF Order, SameLock
<1>15. \A id \in DOMAIN z.rows :
         /\ z.rows[id] \in Order
         /\ IF id \in DOMAIN orders THEN SameLock(z.rows[id], orders[id])
            ELSE tx[t].op = "place" /\ tx[t].at = "apply" /\ id = tx[t].id
  BY <1>7, <1>13, <1>14 DEF Put
<1>16. Written(z, t)
  BY <1>12, <1>13 DEF Written
<1>17. trades' \subseteq Fill /\ Function(applied', Fill, Nat)
  BY <1>6 DEF IInv, TablesOK
<1>18. z.op = tx[t].op /\ z.op # "idle"
  BY <1>1, <1>6, <1>13 DEF Cancels
<1> QED BY <1>6, <1>12, <1>13, <1>15, <1>16, <1>17, <1>18, CommitStep

LEMMA SettleCheckStep ==
  ASSUME IInv, NEW t \in Slots, SettleCheck(t)
  PROVE  IInv'
<1>1. PICK x : x = tx[t]
  OBVIOUS
<1>2. x.op = "settle" /\ x.at = "check" /\ x.want = << >>
  BY <1>1 DEF SettleCheck, At
<1>3. /\ Shape(x) /\ Function(x.bal, Keys, Int) /\ x.sum \in [Keys -> Int] /\ Written(x, t)
      /\ \A id \in DOMAIN x.rows : id \in DOMAIN orders /\ x.rows[id] \in Order
                                  /\ SameLock(x.rows[id], orders[id])
      /\ x.fill \in Fill
  BY <1>1, <1>2 DEF IInv, SlotOK, RequestOK
<1>4. CASE x.fill \in trades \/ Known(x.fill) = {}
  <2>1. Abort(t, TRUE)
    BY <1>1, <1>4 DEF SettleCheck
  <2> QED BY <2>1, <1>1, <1>2, AbortStep
<1>5. CASE ~(x.fill \in trades \/ Known(x.fill) = {})
  <2>1. PICK known, want : known = Known(x.fill) /\ want = LockOrder(x.fill)
    OBVIOUS
  <2>2. PICK y : y = [x EXCEPT !.at = "buyer", !.want = want, !.known = known]
    OBVIOUS
  <2>3. /\ tx' = [tx EXCEPT ![t].at = "buyer", ![t].want = want, ![t].known = known]
        /\ UNCHANGED <<balances, ledger, orders, trades, ids, advisory, rowLock, applied>>
    BY <1>1, <1>5, <2>1 DEF SettleCheck
  <2>4. tx' = [tx EXCEPT ![t] = y]
    BY <2>2, <2>3, <1>1 DEF IInv
  <2>5. /\ Shape(y) /\ y.want = want /\ y.op = x.op /\ y.at = "buyer" /\ y.id = x.id
        /\ y.fill = x.fill /\ y.known = known /\ y.bal = x.bal /\ y.sum = x.sum
        /\ y.rows = x.rows
    BY <2>2, <1>3 DEF Shape
  <2>6. /\ want \in Seq(Keys) /\ known \subseteq DOMAIN orders
        /\ \A k \in Keys, id \in known : k[1] = orders[id].user =>
             \E i \in 1 .. Len(want) : want[i] = k
    <3>1. TablesOK /\ known # {}
      BY <1>5, <2>1 DEF IInv
    <3> QED BY <1>3, <2>1, <3>1, LockOrderFacts DEF Known
  <2>7. RequestOK(y)
    BY <1>2, <1>3, <2>5, <2>6 DEF RequestOK, Stage, Cancels
  <2>8. Held(y, t)
    BY <1>2, <2>5, <2>6 DEF Held, NeedsKey, Cancels
  <2>9. Written(y, t)
    BY <1>3, <2>5 DEF Written
  <2>10. rowLock' \in [OrderIds -> Slots \cup {NoSlot}]
    BY <2>3 DEF IInv, LocksOK
  <2>11. SlotOK(y, t) /\ y.op # "place"
    BY <1>2, <2>5, <2>7, <2>8, <2>9 DEF SlotOK
  <2> QED BY <2>3, <2>4, <2>10, <2>11, LocalStep
<1> QED BY <1>4, <1>5

LEMMA AddFillFacts ==
  ASSUME NEW o \in Order, NEW q \in Int
  PROVE  AddFill(o, q) \in Order /\ SameLock(AddFill(o, q), o)
<1>1. PICK status : status = IF o.filled + q >= o.quantity THEN "filled" ELSE "partially_filled"
  OBVIOUS
<1>2. CASE o.status = "cancelled"
  BY <1>2 DEF AddFill, SameLock
<1>3. CASE o.status # "cancelled"
  <2>1. AddFill(o, q) = [o EXCEPT !.filled = @ + q, !.status = status]
    BY <1>1, <1>3 DEF AddFill
  <2>2. status \in Live \cup {"filled", "cancelled"}
    BY <1>1 DEF Live
  <2>3. o.filled + q \in Int
    BY DEF Order
  <2> QED BY <2>1, <2>2, <2>3 DEF Order, SameLock
<1> QED BY <1>2, <1>3

\* Three entries in a row, none of them refused.
LEMMA ThreeWritten ==
  ASSUME NEW x, NEW t \in Slots,
         Shape(x), Function(x.bal, Keys, Int), x.sum \in [Keys -> Int], Written(x, t),
         balances \in [Keys -> Int],
         NEW k1 \in Keys, NEW k2 \in Keys, NEW k3 \in Keys,
         advisory[k1] = t, advisory[k2] = t, advisory[k3] = t,
         NEW a1 \in Int, NEW a2 \in Int, NEW a3 \in Int, NEW t1, NEW t2, NEW t3,
         NEW u, u = Post(x, k1, a1, t1),
         NEW v, v = Post(u, k2, a2, t2),
         NEW y, y = Post(v, k3, a3, t3), y.ok
  PROVE  Written(y, t)
<1>1. Shape(u) /\ Function(u.bal, Keys, Int) /\ u.sum \in [Keys -> Int]
  BY PostFacts
<1>2. Shape(v) /\ Function(v.bal, Keys, Int) /\ v.sum \in [Keys -> Int]
  BY <1>1, PostFacts
<1>3. v.ok
  BY <1>2, PostOk, Zenon
<1>4. u.ok
  BY <1>1, <1>3, PostOk, Zenon
<1>5. Written(u, t)
  BY <1>4, PostWritten, Zenon
<1>6. Written(v, t)
  BY <1>1, <1>3, <1>5, PostWritten, Zenon
<1> QED BY <1>2, <1>6, PostWritten, Zenon

\* The buyer's and the seller's part of a settlement: what follows its entries.
LEMMA SettlePartySlot ==
  ASSUME IInv, NEW t \in Slots, NEW x, x = tx[t],
         x.op = "settle", x.at \in {"buyer", "seller"}, x.want = << >>,
         NEW id \in x.known,
         NEW q \in Int,
         NEW z, Shape(z), Function(z.bal, Keys, Int), z.sum \in [Keys -> Int], Written(z, t),
         z.op = x.op, z.at \in {"seller", "commit"}, z.want = x.want, z.fill = x.fill,
         z.known = x.known, z.rows = Put(x.rows, id, AddFill(Row(x, id), q))
  PROVE  SlotOK(z, t)
<1>1. /\ Shape(x) /\ Function(x.bal, Keys, Int) /\ x.sum \in [Keys -> Int] /\ Written(x, t)
      /\ \A j \in DOMAIN x.rows : j \in DOMAIN orders /\ x.rows[j] \in Order
                                 /\ SameLock(x.rows[j], orders[j])
      /\ x.fill \in Fill /\ x.known \subseteq DOMAIN orders
  BY DEF IInv, SlotOK, RequestOK
<1>2. Row(x, id) \in Order /\ SameLock(Row(x, id), orders[id])
  BY <1>1 DEF IInv, TablesOK, Function, Row, SameLock
<1>3. \A k \in Keys : NeedsKey(x, k) => advisory[k] = t
  BY LockedFacts
<1>4. RequestOK(z)
  <2>1. \A j \in DOMAIN z.rows : j \in DOMAIN orders /\ z.rows[j] \in Order
                                /\ SameLock(z.rows[j], orders[j])
    <3>1. AddFill(Row(x, id), q) \in Order /\ SameLock(AddFill(Row(x, id), q), orders[id])
      BY <1>2, AddFillFacts DEF SameLock
    <3> QED BY <1>1, <3>1 DEF Put
  <2>2. << >> \in Seq(Keys)
    OBVIOUS
  <2> QED BY <1>1, <2>1, <2>2 DEF RequestOK, Stage, Cancels
<1>5. Held(z, t)
  BY <1>3 DEF Held, NeedsKey, Cancels
<1> QED BY <1>4, <1>5 DEF SlotOK

\* The statement for order id of a settlement ends in y: it has entered amount for k and
\* marked the row of the order, which it holds, unless the order is a bot's.
Moves(x, y, t, id, k, amount, next) ==
  /\ y.op = "settle" /\ y.at = next /\ y.fill = x.fill /\ y.known = x.known
  /\ IF id \in x.known
       THEN /\ Free(rowLock[id], t) /\ rowLock' = [rowLock EXCEPT ![id] = t]
            /\ y.rows = Put(x.rows, id, AddFill(Row(x, id), x.fill.quantity))
            /\ y.sum = [j \in Keys |-> IF j = k THEN x.sum[j] + amount ELSE x.sum[j]]
       ELSE rowLock' = rowLock /\ y.rows = x.rows /\ y.sum = x.sum

\* A party's statement moves the settlement on, or ends it with an error.
GoesOn(t, id, k, amount, next) ==
  \/ Abort(t, FALSE)
  \/ \E y :
       /\ SlotOK(y, t) /\ Moves(tx[t], y, t, id, k, amount, next)
       /\ tx' = [tx EXCEPT ![t] = y]
       /\ UNCHANGED <<balances, ledger, orders, trades, ids, advisory, applied>>
       /\ rowLock' \in [OrderIds -> Slots \cup {NoSlot}]

BuyerGoesOn(t) ==
  GoesOn(t, tx[t].fill.buy, <<orders[tx[t].fill.buy].user, "base">>, tx[t].fill.quantity, "seller")

SellerGoesOn(t) ==
  GoesOn(t, tx[t].fill.sell, <<orders[tx[t].fill.sell].user, "quote">>,
         QuoteAmount(tx[t].fill.price, tx[t].fill.quantity), "commit")

LEMMA AdvanceFacts ==
  ASSUME IInv, NEW t \in Slots, NEW z, Advance(t, z), NEW id \in OrderIds,
         NEW k, NEW amount, NEW next,
         z.ok => rowLock' = [rowLock EXCEPT ![id] = t],
         z.ok => SlotOK(z, t),
         z.ok => Moves(tx[t], z, t, id, k, amount, next)
  PROVE  GoesOn(t, id, k, amount, next)
<1>1. CASE z.ok
  <2>1. /\ rowLock' = [rowLock EXCEPT ![id] = t] /\ SlotOK(z, t)
        /\ Moves(tx[t], z, t, id, k, amount, next)
    BY <1>1, Zenon
  <2>2. rowLock' \in [OrderIds -> Slots \cup {NoSlot}]
    BY <2>1 DEF IInv, LocksOK
  <2>3. /\ tx' = [tx EXCEPT ![t] = z]
        /\ UNCHANGED <<balances, ledger, orders, trades, ids, advisory, applied>>
    BY <1>1 DEF Advance
  <2> QED BY <2>1, <2>2, <2>3 DEF GoesOn
<1>2. CASE ~z.ok
  <2>1. Abort(t, FALSE)
    BY <1>2 DEF Advance
  <2> QED BY <2>1 DEF GoesOn
<1> QED BY <1>1, <1>2

LEMMA FillFacts ==
  ASSUME NEW f \in Fill
  PROVE  f.quantity \in Int /\ QuoteAmount(f.price, f.quantity) \in Int
BY QuoteFacts DEF Fill

\* The balances of a party of a settlement are locked when its entries are written.
LEMMA PartyFacts ==
  ASSUME IInv, NEW t \in Slots, NEW x, x = tx[t],
         x.op = "settle", x.at \in {"buyer", "seller"}, x.want = << >>,
         NEW id \in x.known
  PROVE  \A asset \in Assets :
           /\ <<orders[id].user, asset>> \in Keys
           /\ advisory[<<orders[id].user, asset>>] = t
<1>1. id \in DOMAIN orders
  BY DEF IInv, SlotOK, RequestOK
<1>2. orders[id].user \in Users
  BY <1>1, OrderFacts DEF IInv, TablesOK, Function
<1>3. \A k \in Keys : NeedsKey(x, k) => advisory[k] = t
  BY LockedFacts
<1>4. \A asset \in Assets : NeedsKey(x, <<orders[id].user, asset>>)
  BY DEF NeedsKey
<1> QED BY <1>2, <1>3, <1>4 DEF Keys

\* A party of a settlement whose order is not in the table.
LEMMA SettleSkipFacts ==
  ASSUME IInv, NEW t \in Slots, NEW next \in {"seller", "commit"}, NEW id, NEW k, NEW amount,
         tx[t].op = "settle", tx[t].at \in {"buyer", "seller"}, tx[t].want = << >>,
         id \notin tx[t].known,
         tx' = [tx EXCEPT ![t].at = next],
         UNCHANGED <<balances, ledger, orders, trades, ids, advisory, rowLock, applied>>
  PROVE  GoesOn(t, id, k, amount, next)
<1>1. PICK x : x = tx[t]
  OBVIOUS
<1>2. PICK y : y = [x EXCEPT !.at = next]
  OBVIOUS
<1>3. RequestOK(x) /\ Held(x, t) /\ Written(x, t) /\ Shape(x)
  BY <1>1 DEF IInv, SlotOK, RequestOK
<1>4. tx' = [tx EXCEPT ![t] = y]
  BY <1>1, <1>2 DEF IInv
<1>5. /\ Shape(y) /\ y.want = x.want /\ y.op = x.op /\ y.at = next /\ y.id = x.id
      /\ y.fill = x.fill /\ y.known = x.known /\ y.bal = x.bal /\ y.sum = x.sum
      /\ y.rows = x.rows
  BY <1>2, <1>3 DEF Shape
<1>6. RequestOK(y)
  BY <1>1, <1>3, <1>5 DEF RequestOK, Stage, Cancels
<1>7. Held(y, t)
  BY <1>1, <1>3, <1>5 DEF Held, NeedsKey, Cancels
<1>8. Written(y, t)
  BY <1>3, <1>5 DEF Written
<1>9. rowLock' \in [OrderIds -> Slots \cup {NoSlot}]
  BY DEF IInv, LocksOK
<1>10. SlotOK(y, t) /\ y.op = "settle" /\ y.at \in {"seller", "commit"}
  BY <1>1, <1>5, <1>6, <1>7, <1>8 DEF SlotOK
<1>11. Moves(tx[t], y, t, id, k, amount, next)
  BY <1>1, <1>5 DEF Moves
<1> QED BY <1>4, <1>9, <1>10, <1>11 DEF GoesOn

LEMMA MarkedShape ==
  ASSUME NEW y, Shape(y), NEW rows, NEW at, NEW z, z = [y EXCEPT !.rows = rows, !.at = at]
  PROVE  Shape(z)
<1>1. z.ok = y.ok
  BY DEF Shape
<1>2. z.ok \in BOOLEAN
  BY <1>1, Zenon DEF Shape
<1>3. z = [op |-> z.op, at |-> z.at, want |-> z.want, id |-> z.id, order |-> z.order,
           filled |-> z.filled, fill |-> z.fill, known |-> z.known, bal |-> z.bal,
           sum |-> z.sum, rows |-> z.rows, ok |-> z.ok]
  BY DEF Shape
<1> QED BY <1>2, <1>3, Zenon DEF Shape

LEMMA SettleBuyerFacts ==
  ASSUME IInv, NEW t \in Slots, SettleBuyer(t)
  PROVE  BuyerGoesOn(t) /\ tx[t].op = "settle"
<1>1. PICK x : x = tx[t]
  OBVIOUS
<1>2. PICK id, q, cost : id = x.fill.buy /\ q = x.fill.quantity
                         /\ cost = QuoteAmount(x.fill.price, x.fill.quantity)
  OBVIOUS
<1>3. PICK b, c : b = <<orders[id].user, "base">> /\ c = <<orders[id].user, "quote">>
  OBVIOUS
<1>4. PICK u : u = Post(x, c, cost, "unlock")
  OBVIOUS
<1>5. PICK v : v = Post(u, c, -cost, "trade")
  OBVIOUS
<1>6. PICK y : y = Post(v, b, q, "trade")
  OBVIOUS
<1>7. PICK z : z = [y EXCEPT !.rows = Put(@, id, AddFill(Row(x, id), q)), !.at = "seller"]
  OBVIOUS
<1>8. /\ x.op = "settle" /\ x.at = "buyer" /\ x.want = << >>
      /\ IF id \notin x.known
           THEN /\ tx' = [tx EXCEPT ![t].at = "seller"]
                /\ UNCHANGED <<balances, ledger, orders, trades, ids, advisory, rowLock, applied>>
           ELSE Free(rowLock[id], t) /\ Advance(t, z)
                /\ (y.ok => rowLock' = [rowLock EXCEPT ![id] = t])
  BY <1>1, <1>2, <1>3, <1>4, <1>5, <1>6, <1>7 DEF SettleBuyer, At
<1>9. /\ Shape(x) /\ Function(x.bal, Keys, Int) /\ x.sum \in [Keys -> Int] /\ Written(x, t)
      /\ x.fill \in Fill
  BY <1>1, <1>8 DEF IInv, SlotOK, RequestOK
<1>10. balances \in [Keys -> Int] /\ q \in Int /\ cost \in Int /\ -cost \in Int
  BY <1>2, <1>9, FillFacts DEF IInv, TablesOK
<1>11. CASE id \in x.known
  <2>1. b \in Keys /\ c \in Keys /\ advisory[b] = t /\ advisory[c] = t
    BY <1>1, <1>3, <1>8, <1>11, PartyFacts DEF Assets
  <2>2. /\ Shape(u) /\ Function(u.bal, Keys, Int) /\ u.sum \in [Keys -> Int]
        /\ u.op = x.op /\ u.want = x.want /\ u.fill = x.fill
        /\ u.known = x.known /\ u.rows = x.rows
    <3>1. Shape(x) /\ Function(x.bal, Keys, Int) /\ x.sum \in [Keys -> Int]
      BY <1>9
    <3>2. balances \in [Keys -> Int] /\ c \in Keys /\ cost \in Int
      BY <1>10, <2>1
    <3> QED BY <1>4, <3>1, <3>2, PostFacts
  <2>3. /\ Shape(v) /\ Function(v.bal, Keys, Int) /\ v.sum \in [Keys -> Int]
        /\ v.op = u.op /\ v.want = u.want /\ v.fill = u.fill
        /\ v.known = u.known /\ v.rows = u.rows
    BY <1>5, <1>10, <2>1, <2>2, PostFacts
  <2>4. /\ Shape(y) /\ Function(y.bal, Keys, Int) /\ y.sum \in [Keys -> Int]
        /\ y.op = v.op /\ y.want = v.want /\ y.fill = v.fill
        /\ y.known = v.known /\ y.rows = v.rows
    BY <1>6, <1>10, <2>1, <2>3, PostFacts
  <2>5. ASSUME y.ok PROVE Written(y, t)
    <3>1. q \in Int
      BY <1>10
    <3> QED BY <1>4, <1>5, <1>6, <1>9, <1>10, <2>1, <2>5, <3>1, ThreeWritten, Zenon
  <2>6. Free(rowLock[id], t) /\ Advance(t, z) /\ (y.ok => rowLock' = [rowLock EXCEPT ![id] = t])
    BY <1>8, <1>11, Zenon
  <2>7. /\ y.op = x.op /\ y.want = x.want /\ y.fill = x.fill
        /\ y.known = x.known /\ y.rows = x.rows
    BY <2>2, <2>3, <2>4
  <2>8. /\ z.op = x.op /\ z.at = "seller" /\ z.want = x.want /\ z.fill = x.fill
        /\ z.known = x.known /\ z.bal = y.bal /\ z.sum = y.sum
        /\ z.rows = Put(x.rows, id, AddFill(Row(x, id), q))
    BY <1>7, <2>4, <2>7 DEF Shape
  <2>9. z.ok = y.ok
    BY <1>7, <2>4 DEF Shape
  <2>10. Shape(z)
    BY <1>7, <2>4, MarkedShape
  <2>11. ASSUME y.ok PROVE SlotOK(z, t)
    <3>1. Written(z, t)
      BY <2>5, <2>8, <2>11 DEF Written
    <3>2. x.op = "settle" /\ x.at \in {"buyer", "seller"} /\ x.want = << >>
      BY <1>8
    <3> QED BY <1>1, <1>10, <1>11, <2>4, <2>8, <2>10, <3>1, <3>2, SettlePartySlot
  <2>12. id \in OrderIds
    BY <1>1, <1>8, <1>11 DEF IInv, SlotOK, RequestOK, TablesOK, Function
  <2>13. ASSUME y.ok
         PROVE  Moves(x, z, t, id, b, q, "seller")
    <3>1. z.sum = [j \in Keys |-> IF j = b THEN x.sum[j] + q ELSE x.sum[j]]
      <4>1. b # c
        BY <1>3
      <4>2. \A j \in Keys : x.sum[j] \in Int
        BY <1>9
      <4>3. \A j \in Keys : u.sum[j] = IF j = c THEN x.sum[j] + cost ELSE x.sum[j]
        BY <1>9, <1>4, PostSum
      <4>4. \A j \in Keys : v.sum[j] = IF j = c THEN u.sum[j] + -cost ELSE u.sum[j]
        BY <2>2, <1>5, PostSum
      <4>5. \A j \in Keys : y.sum[j] = IF j = b THEN v.sum[j] + q ELSE v.sum[j]
        BY <2>3, <1>6, PostSum
      <4>6. \A j \in Keys : z.sum[j] = IF j = b THEN x.sum[j] + q ELSE x.sum[j]
        BY <1>10, <2>1, <2>2, <2>3, <2>4, <2>8, <4>1, <4>2, <4>3, <4>4, <4>5
      <4> QED BY <2>4, <2>8, <4>6
    <3> QED BY <1>8, <1>2, <1>11, <2>6, <2>8, <2>13, <3>1 DEF Moves
  <2>14. /\ z.ok => SlotOK(z, t)
         /\ z.ok => Moves(tx[t], z, t, id, b, q, "seller")
         /\ z.ok => rowLock' = [rowLock EXCEPT ![id] = t]
         /\ Advance(t, z)
    BY <1>1, <2>6, <2>9, <2>11, <2>13, Zenon
  <2>15. GoesOn(t, id, b, q, "seller")
    BY <2>12, <2>14, AdvanceFacts, Zenon
  <2> QED BY <1>1, <1>2, <1>3, <1>8, <2>15 DEF BuyerGoesOn
<1>12. CASE id \notin x.known
  <2>1. /\ tx' = [tx EXCEPT ![t].at = "seller"]
        /\ UNCHANGED <<balances, ledger, orders, trades, ids, advisory, rowLock, applied>>
    BY <1>8, <1>12
  <2>2. GoesOn(t, id, b, q, "seller")
    BY <1>1, <1>8, <1>12, <2>1, SettleSkipFacts
  <2> QED BY <1>1, <1>2, <1>3, <1>8, <2>2 DEF BuyerGoesOn
<1> QED BY <1>11, <1>12

LEMMA SettleSellerFacts ==
  ASSUME IInv, NEW t \in Slots, SettleSeller(t)
  PROVE  SellerGoesOn(t) /\ tx[t].op = "settle"
<1>1. PICK x : x = tx[t]
  OBVIOUS
<1>2. PICK id, q, cost : id = x.fill.sell /\ q = x.fill.quantity
                         /\ cost = QuoteAmount(x.fill.price, x.fill.quantity)
  OBVIOUS
<1>3. PICK b, c : b = <<orders[id].user, "base">> /\ c = <<orders[id].user, "quote">>
  OBVIOUS
<1>4. PICK u : u = Post(x, b, q, "unlock")
  OBVIOUS
<1>5. PICK v : v = Post(u, b, -q, "trade")
  OBVIOUS
<1>6. PICK y : y = Post(v, c, cost, "trade")
  OBVIOUS
<1>7. PICK z : z = [y EXCEPT !.rows = Put(@, id, AddFill(Row(x, id), q)), !.at = "commit"]
  OBVIOUS
<1>8. /\ x.op = "settle" /\ x.at = "seller" /\ x.want = << >>
      /\ IF id \notin x.known
           THEN /\ tx' = [tx EXCEPT ![t].at = "commit"]
                /\ UNCHANGED <<balances, ledger, orders, trades, ids, advisory, rowLock, applied>>
           ELSE Free(rowLock[id], t) /\ Advance(t, z)
                /\ (y.ok => rowLock' = [rowLock EXCEPT ![id] = t])
  BY <1>1, <1>2, <1>3, <1>4, <1>5, <1>6, <1>7 DEF SettleSeller, At
<1>9. /\ Shape(x) /\ Function(x.bal, Keys, Int) /\ x.sum \in [Keys -> Int] /\ Written(x, t)
      /\ x.fill \in Fill
  BY <1>1, <1>8 DEF IInv, SlotOK, RequestOK
<1>10. balances \in [Keys -> Int] /\ q \in Int /\ cost \in Int /\ -q \in Int
  BY <1>2, <1>9, FillFacts DEF IInv, TablesOK
<1>11. CASE id \in x.known
  <2>1. b \in Keys /\ c \in Keys /\ advisory[b] = t /\ advisory[c] = t
    BY <1>1, <1>3, <1>8, <1>11, PartyFacts DEF Assets
  <2>2. /\ Shape(u) /\ Function(u.bal, Keys, Int) /\ u.sum \in [Keys -> Int]
        /\ u.op = x.op /\ u.want = x.want /\ u.fill = x.fill
        /\ u.known = x.known /\ u.rows = x.rows
    <3>1. Shape(x) /\ Function(x.bal, Keys, Int) /\ x.sum \in [Keys -> Int]
      BY <1>9
    <3>2. balances \in [Keys -> Int] /\ b \in Keys /\ q \in Int
      BY <1>10, <2>1
    <3> QED BY <1>4, <3>1, <3>2, PostFacts
  <2>3. /\ Shape(v) /\ Function(v.bal, Keys, Int) /\ v.sum \in [Keys -> Int]
        /\ v.op = u.op /\ v.want = u.want /\ v.fill = u.fill
        /\ v.known = u.known /\ v.rows = u.rows
    BY <1>5, <1>10, <2>1, <2>2, PostFacts
  <2>4. /\ Shape(y) /\ Function(y.bal, Keys, Int) /\ y.sum \in [Keys -> Int]
        /\ y.op = v.op /\ y.want = v.want /\ y.fill = v.fill
        /\ y.known = v.known /\ y.rows = v.rows
    BY <1>6, <1>10, <2>1, <2>3, PostFacts
  <2>5. ASSUME y.ok PROVE Written(y, t)
    <3>1. q \in Int
      BY <1>10
    <3> QED BY <1>4, <1>5, <1>6, <1>9, <1>10, <2>1, <2>5, <3>1, ThreeWritten, Zenon
  <2>6. Free(rowLock[id], t) /\ Advance(t, z) /\ (y.ok => rowLock' = [rowLock EXCEPT ![id] = t])
    BY <1>8, <1>11, Zenon
  <2>7. /\ y.op = x.op /\ y.want = x.want /\ y.fill = x.fill
        /\ y.known = x.known /\ y.rows = x.rows
    BY <2>2, <2>3, <2>4
  <2>8. /\ z.op = x.op /\ z.at = "commit" /\ z.want = x.want /\ z.fill = x.fill
        /\ z.known = x.known /\ z.bal = y.bal /\ z.sum = y.sum
        /\ z.rows = Put(x.rows, id, AddFill(Row(x, id), q))
    BY <1>7, <2>4, <2>7 DEF Shape
  <2>9. z.ok = y.ok
    BY <1>7, <2>4 DEF Shape
  <2>10. Shape(z)
    BY <1>7, <2>4, MarkedShape
  <2>11. ASSUME y.ok PROVE SlotOK(z, t)
    <3>1. Written(z, t)
      BY <2>5, <2>8, <2>11 DEF Written
    <3>2. x.op = "settle" /\ x.at \in {"buyer", "seller"} /\ x.want = << >>
      BY <1>8
    <3> QED BY <1>1, <1>10, <1>11, <2>4, <2>8, <2>10, <3>1, <3>2, SettlePartySlot
  <2>12. id \in OrderIds
    BY <1>1, <1>8, <1>11 DEF IInv, SlotOK, RequestOK, TablesOK, Function
  <2>13. ASSUME y.ok
         PROVE  Moves(x, z, t, id, c, cost, "commit")
    <3>1. z.sum = [j \in Keys |-> IF j = c THEN x.sum[j] + cost ELSE x.sum[j]]
      <4>1. b # c
        BY <1>3
      <4>2. \A j \in Keys : x.sum[j] \in Int
        BY <1>9
      <4>3. \A j \in Keys : u.sum[j] = IF j = b THEN x.sum[j] + q ELSE x.sum[j]
        BY <1>9, <1>4, PostSum
      <4>4. \A j \in Keys : v.sum[j] = IF j = b THEN u.sum[j] + -q ELSE u.sum[j]
        BY <2>2, <1>5, PostSum
      <4>5. \A j \in Keys : y.sum[j] = IF j = c THEN v.sum[j] + cost ELSE v.sum[j]
        BY <2>3, <1>6, PostSum
      <4>6. \A j \in Keys : z.sum[j] = IF j = c THEN x.sum[j] + cost ELSE x.sum[j]
        BY <1>10, <2>1, <2>2, <2>3, <2>4, <2>8, <4>1, <4>2, <4>3, <4>4, <4>5
      <4> QED BY <2>4, <2>8, <4>6
    <3> QED BY <1>8, <1>2, <1>11, <2>6, <2>8, <2>13, <3>1 DEF Moves
  <2>14. /\ z.ok => SlotOK(z, t)
         /\ z.ok => Moves(tx[t], z, t, id, c, cost, "commit")
         /\ z.ok => rowLock' = [rowLock EXCEPT ![id] = t]
         /\ Advance(t, z)
    BY <1>1, <2>6, <2>9, <2>11, <2>13, Zenon
  <2>15. GoesOn(t, id, c, cost, "commit")
    BY <2>12, <2>14, AdvanceFacts, Zenon
  <2> QED BY <1>1, <1>2, <1>3, <1>8, <2>15 DEF SellerGoesOn
<1>12. CASE id \notin x.known
  <2>1. /\ tx' = [tx EXCEPT ![t].at = "commit"]
        /\ UNCHANGED <<balances, ledger, orders, trades, ids, advisory, rowLock, applied>>
    BY <1>8, <1>12
  <2>2. GoesOn(t, id, c, cost, "commit")
    BY <1>1, <1>8, <1>12, <2>1, SettleSkipFacts
  <2> QED BY <1>1, <1>2, <1>3, <1>8, <2>2 DEF SellerGoesOn
<1> QED BY <1>11, <1>12

LEMMA SettlePartyStep ==
  ASSUME IInv, NEW t \in Slots, SettleBuyer(t) \/ SettleSeller(t)
  PROVE  IInv'
<1>1. (BuyerGoesOn(t) \/ SellerGoesOn(t)) /\ tx[t].op = "settle"
  BY SettleBuyerFacts, SettleSellerFacts
<1>2. CASE Abort(t, FALSE)
  BY <1>1, <1>2, AbortStep
<1>3. CASE ~Abort(t, FALSE)
  <2>1. PICK y : /\ SlotOK(y, t) /\ y.op = "settle"
                 /\ tx' = [tx EXCEPT ![t] = y]
                 /\ UNCHANGED <<balances, ledger, orders, trades, ids, advisory, applied>>
                 /\ rowLock' \in [OrderIds -> Slots \cup {NoSlot}]
    BY <1>1, <1>3 DEF BuyerGoesOn, SellerGoesOn, GoesOn, Moves
  <2>2. y.op # "place"
    BY <2>1
  <2> QED BY <2>1, <2>2, LocalStep
<1> QED BY <1>2, <1>3

LEMMA SettleRecordStep ==
  ASSUME IInv, NEW t \in Slots, SettleRecord(t)
  PROVE  IInv'
<1>1. PICK x : x = tx[t]
  OBVIOUS
<1>2. PICK times : times = IF x.fill \in DOMAIN applied THEN applied[x.fill] ELSE 0
  OBVIOUS
<1>3. /\ x.op = "settle" /\ x.at = "commit" /\ Commit(t, x)
      /\ trades' = trades \cup {x.fill}
      /\ applied' = Put(applied, x.fill, times + 1)
  BY <1>1, <1>2 DEF SettleRecord, At
<1>4. /\ Function(x.bal, Keys, Int) /\ x.sum \in [Keys -> Int] /\ Written(x, t)
      /\ \A id \in DOMAIN x.rows : id \in DOMAIN orders /\ x.rows[id] \in Order
                                  /\ SameLock(x.rows[id], orders[id])
      /\ x.fill \in Fill
  BY <1>1, <1>3 DEF IInv, SlotOK, RequestOK
<1>5. times \in Nat
  BY <1>2 DEF IInv, TablesOK, Function
<1>6. trades' \subseteq Fill /\ Function(applied', Fill, Nat)
  BY <1>3, <1>4, <1>5 DEF IInv, TablesOK, Function, Put
<1>7. x.op = tx[t].op /\ x.op # "idle"
  BY <1>1, <1>3
<1> QED BY <1>3, <1>4, <1>6, <1>7, CommitStep

LEMMA DropStep ==
  ASSUME IInv, NEW t \in Slots, Drop(t)
  PROVE  IInv'
<1>1. tx[t].op # "idle"
  <2>1. Stage(tx[t]) /\ tx[t].at # "idle"
    BY DEF Drop, IInv, SlotOK, RequestOK
  <2> QED BY <2>1 DEF Stage, Cancels
<1> QED BY <1>1, AbortStep DEF Drop

\* Only a transaction that waits for another one can be in a circle.
LEMMA DeadlockAbortStep ==
  ASSUME IInv, NEW t \in Slots, DeadlockAbort(t)
  PROVE  IInv'
<1>1. PICK S \in SUBSET Slots : t \in S /\ {Blockers(s) : s \in S} = {{s} : s \in S}
  BY DEF DeadlockAbort, Deadlocked
<1>2. Blockers(t) # {}
  <2>1. Blockers(t) \in {{s} : s \in S}
    BY <1>1
  <2> QED BY <2>1
<1>3. ASSUME tx[t].op = "idle" PROVE Blockers(t) = {}
  <2>1. tx[t].at = "idle" /\ tx[t].want = << >>
    BY <1>3 DEF IInv, SlotOK, RequestOK, Stage, Cancels
  <2> QED BY <2>1 DEF Blockers
<1> QED BY <1>2, <1>3, AbortStep DEF DeadlockAbort

-----------------------------------------------------------------------------
(* The specification. *)

LEMMA NextIInv == IInv /\ [Next]_vars => IInv'
<1> SUFFICES ASSUME IInv, [Next]_vars PROVE IInv'
  OBVIOUS
<1>1. CASE UNCHANGED vars
  BY <1>1 DEF vars, IInv, TablesOK, LocksOK, Money, IdsDiffer, SlotOK, RequestOK, Held, NeedsKey,
              Written, UnlockAmount
<1>2. ASSUME NEW t \in Slots, NEW o \in NewOrder, RequestPlace(t, o) PROVE IInv'
  BY <1>2, RequestPlaceStep
<1>3. ASSUME NEW t \in Slots, NEW id \in OrderIds, RequestCancel(t, id) PROVE IInv'
  BY <1>3, RequestCancelStep
<1>4. ASSUME NEW t \in Slots, NEW id \in OrderIds, NEW filled \in Int,
             RequestCancelInternal(t, id, filled)
      PROVE  IInv'
  BY <1>4, RequestCancelInternalStep
<1>5. ASSUME NEW t \in Slots, NEW f \in Fill, RequestSettle(t, f) PROVE IInv'
  BY <1>5, RequestSettleStep
<1>6. ASSUME NEW t \in Slots, Statement(t) PROVE IInv'
  <2>1. CASE AdvisoryLock(t)
    BY <2>1, AdvisoryLockStep
  <2>2. CASE PlaceApply(t)
    BY <2>2, PlaceApplyStep
  <2>3. CASE CancelLookup(t)
    BY <2>3, CancelLookupStep
  <2>4. CASE CancelApply(t)
    BY <2>4, CancelApplyStep
  <2>5. CASE SettleCheck(t)
    BY <2>5, SettleCheckStep
  <2>6. CASE SettleBuyer(t)
    BY <2>6, SettlePartyStep
  <2>7. CASE SettleSeller(t)
    BY <2>7, SettlePartyStep
  <2>8. CASE SettleRecord(t)
    BY <2>8, SettleRecordStep
  <2>9. CASE DeadlockAbort(t)
    BY <2>9, DeadlockAbortStep
  <2> QED BY <1>6, <2>1, <2>2, <2>3, <2>4, <2>5, <2>6, <2>7, <2>8, <2>9 DEF Statement
<1>7. ASSUME NEW t \in Slots, Drop(t) PROVE IInv'
  BY <1>7, DropStep
<1>8. ASSUME NEW t \in Slots, Collect(t) PROVE IInv'
  BY <1>8, CollectStep
<1> QED BY <1>1, <1>2, <1>3, <1>4, <1>5, <1>6, <1>7, <1>8 DEF Next

THEOREM AccountsInvariance == Spec => []IInv
BY InitIInv, NextIInv, PTL DEF Spec

\* Whatever requests arrive, and in whatever order their statements run, the tables, the locks
\* and the requests keep their types.
THEOREM AccountsTypeCorrect == Spec => []TypeOK
<1>1. IInv => TypeOK
  <2> SUFFICES ASSUME IInv PROVE TypeOK
    OBVIOUS
  <2>1. ledger \in [Keys -> Int]
    BY DEF IInv, TablesOK, Money
  <2>2. ASSUME NEW t \in Slots
        PROVE  /\ tx[t].op \in {"idle", "place", "cancel", "cancel_internal", "settle"}
               /\ tx[t].at \in {"idle", "check", "row", "apply", "buyer", "seller", "commit", "done"}
               /\ tx[t].want \in Seq(Keys)
               /\ tx[t].known \subseteq DOMAIN orders
               /\ Function(tx[t].bal, Keys, Int)
               /\ tx[t].sum \in [Keys -> Int]
               /\ Function(tx[t].rows, OrderIds, Order)
    <3>1. SlotOK(tx[t], t)
      BY DEF IInv
    <3>2. /\ tx[t].op \in {"idle", "place", "cancel", "cancel_internal", "settle"}
          /\ tx[t].at \in {"idle", "check", "row", "apply", "buyer", "seller", "commit", "done"}
      BY <3>1 DEF SlotOK, RequestOK, Stage, Cancels
    <3>3. Function(tx[t].rows, OrderIds, Order)
      BY <3>1 DEF SlotOK, RequestOK, IInv, TablesOK, Function
    <3> QED BY <3>1, <3>2, <3>3 DEF SlotOK, RequestOK
  <2> QED BY <2>1, <2>2 DEF TypeOK, IInv, TablesOK, LocksOK
<1> QED BY <1>1, AccountsInvariance, PTL

\* reconcile finds nothing after any commit: the cached balance of every user and asset is the
\* sum of its ledger entries, for any number of requests side by side.
THEOREM BalancesAreTheLedger == Spec => []LedgerMatchesBalances
<1>1. IInv => LedgerMatchesBalances
  BY DEF IInv, Money, LedgerMatchesBalances
<1> QED BY <1>1, AccountsInvariance, PTL

\* append_in_tx, under the advisory locks alone, never leaves a balance below zero.
THEOREM NobodyOverdraws == Spec => []NoOverdraft
<1>1. IInv => NoOverdraft
  BY DEF IInv, Money, NoOverdraft
<1> QED BY <1>1, AccountsInvariance, PTL

-----------------------------------------------------------------------------
(* The rows of the orders table. *)

\* A row stays with the transaction that holds it while other transactions go on.
LEMMA OthersRows ==
  ASSUME IInv, RInv, NEW t \in Slots,
         \A s \in Slots : s # t => tx'[s] = tx[s],
         \A id \in DOMAIN orders : id \in DOMAIN orders' /\ orders'[id].user = orders[id].user,
         \A id \in DOMAIN orders, s \in Slots :
           s # t /\ rowLock[id] = s => rowLock'[id] = s /\ orders'[id] = orders[id],
         RowsOK(tx[t], t)'
  PROVE  RInv'
<1> SUFFICES ASSUME NEW s \in Slots, s # t PROVE RowsOK(tx[s], s)'
  BY DEF RInv
<1>1. PICK x : x = tx[s] /\ x = tx'[s]
  OBVIOUS
<1>2. RowsOK(x, s) /\ RequestOK(x)
  BY <1>1 DEF RInv, IInv, SlotOK
<1>3. x.known \subseteq DOMAIN orders /\ Marked(x) \subseteq DOMAIN orders
  BY <1>2 DEF RequestOK, Marked
<1>4. \A id \in Marked(x) : rowLock'[id] = s /\ MarkedBy(orders'[id], x.rows[id], Part(x, id))
  BY <1>2, <1>3 DEF RowsOK
<1>5. Entries(x)' = Entries(x)
  BY <1>3 DEF Entries
<1>6. x.op \in Cancels /\ x.at = "apply" =>
        rowLock'[x.id] = s /\ orders'[x.id] = orders[x.id] /\ orders[x.id].status # "cancelled"
  BY <1>2 DEF RowsOK, RequestOK
<1>7. x.op = "cancel" => x.op \in Cancels
  BY DEF Cancels
<1> QED BY <1>1, <1>2, <1>4, <1>5, <1>6, <1>7 DEF RowsOK

LEMMA RowsLocal ==
  ASSUME IInv, RInv, NEW t \in Slots, NEW y, tx' = [tx EXCEPT ![t] = y],
         orders' = orders, rowLock' = rowLock, RowsOK(y, t)
  PROVE  RInv'
<1>1. tx'[t] = y /\ \A s \in Slots : s # t => tx'[s] = tx[s]
  BY DEF IInv
<1>2. RowsOK(tx[t], t)'
  BY <1>1 DEF RowsOK, Entries
<1> QED BY <1>1, <1>2, OthersRows

\* A request that has written nothing yet.
LEMMA NothingWritten ==
  ASSUME NEW t \in Slots, NEW y, DOMAIN y.rows = {}, y.at \notin {"apply", "seller", "commit"},
         y.sum = [k \in Keys |-> 0]
  PROVE  RowsOK(y, t)
BY DEF RowsOK, Marked, Entries

LEMMA AnswerRows ==
  ASSUME NEW t \in Slots, NEW x, NEW ok \in BOOLEAN, NEW y, y = Answer(x, ok)
  PROVE  y.at = "done" /\ DOMAIN y.rows = {} /\ y.sum = [k \in Keys |-> 0]
<1>1. /\ y.at = "done" /\ DOMAIN y.rows = {}
      /\ y.sum \in [Keys -> Int] /\ \A k \in Keys : y.sum[k] = 0
  BY AnswerFacts
<1> QED BY <1>1

\* A transaction ends: the rows of the others stay as they are if it wrote none of them.
LEMMA EndRows ==
  ASSUME IInv, RInv, NEW t \in Slots, NEW x, NEW ok \in BOOLEAN,
         tx' = [tx EXCEPT ![t] = Answer(x, ok)], rowLock' = Release(rowLock, t),
         \A id \in DOMAIN orders : id \in DOMAIN orders' /\ orders'[id].user = orders[id].user,
         \A id \in DOMAIN orders : rowLock[id] # t => orders'[id] = orders[id]
  PROVE  RInv'
<1>1. PICK y : y = Answer(x, ok)
  OBVIOUS
<1>2. tx'[t] = y /\ \A s \in Slots : s # t => tx'[s] = tx[s]
  BY <1>1 DEF IInv
<1>3. y.at = "done" /\ DOMAIN y.rows = {} /\ y.sum = [k \in Keys |-> 0]
  BY <1>1, AnswerRows
<1>4. RowsOK(tx[t], t)'
  BY <1>2, <1>3 DEF RowsOK, Marked, Entries
<1>5. DOMAIN orders \subseteq OrderIds
  BY DEF IInv, TablesOK, Function
<1>6. \A id \in DOMAIN orders, s \in Slots :
        s # t /\ rowLock[id] = s => rowLock'[id] = s /\ orders'[id] = orders[id]
  BY <1>5 DEF IInv, LocksOK, Release
<1> QED BY <1>2, <1>4, <1>6, OthersRows

LEMMA AbortRows ==
  ASSUME IInv, RInv, NEW t \in Slots, NEW ok \in BOOLEAN, Abort(t, ok)
  PROVE  RInv'
BY EndRows DEF Abort

\* A request begins.
LEMMA RequestRows ==
  ASSUME IInv, RInv, NEW t \in Slots, NEW y, Request(t, y),
         y.rows = << >>, y.sum = [k \in Keys |-> 0],
         \/ y.at \in {"row", "check"}
         \/ y.op = "place" /\ y.at = "apply" /\ y.order \in NewOrder
  PROVE  RInv'
<1>1. tx' = [tx EXCEPT ![t] = y] /\ orders' = orders /\ rowLock' = rowLock
  BY DEF Request
<1>2. RowsOK(y, t)
  BY DEF RowsOK, Marked, Entries, Cancels
<1> QED BY <1>1, <1>2, RowsLocal

LEMMA AdvisoryLockRows ==
  ASSUME IInv, RInv, NEW t \in Slots, AdvisoryLock(t)
  PROVE  RInv'
<1>1. PICK x : x = tx[t]
  OBVIOUS
<1>2. PICK y : y = [x EXCEPT !.want = Tail(@)]
  OBVIOUS
<1>3. tx' = [tx EXCEPT ![t] = y] /\ orders' = orders /\ rowLock' = rowLock
  BY <1>1, <1>2 DEF AdvisoryLock, IInv
<1>4. Shape(x) /\ RowsOK(x, t)
  BY <1>1 DEF IInv, SlotOK, RequestOK, RInv
<1>5. /\ y.op = x.op /\ y.at = x.at /\ y.id = x.id /\ y.order = x.order
      /\ y.filled = x.filled /\ y.fill = x.fill /\ y.known = x.known
      /\ y.sum = x.sum /\ y.rows = x.rows
  BY <1>2, <1>4 DEF Shape
<1>6. RowsOK(y, t)
  BY <1>4, <1>5 DEF RowsOK, Marked, Part, Entries
<1> QED BY <1>3, <1>6, RowsLocal

LEMMA CancelLookupRows ==
  ASSUME IInv, RInv, NEW t \in Slots, CancelLookup(t)
  PROVE  RInv'
<1>1. PICK x, o : x = tx[t] /\ o = orders[x.id]
  OBVIOUS
<1>2. PICK filled : filled = IF x.op = "cancel" THEN o.filled ELSE x.filled
  OBVIOUS
<1>3. PICK want : want = IF UnlockAmount(o, filled) > 0 THEN <<LockKey(o)>> ELSE << >>
  OBVIOUS
<1>4. x.op \in Cancels /\ x.at = "row" /\ Free(rowLock[x.id], t)
  BY <1>1 DEF CancelLookup, At, Cancels
<1>5. Shape(x) /\ RowsOK(x, t) /\ x.id \in DOMAIN orders /\ x.id \in OrderIds
  BY <1>1, <1>4 DEF IInv, SlotOK, RequestOK, RInv, TablesOK, Function
<1>6. CASE o.status \notin Live \/ o.quantity = 0
  <2>1. Abort(t, FALSE)
    BY <1>1, <1>6 DEF CancelLookup
  <2> QED BY <2>1, AbortRows
<1>7. CASE o.status \in Live /\ o.quantity # 0
  <2>1. PICK y : y = [x EXCEPT !.at = "apply", !.filled = filled, !.want = want]
    OBVIOUS
  <2>2. /\ rowLock' = [rowLock EXCEPT ![x.id] = t]
        /\ tx' = [tx EXCEPT ![t].at = "apply", ![t].filled = filled, ![t].want = want]
        /\ orders' = orders
    BY <1>1, <1>2, <1>3, <1>7 DEF CancelLookup
  <2>3. tx'[t] = y /\ \A s \in Slots : s # t => tx'[s] = tx[s]
    BY <2>1, <2>2, <1>1 DEF IInv
  <2>4. /\ y.op = x.op /\ y.at = "apply" /\ y.id = x.id /\ y.filled = filled
        /\ y.known = x.known /\ y.sum = x.sum /\ y.rows = x.rows
    BY <2>1, <1>5 DEF Shape
  <2>5. /\ rowLock'[x.id] = t
        /\ \A id \in DOMAIN orders, s \in Slots :
             s # t /\ rowLock[id] = s => rowLock'[id] = s
    BY <2>2, <1>4, <1>5, SlotsAssumption DEF IInv, LocksOK, TablesOK, Function, Free
  <2>6. Marked(x) = {} /\ Marked(y) = {} /\ Entries(y) = Entries(x)
    BY <1>4, <2>4 DEF Marked, Entries
  <2>7. o.status # "cancelled"
    BY <1>7 DEF Live
  <2>8. RowsOK(tx[t], t)'
    <3>1. Entries(y)' = Entries(y)
      BY <2>2 DEF Entries
    <3>2. /\ y.id = x.id /\ rowLock'[y.id] = t /\ orders'[y.id].status # "cancelled"
          /\ y.op = "cancel" => y.filled = orders'[y.id].filled
      BY <1>1, <1>2, <2>2, <2>4, <2>5, <2>7
    <3>3. DOMAIN y.rows = Marked(y) /\ y.sum = Entries(y)'
      BY <1>5, <2>4, <2>6, <3>1 DEF RowsOK
    <3>4. y.op # "place"
      BY <1>4, <2>4 DEF Cancels
    <3> QED BY <2>3, <2>6, <3>2, <3>3, <3>4 DEF RowsOK
  <2> QED BY ZenonT(40), <2>2, <2>3, <2>5, <2>8, OthersRows
<1> QED BY <1>6, <1>7

LEMMA SettleCheckRows ==
  ASSUME IInv, RInv, NEW t \in Slots, SettleCheck(t)
  PROVE  RInv'
<1>1. PICK x, known, want : x = tx[t] /\ known = Known(x.fill) /\ want = LockOrder(x.fill)
  OBVIOUS
<1>2. Shape(x) /\ RowsOK(x, t) /\ x.op = "settle" /\ x.at = "check"
  BY <1>1 DEF SettleCheck, At, IInv, SlotOK, RequestOK, RInv
<1>3. CASE Abort(t, TRUE)
  BY <1>3, AbortRows
<1>4. CASE ~Abort(t, TRUE)
  <2>1. PICK y : y = [x EXCEPT !.at = "buyer", !.want = want, !.known = known]
    OBVIOUS
  <2>2. /\ tx' = [tx EXCEPT ![t].at = "buyer", ![t].want = want, ![t].known = known]
        /\ orders' = orders /\ rowLock' = rowLock
    BY <1>1, <1>4 DEF SettleCheck
  <2>3. tx' = [tx EXCEPT ![t] = y]
    BY <1>1, <2>1, <2>2 DEF IInv
  <2>4. y.at = "buyer" /\ y.rows = x.rows /\ y.sum = x.sum
    BY <1>2, <2>1 DEF Shape
  <2>5. DOMAIN x.rows = {} /\ x.sum = [k \in Keys |-> 0]
    BY <1>2 DEF RowsOK, Marked, Entries
  <2>6. RowsOK(y, t)
    BY <2>4, <2>5, NothingWritten
  <2> QED BY <2>2, <2>3, <2>6, RowsLocal
<1> QED BY <1>3, <1>4

\* One more addition to a row leads from what the order was to what the row is then.
LEMMA AddFillMarks ==
  ASSUME NEW o, NEW r \in Order, NEW q \in Int, NEW n \in Int,
         MarkedBy(o, r, n), o \in Order
  PROVE  MarkedBy(o, AddFill(r, q), n + q)
<1>1. CASE o.status = "cancelled"
  BY <1>1 DEF MarkedBy, AddFill
<1>2. CASE o.status # "cancelled"
  <2>1. PICK status : status = IF r.filled + q >= r.quantity THEN "filled" ELSE "partially_filled"
    OBVIOUS
  <2>2. r.status # "cancelled" /\ r.filled = o.filled + n
    BY <1>2 DEF MarkedBy
  <2>3. AddFill(r, q) = [r EXCEPT !.filled = @ + q, !.status = status]
    BY <2>1, <2>2 DEF AddFill
  <2>4. AddFill(r, q).filled = r.filled + q /\ AddFill(r, q).status = status
    BY <2>3 DEF Order
  <2> QED BY <1>2, <2>1, <2>2, <2>4 DEF MarkedBy, Order
<1> QED BY <1>1, <1>2

LEMMA BuyerRows ==
  ASSUME IInv, RInv, NEW t \in Slots, SettleBuyer(t)
  PROVE  RInv'
<1>1. PICK x : x = tx[t]
  OBVIOUS
<1>2. PICK id, q, k, amount : /\ id = x.fill.buy /\ q = x.fill.quantity
                              /\ k = <<orders[id].user, "base">> /\ amount = q
  OBVIOUS
<1>3. x.op = "settle" /\ x.at = "buyer" /\ RequestOK(x) /\ RowsOK(x, t)
  BY <1>1 DEF SettleBuyer, At, IInv, SlotOK, RInv
<1>4. GoesOn(t, id, k, amount, "seller")
  BY <1>1, <1>2, SettleBuyerFacts DEF BuyerGoesOn
<1>5. q \in Int /\ amount \in Int /\ x.known \subseteq DOMAIN orders /\ x.known \subseteq OrderIds
      /\ DOMAIN orders \subseteq OrderIds
  BY <1>2, <1>3, FillFacts DEF RequestOK, IInv, TablesOK, Function
<1>6. CASE Abort(t, FALSE)
  BY <1>6, AbortRows
<1>7. CASE ~Abort(t, FALSE)
  <2>1. PICK y : /\ Moves(x, y, t, id, k, amount, "seller")
                 /\ tx' = [tx EXCEPT ![t] = y] /\ orders' = orders
    BY <1>1, <1>4, <1>7 DEF GoesOn
  <2>2. y.op = "settle" /\ y.at = "seller" /\ y.fill = x.fill /\ y.known = x.known
    BY <2>1 DEF Moves
  <2>3. tx'[t] = y /\ \A s \in Slots : s # t => tx'[s] = tx[s]
    BY <2>1 DEF IInv
  <2>4. \A j \in DOMAIN orders : /\ rowLock[j] = t => rowLock'[j] = t
                                 /\ \A s \in Slots : s # t /\ rowLock[j] = s => rowLock'[j] = s
    BY <1>5, <2>1, SlotsAssumption DEF IInv, LocksOK, Moves, Free
  <2>5. Marked(x) = {} /\ Marked(y) = {id} \cap x.known
    BY <1>2, <1>3, <2>2 DEF Marked
  <2>6. \A j \in Marked(y) : Part(y, j) = Part(x, j) + (IF j = id THEN q ELSE 0)
    BY <1>2, <1>3, <1>5, <2>2 DEF Part
  <2>7. CASE id \in x.known
    <3>1. rowLock'[id] = t
      BY <1>5, <2>1, <2>7 DEF IInv, LocksOK, Moves
    <3>2. y.rows = Put(x.rows, id, AddFill(Row(x, id), q))
      BY <1>2, <2>1, <2>7 DEF Moves
    <3>3. DOMAIN y.rows = Marked(y)
      BY <1>3, <2>5, <2>7, <3>2 DEF RowsOK, Put
    <3>4. ASSUME NEW j \in Marked(y)
          PROVE  rowLock'[j] = t /\ MarkedBy(orders[j], y.rows[j], Part(y, j))
      <4>1. CASE j # id
        <5>1. j \in Marked(x) /\ y.rows[j] = x.rows[j] /\ Part(y, j) = Part(x, j)
          <6>1. Part(x, j) \in Int
            BY <1>2, <1>5 DEF Part
          <6> QED BY <4>1, <2>5, <2>6, <3>2, <3>3, <6>1 DEF Put
        <5>2. j \in DOMAIN orders
          BY <5>1, <1>5 DEF Marked
        <5> QED BY <5>1, <5>2, <1>3, <2>4 DEF RowsOK
      <4>2. CASE j = id
        <5>1. y.rows[j] = AddFill(Row(x, id), q)
          BY <4>2, <3>2 DEF Put
        <5>2. orders[id] \in Order
          BY <1>5, <2>7 DEF IInv, TablesOK, Function
        <5>3. Part(x, id) \in Int
          BY <1>2, <1>5 DEF Part
        <5>4. Row(x, id) \in Order /\ MarkedBy(orders[id], Row(x, id), Part(x, id))
          <6>1. CASE id \in Marked(x)
            BY <6>1, <1>3 DEF RowsOK, RequestOK, Row
          <6>2. CASE id \notin Marked(x)
            <7>1. Row(x, id) = orders[id]
              BY <6>2, <1>3 DEF RowsOK, Row
            <7>2. Part(x, id) = 0
              BY <6>2, <1>2, <1>3, <2>7 DEF Marked, Part
            <7>3. orders[id].filled + 0 = orders[id].filled
              BY <5>2 DEF Order
            <7> QED BY <5>2, <7>1, <7>2, <7>3 DEF MarkedBy
          <6> QED BY <6>1, <6>2
        <5>5. MarkedBy(orders[id], AddFill(Row(x, id), q), Part(x, id) + q)
          BY <5>2, <5>3, <5>4, <1>5, AddFillMarks
        <5> QED BY <4>2, <5>1, <5>5, <2>6, <3>1
      <4> QED BY <4>1, <4>2
    <3>5. y.sum = Entries(y)
      <4>1. y.sum = [j \in Keys |-> IF j = k THEN x.sum[j] + amount ELSE x.sum[j]]
        BY <2>1, <2>7 DEF Moves
      <4>2. x.sum = Entries(x)
        BY <1>3 DEF RowsOK
      <4>3. \A j \in Keys : Entries(y)[j] = IF j = k THEN Entries(x)[j] + amount ELSE Entries(x)[j]
        BY <1>2, <1>3, <1>5, <2>2, <2>7 DEF Entries
      <4>4. Entries(y) = [j \in Keys |-> Entries(y)[j]]
        BY DEF Entries
      <4>5. [j \in Keys |-> Entries(y)[j]] = [j \in Keys |-> IF j = k THEN x.sum[j] + amount ELSE x.sum[j]]
        BY <4>2, <4>3
      <4> QED BY ONLY <4>1, <4>4, <4>5
    <3>6. RowsOK(tx[t], t)'
      <4>1. Entries(y)' = Entries(y)
        BY <2>1 DEF Entries
      <4> QED BY <2>1, <2>2, <2>3, <3>3, <3>4, <3>5, <4>1 DEF RowsOK, Cancels
    <3> QED BY <2>1, <2>3, <2>4, <3>6, OthersRows
  <2>8. CASE id \notin x.known
    <3>1. rowLock' = rowLock /\ y.rows = x.rows /\ y.sum = x.sum
      BY <2>1, <2>8 DEF Moves
    <3>2. Marked(y) = Marked(x) /\ \A j \in Marked(x) : Part(y, j) = Part(x, j)
      BY <1>2, <1>3, <1>5, <2>2, <2>5, <2>8 DEF Marked, Part
    <3>3. Entries(y) = Entries(x)
      BY <1>2, <1>3, <2>2, <2>8 DEF Entries
    <3>4. RowsOK(y, t)
      BY <1>3, <2>2, <3>1, <3>2, <3>3 DEF RowsOK, Cancels
    <3> QED BY <2>1, <3>1, <3>4, RowsLocal
  <2> QED BY <2>7, <2>8
<1> QED BY <1>6, <1>7

LEMMA SellerRows ==
  ASSUME IInv, RInv, NEW t \in Slots, SettleSeller(t)
  PROVE  RInv'
<1>1. PICK x : x = tx[t]
  OBVIOUS
<1>2. PICK id, q, k, amount : /\ id = x.fill.sell /\ q = x.fill.quantity
                              /\ k = <<orders[id].user, "quote">> /\ amount = QuoteAmount(x.fill.price, q)
  OBVIOUS
<1>3. x.op = "settle" /\ x.at = "seller" /\ RequestOK(x) /\ RowsOK(x, t)
  BY <1>1 DEF SettleSeller, At, IInv, SlotOK, RInv
<1>4. GoesOn(t, id, k, amount, "commit")
  BY <1>1, <1>2, SettleSellerFacts DEF SellerGoesOn
<1>5. q \in Int /\ amount \in Int /\ x.known \subseteq DOMAIN orders /\ x.known \subseteq OrderIds
      /\ DOMAIN orders \subseteq OrderIds
  BY <1>2, <1>3, FillFacts DEF RequestOK, IInv, TablesOK, Function
<1>6. CASE Abort(t, FALSE)
  BY <1>6, AbortRows
<1>7. CASE ~Abort(t, FALSE)
  <2>1. PICK y : /\ Moves(x, y, t, id, k, amount, "commit")
                 /\ tx' = [tx EXCEPT ![t] = y] /\ orders' = orders
    BY <1>1, <1>4, <1>7 DEF GoesOn
  <2>2. y.op = "settle" /\ y.at = "commit" /\ y.fill = x.fill /\ y.known = x.known
    BY <2>1 DEF Moves
  <2>3. tx'[t] = y /\ \A s \in Slots : s # t => tx'[s] = tx[s]
    BY <2>1 DEF IInv
  <2>4. \A j \in DOMAIN orders : /\ rowLock[j] = t => rowLock'[j] = t
                                 /\ \A s \in Slots : s # t /\ rowLock[j] = s => rowLock'[j] = s
    BY <1>5, <2>1, SlotsAssumption DEF IInv, LocksOK, Moves, Free
  <2>5. Marked(x) = {x.fill.buy} \cap x.known /\ Marked(y) = Marked(x) \cup ({id} \cap x.known)
    BY <1>2, <1>3, <2>2 DEF Marked
  <2>6. \A j \in Marked(y) : Part(y, j) = Part(x, j) + (IF j = id THEN q ELSE 0)
    BY <1>2, <1>3, <1>5, <2>2 DEF Part
  <2>7. CASE id \in x.known
    <3>1. rowLock'[id] = t
      BY <1>5, <2>1, <2>7 DEF IInv, LocksOK, Moves
    <3>2. y.rows = Put(x.rows, id, AddFill(Row(x, id), q))
      BY <1>2, <2>1, <2>7 DEF Moves
    <3>3. DOMAIN y.rows = Marked(y)
      BY <1>3, <2>5, <2>7, <3>2 DEF RowsOK, Put
    <3>4. ASSUME NEW j \in Marked(y)
          PROVE  rowLock'[j] = t /\ MarkedBy(orders[j], y.rows[j], Part(y, j))
      <4>1. CASE j # id
        <5>1. j \in Marked(x) /\ y.rows[j] = x.rows[j] /\ Part(y, j) = Part(x, j)
          <6>1. Part(x, j) \in Int
            BY <1>2, <1>5 DEF Part
          <6> QED BY <4>1, <2>5, <2>6, <3>2, <3>3, <6>1 DEF Put
        <5>2. j \in DOMAIN orders
          BY <5>1, <1>5 DEF Marked
        <5> QED BY <5>1, <5>2, <1>3, <2>4 DEF RowsOK
      <4>2. CASE j = id
        <5>1. y.rows[j] = AddFill(Row(x, id), q)
          BY <4>2, <3>2 DEF Put
        <5>2. orders[id] \in Order
          BY <1>5, <2>7 DEF IInv, TablesOK, Function
        <5>3. Part(x, id) \in Int
          BY <1>2, <1>5 DEF Part
        <5>4. Row(x, id) \in Order /\ MarkedBy(orders[id], Row(x, id), Part(x, id))
          <6>1. CASE id \in Marked(x)
            BY <6>1, <1>3 DEF RowsOK, RequestOK, Row
          <6>2. CASE id \notin Marked(x)
            <7>1. Row(x, id) = orders[id]
              BY <6>2, <1>3 DEF RowsOK, Row
            <7>2. Part(x, id) = 0
              BY <6>2, <1>2, <1>3, <2>7 DEF Marked, Part
            <7>3. orders[id].filled + 0 = orders[id].filled
              BY <5>2 DEF Order
            <7> QED BY <5>2, <7>1, <7>2, <7>3 DEF MarkedBy
          <6> QED BY <6>1, <6>2
        <5>5. MarkedBy(orders[id], AddFill(Row(x, id), q), Part(x, id) + q)
          BY <5>2, <5>3, <5>4, <1>5, AddFillMarks
        <5> QED BY <4>2, <5>1, <5>5, <2>6, <3>1
      <4> QED BY <4>1, <4>2
    <3>5. y.sum = Entries(y)
      <4>1. y.sum = [j \in Keys |-> IF j = k THEN x.sum[j] + amount ELSE x.sum[j]]
        BY <2>1, <2>7 DEF Moves
      <4>2. x.sum = Entries(x)
        BY <1>3 DEF RowsOK
      <4>3. \A j \in Keys : Entries(y)[j] = IF j = k THEN Entries(x)[j] + amount ELSE Entries(x)[j]
        BY <1>2, <1>3, <1>5, <2>2, <2>7 DEF Entries
      <4>4. Entries(y) = [j \in Keys |-> Entries(y)[j]]
        BY DEF Entries
      <4>5. [j \in Keys |-> Entries(y)[j]] = [j \in Keys |-> IF j = k THEN x.sum[j] + amount ELSE x.sum[j]]
        BY <4>2, <4>3
      <4> QED BY ONLY <4>1, <4>4, <4>5
    <3>6. RowsOK(tx[t], t)'
      <4>1. Entries(y)' = Entries(y)
        BY <2>1 DEF Entries
      <4> QED BY <2>1, <2>2, <2>3, <3>3, <3>4, <3>5, <4>1 DEF RowsOK, Cancels
    <3> QED BY <2>1, <2>3, <2>4, <3>6, OthersRows
  <2>8. CASE id \notin x.known
    <3>1. rowLock' = rowLock /\ y.rows = x.rows /\ y.sum = x.sum
      BY <2>1, <2>8 DEF Moves
    <3>2. Marked(y) = Marked(x) /\ \A j \in Marked(x) : Part(y, j) = Part(x, j)
      BY <1>2, <1>3, <1>5, <2>2, <2>5, <2>8 DEF Marked, Part
    <3>3. Entries(y) = Entries(x)
      BY <1>2, <1>3, <2>2, <2>8 DEF Entries
    <3>4. RowsOK(y, t)
      BY <1>3, <2>2, <3>1, <3>2, <3>3 DEF RowsOK, Cancels
    <3> QED BY <2>1, <3>1, <3>4, RowsLocal
  <2> QED BY <2>7, <2>8
<1> QED BY <1>6, <1>7

-----------------------------------------------------------------------------
(* What a commit does to the tables. *)

PlaceEffect(t) ==
  LET x == tx[t]
  IN /\ x.op = "place" /\ x.at = "apply" /\ x.order \in NewOrder
     /\ x.id \in OrderIds /\ x.id \notin DOMAIN orders
     /\ orders' = Put(orders, x.id, x.order)
     /\ balances' = [k \in Keys |-> IF k = LockKey(x.order)
                                      THEN balances[k] - LockAmount(x.order) ELSE balances[k]]
     /\ UNCHANGED <<trades, applied>>

\* What a cancellation gives back.
Unlocked(o, filled) == IF UnlockAmount(o, filled) > 0 THEN UnlockAmount(o, filled) ELSE 0

CancelEffect(t) ==
  LET x == tx[t]
      o == orders[x.id]
  IN /\ x.op \in Cancels /\ x.at = "apply" /\ x.id \in DOMAIN orders /\ x.filled \in Int
     /\ o.status # "cancelled" /\ (x.op = "cancel" => x.filled = o.filled)
     /\ orders' = [orders EXCEPT ![x.id] = [@ EXCEPT !.status = "cancelled", !.filled = x.filled]]
     /\ balances' = [k \in Keys |-> IF k = LockKey(o) THEN balances[k] + Unlocked(o, x.filled)
                                                      ELSE balances[k]]
     /\ UNCHANGED <<trades, applied>>

SettleEffect(t) ==
  LET x == tx[t]
      times == IF x.fill \in DOMAIN applied THEN applied[x.fill] ELSE 0
  IN /\ x.op = "settle" /\ x.at = "commit" /\ x.fill \in Fill /\ x.known \subseteq DOMAIN orders
     /\ DOMAIN orders' = DOMAIN orders
     /\ DOMAIN x.rows = Marked(x)
     /\ \A id \in DOMAIN orders :
          /\ orders'[id] \in Order /\ SameLock(orders'[id], orders[id])
          /\ IF id \in Marked(x)
               THEN orders'[id] = x.rows[id] /\ MarkedBy(orders[id], orders'[id], Part(x, id))
               ELSE orders'[id] = orders[id]
     /\ balances' = [k \in Keys |-> balances[k] + Entries(x)[k]]
     /\ trades' = trades \cup {x.fill}
     /\ applied' = Put(applied, x.fill, times + 1)

NoEffect == UNCHANGED <<balances, orders, trades, applied>>

Effect(t) == PlaceEffect(t) \/ CancelEffect(t) \/ SettleEffect(t) \/ NoEffect

LEMMA PlaceApplyEffect ==
  ASSUME IInv, RInv, NEW t \in Slots, PlaceApply(t)
  PROVE  RInv' /\ Effect(t)
<1>1. PICK x : x = tx[t]
  OBVIOUS
<1>2. PICK k, amount : k = LockKey(x.order) /\ amount = -LockAmount(x.order)
  OBVIOUS
<1>3. PICK y : y = Post(x, k, amount, "lock")
  OBVIOUS
<1>4. PICK z : z = [y EXCEPT !.rows = Put(@, x.id, x.order)]
  OBVIOUS
<1>5. /\ x.op = "place" /\ x.at = "apply"
      /\ IF y.ok THEN Commit(t, z) /\ UNCHANGED <<trades, applied>> ELSE Abort(t, FALSE)
  BY <1>1, <1>2, <1>3, <1>4 DEF PlaceApply, At
<1>6. /\ Shape(x) /\ Function(x.bal, Keys, Int) /\ x.sum \in [Keys -> Int] /\ Written(x, t)
      /\ x.order \in Order /\ x.id \in OrderIds /\ x.id \notin DOMAIN orders /\ RowsOK(x, t)
      /\ balances \in [Keys -> Int]
  BY <1>1, <1>5 DEF IInv, SlotOK, RequestOK, RInv, TablesOK
<1>7. x.order \in NewOrder /\ DOMAIN x.rows = {} /\ \A j \in Keys : x.sum[j] = 0
  BY <1>5, <1>6 DEF RowsOK, Marked, Entries
<1>8. k \in Keys /\ amount \in Int /\ LockAmount(x.order) \in Int
  BY <1>2, <1>6, OrderFacts
<1>9. CASE y.ok
  <2>1. Shape(y) /\ y.rows = x.rows
    BY <1>3, <1>6, <1>8, PostFacts
  <2>2. z.bal = y.bal /\ z.rows = Put(x.rows, x.id, x.order)
    BY <1>4, <2>1 DEF Shape
  <2>3. Commit(t, z) /\ UNCHANGED <<trades, applied>>
    BY <1>5, <1>9, Zenon
  <2>4. orders' = Put(orders, x.id, x.order)
    BY <1>7, <2>2, <2>3 DEF Commit, Row, Put
  <2>5. \A j \in Keys : Seen(x, j) = balances[j]
    BY <1>6, <1>7 DEF Seen, Written
  <2>6. y.bal = [j \in DOMAIN x.bal \cup {k} |-> IF j = k THEN Seen(x, k) + amount ELSE x.bal[j]]
    BY <1>3, <1>6 DEF Post, Shape
  <2>7. \A j \in Keys : Seen(z, j) = IF j = k THEN balances[j] - LockAmount(x.order) ELSE balances[j]
    BY <1>2, <1>6, <1>8, <2>2, <2>5, <2>6 DEF Seen
  <2>8. balances' = [j \in Keys |-> Seen(z, j)]
    BY <2>3 DEF Commit
  <2>9. PlaceEffect(t)
    BY <1>1, <1>2, <1>5, <1>6, <1>7, <2>3, <2>4, <2>7, <2>8 DEF PlaceEffect
  <2>10. RInv'
    <3>1. tx' = [tx EXCEPT ![t] = Answer(z, TRUE)] /\ rowLock' = Release(rowLock, t)
      BY <2>3 DEF Commit
    <3>2. \A id \in DOMAIN orders : id \in DOMAIN orders' /\ orders'[id] = orders[id]
      BY <1>6, <2>4 DEF Put
    <3> QED BY <3>1, <3>2, EndRows
  <2> QED BY <2>9, <2>10 DEF Effect
<1>10. CASE ~y.ok
  <2>1. Abort(t, FALSE)
    BY <1>5, <1>10, Zenon
  <2>2. NoEffect
    BY <2>1 DEF Abort, NoEffect
  <2> QED BY <2>1, <2>2, AbortRows DEF Effect
<1> QED BY <1>9, <1>10

LEMMA CancelApplyEffect ==
  ASSUME IInv, RInv, NEW t \in Slots, CancelApply(t)
  PROVE  RInv' /\ Effect(t)
<1>1. PICK x, o : x = tx[t] /\ o = orders[x.id]
  OBVIOUS
<1>2. PICK k, amount : k = LockKey(o) /\ amount = UnlockAmount(o, x.filled)
  OBVIOUS
<1>3. PICK gain : gain = Unlocked(o, x.filled)
  OBVIOUS
<1>4. PICK y : y = IF amount > 0 THEN Post(x, k, amount, "unlock") ELSE x
  OBVIOUS
<1>5. PICK after : after = [o EXCEPT !.status = "cancelled", !.filled = x.filled]
  OBVIOUS
<1>6. PICK z : z = [y EXCEPT !.rows = Put(@, x.id, after)]
  OBVIOUS
<1>7. /\ x.op \in Cancels /\ x.at = "apply" /\ Commit(t, z) /\ UNCHANGED <<trades, applied>>
  BY <1>1, <1>2, <1>4, <1>5, <1>6 DEF CancelApply, At, Cancels
<1>8. /\ Shape(x) /\ Function(x.bal, Keys, Int) /\ x.sum \in [Keys -> Int] /\ Written(x, t)
      /\ x.id \in DOMAIN orders /\ x.id \in OrderIds /\ x.filled \in Int /\ RowsOK(x, t)
      /\ balances \in [Keys -> Int]
  BY <1>1, <1>7 DEF IInv, SlotOK, RequestOK, RInv, TablesOK, Function
<1>9. /\ DOMAIN x.rows = {} /\ \A j \in Keys : x.sum[j] = 0
      /\ rowLock[x.id] = t /\ o.status # "cancelled" /\ (x.op = "cancel" => x.filled = o.filled)
  BY <1>1, <1>7, <1>8 DEF RowsOK, Marked, Entries
<1>10. o \in Order
  BY <1>1, <1>8 DEF IInv, TablesOK, Function
<1>11. k \in Keys /\ amount \in Int
  BY <1>2, <1>8, <1>10, OrderFacts, UnlockFacts
<1>12. gain = IF amount > 0 THEN amount ELSE 0
  BY <1>2, <1>3 DEF Unlocked
<1>13. \A j \in Keys : Seen(x, j) = balances[j]
  BY <1>8, <1>9 DEF Seen, Written
<1>14. Shape(y) /\ y.rows = x.rows /\ \A j \in Keys : Seen(y, j) = IF j = k THEN balances[j] + gain ELSE balances[j]
  <2>1. CASE amount > 0
    <3>1. y = Post(x, k, amount, "unlock")
      BY <1>4, <2>1
    <3>2. Shape(y) /\ y.rows = x.rows
      BY <1>8, <1>11, <3>1, PostFacts
    <3>3. y.bal = [j \in DOMAIN x.bal \cup {k} |-> IF j = k THEN Seen(x, k) + amount ELSE x.bal[j]]
      BY <1>8, <3>1 DEF Post, Shape
    <3>4. \A j \in Keys : Seen(y, j) = IF j = k THEN balances[j] + gain ELSE balances[j]
      BY <2>1, <1>11, <1>13, <1>12, <3>3 DEF Seen
    <3> QED BY <3>2, <3>4
  <2>2. CASE ~(amount > 0)
    <3>1. y = x /\ gain = 0
      BY <2>2, <1>4, <1>12
    <3> QED BY <3>1, <1>8, <1>11, <1>13
  <2> QED BY <2>1, <2>2
<1>15. z.bal = y.bal /\ z.rows = Put(x.rows, x.id, after)
  BY <1>6, <1>14 DEF Shape
<1>16. orders' = [orders EXCEPT ![x.id] = after]
  <2>1. orders' = [id \in DOMAIN orders |-> IF id = x.id THEN after ELSE orders[id]]
    BY ZenonT(40), <1>7, <1>8, <1>9, <1>15 DEF Commit, Row, Put
  <2> QED BY <1>8, <2>1 DEF IInv, TablesOK
<1>17. balances' = [j \in Keys |-> IF j = k THEN balances[j] + gain ELSE balances[j]]
  <2>1. balances' = [j \in Keys |-> Seen(z, j)]
    BY <1>7 DEF Commit
  <2>2. \A j \in Keys : Seen(z, j) = Seen(y, j)
    BY <1>15 DEF Seen
  <2> QED BY <1>14, <2>1, <2>2
<1>18. CancelEffect(t)
  BY <1>1, <1>2, <1>3, <1>5, <1>7, <1>8, <1>9, <1>16, <1>17 DEF CancelEffect
<1>19. RInv'
  <2>1. tx' = [tx EXCEPT ![t] = Answer(z, TRUE)] /\ rowLock' = Release(rowLock, t)
    BY <1>7 DEF Commit
  <2>2. after.user = o.user
    BY <1>5, <1>10 DEF Order
  <2>3. \A id \in DOMAIN orders : /\ id \in DOMAIN orders' /\ orders'[id].user = orders[id].user
                                  /\ rowLock[id] # t => orders'[id] = orders[id]
    BY <1>1, <1>8, <1>9, <1>16, <2>2
  <2> QED BY <2>1, <2>3, EndRows
<1> QED BY <1>18, <1>19 DEF Effect

LEMMA SettleRecordEffect ==
  ASSUME IInv, RInv, NEW t \in Slots, SettleRecord(t)
  PROVE  RInv' /\ Effect(t)
<1>1. PICK x : x = tx[t]
  OBVIOUS
<1>2. PICK times : times = IF x.fill \in DOMAIN applied THEN applied[x.fill] ELSE 0
  OBVIOUS
<1>3. /\ x.op = "settle" /\ x.at = "commit" /\ Commit(t, x)
      /\ trades' = trades \cup {x.fill}
      /\ applied' = Put(applied, x.fill, times + 1)
  BY <1>1, <1>2 DEF SettleRecord, At
<1>4. /\ RequestOK(x) /\ Written(x, t) /\ RowsOK(x, t) /\ balances \in [Keys -> Int]
      /\ x.fill \in Fill /\ x.known \subseteq DOMAIN orders
  BY <1>1, <1>3 DEF IInv, SlotOK, RequestOK, RInv, TablesOK
<1>5. DOMAIN x.rows = Marked(x) /\ Marked(x) \subseteq DOMAIN orders
  BY <1>4 DEF RowsOK, Marked
<1>6. orders' = [id \in DOMAIN orders |-> IF id \in Marked(x) THEN x.rows[id] ELSE orders[id]]
  BY <1>3, <1>5 DEF Commit, Row
<1>7. \A id \in DOMAIN orders :
        /\ orders'[id] \in Order /\ SameLock(orders'[id], orders[id])
        /\ IF id \in Marked(x)
             THEN orders'[id] = x.rows[id] /\ MarkedBy(orders[id], orders'[id], Part(x, id))
             ELSE orders'[id] = orders[id]
  BY <1>4, <1>5, <1>6 DEF RequestOK, RowsOK, IInv, TablesOK, Function, SameLock
<1>8. balances' = [k \in Keys |-> balances[k] + Entries(x)[k]]
  <2>1. \A k \in Keys : Seen(x, k) = balances[k] + x.sum[k]
    BY <1>4 DEF Seen, Written
  <2>2. x.sum = Entries(x)
    BY <1>4 DEF RowsOK
  <2> QED BY <1>3, <2>1, <2>2 DEF Commit
<1>9. SettleEffect(t)
  BY <1>1, <1>2, <1>3, <1>4, <1>5, <1>6, <1>7, <1>8 DEF SettleEffect
<1>10. RInv'
  <2>1. tx' = [tx EXCEPT ![t] = Answer(x, TRUE)] /\ rowLock' = Release(rowLock, t)
    BY <1>3 DEF Commit
  <2>2. \A id \in DOMAIN orders : /\ id \in DOMAIN orders' /\ orders'[id].user = orders[id].user
                                  /\ rowLock[id] # t => orders'[id] = orders[id]
    BY <1>4, <1>6, <1>7 DEF RowsOK, SameLock
  <2> QED BY <2>1, <2>2, EndRows
<1> QED BY <1>9, <1>10 DEF Effect

LEMMA StatementEffect ==
  ASSUME IInv, RInv, NEW t \in Slots, Statement(t)
  PROVE  RInv' /\ Effect(t)
<1>1. CASE AdvisoryLock(t)
  <2>1. NoEffect
    BY <1>1 DEF AdvisoryLock, NoEffect
  <2> QED BY <1>1, <2>1, AdvisoryLockRows DEF Effect
<1>2. CASE PlaceApply(t)
  BY <1>2, PlaceApplyEffect
<1>3. CASE CancelLookup(t)
  <2>1. NoEffect
    BY <1>3 DEF CancelLookup, Abort, NoEffect
  <2> QED BY <1>3, <2>1, CancelLookupRows DEF Effect
<1>4. CASE CancelApply(t)
  BY <1>4, CancelApplyEffect
<1>5. CASE SettleCheck(t)
  <2>1. NoEffect
    BY <1>5 DEF SettleCheck, Abort, NoEffect
  <2> QED BY <1>5, <2>1, SettleCheckRows DEF Effect
<1>6. CASE SettleBuyer(t) \/ SettleSeller(t)
  <2>1. BuyerGoesOn(t) \/ SellerGoesOn(t)
    BY <1>6, SettleBuyerFacts, SettleSellerFacts
  <2>2. NoEffect
    BY <2>1 DEF BuyerGoesOn, SellerGoesOn, GoesOn, Abort, NoEffect
  <2> QED BY <1>6, <2>2, BuyerRows, SellerRows DEF Effect
<1>7. CASE SettleRecord(t)
  BY <1>7, SettleRecordEffect
<1>8. CASE DeadlockAbort(t)
  <2>1. Abort(t, FALSE)
    BY <1>8 DEF DeadlockAbort
  <2>2. NoEffect
    BY <2>1 DEF Abort, NoEffect
  <2> QED BY <2>1, <2>2, AbortRows DEF Effect
<1> QED BY <1>1, <1>2, <1>3, <1>4, <1>5, <1>6, <1>7, <1>8 DEF Statement

\* Requests come, go and are given up without an effect on the tables.
LEMMA CallerRows ==
  ASSUME IInv, RInv, NEW t \in Slots,
         \/ \E o \in NewOrder : RequestPlace(t, o)
         \/ \E id \in OrderIds : RequestCancel(t, id)
         \/ \E id \in OrderIds, filled \in Int : RequestCancelInternal(t, id, filled)
         \/ \E f \in Fill : RequestSettle(t, f)
         \/ Drop(t) \/ Collect(t)
  PROVE  RInv' /\ NoEffect
<1>1. ASSUME NEW o \in NewOrder, RequestPlace(t, o) PROVE RInv' /\ NoEffect
  <2>1. PICK y : y = [Blank EXCEPT !.op = "place", !.at = "apply", !.want = <<LockKey(o)>>,
                                   !.id = ids + 1, !.order = o]
    OBVIOUS
  <2>2. Request(t, y)
    BY <1>1, <2>1 DEF RequestPlace
  <2>3. y.op = "place" /\ y.at = "apply" /\ y.order = o /\ y.rows = << >> /\ y.sum = [k \in Keys |-> 0]
    BY <2>1, BlankShape
  <2> QED BY <2>2, <2>3, RequestRows DEF Request, NoEffect
<1>2. ASSUME NEW id \in OrderIds, RequestCancel(t, id) PROVE RInv' /\ NoEffect
  <2>1. PICK y : y = [Blank EXCEPT !.op = "cancel", !.at = "row", !.id = id]
    OBVIOUS
  <2>2. Request(t, y)
    BY <1>2, <2>1 DEF RequestCancel
  <2>3. y.at = "row" /\ y.rows = << >> /\ y.sum = [k \in Keys |-> 0]
    BY <2>1, BlankShape
  <2> QED BY <2>2, <2>3, RequestRows DEF Request, NoEffect
<1>3. ASSUME NEW id \in OrderIds, NEW filled \in Int, RequestCancelInternal(t, id, filled)
      PROVE  RInv' /\ NoEffect
  <2>1. PICK y : y = [Blank EXCEPT !.op = "cancel_internal", !.at = "row", !.id = id,
                                   !.filled = filled]
    OBVIOUS
  <2>2. Request(t, y)
    BY <1>3, <2>1 DEF RequestCancelInternal
  <2>3. y.at = "row" /\ y.rows = << >> /\ y.sum = [k \in Keys |-> 0]
    BY <2>1, BlankShape
  <2> QED BY <2>2, <2>3, RequestRows DEF Request, NoEffect
<1>4. ASSUME NEW f \in Fill, RequestSettle(t, f) PROVE RInv' /\ NoEffect
  <2>1. PICK y : y = [Blank EXCEPT !.op = "settle", !.at = "check", !.fill = f]
    OBVIOUS
  <2>2. Request(t, y)
    BY <1>4, <2>1 DEF RequestSettle
  <2>3. y.at = "check" /\ y.rows = << >> /\ y.sum = [k \in Keys |-> 0]
    BY <2>1, BlankShape
  <2> QED BY <2>2, <2>3, RequestRows DEF Request, NoEffect
<1>5. CASE Drop(t)
  BY <1>5, AbortRows DEF Drop, Abort, NoEffect
<1>6. CASE Collect(t)
  <2>1. tx' = [tx EXCEPT ![t] = Blank] /\ orders' = orders /\ rowLock' = rowLock
    BY <1>6 DEF Collect
  <2>2. Blank.at = "idle" /\ DOMAIN Blank.rows = {} /\ Blank.sum = [k \in Keys |-> 0]
    BY BlankShape, BlankFacts
  <2>3. RowsOK(Blank, t)
    BY <2>2, NothingWritten
  <2>4. NoEffect
    BY <1>6 DEF Collect, NoEffect
  <2> QED BY <2>1, <2>3, <2>4, RowsLocal
<1> QED BY <1>1, <1>2, <1>3, <1>4, <1>5, <1>6

LEMMA NextRInv ==
  ASSUME IInv, RInv, [Next]_vars
  PROVE  RInv' /\ (NoEffect \/ \E t \in Slots : Effect(t))
<1>1. CASE UNCHANGED vars
  BY <1>1 DEF vars, RInv, RowsOK, Entries, NoEffect
<1>2. ASSUME NEW t \in Slots, Statement(t) PROVE RInv' /\ Effect(t)
  BY <1>2, StatementEffect
<1>3. ASSUME NEW t \in Slots,
             \/ \E o \in NewOrder : RequestPlace(t, o)
             \/ \E id \in OrderIds : RequestCancel(t, id)
             \/ \E id \in OrderIds, filled \in Int : RequestCancelInternal(t, id, filled)
             \/ \E f \in Fill : RequestSettle(t, f)
             \/ Drop(t) \/ Collect(t)
      PROVE  RInv' /\ NoEffect
  BY <1>3, CallerRows
<1> QED BY <1>1, <1>2, <1>3 DEF Next

LEMMA InitRInv == Init => RInv
<1> SUFFICES ASSUME Init, NEW t \in Slots PROVE RowsOK(tx[t], t)
  BY DEF RInv
<1>1. tx[t] = Blank
  BY DEF Init
<1>2. Blank.at = "idle" /\ DOMAIN Blank.rows = {} /\ Blank.sum = [k \in Keys |-> 0]
  BY BlankShape, BlankFacts
<1> QED BY <1>1, <1>2, NothingWritten

\* What a transaction has read of an order in order to write it is still true when it commits:
\* the row locks of cancellations and settlements are enough for that, for any number of them.
THEOREM RowsAreHeld == Spec => [](IInv /\ RInv)
<1>1. IInv /\ RInv /\ [Next]_vars => (IInv /\ RInv)'
  BY NextIInv, NextRInv
<1> QED BY <1>1, InitIInv, InitRInv, PTL DEF Spec

LEMMA EffectKeepsCancelled ==
  ASSUME IInv, NEW t \in Slots, Effect(t), NEW id \in DOMAIN orders,
         orders[id].status = "cancelled"
  PROVE  orders'[id] = orders[id]
<1>1. CASE PlaceEffect(t)
  BY <1>1 DEF PlaceEffect, Put
<1>2. CASE CancelEffect(t)
  <2>1. id # tx[t].id
    BY <1>2 DEF CancelEffect
  <2>2. PICK o : orders' = [orders EXCEPT ![tx[t].id] = o]
    BY <1>2 DEF CancelEffect
  <2> QED BY <2>1, <2>2
<1>3. CASE SettleEffect(t)
  BY <1>3 DEF SettleEffect, MarkedBy
<1>4. CASE NoEffect
  BY <1>4 DEF NoEffect
<1> QED BY <1>1, <1>2, <1>3, <1>4 DEF Effect

\* A cancelled order is final: no late settlement and no second cancellation changes it, however
\* the statements of any number of transactions interleave.
THEOREM CancelledStaysCancelled == Spec => CancelledIsFinal
<1>1. IInv /\ RInv /\ [Next]_vars =>
        \A id \in DOMAIN orders : orders[id].status = "cancelled" => orders'[id] = orders[id]
  <2> SUFFICES ASSUME IInv, RInv, [Next]_vars, NEW id \in DOMAIN orders,
                      orders[id].status = "cancelled"
               PROVE  orders'[id] = orders[id]
    OBVIOUS
  <2> QED BY NextRInv, EffectKeepsCancelled DEF NoEffect
<1> QED BY <1>1, RowsAreHeld, PTL DEF Spec, CancelledIsFinal
=============================================================================
