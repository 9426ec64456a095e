------------------------------ MODULE Accounts ------------------------------
(***************************************************************************)
(* The money side of the exchange (accounts/src/models/{ledger,order,      *)
(* trade}.rs over PostgreSQL): place, cancel, cancel_internal and settle,  *)
(* each one READ COMMITTED transaction that takes advisory locks on        *)
(* (user, asset) and row locks on orders, and holds them until it ends.    *)
(* A slot of `tx` is one request: what its transaction has written is      *)
(* visible to nobody else before Commit, and a slot that is dropped or     *)
(* chosen as a deadlock victim leaves nothing behind.                      *)
(*                                                                         *)
(* Quote amounts are whole cents and quantities whole 1/Scale of a unit of *)
(* the base asset; price * quantity is rounded half to even.  Neither the  *)
(* gateway's route nor this service looks at the sign of a quantity or a   *)
(* price, so both are any integers.  Who sends which request is left open  *)
(* here; OrderFlow closes it.                                              *)
(***************************************************************************)
EXTENDS Integers, Sequences, FiniteSets, Sums

CONSTANTS
  Users,        \* ordered, as the UUIDs are
  Prices,       \* limit prices, and slippage prices of market bids
  Quantities,   \* order quantities
  Scale,        \* quantity units per unit of the base asset
  Deposit,      \* what every user starts with, of either asset
  Slots,        \* requests the service works on at once
  NoSlot,       \* nobody holds the lock
  NoPrice,      \* the price of a market ask
  MaxOrders     \* bound: order ids drawn in one behaviour

ASSUME UsersAssumption == Users \subseteq Nat /\ IsFiniteSet(Users)
ASSUME PricesAssumption == Prices \subseteq Int /\ NoPrice \notin Prices
ASSUME QuantitiesAssumption == Quantities \subseteq Int
ASSUME NumbersAssumption == Scale \in Nat \ {0} /\ Deposit \in Nat /\ MaxOrders \in Nat
ASSUME SlotsAssumption == NoSlot \notin Slots

Assets == {"base", "quote"}

Keys == Users \X Assets

OrderIds == 1 .. MaxOrders

Live == {"pending", "open", "partially_filled"}

\* The price of a market bid is the slippage price it was locked with.
Order ==
  {o \in [user : Users, side : {"bid", "ask"}, kind : {"limit", "market"},
          price : Prices \cup {NoPrice}, quantity : Quantities, filled : Int,
          status : Live \cup {"filled", "cancelled"}] :
     o.price = NoPrice <=> o.kind = "market" /\ o.side = "ask"}

VARIABLES
  balances,     \* balances.available
  ledger,       \* SUM(amount) over the entries of a user and asset
  orders,       \* the orders table: id -> Order
  trades,       \* exchange_fill_id of the rows of the trades table
  ids,          \* order ids drawn so far
  advisory,     \* pg_advisory_xact_lock: key -> slot
  rowLock,      \* FOR UPDATE and UPDATE locks: order id -> slot
  tx,           \* slot -> the request it works on
  applied       \* ghost: fill -> how often a committed transaction applied it

vars == <<balances, ledger, orders, trades, ids, advisory, rowLock, tx, applied>>

-----------------------------------------------------------------------------
RoundHalfEven(n, d) ==
  LET f == n \div d
      r == n % d
  IN IF 2 * r < d \/ (2 * r = d /\ f % 2 = 0) THEN f ELSE f + 1

QuoteAmount(price, quantity) == RoundHalfEven(price * quantity, Scale)

\* calculate_lock_amount: the asset an order locks, and how much of it.
LockKey(o) == <<o.user, IF o.side = "bid" THEN "quote" ELSE "base">>

LockAmount(o) == IF o.side = "bid" THEN QuoteAmount(o.price, o.quantity) ELSE o.quantity

\* Seeded mistake: a cancellation unlocks the whole lock.
UnlockAmountWhole(o, filled) == LockAmount(o)

\* The part of the lock that belongs to the quantity not filled (the code's quotient has 28
\* digits and is taken as exact); no order of quantity 0 gets here.
UnlockAmount(o, filled) ==
  CASE o.quantity > 0 -> RoundHalfEven(LockAmount(o) * (o.quantity - filled), o.quantity)
    [] o.quantity < 0 -> RoundHalfEven(LockAmount(o) * (filled - o.quantity), -o.quantity)
    [] OTHER -> 0

Blank == [op |-> "idle", at |-> "idle", want |-> << >>, id |-> 0, order |-> << >>,
          filled |-> 0, fill |-> << >>, known |-> {}, bal |-> << >>,
          sum |-> [k \in Keys |-> 0], rows |-> << >>, ok |-> TRUE]

\* What slot t sees of a balance: its own write, or else the committed one.
Seen(x, k) == IF k \in DOMAIN x.bal THEN x.bal[k] ELSE balances[k]

\* The same for an order.
Row(x, id) == IF id \in DOMAIN x.rows THEN x.rows[id] ELSE orders[id]

\* Seeded mistake: an order may lock more than there is.
RefusedExceptLocks(new, type) == new < 0 /\ type # "lock"

\* append_in_tx refuses an entry that would overdraw, unless it is a lock; for locks the
\* CHECK constraint of the balances table does (migration 003).
Refused(new, type) == new < 0

\* append_in_tx, under the advisory lock: the entry, and the balance it leaves.
Post(x, k, amount, type) ==
  LET new == Seen(x, k) + amount
  IN [x EXCEPT !.bal = [j \in DOMAIN @ \cup {k} |-> IF j = k THEN new ELSE @[j]],
               !.sum[k] = @ + amount,
               !.ok = @ /\ ~Refused(new, type)]

\* Seeded mistake: a cancelled order goes on filling.
AddFillAlways(o, quantity) ==
  [o EXCEPT !.filled = @ + quantity,
            !.status = IF o.filled + quantity >= o.quantity THEN "filled"
                                                            ELSE "partially_filled"]

\* Seeded mistake: the fill replaces what was filled before.
AddFillOver(o, quantity) ==
  IF o.status = "cancelled" THEN o
  ELSE [o EXCEPT !.filled = quantity,
                 !.status = IF o.filled + quantity >= o.quantity THEN "filled"
                                                                 ELSE "partially_filled"]

\* Seeded mistake: a status that the orders table does not know.
AddFillPartial(o, quantity) ==
  IF o.status = "cancelled" THEN o
  ELSE [o EXCEPT !.filled = @ + quantity,
                 !.status = IF o.filled + quantity >= o.quantity THEN "filled" ELSE "partial"]

\* add_fill: a cancelled order stays as it is.
AddFill(o, quantity) ==
  IF o.status = "cancelled" THEN o
  ELSE [o EXCEPT !.filled = @ + quantity,
                 !.status = IF o.filled + quantity >= o.quantity THEN "filled"
                                                                 ELSE "partially_filled"]

\* Seeded mistake: every transaction gets the advisory lock at once.
FreeForAll(lock, t) == TRUE

Free(lock, t) == lock \in {NoSlot, t}

Put(f, k, v) == [j \in DOMAIN f \cup {k} |-> IF j = k THEN v ELSE f[j]]

\* The orders of a fill that are in the table; the other side is a bot's.
Known(f) == {f.buy, f.sell} \cap DOMAIN orders

Parties(f) == {orders[id].user : id \in Known(f)}

\* Users in order, and for each the base asset before the quote asset.
LockOrder(f) ==
  LET us    == Parties(f)
      first == CHOOSE u \in us : \A v \in us : u <= v
      last  == CHOOSE u \in us : \A v \in us : u >= v
      Both(u) == << <<u, "base">>, <<u, "quote">> >>
  IN IF first = last THEN Both(first) ELSE Both(first) \o Both(last)

\* The slots that hold the lock the next statement of t waits for.
Blockers(t) ==
  LET x == tx[t]
      Others(s) == s \ {NoSlot, t}
  IN CASE x.want # << >>   -> Others({advisory[Head(x.want)]})
       [] x.want = << >> /\ x.at = "row"    -> Others({rowLock[x.id]})
       [] x.want = << >> /\ x.at = "buyer"  ->
            Others({rowLock[id] : id \in {x.fill.buy} \cap x.known})
       [] x.want = << >> /\ x.at = "seller" ->
            Others({rowLock[id] : id \in {x.fill.sell} \cap x.known})
       [] OTHER -> {}

\* t is one of a circle of transactions that wait for each other.
Deadlocked(t) ==
  \E S \in SUBSET Slots : t \in S /\ {Blockers(s) : s \in S} = {{s} : s \in S}

-----------------------------------------------------------------------------
Init ==
  /\ balances = [k \in Keys |-> Deposit]
  /\ ledger = [k \in Keys |-> Deposit]
  /\ orders = << >>
  /\ trades = {}
  /\ ids = 0
  /\ advisory = [k \in Keys |-> NoSlot]
  /\ rowLock = [id \in OrderIds |-> NoSlot]
  /\ tx = [t \in Slots |-> Blank]
  /\ applied = << >>

\* A request reaches the service.
Request(t, x) ==
  /\ tx[t].op = "idle"
  /\ tx' = [tx EXCEPT ![t] = x]
  /\ UNCHANGED <<balances, ledger, orders, trades, advisory, rowLock, applied>>

NewOrder == {o \in Order : o.filled = 0 /\ o.status = "pending"}

\* place draws the id of the order before it begins.
RequestPlace(t, o) ==
  /\ ids < MaxOrders
  /\ ids' = ids + 1
  /\ Request(t, [Blank EXCEPT !.op = "place", !.at = "apply", !.want = <<LockKey(o)>>,
                              !.id = ids + 1, !.order = o])

RequestCancel(t, id) ==
  /\ id \in DOMAIN orders
  /\ Request(t, [Blank EXCEPT !.op = "cancel", !.at = "row", !.id = id])
  /\ UNCHANGED ids

\* The engine's cancellation of the rest of a market order, which says what was filled.
RequestCancelInternal(t, id, filled) ==
  /\ id \in DOMAIN orders
  /\ Request(t, [Blank EXCEPT !.op = "cancel_internal", !.at = "row", !.id = id,
                              !.filled = filled])
  /\ UNCHANGED ids

RequestSettle(t, f) ==
  /\ Request(t, [Blank EXCEPT !.op = "settle", !.at = "check", !.fill = f])
  /\ UNCHANGED ids

\* Seeded mistake: a request that fails is not answered but tried again for ever.
AnswerOnlySuccess(x, ok) ==
  IF ~ok THEN x
  ELSE [Blank EXCEPT !.op = x.op, !.at = "done", !.id = x.id, !.order = x.order,
                     !.fill = x.fill, !.ok = ok]

\* The answer of a request, until its caller has it.
Answer(x, ok) ==
  [Blank EXCEPT !.op = x.op, !.at = "done", !.id = x.id, !.order = x.order,
                !.fill = x.fill, !.ok = ok]

Release(lock, t) == [k \in DOMAIN lock |-> IF lock[k] = t THEN NoSlot ELSE lock[k]]

\* The transaction of t ends without a trace.
Abort(t, ok) ==
  /\ tx' = [tx EXCEPT ![t] = Answer(tx[t], ok)]
  /\ advisory' = Release(advisory, t)
  /\ rowLock' = Release(rowLock, t)
  /\ UNCHANGED <<balances, ledger, orders, trades, ids, applied>>

\* COMMIT: what x has written becomes visible and the locks go.
Commit(t, x) ==
  /\ balances' = [k \in Keys |-> Seen(x, k)]
  /\ ledger' = [k \in Keys |-> ledger[k] + x.sum[k]]
  /\ orders' = [id \in DOMAIN orders \cup DOMAIN x.rows |-> Row(x, id)]
  /\ tx' = [tx EXCEPT ![t] = Answer(x, TRUE)]
  /\ advisory' = Release(advisory, t)
  /\ rowLock' = Release(rowLock, t)
  /\ UNCHANGED ids

\* The next statement of t has written y, or an entry in it was refused.
Advance(t, y) ==
  IF y.ok THEN /\ tx' = [tx EXCEPT ![t] = y]
               /\ UNCHANGED <<balances, ledger, orders, trades, ids, advisory, applied>>
          ELSE Abort(t, FALSE)

AdvisoryLock(t) ==
  LET x == tx[t]
  IN /\ x.want # << >>
     /\ Free(advisory[Head(x.want)], t)
     /\ advisory' = [advisory EXCEPT ![Head(x.want)] = t]
     /\ tx' = [tx EXCEPT ![t].want = Tail(@)]
     /\ UNCHANGED <<balances, ledger, orders, trades, ids, rowLock, applied>>

At(t, ops, at) == tx[t].op \in ops /\ tx[t].at = at /\ tx[t].want = << >>

\* place: lock the funds, insert the order as pending, commit.
PlaceApply(t) ==
  LET x == tx[t]
      y == Post(x, LockKey(x.order), -LockAmount(x.order), "lock")
  IN /\ At(t, {"place"}, "apply")
     /\ IF y.ok THEN /\ Commit(t, [y EXCEPT !.rows = Put(@, x.id, x.order)])
                     /\ UNCHANGED <<trades, applied>>
                ELSE Abort(t, FALSE)

\* cancel and cancel_internal: SELECT ... FOR UPDATE, and the check of the status.  The
\* division by a quantity of 0 panics: the handler is dropped like any other.
CancelLookup(t) ==
  LET x == tx[t]
      o == orders[x.id]
      filled == IF x.op = "cancel" THEN o.filled ELSE x.filled
  IN /\ At(t, {"cancel", "cancel_internal"}, "row")
     /\ Free(rowLock[x.id], t)
     /\ IF o.status \notin Live \/ o.quantity = 0
          THEN Abort(t, FALSE)
          ELSE /\ rowLock' = [rowLock EXCEPT ![x.id] = t]
               /\ tx' = [tx EXCEPT ![t].at = "apply", ![t].filled = filled,
                                   ![t].want = IF UnlockAmount(o, filled) > 0
                                                 THEN <<LockKey(o)>> ELSE << >>]
               /\ UNCHANGED <<balances, ledger, orders, trades, ids, advisory, applied>>

\* Unlock what the quantity not filled locks, mark the order cancelled, commit.
CancelApply(t) ==
  LET x == tx[t]
      o == orders[x.id]
      amount == UnlockAmount(o, x.filled)
      y == IF amount > 0 THEN Post(x, LockKey(o), amount, "unlock") ELSE x
      after == [o EXCEPT !.status = "cancelled", !.filled = x.filled]
  IN /\ At(t, {"cancel", "cancel_internal"}, "apply")
     /\ Commit(t, [y EXCEPT !.rows = Put(@, x.id, after)])
     /\ UNCHANGED <<trades, applied>>

\* settle, outside its transaction: the trade may be there already; neither order in the
\* table means two bots, which the engine takes for settled.  Orders are never deleted, so
\* that the lookups may share a step.
SettleCheck(t) ==
  LET x == tx[t]
  IN /\ At(t, {"settle"}, "check")
     /\ IF x.fill \in trades \/ Known(x.fill) = {}
          THEN Abort(t, TRUE)
          ELSE /\ tx' = [tx EXCEPT ![t].at = "buyer", ![t].want = LockOrder(x.fill),
                                   ![t].known = Known(x.fill)]
               /\ UNCHANGED <<balances, ledger, orders, trades, ids, advisory, rowLock,
                              applied>>

\* Unlock, pay, receive; then add_fill, which waits for the row.
SettleBuyer(t) ==
  LET x     == tx[t]
      buy   == x.fill.buy
      u     == orders[buy].user
      cost  == QuoteAmount(x.fill.price, x.fill.quantity)
      y     == Post(Post(Post(x, <<u, "quote">>, cost, "unlock"),
                              <<u, "quote">>, -cost, "trade"),
                              <<u, "base">>, x.fill.quantity, "trade")
  IN /\ At(t, {"settle"}, "buyer")
     /\ IF buy \notin x.known
          THEN /\ tx' = [tx EXCEPT ![t].at = "seller"]
               /\ UNCHANGED <<balances, ledger, orders, trades, ids, advisory, rowLock,
                              applied>>
          ELSE /\ Free(rowLock[buy], t)
               /\ Advance(t, [y EXCEPT !.rows = Put(@, buy, AddFill(Row(x, buy), x.fill.quantity)),
                                       !.at = "seller"])
               /\ y.ok => rowLock' = [rowLock EXCEPT ![buy] = t]

SettleSeller(t) ==
  LET x     == tx[t]
      sell  == x.fill.sell
      u     == orders[sell].user
      cost  == QuoteAmount(x.fill.price, x.fill.quantity)
      y     == Post(Post(Post(x, <<u, "base">>, x.fill.quantity, "unlock"),
                              <<u, "base">>, -x.fill.quantity, "trade"),
                              <<u, "quote">>, cost, "trade")
  IN /\ At(t, {"settle"}, "seller")
     /\ IF sell \notin x.known
          THEN /\ tx' = [tx EXCEPT ![t].at = "commit"]
               /\ UNCHANGED <<balances, ledger, orders, trades, ids, advisory, rowLock,
                              applied>>
          ELSE /\ Free(rowLock[sell], t)
               /\ Advance(t, [y EXCEPT !.rows = Put(@, sell, AddFill(Row(x, sell), x.fill.quantity)),
                                       !.at = "commit"])
               /\ y.ok => rowLock' = [rowLock EXCEPT ![sell] = t]

\* INSERT INTO trades ... ON CONFLICT DO UPDATE, which changes nothing, and the commit.
SettleRecord(t) ==
  LET x == tx[t]
      times == IF x.fill \in DOMAIN applied THEN applied[x.fill] ELSE 0
  IN /\ At(t, {"settle"}, "commit")
     /\ trades' = trades \cup {x.fill}
     /\ applied' = Put(applied, x.fill, times + 1)
     /\ Commit(t, x)

\* PostgreSQL ends one transaction of a circle with an error.
DeadlockAbort(t) == Deadlocked(t) /\ Abort(t, FALSE)

Statement(t) ==
  \/ AdvisoryLock(t) \/ PlaceApply(t)
  \/ CancelLookup(t) \/ CancelApply(t)
  \/ SettleCheck(t) \/ SettleBuyer(t) \/ SettleSeller(t) \/ SettleRecord(t)
  \/ DeadlockAbort(t)

\* The caller went away (it timed out, or the service stopped): the handler is dropped and
\* its transaction rolled back, unless the COMMIT is already on its way.
Drop(t) ==
  /\ tx[t].at \notin {"idle", "commit", "done"}
  /\ Abort(t, FALSE)

\* The caller has the answer.
Collect(t) ==
  /\ tx[t].at = "done"
  /\ tx' = [tx EXCEPT ![t] = Blank]
  /\ UNCHANGED <<balances, ledger, orders, trades, ids, advisory, rowLock, applied>>

Fill == [buy : OrderIds, sell : OrderIds, price : Prices, quantity : Int]

\* Any client may send any request.
Next ==
  \E t \in Slots :
     \/ \E o \in NewOrder : RequestPlace(t, o)
     \/ \E id \in OrderIds : RequestCancel(t, id)
     \/ \E id \in OrderIds, filled \in Int : RequestCancelInternal(t, id, filled)
     \/ \E f \in Fill : RequestSettle(t, f)
     \/ Statement(t) \/ Drop(t) \/ Collect(t)

Spec == Init /\ [][Next]_vars

-----------------------------------------------------------------------------
Function(f, S, T) == DOMAIN f \subseteq S /\ \A x \in DOMAIN f : f[x] \in T

\* Type correctness of the tables, the locks and the requests.
TypeOK ==
  /\ balances \in [Keys -> Int]
  /\ ledger \in [Keys -> Int]
  /\ Function(orders, OrderIds, Order)
  /\ trades \subseteq Fill
  /\ ids \in 0 .. MaxOrders
  /\ advisory \in [Keys -> Slots \cup {NoSlot}]
  /\ rowLock \in [OrderIds -> Slots \cup {NoSlot}]
  /\ DOMAIN tx = Slots
  /\ \A t \in Slots :
       /\ tx[t].op \in {"idle", "place", "cancel", "cancel_internal", "settle"}
       /\ tx[t].at \in {"idle", "check", "row", "apply", "buyer", "seller", "commit", "done"}
       /\ tx[t].want \in Seq(Keys)
       /\ tx[t].known \subseteq DOMAIN orders
       /\ Function(tx[t].bal, Keys, Int)
       /\ tx[t].sum \in [Keys -> Int]
       /\ Function(tx[t].rows, OrderIds, Order)
  /\ Function(applied, Fill, Nat)

\* reconcile is true of every user and asset after every commit: the cached balance, which
\* every append reads, adds to and overwrites, is the sum of the ledger, whichever
\* transactions ran side by side.
LedgerMatchesBalances == balances = ledger

\* No interleaving of locks, trades and unlocks takes a balance below zero.
NoOverdraft == \A k \in Keys : balances[k] >= 0

\* The quantity committed settlements have moved, fill by fill.
Moved == [f \in DOMAIN applied |-> applied[f] * f.quantity]

Bought(id) == SumOver(Moved, {f \in DOMAIN applied : f.buy = id})

Sold(id) == SumOver(Moved, {f \in DOMAIN applied : f.sell = id})

\* No fill gets lost or counted without its money between concurrent settlements: what an
\* order has filled is what settlements bought and sold for it, unless it was cancelled.
FillsAddUp ==
  \A id \in DOMAIN orders : orders[id].status # "cancelled" =>
     orders[id].filled = Bought(id) + Sold(id)

\* A cancelled order is final: a settlement that comes late neither revives it nor changes
\* what it says was filled.
CancelledIsFinal ==
  [][\A id \in DOMAIN orders : orders[id].status = "cancelled" => orders'[id] = orders[id]]_vars

\* Every request gets its answer, although transactions wait for each other's locks.
RequestsEnd == \A t \in Slots : tx[t].op # "idle" ~> tx[t].op = "idle"
=============================================================================
