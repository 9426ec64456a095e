------------------------------ MODULE OrderBook ------------------------------
(***************************************************************************)
(* The order book of the matching engine (matching_engine/src/lib.rs):     *)
(* price levels per side, the index of resting orders, and the matching    *)
(* loop.  The loop is split at its iterations, because what has to be true *)
(* between them is what makes it correct; nobody else sees those states    *)
(* (the service holds the write lock around a call), and `taker # NoOrder` *)
(* stands for that lock being held.                                        *)
(*                                                                         *)
(* Ids are given out in submission order and never reused: the accounts    *)
(* service draws a UUID per order.  Decimals are exact, so whole numbers.  *)
(* Prices may be below zero.  Quantities may not: that the library would   *)
(* take them, since is_filled asks for zero only, is left to OrderFlow.    *)
(***************************************************************************)
EXTENDS Integers, Sequences, FiniteSets, SequencesExt, Sums

CONSTANTS
  Prices,       \* limit prices
  Quantities,   \* order quantities; 0 is accepted by the internal order route
  MaxOrders,    \* bound: orders submitted in one behaviour
  MaxCancels,   \* bound: cancellations in one behaviour
  NoOrder,      \* no order is being matched
  NoPrice       \* no level is being consumed; the price of a market order

ASSUME PricesAssumption == Prices \subseteq Int /\ NoPrice \notin Prices
ASSUME QuantitiesAssumption == Quantities \subseteq Nat
ASSUME BoundsAssumption == MaxOrders \in Nat /\ MaxCancels \in Nat

Sides == {"bid", "ask"}

Ids == 1 .. MaxOrders

Order == [id : Ids, side : Sides, kind : {"limit", "market"},
          price : Prices \cup {NoPrice}, quantity : Nat, remaining : Nat]

ASSUME NoOrderAssumption == NoOrder \notin Order

Level == [queue : Seq(Order), total : Int]

VARIABLES
  levels,       \* levels[s]: the BTreeMap of side s, price -> Level
  orders,       \* the index: id -> the copy of the order it was last given
  taker,        \* the order match_order is working on, or NoOrder
  todo,         \* what is left of prices_to_match
  cur,          \* the level the inner loop is consuming, or NoPrice
  emptied,      \* prices_to_remove
  fills,        \* fills of the current or last call
  completed,    \* completed_orders of the current or last call
  submitted,    \* orders submitted so far
  cancels,      \* cancellations so far
  withdrawn,    \* the caller's copy of the order it cancelled last, if it kept one
  open          \* ghost: id -> quantity not yet named in a fill

vars == <<levels, orders, taker, todo, cur, emptied, fills, completed,
          submitted, cancels, withdrawn, open>>

-----------------------------------------------------------------------------
Opposite(s) == IF s = "bid" THEN "ask" ELSE "bid"

\* Seeded mistake: the larger of the two quantities trades.
SmallerTakesLarger(a, b) == IF a >= b THEN a ELSE b

Smaller(a, b) == IF a <= b THEN a ELSE b

Without(f, k) == [x \in DOMAIN f \ {k} |-> f[x]]

\* The price is a key of the opposite map that comes first in the order of the scan.
BestIn(side, ps, p) ==
  /\ p \in ps
  /\ \A q \in ps : IF side = "bid" THEN p <= q ELSE p >= q

\* Seeded mistake: an order at exactly the limit is not matched.
CanMatchStrictly(o, p) ==
  o.kind = "limit" => IF o.side = "bid" THEN p < o.price ELSE p > o.price

\* can_match: may the taker trade at resting price p?
CanMatch(o, p) ==
  o.kind = "limit" => IF o.side = "bid" THEN p <= o.price ELSE p >= o.price

NewLevel == [queue |-> << >>, total |-> 0]

LevelAt(book, p) == IF p \in DOMAIN book THEN book[p] ELSE NewLevel

\* add_order_to_book: index the order and queue it behind its price level.
AddOrderToBook(book, o) ==
  LET level == LevelAt(book[o.side], o.price)
      joined == [queue |-> Append(level.queue, o), total |-> level.total + o.remaining]
  IN [book EXCEPT ![o.side] =
        [p \in DOMAIN @ \cup {o.price} |-> IF p = o.price THEN joined ELSE @[p]]]

\* Seeded mistake: the remainder of an order is indexed at its original quantity.
IndexedInFull(index, o) ==
  [x \in DOMAIN index \cup {o.id} |->
     IF x = o.id THEN [o EXCEPT !.remaining = o.quantity] ELSE index[x]]

Indexed(index, o) ==
  [x \in DOMAIN index \cup {o.id} |-> IF x = o.id THEN o ELSE index[x]]

\* The entry of an order in a queue.
EntryOf(queue, id) == CHOOSE j \in DOMAIN queue : queue[j].id = id

\* Seeded mistake: the total shrinks by the original quantity of the order.
LevelWithoutByQuantity(level, id) ==
  LET i == EntryOf(level.queue, id)
  IN [queue |-> RemoveAt(level.queue, i), total |-> level.total - level.queue[i].quantity]

\* `retain` drops the order with this id (ids are unique), and the total shrinks by what
\* that entry of the level still had.
LevelWithout(level, id) ==
  LET i == EntryOf(level.queue, id)
  IN [queue |-> RemoveAt(level.queue, i), total |-> level.total - level.queue[i].remaining]

\* Seeded mistake: the level stays when its last order is cancelled.
RemoveOrderKeepingLevel(book, o) ==
  [book EXCEPT ![o.side][o.price] = LevelWithout(@, o.id)]

\* remove_order_from_book: an empty level goes.
RemoveOrderFromBook(book, o) ==
  LET kept == LevelWithout(book[o.side][o.price], o.id)
  IN [book EXCEPT ![o.side] = IF kept.queue = << >> THEN Without(@, o.price)
                                                   ELSE [@ EXCEPT ![o.price] = kept]]

\* Seeded mistake: a partly filled order goes to the back of its queue.
QueueAfterToBack(queue, rest) ==
  IF rest.remaining = 0 THEN Tail(queue) ELSE Append(Tail(queue), rest)

\* What a fill leaves of the resting order at the front: out of the queue and the index, or
\* back at the front and indexed again.
QueueAfter(queue, rest) ==
  IF rest.remaining = 0 THEN Tail(queue) ELSE ReplaceAt(queue, 1, rest)

\* Seeded mistake: the index keeps the copy from before the fill.
IndexAfterStale(index, rest) ==
  IF rest.remaining = 0 THEN Without(index, rest.id) ELSE index

IndexAfter(index, rest) ==
  IF rest.remaining = 0 THEN Without(index, rest.id) ELSE [index EXCEPT ![rest.id] = rest]

\* Seeded mistake: an order is reported complete when its call ends, filled or not.
CompletedAfterAlways(list, o) == Append(list, o.id)

CompletedAfter(list, o) == IF o.remaining = 0 THEN Append(list, o.id) ELSE list

-----------------------------------------------------------------------------
Init ==
  /\ levels = [s \in Sides |-> << >>]
  /\ orders = << >>
  /\ taker = NoOrder
  /\ todo = {}
  /\ cur = NoPrice
  /\ emptied = {}
  /\ fills = << >>
  /\ completed = << >>
  /\ submitted = 0
  /\ cancels = 0
  /\ withdrawn = {}
  /\ open = [i \in Ids |-> 0]

\* add_limit_order and add_market_order up to the matching loop: prices_to_match is
\* collected once, before the first iteration.
Add(side, kind, price, quantity) ==
  LET id == submitted + 1
  IN /\ taker = NoOrder
     /\ submitted < MaxOrders
     /\ taker' = [id |-> id, side |-> side, kind |-> kind, price |-> price,
                  quantity |-> quantity, remaining |-> quantity]
     /\ todo' = DOMAIN levels[Opposite(side)]
     /\ fills' = << >>
     /\ completed' = << >>
     /\ submitted' = id
     /\ open' = [open EXCEPT ![id] = quantity]
     /\ UNCHANGED <<levels, orders, cur, emptied, cancels, withdrawn>>

AddLimitOrder ==
  \E side \in Sides, price \in Prices, quantity \in Quantities :
     Add(side, "limit", price, quantity)

AddMarketOrder ==
  \E side \in Sides, quantity \in Quantities : Add(side, "market", NoPrice, quantity)

\* The head of the outer loop: step to the next level, unless one of the breaks applies.
EnterLevel ==
  /\ taker # NoOrder
  /\ cur = NoPrice
  /\ taker.remaining > 0
  /\ \E p \in todo :
       /\ BestIn(taker.side, todo, p)
       /\ CanMatch(taker, p)
       /\ cur' = p
       /\ todo' = todo \ {p}
  /\ UNCHANGED <<levels, orders, taker, emptied, fills, completed, submitted,
                 cancels, withdrawn, open>>

\* One iteration of the inner loop: trade with the order at the front of the level.
MatchFront ==
  /\ taker # NoOrder
  /\ cur # NoPrice
  /\ taker.remaining > 0
  /\ LET opp   == Opposite(taker.side)
         level == levels[opp][cur]
         front == Head(level.queue)
         q     == Smaller(taker.remaining, front.remaining)
         rest  == [front EXCEPT !.remaining = @ - q]
         buy   == IF taker.side = "bid" THEN taker.id ELSE front.id
         sell  == IF taker.side = "bid" THEN front.id ELSE taker.id
     IN /\ level.queue # << >>
        /\ taker' = [taker EXCEPT !.remaining = @ - q]
        /\ levels' = [levels EXCEPT ![opp][cur] =
                        [queue |-> QueueAfter(level.queue, rest), total |-> level.total - q]]
        /\ orders' = IndexAfter(orders, rest)
        /\ fills' = Append(fills, [buy |-> buy, sell |-> sell, price |-> cur, quantity |-> q])
        /\ completed' = CompletedAfter(completed, rest)
        /\ open' = [open EXCEPT ![buy] = @ - q, ![sell] = @ - q]
  /\ UNCHANGED <<todo, cur, emptied, submitted, cancels, withdrawn>>

\* The inner loop is over: note an empty level for removal.
LeaveLevel ==
  /\ taker # NoOrder
  /\ cur # NoPrice
  /\ LET queue == levels[Opposite(taker.side)][cur].queue
     IN /\ queue = << >> \/ taker.remaining = 0
        /\ emptied' = IF queue = << >> THEN emptied \cup {cur} ELSE emptied
  /\ cur' = NoPrice
  /\ UNCHANGED <<levels, orders, taker, todo, fills, completed, submitted,
                 cancels, withdrawn, open>>

\* Seeded mistake: the scan has no break for a price out of the limit.
ScanOverWithoutBreak == todo = {} \/ taker.remaining = 0

\* The outer loop ends: nothing left to scan, taker filled, or the best price left is out
\* of the limit.
ScanOver ==
  \/ todo = {}
  \/ taker.remaining = 0
  \/ \E p \in todo : BestIn(taker.side, todo, p) /\ ~CanMatch(taker, p)

\* The removal of the emptied levels, and the end of the call that match_order serves: the
\* taker is complete, or a limit order's remainder rests, or a market order's is dropped.
FinishMatch ==
  /\ taker # NoOrder
  /\ cur = NoPrice
  /\ ScanOver
  /\ LET opp   == Opposite(taker.side)
         swept == [levels EXCEPT ![opp] = [p \in DOMAIN @ \ emptied |-> @[p]]]
     IN IF taker.remaining > 0 /\ taker.kind = "limit"
          THEN /\ levels' = AddOrderToBook(swept, taker)
               /\ orders' = Indexed(orders, taker)
          ELSE /\ levels' = swept
               /\ orders' = orders
  /\ completed' = CompletedAfter(completed, taker)
  /\ taker' = NoOrder
  /\ todo' = {}
  /\ emptied' = {}
  /\ UNCHANGED <<cur, fills, submitted, cancels, withdrawn, open>>

\* cancel_order.  The caller holds the copy get_order gave it, until the next one.
CancelOrder ==
  /\ taker = NoOrder
  /\ cancels < MaxCancels
  /\ cancels' = cancels + 1
  /\ \E id \in DOMAIN orders :
       /\ levels' = RemoveOrderFromBook(levels, orders[id])
       /\ orders' = Without(orders, id)
       /\ withdrawn' = {orders[id]}
  /\ UNCHANGED <<taker, todo, cur, emptied, fills, completed, submitted, open>>

\* restore_order, called as its unit test calls it: with the copy of a cancelled order, on
\* a book it does not cross (the operation does not match, and nothing in the service
\* calls it).
RestoreOrder ==
  /\ taker = NoOrder
  /\ \E o \in withdrawn :
       /\ \A p \in DOMAIN levels[Opposite(o.side)] : ~CanMatch(o, p)
       /\ levels' = AddOrderToBook(levels, o)
       /\ orders' = Indexed(orders, o)
       /\ withdrawn' = withdrawn \ {o}
  /\ UNCHANGED <<taker, todo, cur, emptied, fills, completed, submitted, cancels, open>>

MatchStep == EnterLevel \/ MatchFront \/ LeaveLevel \/ FinishMatch

Next ==
  \/ AddLimitOrder \/ AddMarketOrder
  \/ MatchStep
  \/ CancelOrder \/ RestoreOrder

Spec == Init /\ [][Next]_vars

\* The loop runs to completion in the thread that called it.
FairSpec == Spec /\ WF_vars(MatchStep)

-----------------------------------------------------------------------------
PartialFunction(f, S, T) ==
  /\ f = [x \in DOMAIN f |-> f[x]]
  /\ DOMAIN f \subseteq S
  /\ \A x \in DOMAIN f : f[x] \in T

IsBook(b) ==
  /\ b = [s \in Sides |-> b[s]]
  /\ \A s \in Sides : PartialFunction(b[s], Prices, Level)

\* Type correctness: every variable keeps the shape the Rust types give it.
TypeOK ==
  /\ IsBook(levels)
  /\ PartialFunction(orders, Ids, Order)
  /\ taker \in Order \cup {NoOrder}
  /\ todo \subseteq Prices
  /\ cur \in Prices \cup {NoPrice}
  /\ emptied \subseteq Prices
  /\ fills \in Seq([buy : Ids, sell : Ids, price : Prices, quantity : Nat])
  /\ completed \in Seq(Ids)
  /\ submitted \in 0 .. MaxOrders
  /\ cancels \in 0 .. MaxCancels
  /\ withdrawn \subseteq Order
  /\ open \in [Ids -> Int]

QueuedIsIndexed(book, index) ==
  \A s \in Sides : \A p \in DOMAIN book[s] :
     LET queue == book[s][p].queue
     IN /\ \A i \in DOMAIN queue :
             /\ queue[i].side = s /\ queue[i].price = p /\ queue[i].remaining > 0
             /\ queue[i].id \in DOMAIN index /\ index[queue[i].id] = queue[i]
        /\ \A i, j \in DOMAIN queue : queue[i].id = queue[j].id => i = j

IndexedIsQueued(book, index) ==
  \A id \in DOMAIN index :
     LET o == index[id]
     IN /\ o.id = id /\ o.price \in DOMAIN book[o.side]
        /\ \E i \in DOMAIN book[o.side][o.price].queue :
              book[o.side][o.price].queue[i] = o

\* The index and the queues never drift apart: an indexed order stands exactly once, in the
\* queue of its own side and price, as the same copy with quantity left, and nothing else
\* stands in a queue.  cancel_order trusts the copy in the index to find the level, and
\* match_order updates the two copies separately.
IndexMatchesLevels == QueuedIsIndexed(levels, orders) /\ IndexedIsQueued(levels, orders)

Remaining(queue) == [i \in DOMAIN queue |-> queue[i].remaining]

\* The cached total of a level, which is all the market data feed ever shows of it, is the
\* sum of what its orders have left, also between two fills of one match.
TotalsMatch ==
  \A s \in Sides : \A p \in DOMAIN levels[s] :
     LET queue == levels[s][p].queue
     IN levels[s][p].total = SumOver(Remaining(queue), DOMAIN queue)

\* best_bid, best_ask and the depth queries read the keys of the maps, so a level without
\* orders would be a price nobody offers: outside the levels a match is consuming there is
\* none.
NoEmptyLevel ==
  \A s \in Sides : \A p \in DOMAIN levels[s] :
     levels[s][p].queue = << >> =>
        taker # NoOrder /\ s = Opposite(taker.side) /\ p \in emptied \cup {cur}

\* The book is never crossed or locked: every resting bid is below every resting ask.
NotCrossed ==
  \A b \in DOMAIN levels["bid"], a \in DOMAIN levels["ask"] : b < a

\* No quantity appears or vanishes over any sequence of calls: what an order has left is
\* what it was submitted with minus the fills that name it, whichever of the two sides of
\* the fill it is on.
QuantityConserved ==
  /\ \A id \in DOMAIN orders : orders[id].remaining = open[id]
  /\ taker # NoOrder => taker.remaining = open[taker.id]

\* Where the scan stands.  While the taker has quantity left, an acceptable level is still
\* ahead, being consumed, or emptied: none is skipped, and none is visited twice.
ScanInv ==
  IF taker = NoOrder THEN cur = NoPrice /\ emptied = {}
  ELSE LET book == levels[Opposite(taker.side)]
       IN /\ todo \subseteq DOMAIN book
          /\ cur # NoPrice => cur \in DOMAIN book
          /\ \A p \in emptied : p \in DOMAIN book /\ book[p].queue = << >>
          /\ taker.remaining > 0 =>
               \A p \in DOMAIN book : CanMatch(taker, p) => p \in todo \cup emptied \cup {cur}
          /\ taker.kind = "limit" => taker.price \in Prices

\* An order that has left the book does not come back under the same id, except by restore.
IdsInv ==
  /\ taker # NoOrder => taker.id = submitted
  /\ \A id \in DOMAIN orders : id <= submitted /\ (taker # NoOrder => id # taker.id)
  /\ \A o, w \in withdrawn : o.id = w.id => o = w
  /\ \A o \in withdrawn :
       /\ o.id <= submitted /\ (taker # NoOrder => o.id # taker.id)
       /\ o.id \notin DOMAIN orders
       /\ o.price \in Prices /\ o.remaining > 0 /\ open[o.id] = o.remaining

\* The inductive strengthening of the safety invariants.
IInv == /\ TypeOK
        /\ IndexMatchesLevels
        /\ NoEmptyLevel
        /\ NotCrossed
        /\ QuantityConserved
        /\ ScanInv
        /\ IdsInv

\* completed_orders, which the service turns into OrderFilled events, names each order the
\* call exhausted exactly once, and no other.
CompletedExactly ==
  LET touched == {submitted} \cup {fills[i].buy : i \in DOMAIN fills}
                             \cup {fills[i].sell : i \in DOMAIN fills}
  IN taker = NoOrder /\ submitted > 0 =>
       /\ {completed[i] : i \in DOMAIN completed} = {id \in touched : open[id] = 0}
       /\ Len(completed) = Cardinality({completed[i] : i \in DOMAIN completed})

\* The matching loop always ends, so the write lock of the book is always released.
MatchTerminates == taker # NoOrder ~> taker = NoOrder

=============================================================================
