--------------------------- MODULE OrderBookProofs ---------------------------
(***************************************************************************)
(* Safety of the order book and its price-time priority, for every set of  *)
(* prices and quantities and any number of orders and cancellations.       *)
(***************************************************************************)
EXTENDS OrderBookPriority, SumsProofs, SequenceTheorems, TLAPS

-----------------------------------------------------------------------------
\* What the operators on queues, levels and books return.

\* Removing position i shifts what stands behind it one place forward.
LEMMA RemoveAtFacts ==
  ASSUME NEW S, NEW s \in Seq(S), NEW i \in 1 .. Len(s)
  PROVE  /\ RemoveAt(s, i) \in Seq(S)
         /\ Len(RemoveAt(s, i)) = Len(s) - 1
         /\ \A j \in 1 .. Len(s) - 1 : RemoveAt(s, i)[j] = IF j < i THEN s[j] ELSE s[j + 1]
<1> DEFINE left  == SubSeq(s, 1, i - 1)
           right == SubSeq(s, i + 1, Len(s))
<1>1. /\ left \in Seq(S)
      /\ Len(left) = i - 1
      /\ \A j \in 1 .. i - 1 : left[j] = s[j]
  <2>1. \A j \in 1 .. i - 1 : s[j] \in S
    BY ElementOfSeq
  <2>2. QED
    BY <2>1, SubSeqProperties
<1>2. /\ right \in Seq(S)
      /\ Len(right) = Len(s) - i
      /\ \A j \in 1 .. Len(s) - i : right[j] = s[j + i]
  <2>1. \A j \in i + 1 .. Len(s) : s[j] \in S
    BY ElementOfSeq
  <2>2. QED
    BY <2>1, SubSeqProperties
<1>3. RemoveAt(s, i) = left \o right
  BY DEF RemoveAt
<1> HIDE DEF left, right
<1>4. /\ left \o right \in Seq(S)
      /\ Len(left \o right) = Len(s) - 1
  BY <1>1, <1>2
<1>5. ASSUME NEW j \in 1 .. Len(s) - 1
      PROVE  (left \o right)[j] = IF j < i THEN s[j] ELSE s[j + 1]
  <2>1. (left \o right)[j] = IF j <= Len(left) THEN left[j] ELSE right[j - Len(left)]
    BY <1>1, <1>2
  <2>2. QED
    BY <2>1, <1>1, <1>2
<1> QED
  BY <1>3, <1>4, <1>5, Zenon

\* Dropping an order that a level holds takes exactly its entry out of the queue.
LEMMA LevelWithoutFacts ==
  ASSUME NEW level \in Level, NEW id, NEW k \in DOMAIN level.queue, level.queue[k].id = id
  PROVE  /\ EntryOf(level.queue, id) \in 1 .. Len(level.queue)
         /\ level.queue[EntryOf(level.queue, id)].id = id
         /\ LevelWithout(level, id) \in Level
         /\ LevelWithout(level, id).queue = RemoveAt(level.queue, EntryOf(level.queue, id))
<1> DEFINE i == EntryOf(level.queue, id)
<1>1. level.queue \in Seq(Order) /\ level.total \in Int
  BY DEF Level
<1>2. i \in DOMAIN level.queue /\ level.queue[i].id = id
  BY DEF EntryOf
<1>3. i \in 1 .. Len(level.queue) /\ level.queue[i] \in Order
  BY <1>1, <1>2
<1>4. level.queue[i].remaining \in Int
  BY <1>3 DEF Order
<1>5. RemoveAt(level.queue, i) \in Seq(Order)
  BY <1>1, <1>3, RemoveAtFacts
<1>6. LevelWithout(level, id) = [queue |-> RemoveAt(level.queue, i),
                                 total |-> level.total - level.queue[i].remaining]
  BY DEF LevelWithout
<1> HIDE DEF i
<1>7. LevelWithout(level, id) \in Level
  BY <1>1, <1>4, <1>5, <1>6 DEF Level
<1> QED
  BY <1>2, <1>3, <1>6, <1>7 DEF i

\* An order that comes to rest stands behind the level of its price, in the index and
\* nowhere else; the rest of the book is as it was.
LEMMA AddOrderToBookFacts ==
  ASSUME NEW b, IsBook(b), NEW o \in Order, o.price \in Prices
  PROVE  LET c == AddOrderToBook(b, o)
         IN /\ IsBook(c)
            /\ \A s \in Sides : DOMAIN c[s] = IF s = o.side THEN DOMAIN b[s] \cup {o.price}
                                                            ELSE DOMAIN b[s]
            /\ \A s \in Sides : \A p \in DOMAIN b[s] :
                 s # o.side \/ p # o.price => c[s][p] = b[s][p]
            /\ c[o.side][o.price].queue = Append(LevelAt(b[o.side], o.price).queue, o)
<1> DEFINE level  == LevelAt(b[o.side], o.price)
           joined == [queue |-> Append(level.queue, o), total |-> level.total + o.remaining]
           side   == [p \in DOMAIN b[o.side] \cup {o.price} |->
                        IF p = o.price THEN joined ELSE b[o.side][p]]
           c      == AddOrderToBook(b, o)
<1>1. o.side \in Sides /\ o.remaining \in Int
  BY DEF Order
<1>2. b = [s \in Sides |-> b[s]] /\ \A s \in Sides : PartialFunction(b[s], Prices, Level)
  BY DEF IsBook
<1>3. level \in Level
  <2>1. << >> \in Seq(Order)
    OBVIOUS
  <2>2. NewLevel \in Level
    BY <2>1 DEF NewLevel, Level
  <2>3. QED
    BY <1>1, <1>2, <2>2 DEF LevelAt, PartialFunction
<1>4. joined \in Level
  BY <1>1, <1>3 DEF Level
<1>5. c = [b EXCEPT ![o.side] = side]
  BY DEF AddOrderToBook
<1> HIDE DEF level, joined, c
<1>6. /\ PartialFunction(side, Prices, Level)
      /\ DOMAIN side = DOMAIN b[o.side] \cup {o.price}
      /\ side[o.price] = joined
      /\ \A p \in DOMAIN b[o.side] : p # o.price => side[p] = b[o.side][p]
  BY <1>1, <1>2, <1>4 DEF PartialFunction
<1> HIDE DEF side
<1>7. /\ c = [s \in Sides |-> c[s]]
      /\ \A s \in Sides : c[s] = IF s = o.side THEN side ELSE b[s]
  BY <1>1, <1>2, <1>5
<1>8. IsBook(c)
  BY <1>2, <1>6, <1>7 DEF IsBook
<1>9. joined.queue = Append(level.queue, o)
  BY DEF joined
<1> QED
  BY <1>1, <1>6, <1>7, <1>8, <1>9 DEF c, level

\* Index and queues still agree after an order has come to rest.
LEMMA RestKeepsMatch ==
  ASSUME NEW b, IsBook(b), NEW ix, PartialFunction(ix, Ids, Order),
         NEW o \in Order, o.price \in Prices, o.remaining > 0, o.id \notin DOMAIN ix,
         QueuedIsIndexed(b, ix), IndexedIsQueued(b, ix)
  PROVE  /\ PartialFunction(Indexed(ix, o), Ids, Order)
         /\ QueuedIsIndexed(AddOrderToBook(b, o), Indexed(ix, o))
         /\ IndexedIsQueued(AddOrderToBook(b, o), Indexed(ix, o))
<1> DEFINE c == AddOrderToBook(b, o)
           jx == Indexed(ix, o)
           before == LevelAt(b[o.side], o.price).queue
<1>1. /\ IsBook(c)
      /\ \A s \in Sides : DOMAIN c[s] = IF s = o.side THEN DOMAIN b[s] \cup {o.price}
                                                      ELSE DOMAIN b[s]
      /\ \A s \in Sides : \A p \in DOMAIN b[s] :
           s # o.side \/ p # o.price => c[s][p] = b[s][p]
      /\ c[o.side][o.price].queue = Append(before, o)
  BY AddOrderToBookFacts
<1>2. o.side \in Sides /\ o.id \in Ids
  BY DEF Order
<1>3. /\ DOMAIN jx = DOMAIN ix \cup {o.id}
      /\ jx[o.id] = o
      /\ \A id \in DOMAIN ix : jx[id] = ix[id]
      /\ PartialFunction(jx, Ids, Order)
  BY <1>2 DEF Indexed, PartialFunction
<1>4. /\ before \in Seq(Order)
      /\ o.price \in DOMAIN b[o.side] => before = b[o.side][o.price].queue
      /\ o.price \notin DOMAIN b[o.side] => before = << >>
  <2>1. << >> \in Seq(Order)
    OBVIOUS
  <2>2. QED
    BY <1>2, <2>1 DEF LevelAt, NewLevel, IsBook, PartialFunction, Level
<1> HIDE DEF c, jx, before
<1>5. /\ DOMAIN Append(before, o) = 1 .. Len(before) + 1
      /\ \A i \in 1 .. Len(before) : Append(before, o)[i] = before[i]
      /\ Append(before, o)[Len(before) + 1] = o
      /\ DOMAIN before = 1 .. Len(before) /\ Len(before) \in Nat
  BY <1>4
<1>6. QueuedIsIndexed(c, jx)
  <2> SUFFICES ASSUME NEW s \in Sides, NEW p \in DOMAIN c[s]
               PROVE  LET queue == c[s][p].queue
                      IN /\ \A i \in DOMAIN queue :
                              /\ queue[i].side = s /\ queue[i].price = p
                              /\ queue[i].remaining > 0
                              /\ queue[i].id \in DOMAIN jx /\ jx[queue[i].id] = queue[i]
                         /\ \A i, j \in DOMAIN queue : queue[i].id = queue[j].id => i = j
    BY SMTT(30) DEF QueuedIsIndexed
  <2>1. CASE s = o.side /\ p = o.price
    <3>1. \A i \in 1 .. Len(before) :
            /\ before[i].side = s /\ before[i].price = p /\ before[i].remaining > 0
            /\ before[i].id \in DOMAIN ix /\ ix[before[i].id] = before[i]
            /\ \A j \in 1 .. Len(before) : before[i].id = before[j].id => i = j
      BY SMTT(30), <1>2, <1>4, <1>5, <2>1 DEF QueuedIsIndexed
    <3>2. c[s][p].queue = Append(before, o)
      BY <1>1, <2>1
    <3>3. \A i \in 1 .. Len(before) : before[i].id # o.id
      BY <3>1
    <3>4. QED
      BY <1>3, <1>5, <2>1, <3>1, <3>2, <3>3
  <2>2. CASE ~(s = o.side /\ p = o.price)
    <3>1. p \in DOMAIN b[s] /\ c[s][p] = b[s][p]
      BY <1>1, <2>2
    <3> DEFINE qu == b[s][p].queue
    <3>2. /\ \A i \in DOMAIN qu :
               /\ qu[i].side = s /\ qu[i].price = p /\ qu[i].remaining > 0
               /\ qu[i].id \in DOMAIN ix /\ ix[qu[i].id] = qu[i]
          /\ \A i, j \in DOMAIN qu : qu[i].id = qu[j].id => i = j
      BY <3>1 DEF QueuedIsIndexed
    <3>3. c[s][p].queue = qu
      BY <3>1
    <3> HIDE DEF qu
    <3>4. \A i \in DOMAIN qu : qu[i].id \in DOMAIN jx /\ jx[qu[i].id] = qu[i]
      BY <1>3, <3>2
    <3>5. QED
      BY <3>2, <3>3, <3>4
  <2>3. QED
    BY <2>1, <2>2
<1>7. IndexedIsQueued(c, jx)
  <2> SUFFICES ASSUME NEW id \in DOMAIN jx
               PROVE  LET r == jx[id]
                      IN /\ r.id = id /\ r.price \in DOMAIN c[r.side]
                         /\ \E i \in DOMAIN c[r.side][r.price].queue :
                               c[r.side][r.price].queue[i] = r
    BY DEF IndexedIsQueued
  <2>1. CASE id = o.id
    <3>1. jx[id] = o /\ o.price \in DOMAIN c[o.side]
      BY <1>1, <1>2, <1>3, <2>1
    <3>2. /\ Len(before) + 1 \in DOMAIN c[o.side][o.price].queue
          /\ c[o.side][o.price].queue[Len(before) + 1] = o
      BY <1>1, <1>5
    <3>3. QED
      BY <2>1, <3>1, <3>2
  <2>2. CASE id # o.id
    <3> DEFINE r == ix[id]
    <3>1. id \in DOMAIN ix /\ jx[id] = r
      BY <1>3, <2>2
    <3>2. r.side \in Sides /\ r.price \in DOMAIN b[r.side] /\ r.id = id
      BY <3>1 DEF IndexedIsQueued, PartialFunction, Order
    <3>3. PICK i \in DOMAIN b[r.side][r.price].queue : b[r.side][r.price].queue[i] = r
      BY <3>1 DEF IndexedIsQueued
    <3> HIDE DEF r
    <3>4. r.price \in DOMAIN c[r.side]
      BY <1>1, <3>2
    <3>5. i \in DOMAIN c[r.side][r.price].queue /\ c[r.side][r.price].queue[i] = r
      <4>1. CASE r.side = o.side /\ r.price = o.price
        BY SMTT(30), <1>1, <1>4, <1>5, <3>2, <3>3, <4>1
      <4>2. CASE ~(r.side = o.side /\ r.price = o.price)
        BY <1>1, <3>2, <3>3, <4>2
      <4>3. QED
        BY <4>1, <4>2
    <3>6. QED
      BY <3>1, <3>2, <3>4, <3>5
  <2>3. QED
    BY <2>1, <2>2
<1> QED
  BY <1>3, <1>6, <1>7 DEF c, jx

-----------------------------------------------------------------------------
\* Every action keeps the inductive invariant.

LEMMA InitIInv == Init => IInv
<1> SUFFICES ASSUME Init PROVE IInv
  OBVIOUS
<1> USE DEF Init
<1>1. TypeOK
  <2>1. \A s \in Sides : PartialFunction(levels[s], Prices, Level)
    BY DEF PartialFunction
  <2>2. PartialFunction(orders, Ids, Order)
    BY DEF PartialFunction
  <2>3. submitted \in 0 .. MaxOrders /\ cancels \in 0 .. MaxCancels
    BY BoundsAssumption
  <2>4. QED
    BY <2>1, <2>2, <2>3 DEF TypeOK, IsBook
<1>2. IndexMatchesLevels
  BY DEF IndexMatchesLevels, QueuedIsIndexed, IndexedIsQueued
<1>3. NoEmptyLevel /\ NotCrossed
  BY DEF NoEmptyLevel, NotCrossed, Sides
<1>4. QuantityConserved /\ ScanInv /\ IdsInv
  BY DEF QuantityConserved, ScanInv, IdsInv
<1> QED
  BY <1>1, <1>2, <1>3, <1>4 DEF IInv

LEMMA AddStep ==
  ASSUME IInv, NEW side \in Sides, NEW kind \in {"limit", "market"},
         NEW price \in Prices \cup {NoPrice}, kind = "limit" => price \in Prices,
         NEW quantity \in Quantities, Add(side, kind, price, quantity)
  PROVE  IInv'
<1> DEFINE id == submitted + 1
<1>1. /\ taker = NoOrder /\ id \in Ids /\ quantity \in Nat
      /\ taker' = [id |-> id, side |-> side, kind |-> kind, price |-> price,
                   quantity |-> quantity, remaining |-> quantity]
      /\ todo' = DOMAIN levels[Opposite(side)]
      /\ fills' = << >> /\ completed' = << >> /\ submitted' = id
      /\ open' = [open EXCEPT ![id] = quantity]
      /\ UNCHANGED <<levels, orders, cur, emptied, cancels, withdrawn>>
  BY QuantitiesAssumption, BoundsAssumption DEF IInv, TypeOK, Add, Ids
<1>2. taker' \in Order /\ taker' # NoOrder
  BY <1>1, NoOrderAssumption DEF Order
<1>3. /\ taker'.id = id /\ taker'.side = side /\ taker'.kind = kind
      /\ taker'.price = price /\ taker'.remaining = quantity
  BY <1>1
<1>4. Opposite(side) \in Sides
  BY DEF Opposite, Sides
<1>5. TypeOK'
  <2>1. todo' \subseteq Prices
    BY <1>1, <1>4 DEF IInv, TypeOK, IsBook, PartialFunction
  <2>2. open' \in [Ids -> Int]
    BY <1>1 DEF IInv, TypeOK
  <2>3. submitted' \in 0 .. MaxOrders
    BY <1>1 DEF Ids
  <2>4. IsBook(levels)' /\ PartialFunction(orders, Ids, Order)'
    BY <1>1 DEF IInv, TypeOK
  <2>5. QED
    BY <1>1, <1>2, <2>1, <2>2, <2>3, <2>4 DEF IInv, TypeOK
<1>6. IndexMatchesLevels' /\ NotCrossed'
  BY <1>1 DEF IInv, IndexMatchesLevels, NotCrossed
<1>7. NoEmptyLevel'
  BY <1>1 DEF IInv, NoEmptyLevel
<1>8. \A i \in DOMAIN orders : i \in Ids /\ i <= submitted /\ i # id
  BY <1>1 DEF IInv, IdsInv, TypeOK, PartialFunction, Ids
<1>9. QuantityConserved'
  BY <1>1, <1>3, <1>8 DEF IInv, QuantityConserved, TypeOK
<1>10. ScanInv'
  BY <1>1, <1>2, <1>3 DEF IInv, ScanInv
<1>11. IdsInv'
  <2>1. \A o \in withdrawn : o.id \in Ids /\ o.id <= submitted /\ o.id # id
    BY <1>1 DEF IInv, IdsInv, TypeOK, Order, Ids
  <2>2. QED
    BY <1>1, <1>2, <1>3, <1>8, <2>1 DEF IInv, IdsInv, TypeOK, Ids
<1> QED
  BY <1>5, <1>6, <1>7, <1>9, <1>10, <1>11 DEF IInv

\* What the invariant says of the map a match consumes.
LEMMA OppositeFacts ==
  ASSUME IInv, taker # NoOrder
  PROVE  LET book == levels[Opposite(taker.side)]
         IN /\ taker \in Order
            /\ taker.side \in Sides /\ taker.id \in Ids /\ taker.remaining \in Nat
            /\ Opposite(taker.side) \in Sides
            /\ Opposite(taker.side) # taker.side
            /\ PartialFunction(book, Prices, Level)
            /\ \A p \in DOMAIN book : p \in Prices /\ p \in Int /\ p # NoPrice
            /\ \A s \in Sides : s = taker.side \/ s = Opposite(taker.side)
<1>1. taker \in Order
  BY DEF IInv, TypeOK
<1>2. taker.side \in Sides /\ taker.id \in Ids /\ taker.remaining \in Nat
  BY <1>1 DEF Order
<1>3. Opposite(taker.side) \in Sides /\ Opposite(taker.side) # taker.side
  BY <1>2 DEF Opposite, Sides
<1>4. \A s \in Sides : s = taker.side \/ s = Opposite(taker.side)
  BY <1>2 DEF Opposite, Sides
<1>5. PartialFunction(levels[Opposite(taker.side)], Prices, Level)
  BY <1>3 DEF IInv, TypeOK, IsBook
<1> QED
  BY <1>1, <1>2, <1>3, <1>4, <1>5, PricesAssumption DEF PartialFunction

LEMMA EnterLevelStep == IInv /\ EnterLevel => IInv'
<1> SUFFICES ASSUME IInv, EnterLevel PROVE IInv'
  OBVIOUS
<1> DEFINE book == levels[Opposite(taker.side)]
<1>1. /\ taker # NoOrder /\ cur = NoPrice
      /\ UNCHANGED <<levels, orders, taker, emptied, fills, completed, submitted, cancels,
                     withdrawn, open>>
  BY DEF EnterLevel
<1>2. PICK p \in todo : cur' = p /\ todo' = todo \ {p}
  BY Zenon DEF EnterLevel
<1>3. \A q \in DOMAIN book : q # NoPrice
  BY <1>1, OppositeFacts
<1>4. TypeOK'
  <2>1. p \in Prices
    BY DEF IInv, TypeOK
  <2>2. cur' \in Prices \cup {NoPrice} /\ todo' \subseteq Prices
    BY <1>2, <2>1 DEF IInv, TypeOK
  <2>3. QED
    BY <1>1, <2>2 DEF IInv, TypeOK
<1>5. IndexMatchesLevels' /\ NotCrossed' /\ QuantityConserved' /\ IdsInv'
  BY <1>1 DEF IInv, IndexMatchesLevels, NotCrossed, QuantityConserved, IdsInv
<1>6. NoEmptyLevel'
  BY <1>1, <1>3 DEF IInv, NoEmptyLevel
<1>7. ScanInv'
  <2>1. /\ todo \subseteq DOMAIN book
        /\ \A q \in emptied : q \in DOMAIN book /\ book[q].queue = << >>
        /\ taker.remaining > 0 =>
             \A q \in DOMAIN book : CanMatch(taker, q) => q \in todo \cup emptied \cup {cur}
        /\ taker.kind = "limit" => taker.price \in Prices
    BY <1>1 DEF IInv, ScanInv
  <2>2. taker.remaining > 0 =>
          \A q \in DOMAIN book : CanMatch(taker, q) => q \in todo' \cup emptied \cup {cur'}
    BY <1>1, <1>2, <1>3, <2>1
  <2>3. QED
    BY <1>1, <1>2, <2>1, <2>2 DEF ScanInv
<1> QED
  BY <1>4, <1>5, <1>6, <1>7 DEF IInv

LEMMA LeaveLevelStep == IInv /\ LeaveLevel => IInv'
<1> SUFFICES ASSUME IInv, LeaveLevel PROVE IInv'
  OBVIOUS
<1> DEFINE book == levels[Opposite(taker.side)]
<1>1. /\ taker # NoOrder /\ cur # NoPrice /\ cur' = NoPrice
      /\ book[cur].queue = << >> \/ taker.remaining = 0
      /\ emptied' = IF book[cur].queue = << >> THEN emptied \cup {cur} ELSE emptied
      /\ UNCHANGED <<levels, orders, taker, todo, fills, completed, submitted, cancels,
                     withdrawn, open>>
  BY DEF LeaveLevel
<1>2. cur \in DOMAIN book /\ cur \in Prices
  BY <1>1, OppositeFacts DEF IInv, ScanInv
<1>3. TypeOK'
  BY <1>1, <1>2 DEF IInv, TypeOK
<1>4. IndexMatchesLevels' /\ NotCrossed' /\ QuantityConserved' /\ IdsInv'
  BY <1>1 DEF IInv, IndexMatchesLevels, NotCrossed, QuantityConserved, IdsInv
<1>5. NoEmptyLevel'
  BY <1>1 DEF IInv, NoEmptyLevel
<1>6. ScanInv'
  <2>1. /\ todo \subseteq DOMAIN book
        /\ \A q \in emptied : q \in DOMAIN book /\ book[q].queue = << >>
        /\ taker.remaining > 0 =>
             \A q \in DOMAIN book : CanMatch(taker, q) => q \in todo \cup emptied \cup {cur}
        /\ taker.kind = "limit" => taker.price \in Prices
    BY <1>1 DEF IInv, ScanInv
  <2>2. \A q \in emptied' : q \in DOMAIN book /\ book[q].queue = << >>
    BY <1>1, <1>2, <2>1
  <2>3. taker.remaining > 0 =>
          \A q \in DOMAIN book : CanMatch(taker, q) => q \in todo \cup emptied' \cup {cur'}
    BY <1>1, <2>1
  <2>4. QED
    BY <1>1, <2>1, <2>2, <2>3 DEF ScanInv
<1> QED
  BY <1>3, <1>4, <1>5, <1>6 DEF IInv

LEMMA MatchFrontStep == IInv /\ MatchFront => IInv'
<1> SUFFICES ASSUME IInv, MatchFront PROVE IInv'
  OBVIOUS
<1> DEFINE opp   == Opposite(taker.side)
           level == levels[opp][cur]
           queue == level.queue
           front == Head(queue)
           q     == Smaller(taker.remaining, front.remaining)
           rest  == [front EXCEPT !.remaining = @ - q]
           buy   == IF taker.side = "bid" THEN taker.id ELSE front.id
           sell  == IF taker.side = "bid" THEN front.id ELSE taker.id
           after == QueueAfter(queue, rest)
           next  == [queue |-> after, total |-> level.total - q]
<1>1. /\ taker # NoOrder /\ cur # NoPrice /\ taker.remaining > 0 /\ queue # << >>
      /\ taker' = [taker EXCEPT !.remaining = @ - q]
      /\ levels' = [levels EXCEPT ![opp][cur] = next]
      /\ orders' = IndexAfter(orders, rest)
      /\ fills' = Append(fills, [buy |-> buy, sell |-> sell, price |-> cur, quantity |-> q])
      /\ completed' = CompletedAfter(completed, rest)
      /\ open' = [open EXCEPT ![buy] = @ - q, ![sell] = @ - q]
      /\ UNCHANGED <<todo, cur, emptied, submitted, cancels, withdrawn>>
  BY DEF MatchFront
<1>2. /\ taker \in Order /\ taker.side \in Sides /\ taker.id \in Ids /\ taker.remaining \in Nat
      /\ opp \in Sides /\ opp # taker.side
      /\ PartialFunction(levels[opp], Prices, Level)
      /\ \A s \in Sides : s = taker.side \/ s = opp
  BY <1>1, OppositeFacts
<1>3. /\ cur \in DOMAIN levels[opp] /\ cur \in Prices
      /\ level \in Level /\ queue \in Seq(Order) /\ level.total \in Int
  <2>1. cur \in DOMAIN levels[opp]
    BY <1>1 DEF IInv, ScanInv
  <2>2. QED
    BY <1>2, <2>1 DEF PartialFunction, Level
<1> HIDE DEF opp, level, queue
<1>4. /\ 1 \in DOMAIN queue /\ front = queue[1] /\ front \in Order
      /\ DOMAIN queue = 1 .. Len(queue) /\ Len(queue) \in Nat /\ Len(queue) > 0
  BY <1>1, <1>3
<1>5. /\ \A i \in DOMAIN queue :
           /\ queue[i].side = opp /\ queue[i].price = cur /\ queue[i].remaining > 0
           /\ queue[i].id \in DOMAIN orders /\ orders[queue[i].id] = queue[i]
      /\ \A i, j \in DOMAIN queue : queue[i].id = queue[j].id => i = j
  BY <1>2, <1>3 DEF IInv, IndexMatchesLevels, QueuedIsIndexed, level, queue
<1>6. /\ front.side = opp /\ front.price = cur /\ front.remaining \in Nat /\ front.remaining > 0
      /\ front.id \in DOMAIN orders /\ orders[front.id] = front
      /\ front.id \in Ids /\ front.id # taker.id
  <2>1. front.remaining \in Nat /\ front.id \in Ids
    BY <1>4 DEF Order
  <2>2. QED
    BY <1>1, <1>4, <1>5, <2>1 DEF IInv, IdsInv
<1> HIDE DEF front
<1>7. /\ q \in Nat /\ q <= taker.remaining /\ q <= front.remaining
      /\ q > 0 /\ (q = taker.remaining \/ q = front.remaining)
  BY <1>1, <1>2, <1>6 DEF Smaller
<1> HIDE DEF q
<1>8. /\ rest \in Order /\ rest.id = front.id /\ rest.side = opp /\ rest.price = cur
      /\ rest.remaining = front.remaining - q
  BY <1>4, <1>6, <1>7 DEF Order
<1> HIDE DEF rest
<1>9. after \in Seq(Order)
  <2>1. Tail(queue) \in Seq(Order)
    BY <1>1, <1>3
  <2>2. ReplaceAt(queue, 1, rest) \in Seq(Order)
    BY <1>3, <1>4, <1>8, ExceptSeq DEF ReplaceAt
  <2>3. QED
    BY <2>1, <2>2 DEF QueueAfter
<1>10. next \in Level /\ next.queue = after
  BY <1>3, <1>7, <1>9 DEF Level
<1>11. /\ taker' \in Order /\ taker' # NoOrder
       /\ taker'.id = taker.id /\ taker'.side = taker.side /\ taker'.kind = taker.kind
       /\ taker'.price = taker.price /\ taker'.remaining = taker.remaining - q
  BY SMTT(40), <1>1, <1>2, <1>7, NoOrderAssumption DEF Order
<1> HIDE DEF next
<1>12. /\ IsBook(levels')
       /\ levels'[opp][cur] = next
       /\ \A s \in Sides : DOMAIN levels'[s] = DOMAIN levels[s]
       /\ \A s \in Sides : \A p \in DOMAIN levels[s] :
            s # opp \/ p # cur => levels'[s][p] = levels[s][p]
  <2> DEFINE side == [levels[opp] EXCEPT ![cur] = next]
  <2>1. /\ PartialFunction(side, Prices, Level) /\ DOMAIN side = DOMAIN levels[opp]
        /\ side[cur] = next /\ \A p \in DOMAIN levels[opp] : p # cur => side[p] = levels[opp][p]
    BY <1>2, <1>3, <1>10 DEF PartialFunction
  <2>2. levels = [s \in Sides |-> levels[s]] /\ \A s \in Sides : PartialFunction(levels[s], Prices, Level)
    BY DEF IInv, TypeOK, IsBook
  <2>3. levels' = [levels EXCEPT ![opp] = side]
    BY <1>1
  <2> HIDE DEF side
  <2>4. levels' = [s \in Sides |-> levels'[s]] /\ levels'[opp] = side
        /\ \A s \in Sides : s # opp => levels'[s] = levels[s]
    BY <1>2, <2>2, <2>3
  <2>5. QED
    BY <2>1, <2>2, <2>4 DEF IsBook
<1>13. /\ PartialFunction(orders', Ids, Order)
       /\ DOMAIN orders' = IF rest.remaining = 0 THEN DOMAIN orders \ {front.id} ELSE DOMAIN orders
       /\ \A id \in DOMAIN orders' : id # front.id => orders'[id] = orders[id]
       /\ rest.remaining # 0 => orders'[front.id] = rest
  <2>1. PartialFunction(orders, Ids, Order)
    BY DEF IInv, TypeOK
  <2>2. CASE rest.remaining = 0
    BY <1>1, <1>8, <2>1, <2>2 DEF IndexAfter, Without, PartialFunction
  <2>3. CASE rest.remaining # 0
    BY <1>1, <1>6, <1>8, <2>1, <2>3 DEF IndexAfter, PartialFunction
  <2>4. QED
    BY <2>2, <2>3
<1>14. /\ buy \in Ids /\ sell \in Ids /\ buy # sell
       /\ \A id : id \in {buy, sell} <=> id \in {taker.id, front.id}
  BY <1>2, <1>6
<1> HIDE DEF buy, sell
<1>15. /\ open' \in [Ids -> Int]
       /\ open'[taker.id] = open[taker.id] - q /\ open'[front.id] = open[front.id] - q
       /\ \A id \in Ids : id # taker.id /\ id # front.id => open'[id] = open[id]
  <2>1. open \in [Ids -> Int]
    BY DEF IInv, TypeOK
  <2>2. open' = [open EXCEPT ![buy] = @ - q, ![sell] = @ - q]
    BY <1>1
  <2>3. open' = [id \in Ids |-> IF id = buy \/ id = sell THEN open[id] - q ELSE open[id]]
    BY <1>14, <2>1, <2>2
  <2>4. QED
    BY <1>2, <1>6, <1>7, <1>14, <2>1, <2>3
<1>16. TypeOK'
  <2>1. fills' \in Seq([buy : Ids, sell : Ids, price : Prices, quantity : Nat])
    BY <1>1, <1>3, <1>7, <1>14 DEF IInv, TypeOK
  <2>2. completed' \in Seq(Ids)
    BY <1>1, <1>6, <1>8 DEF IInv, TypeOK, CompletedAfter
  <2>3. QED
    BY <1>1, <1>11, <1>12, <1>13, <1>15, <2>1, <2>2 DEF IInv, TypeOK
<1>17. /\ \A i \in DOMAIN after : IF rest.remaining = 0 THEN i + 1 \in DOMAIN queue /\ after[i] = queue[i + 1]
                                  ELSE i \in DOMAIN queue /\ after[i] = IF i = 1 THEN rest ELSE queue[i]
       /\ rest.remaining = 0 => \A i \in DOMAIN queue : i # 1 => i - 1 \in DOMAIN after /\ after[i - 1] = queue[i]
       /\ rest.remaining # 0 => DOMAIN after = DOMAIN queue /\ after[1] = rest
  <2>1. CASE rest.remaining = 0
    <3>1. after = Tail(queue)
      BY <2>1 DEF QueueAfter
    <3>2. /\ DOMAIN after = 1 .. Len(queue) - 1
          /\ \A i \in 1 .. Len(queue) - 1 : after[i] = queue[i + 1]
      BY <1>1, <1>3, <1>4, <3>1, HeadTailProperties
    <3>3. QED
      BY <1>4, <2>1, <3>2
  <2>2. CASE rest.remaining # 0
    <3>1. after = [queue EXCEPT ![1] = rest]
      BY <2>2 DEF QueueAfter, ReplaceAt
    <3>2. QED
      BY <1>3, <1>4, <2>2, <3>1
  <2>3. QED
    BY <2>1, <2>2
<1> HIDE DEF after
<1>18. QueuedIsIndexed(levels, orders)'
  <2> SUFFICES ASSUME NEW s \in Sides, NEW p \in DOMAIN levels'[s]
               PROVE  LET qu == levels'[s][p].queue
                      IN /\ \A i \in DOMAIN qu :
                              /\ qu[i].side = s /\ qu[i].price = p /\ qu[i].remaining > 0
                              /\ qu[i].id \in DOMAIN orders' /\ orders'[qu[i].id] = qu[i]
                         /\ \A i, j \in DOMAIN qu : qu[i].id = qu[j].id => i = j
    BY DEF QueuedIsIndexed
  <2>1. CASE s = opp /\ p = cur
    <3>1. levels'[s][p].queue = after
      BY <1>10, <1>12, <2>1
    <3>2. CASE rest.remaining = 0
      <4>1. ASSUME NEW i \in DOMAIN after
            PROVE  /\ i \in Int /\ i + 1 \in DOMAIN queue /\ after[i] = queue[i + 1]
                   /\ i + 1 # 1 /\ after[i].id # front.id
        <5>1. i \in Nat /\ i >= 1
          BY <1>9
        <5>2. QED
          BY <1>4, <1>5, <1>17, <3>2, <5>1
      <4>2. \A i \in DOMAIN after :
              /\ after[i].side = s /\ after[i].price = p /\ after[i].remaining > 0
              /\ after[i].id \in DOMAIN orders' /\ orders'[after[i].id] = after[i]
        BY <1>5, <1>13, <2>1, <3>2, <4>1
      <4>3. \A i, j \in DOMAIN after : after[i].id = after[j].id => i = j
        BY <1>5, <4>1
      <4>4. QED
        BY <3>1, <4>2, <4>3
    <3>3. CASE rest.remaining # 0
      <4>1. rest.remaining > 0
        BY <1>6, <1>7, <1>8, <3>3
      <4>2. \A i \in DOMAIN after :
              /\ after[i].side = s /\ after[i].price = p /\ after[i].remaining > 0
              /\ after[i].id \in DOMAIN orders' /\ orders'[after[i].id] = after[i]
              /\ after[i].id = queue[i].id /\ i \in DOMAIN queue
        BY <1>4, <1>5, <1>8, <1>13, <1>17, <2>1, <3>3, <4>1
      <4>3. QED
        BY <1>5, <3>1, <4>2
    <3>4. QED
      BY <3>2, <3>3
  <2>2. CASE ~(s = opp /\ p = cur)
    <3>1. p \in DOMAIN levels[s] /\ levels'[s][p] = levels[s][p]
      BY <1>12, <2>2
    <3> DEFINE qu == levels[s][p].queue
    <3>2. /\ \A i \in DOMAIN qu :
               /\ qu[i].side = s /\ qu[i].price = p /\ qu[i].remaining > 0
               /\ qu[i].id \in DOMAIN orders /\ orders[qu[i].id] = qu[i]
          /\ \A i, j \in DOMAIN qu : qu[i].id = qu[j].id => i = j
      BY <3>1 DEF IInv, IndexMatchesLevels, QueuedIsIndexed
    <3> HIDE DEF qu
    <3>3. \A i \in DOMAIN qu : qu[i].id # front.id
      BY <1>6, <2>2, <3>2
    <3>4. \A i \in DOMAIN qu : qu[i].id \in DOMAIN orders' /\ orders'[qu[i].id] = qu[i]
      BY <1>13, <3>2, <3>3
    <3>5. levels'[s][p].queue = qu
      BY <3>1 DEF qu
    <3>6. QED
      BY <3>2, <3>4, <3>5
  <2>3. QED
    BY <2>1, <2>2
<1>19. IndexedIsQueued(levels, orders)'
  <2> SUFFICES ASSUME NEW id \in DOMAIN orders'
               PROVE  LET o == orders'[id]
                      IN /\ o.id = id /\ o.price \in DOMAIN levels'[o.side]
                         /\ \E i \in DOMAIN levels'[o.side][o.price].queue :
                               levels'[o.side][o.price].queue[i] = o
    BY DEF IndexedIsQueued
  <2>1. levels'[opp][cur].queue = after
    BY <1>10, <1>12
  <2>2. CASE id = front.id
    <3>1. rest.remaining # 0 /\ orders'[id] = rest
      BY <1>13, <2>2
    <3>2. 1 \in DOMAIN after /\ after[1] = rest
      BY <1>4, <1>17, <3>1
    <3>3. QED
      BY <1>2, <1>3, <1>8, <1>12, <2>1, <2>2, <3>1, <3>2
  <2>3. CASE id # front.id
    <3> DEFINE o == orders[id]
    <3>1. id \in DOMAIN orders /\ orders'[id] = o
      BY <1>13, <2>3
    <3>2. /\ o.id = id /\ o.side \in Sides /\ o.price \in DOMAIN levels[o.side]
          /\ \E i \in DOMAIN levels[o.side][o.price].queue : levels[o.side][o.price].queue[i] = o
      BY <3>1 DEF IInv, IndexMatchesLevels, IndexedIsQueued, TypeOK, PartialFunction, Order
    <3> HIDE DEF o
    <3>3. PICK i \in DOMAIN levels[o.side][o.price].queue : levels[o.side][o.price].queue[i] = o
      BY <3>2
    <3>4. CASE o.side = opp /\ o.price = cur
      <4>1. i \in DOMAIN queue /\ queue[i] = o /\ i # 1
        BY <1>4, <2>3, <3>2, <3>3, <3>4 DEF queue, level
      <4>2. \E k \in DOMAIN after : after[k] = o
        BY <1>4, <1>17, <4>1
      <4>3. QED
        BY <1>12, <2>1, <3>1, <3>2, <3>4, <4>2
    <3>5. CASE ~(o.side = opp /\ o.price = cur)
      BY <1>12, <3>1, <3>2, <3>3, <3>5
    <3>6. QED
      BY <3>4, <3>5
  <2>4. QED
    BY <2>2, <2>3
<1>20. NotCrossed'
  BY <1>12 DEF IInv, NotCrossed, Sides
<1>21. NoEmptyLevel'
  <2> SUFFICES ASSUME NEW s \in Sides, NEW p \in DOMAIN levels'[s], levels'[s][p].queue = << >>
               PROVE  s = opp /\ p \in emptied \cup {cur}
    BY <1>1, <1>11 DEF NoEmptyLevel, opp
  <2>1. CASE s = opp /\ p = cur
    BY <2>1
  <2>2. CASE ~(s = opp /\ p = cur)
    BY <1>12, <2>2 DEF IInv, NoEmptyLevel, opp
  <2>3. QED
    BY <2>1, <2>2
<1>22. QuantityConserved'
  <2>1. taker'.remaining = open'[taker'.id]
    BY <1>1, <1>11, <1>15 DEF IInv, QuantityConserved
  <2>2. ASSUME NEW id \in DOMAIN orders' PROVE orders'[id].remaining = open'[id]
    <3>1. id \in DOMAIN orders /\ id \in Ids /\ id # taker.id
      BY <1>1, <1>13 DEF IInv, IdsInv, TypeOK, PartialFunction
    <3>2. orders[id].remaining = open[id]
      BY <3>1 DEF IInv, QuantityConserved
    <3>3. CASE id = front.id
      BY <1>6, <1>8, <1>13, <1>15, <3>2, <3>3
    <3>4. CASE id # front.id
      BY <1>13, <1>15, <3>1, <3>2, <3>4
    <3>5. QED
      BY <3>3, <3>4
  <2>3. QED
    BY <2>1, <2>2 DEF QuantityConserved
<1>23. ScanInv'
  <2>1. /\ todo \subseteq DOMAIN levels[opp]
        /\ \A p \in emptied : p \in DOMAIN levels[opp] /\ levels[opp][p].queue = << >>
        /\ \A p \in DOMAIN levels[opp] : CanMatch(taker, p) => p \in todo \cup emptied \cup {cur}
        /\ taker.kind = "limit" => taker.price \in Prices
    BY <1>1 DEF IInv, ScanInv, opp
  <2>2. Opposite(taker'.side) = opp
    BY <1>11 DEF opp
  <2>3. \A p \in emptied : p # cur
    BY <1>1, <2>1 DEF queue, level
  <2>4. \A p : CanMatch(taker', p) = CanMatch(taker, p)
    BY <1>11 DEF CanMatch
  <2>5. \A p \in emptied : p \in DOMAIN levels'[opp] /\ levels'[opp][p].queue = << >>
    BY <1>2, <1>12, <2>1, <2>3
  <2>6. \A p \in DOMAIN levels'[opp] : CanMatch(taker', p) => p \in todo' \cup emptied' \cup {cur'}
    BY <1>1, <1>2, <1>12, <2>1, <2>4
  <2>7. QED
    BY <1>1, <1>2, <1>3, <1>11, <1>12, <2>1, <2>2, <2>5, <2>6 DEF ScanInv
<1>24. IdsInv'
  <2>1. \A o \in withdrawn : /\ o.id <= submitted /\ o.id # taker.id /\ o.id \notin DOMAIN orders
                             /\ o.price \in Prices /\ o.remaining > 0
                             /\ open[o.id] = o.remaining /\ o.id \in Ids
    BY <1>1 DEF IInv, IdsInv, TypeOK, Order
  <2>2. QED
    BY <1>1, <1>6, <1>11, <1>13, <1>15, <2>1 DEF IInv, IdsInv
<1> QED
  BY <1>16, <1>18, <1>19, <1>20, <1>21, <1>22, <1>23, <1>24 DEF IInv, IndexMatchesLevels

LEMMA FinishMatchStep == IInv /\ FinishMatch => IInv'
<1> SUFFICES ASSUME IInv, FinishMatch PROVE IInv'
  OBVIOUS
<1> DEFINE opp   == Opposite(taker.side)
           side  == [p \in DOMAIN levels[opp] \ emptied |-> levels[opp][p]]
           swept == [levels EXCEPT ![opp] = [p \in DOMAIN @ \ emptied |-> @[p]]]
           rests == taker.remaining > 0 /\ taker.kind = "limit"
<1>1. /\ taker # NoOrder /\ cur = NoPrice /\ ScanOver
      /\ levels' = IF rests THEN AddOrderToBook(swept, taker) ELSE swept
      /\ orders' = IF rests THEN Indexed(orders, taker) ELSE orders
      /\ completed' = CompletedAfter(completed, taker)
      /\ taker' = NoOrder /\ todo' = {} /\ emptied' = {}
      /\ UNCHANGED <<cur, fills, submitted, cancels, withdrawn, open>>
  BY DEF FinishMatch
<1>2. /\ taker \in Order /\ taker.side \in Sides /\ taker.id \in Ids /\ taker.remaining \in Nat
      /\ opp \in Sides /\ opp # taker.side
      /\ \A p \in DOMAIN levels[opp] : p \in Prices /\ p \in Int /\ p # NoPrice
      /\ \A s \in Sides : s = taker.side \/ s = opp
  BY <1>1, OppositeFacts
<1>3. /\ todo \subseteq DOMAIN levels[opp]
      /\ \A p \in emptied : p \in DOMAIN levels[opp] /\ levels[opp][p].queue = << >>
      /\ taker.remaining > 0 =>
           \A p \in DOMAIN levels[opp] : CanMatch(taker, p) => p \in todo \cup emptied \cup {cur}
      /\ taker.kind = "limit" => taker.price \in Prices
  BY <1>1 DEF IInv, ScanInv
<1>4. /\ IsBook(swept)
      /\ \A s \in Sides : DOMAIN swept[s] = IF s = opp THEN DOMAIN levels[s] \ emptied
                                                       ELSE DOMAIN levels[s]
      /\ \A s \in Sides : \A p \in DOMAIN swept[s] : swept[s][p] = levels[s][p]
  <2>1. levels = [s \in Sides |-> levels[s]]
        /\ \A s \in Sides : PartialFunction(levels[s], Prices, Level)
    BY DEF IInv, TypeOK, IsBook
  <2>2. swept = [levels EXCEPT ![opp] = side]
    OBVIOUS
  <2>3. PartialFunction(side, Prices, Level) /\ DOMAIN side = DOMAIN levels[opp] \ emptied
        /\ \A p \in DOMAIN side : side[p] = levels[opp][p]
    BY <1>2, <2>1 DEF PartialFunction
  <2> HIDE DEF side, swept
  <2>4. swept = [s \in Sides |-> swept[s]] /\ swept[opp] = side
        /\ \A s \in Sides : s # opp => swept[s] = levels[s]
    BY <1>2, <2>1, <2>2
  <2>5. QED
    BY <2>1, <2>3, <2>4 DEF IsBook
<1> HIDE DEF side, swept
<1>5. \A s \in Sides : \A p \in DOMAIN swept[s] : swept[s][p].queue # << >>
  <2> SUFFICES ASSUME NEW s \in Sides, NEW p \in DOMAIN swept[s], swept[s][p].queue = << >>
               PROVE  FALSE
    OBVIOUS
  <2>1. p \in DOMAIN levels[s] /\ levels[s][p].queue = << >>
    BY <1>4
  <2>2. s = opp /\ p \in emptied \cup {cur}
    BY <2>1 DEF IInv, NoEmptyLevel
  <2>3. QED
    BY <1>1, <1>2, <1>4, <2>1, <2>2
<1>6. PartialFunction(orders, Ids, Order)
  BY DEF IInv, TypeOK
<1>7. QueuedIsIndexed(swept, orders)
  <2>1. \A s \in Sides : \A p \in DOMAIN swept[s] : p \in DOMAIN levels[s] /\ swept[s][p] = levels[s][p]
    BY <1>4
  <2>2. QueuedIsIndexed(levels, orders)
    BY DEF IInv, IndexMatchesLevels
  <2> HIDE DEF opp
  <2>3. QED
    BY <2>1, <2>2 DEF QueuedIsIndexed
<1>8. IndexedIsQueued(swept, orders)
  <2> SUFFICES ASSUME NEW id \in DOMAIN orders
               PROVE  LET o == orders[id]
                      IN /\ o.id = id /\ o.price \in DOMAIN swept[o.side]
                         /\ \E i \in DOMAIN swept[o.side][o.price].queue :
                               swept[o.side][o.price].queue[i] = o
    BY DEF IndexedIsQueued
  <2> DEFINE o == orders[id]
  <2>1. /\ o.id = id /\ o.side \in Sides /\ o.price \in DOMAIN levels[o.side]
        /\ \E i \in DOMAIN levels[o.side][o.price].queue : levels[o.side][o.price].queue[i] = o
    BY <1>6 DEF IInv, IndexMatchesLevels, IndexedIsQueued, PartialFunction, Order
  <2>2. levels[o.side][o.price].queue # << >>
    BY <2>1
  <2>3. o.price \in DOMAIN swept[o.side]
    BY ZenonT(40), <1>3, <1>4, <2>1, <2>2
  <2>4. QED
    BY <1>4, <2>1, <2>3
<1>9. rests => taker.price \in Prices /\ taker.id \notin DOMAIN orders
  BY <1>1, <1>3 DEF IInv, IdsInv
<1>10. rests => taker.price \in Int /\ \A p \in DOMAIN swept[opp] : ~CanMatch(taker, p)
  <2>1. ASSUME rests, NEW p \in DOMAIN swept[opp], CanMatch(taker, p) PROVE FALSE
    <3>1. p \in DOMAIN levels[opp] /\ p \notin emptied /\ p # cur /\ p \in Int /\ p \in todo
      BY <1>1, <1>2, <1>3, <1>4, <2>1
    <3>2. PICK best \in todo : BestIn(taker.side, todo, best) /\ ~CanMatch(taker, best)
      BY <1>1, <2>1, <3>1 DEF ScanOver
    <3>3. best \in Int /\ taker.price \in Int
      BY <1>2, <1>3, <1>9, <2>1, <3>2, PricesAssumption
    <3>4. QED
      BY <2>1, <3>1, <3>2, <3>3 DEF BestIn, CanMatch
  <2>2. QED
    BY <1>9, <2>1, PricesAssumption
<1>11. /\ IsBook(levels')
       /\ PartialFunction(orders', Ids, Order)
       /\ QueuedIsIndexed(levels', orders')
       /\ IndexedIsQueued(levels', orders')
  <2>1. CASE rests
    BY <1>1, <1>2, <1>4, <1>6, <1>7, <1>8, <1>9, <2>1, AddOrderToBookFacts, RestKeepsMatch
  <2>2. CASE ~rests
    BY <1>1, <1>4, <1>6, <1>7, <1>8, <2>2
  <2>3. QED
    BY <2>1, <2>2
<1>12. TypeOK'
  <2>1. completed' \in Seq(Ids)
    BY <1>1, <1>2 DEF IInv, TypeOK, CompletedAfter
  <2>2. QED
    BY <1>1, <1>11, <2>1 DEF IInv, TypeOK
<1>13. ASSUME rests
       PROVE  /\ \A s \in Sides : DOMAIN levels'[s] = IF s = taker.side THEN DOMAIN swept[s] \cup {taker.price}
                                                                        ELSE DOMAIN swept[s]
              /\ \A s \in Sides : \A p \in DOMAIN swept[s] :
                   s # taker.side \/ p # taker.price => levels'[s][p] = swept[s][p]
              /\ levels'[taker.side][taker.price].queue # << >>
  <2>1. LevelAt(swept[taker.side], taker.price).queue \in Seq(Order)
    <3>1. << >> \in Seq(Order)
      OBVIOUS
    <3>2. QED
      BY <1>2, <1>4, <3>1 DEF LevelAt, NewLevel, IsBook, PartialFunction, Level
  <2>2. Append(LevelAt(swept[taker.side], taker.price).queue, taker) # << >>
    BY <1>2, <2>1
  <2>3. levels' = AddOrderToBook(swept, taker)
    BY <1>1, <1>13
  <2> DEFINE c == AddOrderToBook(swept, taker)
  <2> HIDE DEF rests, opp
  <2>4. taker \in Order /\ IsBook(swept) /\ taker.price \in Prices
    BY <1>2, <1>4, <1>9, <1>13
  <2>5. /\ \A s \in Sides : DOMAIN c[s] = IF s = taker.side THEN DOMAIN swept[s] \cup {taker.price}
                                                            ELSE DOMAIN swept[s]
        /\ \A s \in Sides : \A p \in DOMAIN swept[s] :
             s # taker.side \/ p # taker.price => c[s][p] = swept[s][p]
        /\ c[taker.side][taker.price].queue = Append(LevelAt(swept[taker.side], taker.price).queue, taker)
    BY ZenonT(40), <2>4, AddOrderToBookFacts
  <2>6. levels' = c
    BY <2>3
  <2> HIDE DEF c
  <2>7. QED
    BY <2>2, <2>5, <2>6
<1>14. NoEmptyLevel'
  <2>1. \A s \in Sides : \A p \in DOMAIN levels'[s] : levels'[s][p].queue # << >>
    <3>1. CASE rests
      <4> SUFFICES ASSUME NEW s \in Sides, NEW p \in DOMAIN levels'[s]
                   PROVE  levels'[s][p].queue # << >>
        OBVIOUS
      <4>1. CASE s = taker.side /\ p = taker.price
        BY <1>13, <3>1, <4>1
      <4> HIDE DEF rests, opp
      <4>2. CASE ~(s = taker.side /\ p = taker.price)
        <5>1. p \in DOMAIN swept[s]
          BY <1>13, <3>1, <4>2
        <5>2. s # taker.side \/ p # taker.price
          BY <4>2
        <5>3. levels'[s][p] = swept[s][p]
          BY <1>13, <3>1, <5>1, <5>2
        <5>4. QED
          BY <1>5, <5>1, <5>3
      <4>3. QED
        BY <4>1, <4>2
    <3>2. CASE ~rests
      BY <1>1, <1>5, <3>2
    <3>3. QED
      BY <3>1, <3>2
  <2>2. QED
    BY <2>1 DEF NoEmptyLevel
<1>15. NotCrossed'
  <2>1. \A b \in DOMAIN swept["bid"], a \in DOMAIN swept["ask"] : b < a
    BY <1>4 DEF IInv, NotCrossed, Sides
  <2>2. CASE ~rests
    BY <1>1, <2>1, <2>2 DEF NotCrossed
  <2>3. CASE rests
    <3>1. \A p \in DOMAIN swept[opp] : p \in Int
      BY <1>2, <1>4
    <3>2. \A p \in DOMAIN swept[opp] : IF taker.side = "bid" THEN taker.price < p ELSE p < taker.price
      BY <1>10, <2>3, <3>1 DEF CanMatch
    <3>3. CASE taker.side = "bid"
      <4>1. opp = "ask" /\ "bid" \in Sides /\ "ask" \in Sides
        BY <3>3 DEF opp, Opposite, Sides
      <4>2. /\ DOMAIN levels'["bid"] = DOMAIN swept["bid"] \cup {taker.price}
            /\ DOMAIN levels'["ask"] = DOMAIN swept["ask"]
        BY <1>13, <2>3, <3>3, <4>1
      <4>3. \A p \in DOMAIN swept["ask"] : taker.price < p
        BY <3>2, <3>3, <4>1
      <4> HIDE DEF opp, rests
      <4>4. QED
        BY <2>1, <4>2, <4>3 DEF NotCrossed
    <3>4. CASE taker.side = "ask"
      <4>1. opp = "bid" /\ "bid" \in Sides /\ "ask" \in Sides
        BY <3>4 DEF opp, Opposite, Sides
      <4>2. /\ DOMAIN levels'["ask"] = DOMAIN swept["ask"] \cup {taker.price}
            /\ DOMAIN levels'["bid"] = DOMAIN swept["bid"]
        BY <1>13, <2>3, <3>4, <4>1
      <4>3. \A p \in DOMAIN swept["bid"] : p < taker.price
        BY <3>2, <3>4, <4>1
      <4> HIDE DEF opp, rests
      <4>4. QED
        BY <2>1, <4>2, <4>3 DEF NotCrossed
    <3>5. QED
      BY <1>2, <3>3, <3>4 DEF Sides
  <2>4. QED
    BY <2>2, <2>3
<1>16. /\ DOMAIN orders' = IF rests THEN DOMAIN orders \cup {taker.id} ELSE DOMAIN orders
       /\ \A id \in DOMAIN orders : id \in DOMAIN orders' /\ (id # taker.id => orders'[id] = orders[id])
       /\ rests => orders'[taker.id] = taker
  BY <1>1 DEF Indexed
<1>17. QuantityConserved'
  BY <1>1, <1>16 DEF IInv, QuantityConserved
<1>18. ScanInv'
  BY <1>1 DEF ScanInv
<1>19. IdsInv'
  <2>1. taker.id = submitted /\ submitted \in Int
    BY <1>1 DEF IInv, IdsInv, TypeOK
  <2>2. \A id \in DOMAIN orders' : id <= submitted
    BY <1>1, <1>16, <2>1 DEF IInv, IdsInv
  <2>3. \A o \in withdrawn : /\ o.id <= submitted /\ o.id \notin DOMAIN orders'
                             /\ o.price \in Prices /\ o.remaining > 0 /\ open[o.id] = o.remaining
    BY <1>1, <1>16 DEF IInv, IdsInv
  <2>4. \A o, w \in withdrawn : o.id = w.id => o = w
    BY DEF IInv, IdsInv
  <2>5. QED
    BY <1>1, <2>2, <2>3, <2>4 DEF IdsInv
<1> QED
  BY <1>11, <1>12, <1>14, <1>15, <1>17, <1>18, <1>19 DEF IInv, IndexMatchesLevels

LEMMA CancelOrderStep == IInv /\ CancelOrder => IInv'
<1> SUFFICES ASSUME IInv, CancelOrder PROVE IInv'
  OBVIOUS
<1>1. PICK id \in DOMAIN orders :
        /\ levels' = RemoveOrderFromBook(levels, orders[id])
        /\ orders' = Without(orders, id)
        /\ withdrawn' = {orders[id]}
  BY Zenon DEF CancelOrder
<1>2. /\ taker = NoOrder /\ cancels' = cancels + 1 /\ cancels' \in 0 .. MaxCancels
      /\ UNCHANGED <<taker, todo, cur, emptied, fills, completed, submitted, open>>
  BY BoundsAssumption DEF CancelOrder, IInv, TypeOK
<1> DEFINE o     == orders[id]
           side  == levels[o.side]
           level == side[o.price]
           queue == level.queue
           at    == EntryOf(queue, o.id)
           kept  == LevelWithout(level, o.id)
           after == IF kept.queue = << >> THEN Without(side, o.price)
                                          ELSE [side EXCEPT ![o.price] = kept]
<1>3. PartialFunction(orders, Ids, Order) /\ o \in Order /\ o.side \in Sides /\ id \in Ids
  BY DEF IInv, TypeOK, PartialFunction, Order
<1>4. /\ o.id = id /\ o.price \in DOMAIN side
      /\ \E i \in DOMAIN queue : queue[i] = o
  BY DEF IInv, IndexMatchesLevels, IndexedIsQueued
<1>5. /\ levels = [s \in Sides |-> levels[s]]
      /\ \A s \in Sides : PartialFunction(levels[s], Prices, Level)
  BY DEF IInv, TypeOK, IsBook
<1>6. PartialFunction(side, Prices, Level) /\ level \in Level /\ queue \in Seq(Order)
      /\ o.price \in Prices
  BY <1>3, <1>4, <1>5 DEF PartialFunction, Level
<1>7. /\ at \in 1 .. Len(queue) /\ queue[at].id = id
      /\ kept \in Level /\ kept.queue = RemoveAt(queue, at)
  <2> HIDE DEF level
  <2>1. PICK k \in DOMAIN queue : queue[k] = o
    BY <1>4
  <2>2. queue[k].id = o.id
    BY <2>1
  <2>3. QED
    BY <1>4, <1>6, <2>2, LevelWithoutFacts
<1>8. levels' = [levels EXCEPT ![o.side] = after]
  BY <1>1 DEF RemoveOrderFromBook
<1>9. /\ \A i \in DOMAIN queue :
           /\ queue[i].side = o.side /\ queue[i].price = o.price /\ queue[i].remaining > 0
           /\ queue[i].id \in DOMAIN orders /\ orders[queue[i].id] = queue[i]
      /\ \A i, j \in DOMAIN queue : queue[i].id = queue[j].id => i = j
  BY ZenonT(40), <1>3, <1>4 DEF IInv, IndexMatchesLevels, QueuedIsIndexed
<1> HIDE DEF at, kept, level, queue
<1>10. /\ kept.queue \in Seq(Order) /\ Len(kept.queue) = Len(queue) - 1 /\ Len(queue) \in Nat
       /\ \A j \in 1 .. Len(queue) - 1 : kept.queue[j] = IF j < at THEN queue[j] ELSE queue[j + 1]
       /\ DOMAIN queue = 1 .. Len(queue) /\ DOMAIN kept.queue = 1 .. Len(queue) - 1
  <2>1. /\ RemoveAt(queue, at) \in Seq(Order)
        /\ Len(RemoveAt(queue, at)) = Len(queue) - 1
        /\ \A j \in 1 .. Len(queue) - 1 :
             RemoveAt(queue, at)[j] = IF j < at THEN queue[j] ELSE queue[j + 1]
    BY <1>6, <1>7, RemoveAtFacts
  <2>2. QED
    BY <1>6, <1>7, <2>1
<1> DEFINE from(j) == IF j < at THEN j ELSE j + 1
<1>11. \A j \in DOMAIN kept.queue :
         from(j) \in DOMAIN queue /\ kept.queue[j] = queue[from(j)] /\ from(j) # at
  BY <1>7, <1>10
<1>12. \A i \in DOMAIN queue : i # at => \E j \in DOMAIN kept.queue : kept.queue[j] = queue[i]
  <2> SUFFICES ASSUME NEW i \in DOMAIN queue, i # at
               PROVE  \E j \in DOMAIN kept.queue : kept.queue[j] = queue[i]
    OBVIOUS
  <2>1. CASE i < at
    <3>1. i \in DOMAIN kept.queue /\ kept.queue[i] = queue[i]
      BY <1>7, <1>10, <2>1
    <3>2. QED
      BY <3>1
  <2>2. CASE i > at
    <3>1. i - 1 \in DOMAIN kept.queue /\ kept.queue[i - 1] = queue[i]
      BY <1>7, <1>10, <2>2
    <3>2. QED
      BY <3>1
  <2>3. QED
    BY <1>7, <1>10, <2>1, <2>2
<1>13. \A j, k \in DOMAIN kept.queue : kept.queue[j].id = kept.queue[k].id => j = k
  <2> SUFFICES ASSUME NEW j \in DOMAIN kept.queue, NEW k \in DOMAIN kept.queue,
                      kept.queue[j].id = kept.queue[k].id
               PROVE  j = k
    OBVIOUS
  <2>1. from(j) = from(k)
    BY <1>9, <1>11
  <2>2. QED
    BY <1>7, <1>10, <2>1
<1>14. \A j \in DOMAIN kept.queue : kept.queue[j].id # id
  BY <1>7, <1>9, <1>11
<1>15. /\ PartialFunction(after, Prices, Level)
       /\ DOMAIN after = IF kept.queue = << >> THEN DOMAIN side \ {o.price} ELSE DOMAIN side
       /\ \A p \in DOMAIN after : after[p] = IF p = o.price THEN kept ELSE side[p]
  BY <1>4, <1>6, <1>7 DEF PartialFunction, Without
<1> HIDE DEF after, from
<1>16. /\ IsBook(levels')
       /\ levels'[o.side] = after
       /\ \A s \in Sides : s # o.side => levels'[s] = levels[s]
  <2> HIDE DEF o, side
  <2>1. levels' = [s \in Sides |-> levels'[s]] /\ levels'[o.side] = after
        /\ \A s \in Sides : s # o.side => levels'[s] = levels[s]
    BY <1>3, <1>5, <1>8
  <2>2. QED
    BY <1>5, <1>15, <2>1 DEF IsBook
<1> HIDE DEF side
<1>17. /\ DOMAIN orders' = DOMAIN orders \ {id}
       /\ \A i \in DOMAIN orders' : orders'[i] = orders[i]
       /\ PartialFunction(orders', Ids, Order)
  BY <1>1, <1>3 DEF Without, PartialFunction
<1>18. TypeOK'
  BY <1>1, <1>2, <1>3, <1>16, <1>17 DEF IInv, TypeOK
<1> HIDE DEF o
<1>19. QueuedIsIndexed(levels, orders)'
  <2> SUFFICES ASSUME NEW s \in Sides, NEW p \in DOMAIN levels'[s]
               PROVE  LET qu == levels'[s][p].queue
                      IN /\ \A i \in DOMAIN qu :
                              /\ qu[i].side = s /\ qu[i].price = p /\ qu[i].remaining > 0
                              /\ qu[i].id \in DOMAIN orders' /\ orders'[qu[i].id] = qu[i]
                         /\ \A i, j \in DOMAIN qu : qu[i].id = qu[j].id => i = j
    BY DEF QueuedIsIndexed
  <2>1. CASE s = o.side /\ p = o.price
    <3>1. levels'[s][p].queue = kept.queue
      BY <1>15, <1>16, <2>1
    <3>2. \A j \in DOMAIN kept.queue :
            /\ kept.queue[j].side = s /\ kept.queue[j].price = p /\ kept.queue[j].remaining > 0
            /\ kept.queue[j].id \in DOMAIN orders'
            /\ orders'[kept.queue[j].id] = kept.queue[j]
      BY <1>9, <1>11, <1>14, <1>17, <2>1
    <3>3. QED
      BY <1>13, <3>1, <3>2
  <2>2. CASE ~(s = o.side /\ p = o.price)
    <3>1. p \in DOMAIN levels[s] /\ levels'[s][p] = levels[s][p]
      BY <1>15, <1>16, <2>2 DEF side
    <3> DEFINE qu == levels[s][p].queue
    <3>2. /\ \A i \in DOMAIN qu :
               /\ qu[i].side = s /\ qu[i].price = p /\ qu[i].remaining > 0
               /\ qu[i].id \in DOMAIN orders /\ orders[qu[i].id] = qu[i]
          /\ \A i, j \in DOMAIN qu : qu[i].id = qu[j].id => i = j
      BY <3>1 DEF IInv, IndexMatchesLevels, QueuedIsIndexed
    <3>3. levels'[s][p].queue = qu
      BY <3>1
    <3> HIDE DEF qu
    <3>4. \A i \in DOMAIN qu : qu[i].id # id
      BY <2>2, <3>2 DEF o
    <3>5. QED
      BY <1>17, <3>2, <3>3, <3>4
  <2>3. QED
    BY <2>1, <2>2
<1>20. IndexedIsQueued(levels, orders)'
  <2> SUFFICES ASSUME NEW x \in DOMAIN orders'
               PROVE  LET r == orders'[x]
                      IN /\ r.id = x /\ r.price \in DOMAIN levels'[r.side]
                         /\ \E i \in DOMAIN levels'[r.side][r.price].queue :
                               levels'[r.side][r.price].queue[i] = r
    BY DEF IndexedIsQueued
  <2> DEFINE r == orders[x]
  <2>1. /\ x \in DOMAIN orders /\ x # id /\ orders'[x] = r
        /\ r.id = x /\ r.side \in Sides /\ r.price \in DOMAIN levels[r.side]
        /\ \E i \in DOMAIN levels[r.side][r.price].queue : levels[r.side][r.price].queue[i] = r
    BY <1>17 DEF IInv, IndexMatchesLevels, IndexedIsQueued, PartialFunction, Order
  <2> HIDE DEF r
  <2>2. CASE r.side = o.side /\ r.price = o.price
    <3>1. PICK i \in DOMAIN queue : queue[i] = r
      BY <2>1, <2>2 DEF queue, level, side
    <3>2. i # at
      BY <1>7, <2>1, <3>1
    <3>3. PICK j \in DOMAIN kept.queue : kept.queue[j] = r
      BY <1>12, <3>1, <3>2
    <3>4. kept.queue # << >>
      BY <3>3
    <3>5. o.price \in DOMAIN levels'[o.side] /\ levels'[o.side][o.price] = kept
      BY <1>4, <1>15, <1>16, <3>4
    <3>6. QED
      BY <2>1, <2>2, <3>3, <3>5
  <2>3. CASE ~(r.side = o.side /\ r.price = o.price)
    <3>1. r.price \in DOMAIN levels'[r.side] /\ levels'[r.side][r.price] = levels[r.side][r.price]
      BY <1>15, <1>16, <2>1, <2>3 DEF side
    <3>2. QED
      BY <2>1, <3>1
  <2>4. QED
    BY <2>2, <2>3
<1>21. \A s \in Sides : DOMAIN levels'[s] \subseteq DOMAIN levels[s]
  BY <1>15, <1>16 DEF side
<1>22. NotCrossed'
  BY <1>21 DEF IInv, NotCrossed, Sides
<1>23. NoEmptyLevel'
  <2> SUFFICES ASSUME NEW s \in Sides, NEW p \in DOMAIN levels'[s], levels'[s][p].queue = << >>
               PROVE  FALSE
    BY DEF NoEmptyLevel
  <2>1. CASE s = o.side /\ p = o.price
    BY <1>15, <1>16, <2>1
  <2>2. CASE ~(s = o.side /\ p = o.price)
    <3>1. p \in DOMAIN levels[s] /\ levels'[s][p] = levels[s][p]
      BY <1>15, <1>16, <2>2 DEF side
    <3>2. QED
      BY <1>2, <3>1 DEF IInv, NoEmptyLevel
  <2>3. QED
    BY <2>1, <2>2
<1>24. QuantityConserved'
  BY <1>2, <1>17 DEF IInv, QuantityConserved
<1>25. ScanInv'
  BY <1>2 DEF IInv, ScanInv
<1>26. IdsInv'
  <2>1. o.remaining > 0
    BY <1>4, <1>9
  <2>2. open[o.id] = o.remaining /\ o.id <= submitted
    BY <1>4 DEF IInv, QuantityConserved, IdsInv, o
  <2>3. \A w \in withdrawn' : w = o
    BY <1>1 DEF o
  <2>4. QED
    BY <1>2, <1>4, <1>6, <1>17, <2>1, <2>2, <2>3 DEF IInv, IdsInv
<1> QED
  BY <1>18, <1>19, <1>20, <1>22, <1>23, <1>24, <1>25, <1>26 DEF IInv, IndexMatchesLevels

LEMMA RestoreOrderStep == IInv /\ RestoreOrder => IInv'
<1> SUFFICES ASSUME IInv, RestoreOrder PROVE IInv'
  OBVIOUS
<1>1. PICK o \in withdrawn :
        /\ \A p \in DOMAIN levels[Opposite(o.side)] : ~CanMatch(o, p)
        /\ levels' = AddOrderToBook(levels, o)
        /\ orders' = Indexed(orders, o)
        /\ withdrawn' = withdrawn \ {o}
  BY Zenon DEF RestoreOrder
<1>2. /\ taker = NoOrder
      /\ UNCHANGED <<taker, todo, cur, emptied, fills, completed, submitted, cancels, open>>
  BY DEF RestoreOrder
<1>3. /\ o \in Order /\ o.side \in Sides /\ o.price \in Prices /\ o.price \in Int
      /\ o.remaining > 0 /\ o.id \notin DOMAIN orders /\ o.id <= submitted
      /\ open[o.id] = o.remaining
  BY PricesAssumption DEF IInv, TypeOK, IdsInv, Order
<1>4. IsBook(levels) /\ PartialFunction(orders, Ids, Order)
      /\ QueuedIsIndexed(levels, orders) /\ IndexedIsQueued(levels, orders)
  BY DEF IInv, TypeOK, IndexMatchesLevels
<1>5. /\ IsBook(levels')
      /\ \A s \in Sides : DOMAIN levels'[s] = IF s = o.side THEN DOMAIN levels[s] \cup {o.price}
                                                            ELSE DOMAIN levels[s]
      /\ \A s \in Sides : \A p \in DOMAIN levels[s] :
           s # o.side \/ p # o.price => levels'[s][p] = levels[s][p]
      /\ levels'[o.side][o.price].queue = Append(LevelAt(levels[o.side], o.price).queue, o)
  <2> DEFINE c == AddOrderToBook(levels, o)
  <2>1. /\ IsBook(c)
        /\ \A s \in Sides : DOMAIN c[s] = IF s = o.side THEN DOMAIN levels[s] \cup {o.price}
                                                        ELSE DOMAIN levels[s]
        /\ \A s \in Sides : \A p \in DOMAIN levels[s] :
             s # o.side \/ p # o.price => c[s][p] = levels[s][p]
        /\ c[o.side][o.price].queue = Append(LevelAt(levels[o.side], o.price).queue, o)
    BY <1>3, <1>4, AddOrderToBookFacts
  <2>2. levels' = c
    BY <1>1
  <2> HIDE DEF c
  <2>3. QED
    BY <2>1, <2>2
<1>6. /\ PartialFunction(orders', Ids, Order)
      /\ QueuedIsIndexed(levels', orders')
      /\ IndexedIsQueued(levels', orders')
  BY <1>1, <1>3, <1>4, RestKeepsMatch
<1>7. TypeOK'
  BY <1>1, <1>2, <1>5, <1>6 DEF IInv, TypeOK
<1>8. NotCrossed'
  <2>1. \A p \in DOMAIN levels[Opposite(o.side)] : p \in Int
    BY <1>3, <1>4, PricesAssumption DEF IsBook, PartialFunction, Opposite, Sides
  <2>2. \A p \in DOMAIN levels[Opposite(o.side)] :
          IF o.side = "bid" THEN o.price < p ELSE p < o.price
    BY <1>1, <1>3, <2>1 DEF CanMatch
  <2>3. "bid" \in Sides /\ "ask" \in Sides /\ (o.side = "bid" \/ o.side = "ask")
    BY <1>3 DEF Sides
  <2>4. CASE o.side = "bid"
    <3>1. /\ DOMAIN levels'["bid"] = DOMAIN levels["bid"] \cup {o.price}
          /\ DOMAIN levels'["ask"] = DOMAIN levels["ask"]
          /\ \A p \in DOMAIN levels["ask"] : o.price < p
      BY <1>5, <2>2, <2>3, <2>4 DEF Opposite
    <3>2. QED
      BY <3>1 DEF IInv, NotCrossed
  <2>5. CASE o.side = "ask"
    <3>1. /\ DOMAIN levels'["ask"] = DOMAIN levels["ask"] \cup {o.price}
          /\ DOMAIN levels'["bid"] = DOMAIN levels["bid"]
          /\ \A p \in DOMAIN levels["bid"] : p < o.price
      BY <1>5, <2>2, <2>3, <2>5 DEF Opposite
    <3>2. QED
      BY <3>1 DEF IInv, NotCrossed
  <2>6. QED
    BY <2>3, <2>4, <2>5
<1>9. NoEmptyLevel'
  <2>1. LevelAt(levels[o.side], o.price).queue \in Seq(Order)
    <3>1. << >> \in Seq(Order)
      OBVIOUS
    <3>2. QED
      BY <1>3, <1>4, <3>1 DEF LevelAt, NewLevel, IsBook, PartialFunction, Level
  <2>2. Append(LevelAt(levels[o.side], o.price).queue, o) # << >>
    BY <1>3, <2>1
  <2>3. \A s \in Sides : \A p \in DOMAIN levels[s] : levels[s][p].queue # << >>
    BY <1>2 DEF IInv, NoEmptyLevel
  <2>4. ASSUME NEW s \in Sides, NEW p \in DOMAIN levels'[s]
        PROVE  levels'[s][p].queue # << >>
    <3>1. CASE s = o.side /\ p = o.price
      BY <1>5, <2>2, <3>1
    <3>2. CASE ~(s = o.side /\ p = o.price)
      BY ZenonT(40), <1>5, <2>3, <3>2
    <3>3. QED
      BY <3>1, <3>2
  <2>5. QED
    BY <2>4 DEF NoEmptyLevel
<1>10. /\ DOMAIN orders' = DOMAIN orders \cup {o.id} /\ orders'[o.id] = o
       /\ \A id \in DOMAIN orders : orders'[id] = orders[id]
  BY <1>1, <1>3 DEF Indexed
<1>11. QuantityConserved'
  BY <1>2, <1>3, <1>10 DEF IInv, QuantityConserved
<1>12. ScanInv'
  BY <1>2 DEF IInv, ScanInv
<1>13. IdsInv'
  <2>1. \A w \in withdrawn' : w.id # o.id
    BY <1>1 DEF IInv, IdsInv
  <2>2. QED
    BY <1>1, <1>2, <1>3, <1>10, <2>1 DEF IInv, IdsInv
<1> QED
  BY <1>6, <1>7, <1>8, <1>9, <1>11, <1>12, <1>13 DEF IInv, IndexMatchesLevels

LEMMA NextStep == IInv /\ [Next]_vars => IInv'
<1> SUFFICES ASSUME IInv, [Next]_vars PROVE IInv'
  OBVIOUS
<1>1. CASE AddLimitOrder
  <2>1. PICK side \in Sides, price \in Prices, quantity \in Quantities :
          Add(side, "limit", price, quantity)
    BY <1>1, Zenon DEF AddLimitOrder
  <2>2. QED
    BY <2>1, AddStep
<1>2. CASE AddMarketOrder
  <2>1. PICK side \in Sides, quantity \in Quantities : Add(side, "market", NoPrice, quantity)
    BY <1>2, Zenon DEF AddMarketOrder
  <2>2. QED
    BY <2>1, AddStep
<1>3. CASE MatchStep
  BY <1>3, EnterLevelStep, MatchFrontStep, LeaveLevelStep, FinishMatchStep DEF MatchStep
<1>4. CASE CancelOrder
  BY <1>4, CancelOrderStep
<1>5. CASE RestoreOrder
  BY <1>5, RestoreOrderStep
<1>6. CASE UNCHANGED vars
  BY <1>6 DEF vars, IInv, TypeOK, IndexMatchesLevels, NoEmptyLevel, NotCrossed,
              QuantityConserved, ScanInv, IdsInv
<1> QED
  BY <1>1, <1>2, <1>3, <1>4, <1>5, <1>6 DEF Next

\* The strengthened invariant holds in every reachable state.
LEMMA Invariance == Spec => []IInv
<1>1. Init => IInv
  BY InitIInv
<1>2. IInv /\ [Next]_vars => IInv'
  BY NextStep
<1> QED
  BY <1>1, <1>2, PTL DEF Spec

-----------------------------------------------------------------------------
\* The totals of the levels.

\* What the orders of a queue have left together.
LeftIn(queue) == SumOver(Remaining(queue), DOMAIN queue)

LEMMA QueueFacts ==
  ASSUME NEW queue \in Seq(Order)
  PROVE  /\ DOMAIN queue = 1 .. Len(queue) /\ Len(queue) \in Nat /\ IsFiniteSet(DOMAIN queue)
         /\ \A i \in DOMAIN queue : queue[i] \in Order /\ Remaining(queue)[i] = queue[i].remaining
                                    /\ Remaining(queue)[i] \in Int
         /\ LeftIn(queue) \in Int
<1>1. DOMAIN queue = 1 .. Len(queue) /\ Len(queue) \in Nat /\ IsFiniteSet(DOMAIN queue)
  BY FS_Interval
<1>2. \A i \in DOMAIN queue : queue[i] \in Order /\ Remaining(queue)[i] = queue[i].remaining
                              /\ Remaining(queue)[i] \in Int
  <2> SUFFICES ASSUME NEW i \in DOMAIN queue
               PROVE  queue[i] \in Order /\ Remaining(queue)[i] = queue[i].remaining
                      /\ Remaining(queue)[i] \in Int
    OBVIOUS
  <2>1. queue[i] \in Order
    BY <1>1
  <2>2. queue[i].remaining \in Int
    BY <2>1 DEF Order
  <2>3. Remaining(queue)[i] = queue[i].remaining
    BY DEF Remaining
  <2>4. QED
    BY <2>1, <2>2, <2>3
<1>3. LeftIn(queue) \in Int
  BY <1>1, <1>2, SumType DEF LeftIn
<1> QED
  BY <1>1, <1>2, <1>3

LEMMA JoinedTotal ==
  ASSUME NEW queue \in Seq(Order), NEW o \in Order
  PROVE  LeftIn(Append(queue, o)) = LeftIn(queue) + o.remaining
<1> DEFINE n == Len(queue) + 1
           f == Remaining(Append(queue, o))
<1>1. /\ Append(queue, o) \in Seq(Order) /\ DOMAIN Append(queue, o) = DOMAIN queue \cup {n}
      /\ n \notin DOMAIN queue /\ Append(queue, o)[n] = o
      /\ \A i \in DOMAIN queue : Append(queue, o)[i] = queue[i]
  BY QueueFacts
<1>2. \A i \in DOMAIN queue \cup {n} : f[i] \in Int /\ f[i] = Append(queue, o)[i].remaining
  BY <1>1, QueueFacts
<1>3. SumOver(f, DOMAIN queue \cup {n}) = f[n] + SumOver(f, DOMAIN queue)
  BY <1>1, <1>2, QueueFacts, SumAdd
<1>4. SumOver(f, DOMAIN queue) = LeftIn(queue)
  BY <1>1, <1>2, QueueFacts, SumEqual DEF LeftIn
<1>5. f[n] = o.remaining /\ o.remaining \in Int
  BY <1>1, <1>2 DEF Order
<1> HIDE DEF f, n
<1>6. LeftIn(Append(queue, o)) = SumOver(f, DOMAIN queue \cup {n})
  BY <1>1 DEF LeftIn, f
<1> QED
  BY <1>3, <1>4, <1>5, <1>6, QueueFacts

LEMMA RemovedTotal ==
  ASSUME NEW queue \in Seq(Order), NEW at \in 1 .. Len(queue)
  PROVE  LeftIn(RemoveAt(queue, at)) = LeftIn(queue) - queue[at].remaining
<1> DEFINE kept == RemoveAt(queue, at)
           from == [j \in DOMAIN kept |-> IF j < at THEN j ELSE j + 1]
           f    == Remaining(queue)
           others == DOMAIN queue \ {at}
<1>1. /\ kept \in Seq(Order) /\ Len(kept) = Len(queue) - 1
      /\ \A j \in 1 .. Len(queue) - 1 : kept[j] = IF j < at THEN queue[j] ELSE queue[j + 1]
  BY RemoveAtFacts
<1> HIDE DEF kept
<1>2. DOMAIN kept = 1 .. Len(queue) - 1 /\ DOMAIN queue = 1 .. Len(queue) /\ Len(queue) \in Nat
  BY <1>1, QueueFacts
<1>3. others = {from[j] : j \in DOMAIN kept}
  <2>1. \A j \in DOMAIN kept : from[j] \in others
    BY <1>2
  <2>2. ASSUME NEW i \in others PROVE \E j \in DOMAIN kept : from[j] = i
    <3>1. CASE i < at
      BY <1>2, <3>1
    <3>2. CASE i > at
      <4>1. i - 1 \in DOMAIN kept /\ from[i - 1] = i
        BY <1>2, <3>2
      <4> QED
        BY <4>1
    <3> QED
      BY <1>2, <3>1, <3>2
  <2> QED
    BY <2>1, <2>2
<1>4. \A j, k \in DOMAIN kept : from[j] = from[k] => j = k
  BY <1>2
<1>5. \A j \in DOMAIN kept : Remaining(kept)[j] \in Int /\ f[from[j]] = Remaining(kept)[j]
  <2>1. \A j \in DOMAIN kept : from[j] \in DOMAIN queue /\ kept[j] = queue[from[j]]
    BY <1>1, <1>2
  <2> HIDE DEF from, f
  <2> QED
    BY SMTT(30), <1>1, <2>1, QueueFacts DEF f
<1>6. IsFiniteSet(others) /\ IsFiniteSet(DOMAIN kept)
  BY <1>1, QueueFacts, FS_RemoveElement
<1> HIDE DEF from, f, others
<1>7. SumOver(f, others) = LeftIn(kept)
  <2> DEFINE g == Remaining(kept)
             S == DOMAIN kept
  <2>1. /\ IsFiniteSet(S) /\ IsFiniteSet(others) /\ others = {from[j] : j \in S}
        /\ \A j \in S : g[j] \in Int /\ f[from[j]] = g[j]
        /\ \A j, k \in S : from[j] = from[k] => j = k
    BY <1>3, <1>4, <1>5, <1>6
  <2>2. LeftIn(kept) = SumOver(g, S)
    BY DEF LeftIn
  <2> HIDE DEF g, S
  <2>3. SumOver(f, others) = SumOver(g, S)
    BY SMTT(30), <2>1, SumReindex
  <2> QED
    BY <2>2, <2>3
<1>8. SumOver(f, DOMAIN queue) = f[at] + SumOver(f, others)
  BY <1>2, QueueFacts, SumRemove DEF f, others
<1>9. f[at] = queue[at].remaining /\ f[at] \in Int /\ LeftIn(queue) = SumOver(f, DOMAIN queue)
  BY <1>2, QueueFacts DEF f, LeftIn
<1> QED
  BY <1>1, <1>7, <1>8, <1>9, QueueFacts DEF kept

LEMMA FrontTotal ==
  ASSUME NEW queue \in Seq(Order), queue # << >>, NEW rest \in Order
  PROVE  LeftIn(QueueAfter(queue, rest)) = LeftIn(queue) - queue[1].remaining + rest.remaining
<1>1. /\ 1 \in 1 .. Len(queue) /\ 1 \in DOMAIN queue /\ DOMAIN queue = 1 .. Len(queue)
      /\ queue[1].remaining \in Int /\ rest.remaining \in Int
  <2>1. DOMAIN queue = 1 .. Len(queue) /\ Len(queue) \in Nat /\ Len(queue) # 0
    OBVIOUS
  <2>2. 1 \in 1 .. Len(queue) /\ 1 \in DOMAIN queue
    BY <2>1
  <2>3. queue[1].remaining \in Int
    BY <2>2, QueueFacts
  <2>4. rest.remaining \in Int
    BY DEF Order
  <2>5. QED
    BY <2>1, <2>2, <2>3, <2>4
<1>2. CASE rest.remaining = 0
  <2>1. Tail(queue) = RemoveAt(queue, 1)
    <3>1. /\ RemoveAt(queue, 1) \in Seq(Order) /\ Len(RemoveAt(queue, 1)) = Len(queue) - 1
          /\ \A j \in 1 .. Len(queue) - 1 : RemoveAt(queue, 1)[j] = IF j < 1 THEN queue[j] ELSE queue[j + 1]
      BY <1>1, RemoveAtFacts
    <3>2. /\ Tail(queue) \in Seq(Order) /\ Len(Tail(queue)) = Len(queue) - 1
          /\ \A j \in 1 .. Len(queue) - 1 : Tail(queue)[j] = queue[j + 1]
      OBVIOUS
    <3>3. \A j \in 1 .. Len(queue) - 1 : ~(j < 1)
      OBVIOUS
    <3> QED
      BY <3>1, <3>2, <3>3, SeqEqual
  <2>2. LeftIn(RemoveAt(queue, 1)) = LeftIn(queue) - queue[1].remaining
    BY <1>1, RemovedTotal
  <2>3. LeftIn(queue) \in Int
    BY QueueFacts
  <2>4. QueueAfter(queue, rest) = RemoveAt(queue, 1)
    BY <1>2, <2>1 DEF QueueAfter
  <2>5. LeftIn(RemoveAt(queue, 1)) = LeftIn(queue) - queue[1].remaining + rest.remaining
    BY <1>1, <1>2, <2>2, <2>3
  <2> QED
    BY <2>4, <2>5
<1>3. CASE rest.remaining # 0
  <2> DEFINE after == ReplaceAt(queue, 1, rest)
  <2>1. /\ after \in Seq(Order) /\ DOMAIN after = DOMAIN queue /\ after[1] = rest
        /\ \A i \in DOMAIN queue \ {1} : after[i] = queue[i]
    BY <1>1, ExceptSeq DEF ReplaceAt
  <2> HIDE DEF after
  <2>2. /\ \A i \in DOMAIN queue : Remaining(queue)[i] \in Int /\ Remaining(after)[i] \in Int
        /\ \A i \in DOMAIN queue \ {1} : Remaining(queue)[i] = Remaining(after)[i]
        /\ Remaining(queue)[1] = queue[1].remaining /\ Remaining(after)[1] = rest.remaining
    BY <1>1, <2>1, QueueFacts
  <2>3. SumOver(Remaining(after), DOMAIN queue)
          = SumOver(Remaining(queue), DOMAIN queue) + rest.remaining - queue[1].remaining
    <3>1. IsFiniteSet(DOMAIN queue)
      BY QueueFacts
    <3>2. PICK f, g, S : f = Remaining(queue) /\ g = Remaining(after) /\ S = DOMAIN queue
      OBVIOUS
    <3>3. IsFiniteSet(S) /\ 1 \in S /\ (\A i \in S : f[i] \in Int /\ g[i] \in Int)
          /\ \A i \in S \ {1} : f[i] = g[i]
      BY <1>1, <2>2, <3>1, <3>2
    <3>4. SumOver(g, S) = SumOver(f, S) + g[1] - f[1]
      BY <3>3, SumChange
    <3> QED
      BY <1>1, <2>2, <3>2, <3>4
  <2> QED
    BY <1>1, <1>3, <2>1, <2>3, QueueFacts DEF QueueAfter, LeftIn, after
<1> QED
  BY <1>2, <1>3

Backed(level) == level.total = LeftIn(level.queue)

LEMMA AddOrderToBookTotals ==
  ASSUME NEW b, IsBook(b), NEW o \in Order, o.price \in Prices,
         \A s \in Sides : \A p \in DOMAIN b[s] : Backed(b[s][p])
  PROVE  LET c == AddOrderToBook(b, o)
         IN \A s \in Sides : \A p \in DOMAIN c[s] : Backed(c[s][p])
<1> DEFINE level  == LevelAt(b[o.side], o.price)
           joined == [queue |-> Append(level.queue, o), total |-> level.total + o.remaining]
           side   == [p \in DOMAIN b[o.side] \cup {o.price} |->
                        IF p = o.price THEN joined ELSE b[o.side][p]]
           c      == AddOrderToBook(b, o)
<1>1. o.side \in Sides /\ b = [s \in Sides |-> b[s]] /\ PartialFunction(b[o.side], Prices, Level)
  BY DEF Order, IsBook
<1>2. level.queue \in Seq(Order) /\ Backed(level)
  <2>1. CASE o.price \in DOMAIN b[o.side]
    BY <1>1, <2>1 DEF LevelAt, PartialFunction, Level
  <2>2. CASE o.price \notin DOMAIN b[o.side]
    <3>1. << >> \in Seq(Order) /\ LeftIn(<< >>) = 0
      BY SumEmpty DEF LeftIn
    <3> QED
      BY <2>2, <3>1 DEF LevelAt, NewLevel, Backed
  <2> QED
    BY <2>1, <2>2
<1>3. Backed(joined)
  BY <1>2, JoinedTotal DEF Backed
<1>4. c = [b EXCEPT ![o.side] = side]
  BY DEF AddOrderToBook
<1> HIDE DEF level, joined, c
<1>5. \A p \in DOMAIN side : Backed(side[p])
  BY <1>1, <1>3
<1> HIDE DEF side
<1>6. \A s \in Sides : c[s] = IF s = o.side THEN side ELSE b[s]
  BY <1>1, <1>4
<1> QED
  BY <1>5, <1>6 DEF c

LEMMA TotalsAreBacked == TotalsMatch <=> \A s \in Sides : \A p \in DOMAIN levels[s] : Backed(levels[s][p])
  BY DEF TotalsMatch, Backed, LeftIn

LEMMA TotalsAreBackedNext ==
  TotalsMatch' <=> \A s \in Sides : \A p \in DOMAIN levels'[s] : Backed(levels'[s][p])
  BY DEF TotalsMatch, Backed, LeftIn

LEMMA MatchFrontTotals == IInv /\ TotalsMatch /\ MatchFront => TotalsMatch'
<1> SUFFICES ASSUME IInv, TotalsMatch, MatchFront PROVE TotalsMatch'
  OBVIOUS
<1> DEFINE opp   == Opposite(taker.side)
           level == levels[opp][cur]
           queue == level.queue
           front == Head(queue)
           q     == Smaller(taker.remaining, front.remaining)
           rest  == [front EXCEPT !.remaining = @ - q]
           next  == [queue |-> QueueAfter(queue, rest), total |-> level.total - q]
<1>1. /\ taker # NoOrder /\ cur # NoPrice /\ queue # << >>
      /\ levels' = [levels EXCEPT ![opp][cur] = next]
  BY DEF MatchFront
<1>2. /\ taker.remaining \in Nat /\ opp \in Sides /\ PartialFunction(levels[opp], Prices, Level)
  BY <1>1, OppositeFacts
<1>3. cur \in DOMAIN levels[opp]
  BY <1>1 DEF IInv, ScanInv
<1>4. queue \in Seq(Order) /\ level.total \in Int /\ Backed(level)
  BY <1>2, <1>3, TotalsAreBacked DEF PartialFunction, Level
<1> HIDE DEF opp, level, queue
<1>5. front = queue[1] /\ front \in Order /\ front.remaining \in Nat
  <2>1. front = queue[1] /\ front \in Order
    BY <1>1, <1>4
  <2> QED
    BY <2>1 DEF Order
<1> HIDE DEF front
<1>6. q \in Nat /\ q <= front.remaining
  BY <1>2, <1>5 DEF Smaller
<1> HIDE DEF q
<1>7. rest \in Order /\ rest.remaining = front.remaining - q
  BY <1>5, <1>6 DEF Order
<1> HIDE DEF rest
<1>8. Backed(next)
  <2>1. LeftIn(QueueAfter(queue, rest)) = LeftIn(queue) - front.remaining + rest.remaining
    BY <1>1, <1>4, <1>5, <1>7, FrontTotal
  <2> QED
    BY <1>4, <1>5, <1>6, <1>7, <2>1, QueueFacts DEF Backed, queue
<1> HIDE DEF next
<1>9. \A s \in Sides : \A p \in DOMAIN levels'[s] :
        p \in DOMAIN levels[s] /\ levels'[s][p] = IF s = opp /\ p = cur THEN next ELSE levels[s][p]
  <2>1. levels = [s \in Sides |-> levels[s]] /\ levels[opp] = [p \in DOMAIN levels[opp] |-> levels[opp][p]]
    BY <1>2 DEF IInv, TypeOK, IsBook, PartialFunction
  <2>2. \A s \in Sides : levels'[s] = IF s = opp THEN [levels[opp] EXCEPT ![cur] = next] ELSE levels[s]
    BY <1>1, <1>2, <2>1
  <2> QED
    BY <1>3, <2>1, <2>2
<1> QED
  BY <1>8, <1>9, TotalsAreBacked, TotalsAreBackedNext

LEMMA FinishMatchTotals == IInv /\ TotalsMatch /\ FinishMatch => TotalsMatch'
<1> SUFFICES ASSUME IInv, TotalsMatch, FinishMatch PROVE TotalsMatch'
  OBVIOUS
<1> DEFINE opp   == Opposite(taker.side)
           side  == [p \in DOMAIN levels[opp] \ emptied |-> levels[opp][p]]
           swept == [levels EXCEPT ![opp] = [p \in DOMAIN @ \ emptied |-> @[p]]]
           rests == taker.remaining > 0 /\ taker.kind = "limit"
<1>1. taker # NoOrder /\ levels' = IF rests THEN AddOrderToBook(swept, taker) ELSE swept
  BY DEF FinishMatch
<1>2. taker \in Order /\ opp \in Sides /\ (rests => taker.price \in Prices)
  BY <1>1, OppositeFacts DEF IInv, ScanInv
<1>3. levels = [s \in Sides |-> levels[s]]
      /\ \A s \in Sides : PartialFunction(levels[s], Prices, Level)
  BY DEF IInv, TypeOK, IsBook
<1>4. swept = [levels EXCEPT ![opp] = side]
  OBVIOUS
<1>5. PartialFunction(side, Prices, Level)
      /\ \A p \in DOMAIN side : p \in DOMAIN levels[opp] /\ side[p] = levels[opp][p]
  BY <1>2, <1>3 DEF PartialFunction
<1> HIDE DEF side, swept, opp
<1>6. swept = [s \in Sides |-> swept[s]]
      /\ \A s \in Sides : swept[s] = IF s = opp THEN side ELSE levels[s]
  BY <1>2, <1>3, <1>4
<1>7. IsBook(swept)
  BY <1>3, <1>5, <1>6 DEF IsBook
<1>8. \A s \in Sides : \A p \in DOMAIN swept[s] : Backed(swept[s][p])
  BY <1>5, <1>6, TotalsAreBacked
<1> QED
  BY <1>1, <1>2, <1>7, <1>8, AddOrderToBookTotals, TotalsAreBackedNext

LEMMA CancelOrderTotals == IInv /\ TotalsMatch /\ CancelOrder => TotalsMatch'
<1> SUFFICES ASSUME IInv, TotalsMatch, CancelOrder PROVE TotalsMatch'
  OBVIOUS
<1>1. PICK id \in DOMAIN orders : levels' = RemoveOrderFromBook(levels, orders[id])
  BY Zenon DEF CancelOrder
<1> DEFINE o     == orders[id]
           side  == levels[o.side]
           level == side[o.price]
           queue == level.queue
           at    == EntryOf(queue, o.id)
           kept  == LevelWithout(level, o.id)
           after == IF kept.queue = << >> THEN Without(side, o.price)
                                          ELSE [side EXCEPT ![o.price] = kept]
<1>2. /\ o.side \in Sides /\ o.price \in DOMAIN side /\ \E i \in DOMAIN queue : queue[i] = o
  BY DEF IInv, TypeOK, IndexMatchesLevels, IndexedIsQueued, PartialFunction, Order
<1>3. /\ levels = [s \in Sides |-> levels[s]] /\ PartialFunction(side, Prices, Level)
  BY <1>2 DEF IInv, TypeOK, IsBook
<1>4. level \in Level /\ queue \in Seq(Order) /\ level.total \in Int /\ Backed(level)
  BY <1>2, <1>3, TotalsAreBacked DEF PartialFunction, Level
<1>5. levels' = [levels EXCEPT ![o.side] = after]
  BY <1>1 DEF RemoveOrderFromBook
<1> HIDE DEF o, level, side
<1>6. at \in 1 .. Len(queue) /\ kept.queue = RemoveAt(queue, at)
  <2>1. PICK k \in DOMAIN queue : queue[k].id = o.id
    BY <1>2
  <2> QED
    BY <1>4, <2>1, LevelWithoutFacts
<1>7. kept.total = level.total - queue[at].remaining
  BY DEF LevelWithout
<1> HIDE DEF at, kept, queue
<1>8. Backed(kept)
  BY <1>4, <1>6, <1>7, RemovedTotal DEF Backed, queue
<1>9. \A p \in DOMAIN after : p \in DOMAIN side /\ (after[p] = side[p] \/ after[p] = kept)
  BY <1>2, <1>3 DEF Without, PartialFunction
<1> HIDE DEF after
<1>10. \A s \in Sides : levels'[s] = IF s = o.side THEN after ELSE levels[s]
  BY <1>2, <1>3, <1>5
<1> QED
  BY <1>2, <1>8, <1>9, <1>10, TotalsAreBacked, TotalsAreBackedNext DEF side

LEMMA RestoreOrderTotals == IInv /\ TotalsMatch /\ RestoreOrder => TotalsMatch'
<1> SUFFICES ASSUME IInv, TotalsMatch, RestoreOrder PROVE TotalsMatch'
  OBVIOUS
<1>1. PICK o \in withdrawn : levels' = AddOrderToBook(levels, o)
  BY Zenon DEF RestoreOrder
<1>2. o \in Order /\ o.price \in Prices /\ IsBook(levels)
  BY DEF IInv, TypeOK, IdsInv
<1> QED
  BY <1>1, <1>2, AddOrderToBookTotals, TotalsAreBacked, TotalsAreBackedNext

LEMMA TotalsStep == IInv /\ TotalsMatch /\ [Next]_vars => TotalsMatch'
<1> SUFFICES ASSUME IInv, TotalsMatch, [Next]_vars PROVE TotalsMatch'
  OBVIOUS
<1>1. CASE UNCHANGED levels
  BY <1>1 DEF TotalsMatch
<1>2. CASE AddLimitOrder \/ AddMarketOrder \/ EnterLevel \/ LeaveLevel \/ UNCHANGED vars
  BY <1>1, <1>2 DEF AddLimitOrder, AddMarketOrder, Add, EnterLevel, LeaveLevel, vars
<1> QED
  BY <1>2, MatchFrontTotals, FinishMatchTotals, CancelOrderTotals, RestoreOrderTotals DEF Next, MatchStep

-----------------------------------------------------------------------------
\* What a call reports as completed.

Entries(list) == {list[i] : i \in DOMAIN list}

NamedIn(trades) == {trades[i].buy : i \in DOMAIN trades} \cup {trades[i].sell : i \in DOMAIN trades}

\* While a match goes on, the orders it has exhausted are those its fills name and that have
\* nothing left, but for the taker, which is reported last; none is reported twice.
CompletedSoFar ==
  /\ IsFiniteSet(Entries(completed)) /\ Len(completed) = Cardinality(Entries(completed))
  /\ taker # NoOrder =>
       Entries(completed) = {id \in NamedIn(fills) \ {taker.id} : open[id] = 0}
  /\ taker = NoOrder /\ submitted > 0 =>
       Entries(completed) = {id \in {submitted} \cup NamedIn(fills) : open[id] = 0}

LEMMA NothingYet == /\ Entries(<< >>) = {} /\ NamedIn(<< >>) = {}
                    /\ IsFiniteSet({}) /\ Cardinality({}) = 0 /\ Len(<< >>) = 0
  BY FS_EmptySet DEF Entries, NamedIn

LEMMA CompletedAfterFacts ==
  ASSUME NEW list \in Seq(Ids), NEW o \in Order, IsFiniteSet(Entries(list)),
         Len(list) = Cardinality(Entries(list)), o.remaining = 0 => o.id \notin Entries(list)
  PROVE  LET next == CompletedAfter(list, o)
         IN /\ IsFiniteSet(Entries(next)) /\ Len(next) = Cardinality(Entries(next))
            /\ o.remaining # 0 => Entries(next) = Entries(list)
            /\ o.remaining = 0 => Entries(next) = Entries(list) \cup {o.id}
<1>1. CASE o.remaining # 0
  BY <1>1 DEF CompletedAfter
<1>2. CASE o.remaining = 0
  <2> DEFINE next == Append(list, o.id)
  <2>1. o.id \in Ids
    BY DEF Order
  <2>2. /\ Len(next) = Len(list) + 1 /\ Len(list) \in Nat
        /\ DOMAIN next = DOMAIN list \cup {Len(list) + 1} /\ next[Len(list) + 1] = o.id
        /\ \A i \in DOMAIN list : next[i] = list[i]
    BY <2>1
  <2> HIDE DEF next
  <2>3. Entries(next) = Entries(list) \cup {o.id}
    <3>1. Entries(next) \subseteq Entries(list) \cup {o.id}
      BY <2>2 DEF Entries
    <3>2. Entries(list) \subseteq Entries(next) /\ o.id \in Entries(next)
      BY <2>2 DEF Entries
    <3> QED
      BY <3>1, <3>2
  <2>4. IsFiniteSet(Entries(next)) /\ Cardinality(Entries(next)) = Cardinality(Entries(list)) + 1
    BY <1>2, <2>3, FS_AddElement
  <2> QED
    BY <1>2, <2>2, <2>3, <2>4 DEF CompletedAfter, next
<1> QED
  BY <1>1, <1>2

LEMMA AddCompleted ==
  ASSUME IInv, NEW side \in Sides, NEW kind \in {"limit", "market"},
         NEW price \in Prices \cup {NoPrice}, NEW quantity \in Quantities,
         Add(side, kind, price, quantity)
  PROVE  CompletedSoFar'
<1>1. completed' = << >> /\ fills' = << >>
  BY DEF Add
<1>2. submitted + 1 \in Ids
  BY BoundsAssumption DEF Add, IInv, TypeOK, Ids
<1>3. taker' \in Order
  BY <1>2, QuantitiesAssumption DEF Add, Order
<1>4. taker' # NoOrder
  BY <1>3, NoOrderAssumption
<1> QED
  BY <1>1, <1>4, NothingYet DEF CompletedSoFar

LEMMA MatchFrontCompleted == IInv /\ CompletedSoFar /\ MatchFront => CompletedSoFar'
<1> SUFFICES ASSUME IInv, CompletedSoFar, MatchFront PROVE CompletedSoFar'
  OBVIOUS
<1> DEFINE opp   == Opposite(taker.side)
           level == levels[opp][cur]
           queue == level.queue
           front == Head(queue)
           q     == Smaller(taker.remaining, front.remaining)
           rest  == [front EXCEPT !.remaining = @ - q]
           buy   == IF taker.side = "bid" THEN taker.id ELSE front.id
           sell  == IF taker.side = "bid" THEN front.id ELSE taker.id
           fill  == [buy |-> buy, sell |-> sell, price |-> cur, quantity |-> q]
<1>1. /\ taker # NoOrder /\ cur # NoPrice /\ queue # << >>
      /\ taker' = [taker EXCEPT !.remaining = @ - q]
      /\ fills' = Append(fills, fill)
      /\ completed' = CompletedAfter(completed, rest)
      /\ open' = [open EXCEPT ![buy] = @ - q, ![sell] = @ - q]
  BY DEF MatchFront
<1>2. /\ taker \in Order /\ taker.side \in Sides /\ taker.id \in Ids /\ taker.remaining \in Nat
      /\ opp \in Sides /\ PartialFunction(levels[opp], Prices, Level)
  BY <1>1, OppositeFacts
<1>3. cur \in DOMAIN levels[opp] /\ cur \in Prices
  BY <1>1, <1>2 DEF IInv, ScanInv, PartialFunction
<1>4. queue \in Seq(Order)
  BY <1>2, <1>3 DEF PartialFunction, Level
<1> HIDE DEF opp, level, queue
<1>5. \A i \in DOMAIN queue :
        /\ queue[i].remaining > 0
        /\ queue[i].id \in DOMAIN orders /\ orders[queue[i].id] = queue[i]
  BY <1>2, <1>3 DEF IInv, IndexMatchesLevels, QueuedIsIndexed, level, queue
<1>6. 1 \in DOMAIN queue /\ front = queue[1] /\ front \in Order
  BY <1>1, <1>4
<1> HIDE DEF front
<1>7. /\ front.remaining \in Nat /\ front.remaining > 0 /\ front.id \in Ids
      /\ front.id # taker.id /\ open[front.id] = front.remaining
  <2>1. front.remaining \in Nat /\ front.id \in Ids
    BY <1>6 DEF Order
  <2> QED
    BY <1>1, <1>5, <1>6, <2>1 DEF IInv, IdsInv, QuantityConserved
<1>8. q \in Nat /\ q <= taker.remaining /\ q <= front.remaining
  BY <1>2, <1>7 DEF Smaller
<1> HIDE DEF q
<1>9. taker'.id = taker.id /\ taker' # NoOrder
  BY <1>1, <1>2, <1>8, NoOrderAssumption DEF Order
<1>10. /\ rest.id = front.id /\ rest.remaining = front.remaining - q
  BY <1>6 DEF Order
<1>11. rest \in Order
  <2>1. front.remaining - q \in Nat
    BY <1>7, <1>8
  <2> QED
    BY <1>6, <2>1 DEF Order
<1> HIDE DEF rest
<1>12. /\ open'[front.id] = rest.remaining
       /\ \A id \in Ids : id # taker.id /\ id # front.id => open'[id] = open[id]
  <2>1. open \in [Ids -> Int]
    BY DEF IInv, TypeOK
  <2>2. buy \in Ids /\ sell \in Ids /\ buy # sell /\ {buy, sell} = {taker.id, front.id}
    BY <1>2, <1>7
  <2> HIDE DEF buy, sell
  <2>3. open' = [id \in Ids |-> IF id = buy \/ id = sell THEN open[id] - q ELSE open[id]]
    BY <1>1, <2>1, <2>2
  <2> QED
    BY <1>2, <1>7, <1>10, <2>1, <2>2, <2>3
<1>13. NamedIn(fills') = NamedIn(fills) \cup {taker.id, front.id}
  <2>1. fills \in Seq([buy : Ids, sell : Ids, price : Prices, quantity : Nat])
    BY DEF IInv, TypeOK
  <2>2. {fill.buy, fill.sell} = {taker.id, front.id}
        /\ fill \in [buy : Ids, sell : Ids, price : Prices, quantity : Nat]
    BY <1>2, <1>3, <1>7, <1>8
  <2> HIDE DEF fill
  <2>3. /\ DOMAIN fills' = DOMAIN fills \cup {Len(fills) + 1} /\ fills'[Len(fills) + 1] = fill
        /\ \A i \in DOMAIN fills : fills'[i] = fills[i]
    BY <1>1, <2>1, <2>2
  <2>4. \A i \in DOMAIN fills' : fills'[i] = IF i \in DOMAIN fills THEN fills[i] ELSE fill
    BY <2>3
  <2>5. {fills'[i].buy : i \in DOMAIN fills'} = {fills[i].buy : i \in DOMAIN fills} \cup {fill.buy}
    <3>1. {fills'[i].buy : i \in DOMAIN fills'} \subseteq {fills[i].buy : i \in DOMAIN fills} \cup {fill.buy}
      BY <2>4
    <3>2. \A i \in DOMAIN fills : fills[i].buy \in {fills'[j].buy : j \in DOMAIN fills'}
      BY <2>3
    <3>3. fill.buy \in {fills'[j].buy : j \in DOMAIN fills'}
      BY <2>3
    <3> QED
      BY <3>1, <3>2, <3>3
  <2>6. {fills'[i].sell : i \in DOMAIN fills'} = {fills[i].sell : i \in DOMAIN fills} \cup {fill.sell}
    <3>1. {fills'[i].sell : i \in DOMAIN fills'} \subseteq {fills[i].sell : i \in DOMAIN fills} \cup {fill.sell}
      BY <2>4
    <3>2. \A i \in DOMAIN fills : fills[i].sell \in {fills'[j].sell : j \in DOMAIN fills'}
      BY <2>3
    <3>3. fill.sell \in {fills'[j].sell : j \in DOMAIN fills'}
      BY <2>3
    <3> QED
      BY <3>1, <3>2, <3>3
  <2> QED
    BY <2>2, <2>5, <2>6 DEF NamedIn
<1>14. NamedIn(fills) \subseteq Ids
  <2>1. PICK Fill : Fill = [buy : Ids, sell : Ids, price : Prices, quantity : Nat]
    OBVIOUS
  <2>2. fills \in Seq(Fill)
    BY <2>1 DEF IInv, TypeOK
  <2>3. \A i \in DOMAIN fills : fills[i] \in Fill
    BY <2>2
  <2> QED
    BY <2>1, <2>3 DEF NamedIn
<1>15. Entries(completed) = {id \in NamedIn(fills) \ {taker.id} : open[id] = 0}
  BY <1>1 DEF CompletedSoFar
<1>16. /\ IsFiniteSet(Entries(completed')) /\ Len(completed') = Cardinality(Entries(completed'))
       /\ rest.remaining # 0 => Entries(completed') = Entries(completed)
       /\ rest.remaining = 0 => Entries(completed') = Entries(completed) \cup {front.id}
  <2>1. front.id \notin Entries(completed)
    BY <1>7, <1>15
  <2>2. completed \in Seq(Ids)
    BY DEF IInv, TypeOK
  <2> QED
    BY <1>1, <1>10, <1>11, <2>1, <2>2, CompletedAfterFacts DEF CompletedSoFar
<1>17. Entries(completed') = {id \in NamedIn(fills') \ {taker.id} : open'[id] = 0}
  <2>1. front.id \in Entries(completed') <=> open'[front.id] = 0
    BY <1>7, <1>12, <1>15, <1>16
  <2>2. \A id : id # front.id =>
          (id \in Entries(completed') <=> id \in NamedIn(fills') \ {taker.id} /\ open'[id] = 0)
    BY <1>12, <1>13, <1>14, <1>15, <1>16
  <2> QED
    BY <1>7, <1>13, <1>16, <2>1, <2>2
<1> QED
  BY <1>9, <1>16, <1>17 DEF CompletedSoFar

LEMMA FinishMatchCompleted == IInv /\ CompletedSoFar /\ FinishMatch => CompletedSoFar'
<1> SUFFICES ASSUME IInv, CompletedSoFar, FinishMatch PROVE CompletedSoFar'
  OBVIOUS
<1>1. /\ taker # NoOrder /\ taker' = NoOrder /\ UNCHANGED <<fills, submitted, open>>
      /\ completed' = CompletedAfter(completed, taker)
  BY DEF FinishMatch
<1>2. taker \in Order /\ taker.id = submitted /\ open[taker.id] = taker.remaining
  BY <1>1, OppositeFacts DEF IInv, IdsInv, QuantityConserved
<1>3. Entries(completed) = {id \in NamedIn(fills) \ {taker.id} : open[id] = 0}
  BY <1>1 DEF CompletedSoFar
<1>4. completed \in Seq(Ids)
  BY DEF IInv, TypeOK
<1>5. /\ IsFiniteSet(Entries(completed')) /\ Len(completed') = Cardinality(Entries(completed'))
      /\ taker.remaining # 0 => Entries(completed') = Entries(completed)
      /\ taker.remaining = 0 => Entries(completed') = Entries(completed) \cup {taker.id}
  BY <1>1, <1>2, <1>3, <1>4, CompletedAfterFacts DEF CompletedSoFar
<1>6. Entries(completed') = {id \in {submitted} \cup NamedIn(fills) : open[id] = 0}
  <2>1. CASE taker.remaining = 0
    BY <1>2, <1>3, <1>5, <2>1
  <2>2. CASE taker.remaining # 0
    BY <1>2, <1>3, <1>5, <2>2
  <2> QED
    BY <2>1, <2>2
<1> QED
  BY <1>1, <1>5, <1>6 DEF CompletedSoFar

LEMMA CompletedStep == IInv /\ CompletedSoFar /\ [Next]_vars => CompletedSoFar'
<1> SUFFICES ASSUME IInv, CompletedSoFar, [Next]_vars PROVE CompletedSoFar'
  OBVIOUS
<1>1. CASE UNCHANGED <<completed, fills, taker, submitted, open>>
  BY <1>1 DEF CompletedSoFar
<1>2. CASE EnterLevel \/ LeaveLevel \/ CancelOrder \/ RestoreOrder \/ UNCHANGED vars
  BY <1>1, <1>2 DEF EnterLevel, LeaveLevel, CancelOrder, RestoreOrder, vars
<1>3. CASE AddLimitOrder
  <2>1. PICK side \in Sides, price \in Prices, quantity \in Quantities :
          Add(side, "limit", price, quantity)
    BY <1>3, Zenon DEF AddLimitOrder
  <2> QED
    BY <2>1, AddCompleted
<1>4. CASE AddMarketOrder
  <2>1. PICK side \in Sides, quantity \in Quantities : Add(side, "market", NoPrice, quantity)
    BY <1>4, Zenon DEF AddMarketOrder
  <2> QED
    BY <2>1, AddCompleted
<1> QED
  BY <1>2, <1>3, <1>4, MatchFrontCompleted, FinishMatchCompleted DEF Next, MatchStep

-----------------------------------------------------------------------------
\* Every variable of the book keeps its type: in particular no remaining quantity goes
\* below zero in any fill.
THEOREM TypeCorrect == Spec => []TypeOK
<1>1. IInv => TypeOK
  BY DEF IInv
<1> QED
  BY <1>1, Invariance, PTL

\* The index that cancel_order and order_exists read and the queues that match_order
\* consumes hold the same orders with the same remaining quantities, at every point.
THEOREM IndexCorrect == Spec => []IndexMatchesLevels
<1>1. IInv => IndexMatchesLevels
  BY DEF IInv
<1> QED
  BY <1>1, Invariance, PTL

\* Every price the book shows between two calls is backed by an order.
THEOREM LevelsAreBacked == Spec => []NoEmptyLevel
<1>1. IInv => NoEmptyLevel
  BY DEF IInv
<1> QED
  BY <1>1, Invariance, PTL

\* The book is never crossed: no bid at or above an ask is ever left standing.
THEOREM BookNeverCrossed == Spec => []NotCrossed
<1>1. IInv => NotCrossed
  BY DEF IInv
<1> QED
  BY <1>1, Invariance, PTL

\* What an order has left is what it came with minus the fills that name it.
THEOREM QuantityIsConserved == Spec => []QuantityConserved
<1>1. IInv => QuantityConserved
  BY DEF IInv
<1> QED
  BY <1>1, Invariance, PTL

\* The total that a level shows is the sum of what its orders have left, between any two fills
\* too: it is only ever added to and subtracted from, and never computed anew.
THEOREM TotalsAlwaysMatch == Spec => []TotalsMatch
<1>1. Init => TotalsMatch
  BY DEF Init, TotalsMatch
<1>2. IInv /\ TotalsMatch /\ [Next]_vars => TotalsMatch'
  BY TotalsStep
<1> QED
  BY <1>1, <1>2, Invariance, PTL DEF Spec

\* Of the orders a call touched, exactly those with nothing left are reported as completed, each
\* once: the service turns the report into OrderFilled events.
THEOREM AlwaysCompletedExactly == Spec => []CompletedExactly
<1>1. Init => CompletedSoFar
  BY NothingYet DEF Init, CompletedSoFar
<1>2. IInv /\ CompletedSoFar /\ [Next]_vars => CompletedSoFar'
  BY CompletedStep
<1>3. CompletedSoFar => CompletedExactly
  <2> SUFFICES ASSUME CompletedSoFar, taker = NoOrder, submitted > 0
               PROVE  CompletedExactly
    BY DEF CompletedExactly
  <2>1. {submitted} \cup {fills[i].buy : i \in DOMAIN fills} \cup {fills[i].sell : i \in DOMAIN fills}
          = {submitted} \cup NamedIn(fills)
    BY DEF NamedIn
  <2> QED
    BY <2>1 DEF CompletedSoFar, CompletedExactly, Entries
<1> QED
  BY <1>1, <1>2, <1>3, Invariance, PTL DEF Spec

-----------------------------------------------------------------------------
(* Price-time priority. *)

\* In every queue the ranks rise.
Ranked(book, rank) ==
  \A s \in Sides : \A p \in DOMAIN book[s] :
     LET queue == book[s][p].queue
     IN \A i, j \in DOMAIN queue : i < j => rank[queue[i].id] < rank[queue[j].id]

\* Every indexed order has one of the ranks handed out, and stands behind those of its price
\* that have rested longer.
RankInv ==
  /\ ranks \in Nat
  /\ DOMAIN rankOf = DOMAIN orders
  /\ \A id \in DOMAIN orders : rankOf[id] \in 1 .. ranks
  /\ Ranked(levels, rankOf)

\* The level that is being consumed is acceptable, and better than all that is left of the scan.
BestInv ==
  taker # NoOrder /\ cur # NoPrice =>
    /\ CanMatch(taker, cur)
    /\ \A p \in todo : IF taker.side = "bid" THEN cur < p ELSE cur > p

\* No order has more left than it came with.
Sized(o) == o.quantity \in Quantities /\ o.remaining <= o.quantity

SizeInv ==
  /\ \A id \in DOMAIN orders : Sized(orders[id])
  /\ taker # NoOrder => Sized(taker)
  /\ \A o \in withdrawn : Sized(o)

PriorityInv == RankInv /\ BestInv /\ SizeInv

\* Any two orders of the one queue stand in the other, in the same order.
Thinned(new, old) ==
  \A i, j \in DOMAIN new : i < j =>
     \E k, l \in DOMAIN old : k < l /\ old[k].id = new[i].id /\ old[l].id = new[j].id

\* What one fill does to the taker, the front of the level, and the queues.
LEMMA MatchFrontEffect ==
  ASSUME IInv, MatchFront
  PROVE  LET opp   == Opposite(taker.side)
             queue == levels[opp][cur].queue
             front == queue[1]
             q     == Smaller(taker.remaining, front.remaining)
             rest  == [front EXCEPT !.remaining = @ - q]
         IN /\ taker # NoOrder /\ cur # NoPrice /\ taker.remaining > 0
            /\ taker' \in Order /\ taker' = [taker EXCEPT !.remaining = @ - q]
            /\ cur \in DOMAIN levels[opp] /\ 1 \in DOMAIN queue
            /\ front \in Order /\ front.side = opp /\ front.price = cur
            /\ front.id \in DOMAIN orders /\ orders[front.id] = front
            /\ q \in Nat /\ q <= front.remaining
            /\ orders' = IndexAfter(orders, rest) /\ rest.id = front.id
            /\ fills' = Append(fills, [buy |-> IF taker.side = "bid" THEN taker.id ELSE front.id,
                                       sell |-> IF taker.side = "bid" THEN front.id ELSE taker.id,
                                       price |-> cur, quantity |-> q])
            /\ \A s \in Sides : DOMAIN levels'[s] = DOMAIN levels[s]
            /\ \A s \in Sides : \A p \in DOMAIN levels[s] :
                 Thinned(levels'[s][p].queue, levels[s][p].queue)
            /\ UNCHANGED <<todo, cur, submitted, withdrawn>>
<1> DEFINE opp   == Opposite(taker.side)
           level == levels[opp][cur]
           queue == level.queue
           front == queue[1]
           q     == Smaller(taker.remaining, front.remaining)
           rest  == [front EXCEPT !.remaining = @ - q]
           after == QueueAfter(queue, rest)
           next  == [queue |-> after, total |-> level.total - q]
<1>1. taker # NoOrder /\ cur # NoPrice /\ taker.remaining > 0 /\ queue # << >>
  BY DEF MatchFront
<1>2. /\ taker \in Order /\ taker.remaining \in Nat /\ opp \in Sides
      /\ PartialFunction(levels[opp], Prices, Level)
  BY <1>1, OppositeFacts
<1>3. /\ cur \in DOMAIN levels[opp] /\ level \in Level /\ queue \in Seq(Order)
  <2>1. cur \in DOMAIN levels[opp]
    BY <1>1 DEF IInv, ScanInv
  <2>2. QED
    BY <1>2, <2>1 DEF PartialFunction, Level
<1>4. /\ 1 \in DOMAIN queue /\ Head(queue) = front /\ front \in Order
      /\ DOMAIN queue = 1 .. Len(queue) /\ Len(queue) \in Nat
  <2> HIDE DEF queue
  <2>1. QED
    BY <1>1, <1>3
<1>5. /\ taker' = [taker EXCEPT !.remaining = @ - q]
      /\ levels' = [levels EXCEPT ![opp][cur] = next]
      /\ orders' = IndexAfter(orders, rest)
      /\ fills' = Append(fills, [buy |-> IF taker.side = "bid" THEN taker.id ELSE front.id,
                                 sell |-> IF taker.side = "bid" THEN front.id ELSE taker.id,
                                 price |-> cur, quantity |-> q])
      /\ UNCHANGED <<todo, cur, submitted, withdrawn>>
  BY <1>4, Zenon DEF MatchFront
<1>6. /\ front.side = opp /\ front.price = cur
      /\ front.id \in DOMAIN orders /\ orders[front.id] = front
  BY <1>2, <1>3, <1>4 DEF IInv, IndexMatchesLevels, QueuedIsIndexed
<1> HIDE DEF opp, level, queue, front
<1>7. front.remaining \in Nat /\ q \in Nat /\ q <= front.remaining /\ q <= taker.remaining
  BY <1>2, <1>4 DEF Order, Smaller
<1> HIDE DEF q
<1>8. taker' \in Order /\ rest.id = front.id
  <2>1. taker' = [taker EXCEPT !.remaining = @ - q] /\ taker.remaining - q \in Nat
    BY <1>2, <1>5, <1>7
  <2>2. taker' \in Order
    BY <1>2, <2>1 DEF Order
  <2>3. rest.id = front.id
    BY <1>4 DEF Order
  <2>4. QED
    BY <2>2, <2>3
<1> HIDE DEF rest
<1>9. Thinned(after, queue)
  <2>1. CASE rest.remaining = 0
    <3>1. after = Tail(queue)
      BY <2>1 DEF QueueAfter
    <3>2. /\ DOMAIN after = 1 .. Len(queue) - 1
          /\ \A i \in 1 .. Len(queue) - 1 : after[i] = queue[i + 1]
      BY <1>1, <1>3, <1>4, <3>1, HeadTailProperties
    <3> HIDE DEF after
    <3>3. ASSUME NEW i \in DOMAIN after, NEW j \in DOMAIN after, i < j
          PROVE  /\ i + 1 \in DOMAIN queue /\ j + 1 \in DOMAIN queue /\ i + 1 < j + 1
                 /\ queue[i + 1].id = after[i].id /\ queue[j + 1].id = after[j].id
      BY <1>4, <3>2, <3>3
    <3>4. QED
      BY <3>3 DEF Thinned
  <2>2. CASE rest.remaining # 0
    <3>1. after = [queue EXCEPT ![1] = rest]
      BY <2>2 DEF QueueAfter, ReplaceAt
    <3>2. DOMAIN after = DOMAIN queue /\ \A i \in DOMAIN queue : after[i] = IF i = 1 THEN rest ELSE queue[i]
      BY <1>3, <1>4, <3>1
    <3> HIDE DEF after
    <3>3. \A i \in DOMAIN queue : after[i].id = queue[i].id
      BY <1>8, <3>2 DEF front
    <3>4. QED
      BY <3>2, <3>3 DEF Thinned
  <2>3. QED
    BY <2>1, <2>2
<1>10. next.queue = after
  OBVIOUS
<1> HIDE DEF next, after
<1>11. /\ levels = [s \in Sides |-> levels[s]]
       /\ \A s \in Sides : \A p \in DOMAIN levels[s] : Thinned(levels[s][p].queue, levels[s][p].queue)
  BY DEF IInv, TypeOK, IsBook, Thinned
<1>12. /\ \A s \in Sides : DOMAIN levels'[s] = DOMAIN levels[s]
       /\ \A s \in Sides : \A p \in DOMAIN levels[s] :
            levels'[s][p] = IF s = opp /\ p = cur THEN next ELSE levels[s][p]
  BY <1>2, <1>3, <1>5, <1>11
<1>13. \A s \in Sides : \A p \in DOMAIN levels[s] : Thinned(levels'[s][p].queue, levels[s][p].queue)
  BY <1>9, <1>10, <1>11, <1>12 DEF level, queue
<1> QED
  BY <1>1, <1>3, <1>4, <1>5, <1>6, <1>7, <1>8, <1>12, <1>13, Zenon DEF opp, level, queue, front, q, rest

\* What a cancellation does to the queues and the index.
LEMMA CancelOrderEffect ==
  ASSUME IInv, CancelOrder
  PROVE  \E id \in DOMAIN orders :
           /\ taker = NoOrder /\ orders' = Without(orders, id) /\ withdrawn' = {orders[id]}
           /\ \A s \in Sides : DOMAIN levels'[s] \subseteq DOMAIN levels[s]
           /\ \A s \in Sides : \A p \in DOMAIN levels'[s] :
                Thinned(levels'[s][p].queue, levels[s][p].queue)
           /\ UNCHANGED <<taker, todo, cur, fills, submitted>>
<1>1. PICK id \in DOMAIN orders :
        /\ levels' = RemoveOrderFromBook(levels, orders[id])
        /\ orders' = Without(orders, id)
        /\ withdrawn' = {orders[id]}
  BY Zenon DEF CancelOrder
<1>2. taker = NoOrder /\ UNCHANGED <<taker, todo, cur, fills, submitted>>
  BY DEF CancelOrder
<1> DEFINE o     == orders[id]
           side  == levels[o.side]
           level == side[o.price]
           queue == level.queue
           at    == EntryOf(queue, o.id)
           kept  == LevelWithout(level, o.id)
           after == IF kept.queue = << >> THEN Without(side, o.price)
                                          ELSE [side EXCEPT ![o.price] = kept]
<1>3. o \in Order /\ o.side \in Sides
  BY DEF IInv, TypeOK, PartialFunction, Order
<1>4. /\ o.id = id /\ o.price \in DOMAIN side
      /\ \E i \in DOMAIN queue : queue[i] = o
  BY DEF IInv, IndexMatchesLevels, IndexedIsQueued
<1>5. /\ levels = [s \in Sides |-> levels[s]]
      /\ \A s \in Sides : PartialFunction(levels[s], Prices, Level)
  BY DEF IInv, TypeOK, IsBook
<1>6. side = [p \in DOMAIN side |-> side[p]] /\ level \in Level /\ queue \in Seq(Order)
  BY <1>3, <1>4, <1>5 DEF PartialFunction, Level
<1>7. at \in 1 .. Len(queue) /\ kept.queue = RemoveAt(queue, at)
  <2> HIDE DEF level
  <2>1. PICK k \in DOMAIN queue : queue[k] = o
    BY <1>4
  <2>2. queue[k].id = o.id
    BY <2>1
  <2>3. QED
    BY <1>6, <2>2, LevelWithoutFacts
<1>8. levels' = [levels EXCEPT ![o.side] = after]
  BY <1>1 DEF RemoveOrderFromBook
<1> HIDE DEF at, kept, level, queue
<1>9. /\ DOMAIN queue = 1 .. Len(queue) /\ DOMAIN kept.queue = 1 .. Len(queue) - 1 /\ Len(queue) \in Nat
      /\ \A j \in 1 .. Len(queue) - 1 : kept.queue[j] = IF j < at THEN queue[j] ELSE queue[j + 1]
  <2>1. /\ RemoveAt(queue, at) \in Seq(Order)
        /\ Len(RemoveAt(queue, at)) = Len(queue) - 1
        /\ \A j \in 1 .. Len(queue) - 1 :
             RemoveAt(queue, at)[j] = IF j < at THEN queue[j] ELSE queue[j + 1]
    BY <1>6, <1>7, RemoveAtFacts
  <2>2. QED
    BY <1>6, <1>7, <2>1
<1>10. Thinned(kept.queue, queue)
  <2> DEFINE from(j) == IF j < at THEN j ELSE j + 1
  <2>1. ASSUME NEW i \in DOMAIN kept.queue, NEW j \in DOMAIN kept.queue, i < j
        PROVE  /\ from(i) \in DOMAIN queue /\ from(j) \in DOMAIN queue /\ from(i) < from(j)
               /\ queue[from(i)] = kept.queue[i] /\ queue[from(j)] = kept.queue[j]
    BY <1>7, <1>9, <2>1
  <2> HIDE DEF from
  <2>2. QED
    BY <2>1 DEF Thinned
<1>11. /\ DOMAIN after \subseteq DOMAIN side
       /\ \A p \in DOMAIN after : after[p] = IF p = o.price THEN kept ELSE side[p]
  BY <1>4, <1>6 DEF Without
<1>12. \A s \in Sides : levels'[s] = IF s = o.side THEN after ELSE levels[s]
  <2> HIDE DEF after, o, side
  <2>1. QED
    BY <1>3, <1>5, <1>8
<1> HIDE DEF after
<1>13. \A s \in Sides : \A p \in DOMAIN levels[s] : Thinned(levels[s][p].queue, levels[s][p].queue)
  BY DEF Thinned
<1>14. ASSUME NEW s \in Sides, NEW p \in DOMAIN levels'[s]
       PROVE  p \in DOMAIN levels[s] /\ Thinned(levels'[s][p].queue, levels[s][p].queue)
  <2>1. CASE s = o.side /\ p = o.price
    BY <1>10, <1>11, <1>12, <1>14, <2>1 DEF queue, level
  <2>2. CASE s = o.side /\ p # o.price
    BY <1>11, <1>12, <1>13, <1>14, <2>2
  <2>3. CASE s # o.side
    BY <1>12, <1>13, <1>14, <2>3
  <2>4. QED
    BY <2>1, <2>2, <2>3
<1> QED
  BY <1>1, <1>2, <1>14

\* Ranks where no order has come to rest.
LEMMA RanksStay ==
  ASSUME IInv, IInv', RankInv, Rank, DOMAIN orders' \subseteq DOMAIN orders,
         \A s \in Sides : \A p \in DOMAIN levels'[s] :
            p \in DOMAIN levels[s] /\ Thinned(levels'[s][p].queue, levels[s][p].queue)
  PROVE  /\ RankInv' /\ ranks' = ranks
         /\ \A id \in DOMAIN orders' : rankOf'[id] = rankOf[id]
<1>1. /\ ranks' = ranks /\ DOMAIN rankOf' = DOMAIN orders'
      /\ \A id \in DOMAIN orders' : rankOf'[id] = rankOf[id]
  BY DEF Rank
<1>2. \A id \in DOMAIN orders' : rankOf'[id] \in 1 .. ranks
  BY <1>1 DEF RankInv
<1>3. Ranked(levels', rankOf')
  <2> SUFFICES ASSUME NEW s \in Sides, NEW p \in DOMAIN levels'[s],
                      NEW i \in DOMAIN levels'[s][p].queue, NEW j \in DOMAIN levels'[s][p].queue,
                      i < j
               PROVE  rankOf'[levels'[s][p].queue[i].id] < rankOf'[levels'[s][p].queue[j].id]
    BY DEF Ranked
  <2> DEFINE new == levels'[s][p].queue
             old == levels[s][p].queue
  <2>1. new[i].id \in DOMAIN orders' /\ new[j].id \in DOMAIN orders'
    BY DEF IInv, IndexMatchesLevels, QueuedIsIndexed
  <2>2. p \in DOMAIN levels[s] /\ Thinned(new, old)
    OBVIOUS
  <2>3. \A k, l \in DOMAIN old : k < l => rankOf[old[k].id] < rankOf[old[l].id]
    BY <2>2 DEF RankInv, Ranked
  <2> HIDE DEF new, old
  <2>4. i \in DOMAIN new /\ j \in DOMAIN new
    BY DEF new
  <2>5. rankOf[new[i].id] < rankOf[new[j].id]
    BY <2>2, <2>3, <2>4 DEF Thinned
  <2>6. rankOf'[new[i].id] < rankOf'[new[j].id]
    BY <1>1, <2>1, <2>5
  <2>7. QED
    BY <2>6 DEF new
<1> QED
  BY <1>1, <1>2, <1>3 DEF RankInv

\* Ranks where an order has come to rest behind the level of its price.
LEMMA RanksGrow ==
  ASSUME IInv, IInv', RankInv, Rank, NEW o \in Order, o.price \in Prices, o.id \notin DOMAIN orders,
         NEW b, IsBook(b), levels' = AddOrderToBook(b, o), orders' = Indexed(orders, o),
         \A s \in Sides : \A p \in DOMAIN b[s] : p \in DOMAIN levels[s] /\ b[s][p] = levels[s][p]
  PROVE  /\ RankInv' /\ ranks' = ranks + 1 /\ rankOf'[o.id] = ranks + 1
         /\ \A id \in DOMAIN orders : rankOf'[id] = rankOf[id]
<1>1. /\ DOMAIN orders' = DOMAIN orders \cup {o.id}
      /\ DOMAIN orders' \ DOMAIN orders = {o.id}
  BY DEF Indexed
<1>2. /\ ranks' = ranks + 1 /\ DOMAIN rankOf' = DOMAIN orders' /\ rankOf'[o.id] = ranks + 1
      /\ \A id \in DOMAIN orders : rankOf'[id] = rankOf[id]
  BY <1>1 DEF Rank
<1>3. /\ ranks \in Nat /\ ranks' \in Nat
      /\ \A id \in DOMAIN orders : rankOf[id] \in 1 .. ranks
      /\ \A id \in DOMAIN orders' : rankOf'[id] \in 1 .. ranks'
  BY <1>1, <1>2 DEF RankInv
<1>4. /\ \A s \in Sides : DOMAIN levels'[s] = IF s = o.side THEN DOMAIN b[s] \cup {o.price}
                                                            ELSE DOMAIN b[s]
      /\ \A s \in Sides : \A p \in DOMAIN b[s] :
           s # o.side \/ p # o.price => levels'[s][p] = b[s][p]
      /\ levels'[o.side][o.price].queue = Append(LevelAt(b[o.side], o.price).queue, o)
  <2> DEFINE Added(c) ==
        /\ \A s \in Sides : DOMAIN c[s] = IF s = o.side THEN DOMAIN b[s] \cup {o.price}
                                                        ELSE DOMAIN b[s]
        /\ \A s \in Sides : \A p \in DOMAIN b[s] :
             s # o.side \/ p # o.price => c[s][p] = b[s][p]
        /\ c[o.side][o.price].queue = Append(LevelAt(b[o.side], o.price).queue, o)
  <2>1. Added(AddOrderToBook(b, o))
    BY ZenonT(40), AddOrderToBookFacts
  <2> HIDE DEF Added
  <2>2. Added(levels')
    BY <2>1
  <2>3. QED
    BY <2>2 DEF Added
<1>5. /\ o.side \in Sides
      /\ \A s \in Sides : \A p \in DOMAIN levels[s] :
           \A i \in DOMAIN levels[s][p].queue : levels[s][p].queue[i].id \in DOMAIN orders
  BY DEF Order, IInv, IndexMatchesLevels, QueuedIsIndexed
<1>6. \A s \in Sides : \A p \in DOMAIN b[s] :
        \A i, j \in DOMAIN b[s][p].queue :
           /\ b[s][p].queue[i].id \in DOMAIN orders
           /\ i < j => rankOf[b[s][p].queue[i].id] < rankOf[b[s][p].queue[j].id]
  BY <1>5 DEF RankInv, Ranked
<1>7. ASSUME NEW s \in Sides, NEW p \in DOMAIN levels'[s],
             NEW i \in DOMAIN levels'[s][p].queue, NEW j \in DOMAIN levels'[s][p].queue, i < j
      PROVE  rankOf'[levels'[s][p].queue[i].id] < rankOf'[levels'[s][p].queue[j].id]
  <2>1. CASE s = o.side /\ p = o.price
    <3> DEFINE before == LevelAt(b[o.side], o.price).queue
    <3>1. /\ before \in Seq(Order)
          /\ \A k, l \in DOMAIN before :
               /\ before[k].id \in DOMAIN orders
               /\ k < l => rankOf[before[k].id] < rankOf[before[l].id]
      <4>1. << >> \in Seq(Order) /\ DOMAIN << >> = {}
        OBVIOUS
      <4>2. CASE o.price \in DOMAIN b[o.side]
        BY <1>5, <1>6, <4>2 DEF LevelAt, IsBook, PartialFunction, Level
      <4>3. CASE o.price \notin DOMAIN b[o.side]
        BY <4>1, <4>3 DEF LevelAt, NewLevel
      <4>4. QED
        BY <4>2, <4>3
    <3>2. levels'[s][p].queue = Append(before, o)
      BY <1>4, <2>1
    <3> HIDE DEF before
    <3>3. /\ i \in 1 .. Len(before) + 1 /\ j \in 1 .. Len(before) + 1 /\ Len(before) \in Nat
          /\ DOMAIN before = 1 .. Len(before)
          /\ \A k \in 1 .. Len(before) : Append(before, o)[k] = before[k]
          /\ Append(before, o)[Len(before) + 1] = o
      BY <1>7, <3>1, <3>2
    <3>4. i \in DOMAIN before /\ Append(before, o)[i] = before[i]
      BY <1>7, <3>3
    <3>5. rankOf'[before[i].id] = rankOf[before[i].id] /\ rankOf[before[i].id] \in 1 .. ranks
      BY <1>2, <1>3, <3>1, <3>4
    <3>6. CASE j \in DOMAIN before
      BY <1>2, <1>7, <3>1, <3>2, <3>3, <3>4, <3>5, <3>6
    <3>7. CASE j = Len(before) + 1
      BY <1>2, <1>3, <3>2, <3>3, <3>4, <3>5, <3>7
    <3>8. QED
      BY <3>3, <3>6, <3>7
  <2>2. CASE ~(s = o.side /\ p = o.price)
    <3>1. p \in DOMAIN b[s]
      <4>1. DOMAIN levels'[s] = IF s = o.side THEN DOMAIN b[s] \cup {o.price} ELSE DOMAIN b[s]
        BY Zenon, <1>4, <1>7
      <4>2. QED
        BY Zenon, <1>7, <2>2, <4>1
    <3>3. levels'[s][p] = b[s][p]
      BY Zenon, <1>4, <1>7, <2>2, <3>1
    <3>2. QED
      BY <1>2, <1>6, <1>7, <3>1, <3>3
  <2>3. QED
    BY <2>1, <2>2
<1> QED
  BY <1>2, <1>3, <1>7 DEF RankInv, Ranked

\* When the scan is over, no resting order is acceptable to what is left of the taker.
LEMMA ScanLeavesNothing ==
  ASSUME IInv, taker # NoOrder, cur = NoPrice, ScanOver, taker.remaining > 0,
         NEW id \in DOMAIN orders, orders[id].side = Opposite(taker.side)
  PROVE  ~CanMatch(taker, orders[id].price)
<1> DEFINE book == levels[Opposite(taker.side)]
           p    == orders[id].price
<1>1. p \in DOMAIN book /\ book[p].queue # << >>
  BY DEF IInv, IndexMatchesLevels, IndexedIsQueued
<1>2. /\ todo \subseteq DOMAIN book
      /\ p \notin emptied
      /\ CanMatch(taker, p) => p \in todo \cup emptied \cup {cur}
      /\ taker.kind = "limit" => taker.price \in Prices
  BY <1>1 DEF IInv, ScanInv
<1>3. /\ \A q \in DOMAIN book : q \in Int /\ q # NoPrice
      /\ taker.side \in Sides
  BY OppositeFacts
<1> HIDE DEF book, p
<1> SUFFICES ASSUME CanMatch(taker, p) PROVE FALSE
  BY DEF p
<1>4. p \in todo
  BY <1>1, <1>2, <1>3
<1>5. PICK best \in todo : BestIn(taker.side, todo, best) /\ ~CanMatch(taker, best)
  BY <1>4 DEF ScanOver
<1>6. best \in Int /\ p \in Int /\ taker.kind = "limit" /\ taker.price \in Int
  BY <1>2, <1>3, <1>4, <1>5, PricesAssumption DEF CanMatch
<1> QED
  BY <1>4, <1>5, <1>6 DEF BestIn, CanMatch

\* What the end of a match does to the taker, the queues and the index.
LEMMA FinishMatchEffect ==
  ASSUME IInv, FinishMatch
  PROVE  /\ taker # NoOrder /\ taker \in Order /\ taker' = NoOrder
         /\ UNCHANGED <<cur, fills, submitted, withdrawn>>
         /\ \E b :
              /\ IsBook(b)
              /\ \A s \in Sides : \A p \in DOMAIN b[s] : p \in DOMAIN levels[s] /\ b[s][p] = levels[s][p]
              /\ \/ /\ taker.kind = "limit" /\ taker.remaining > 0
                    /\ levels' = AddOrderToBook(b, taker) /\ orders' = Indexed(orders, taker)
                    /\ taker.price \in Prices /\ taker.id \notin DOMAIN orders
                 \/ /\ ~(taker.kind = "limit" /\ taker.remaining > 0)
                    /\ levels' = b /\ orders' = orders
<1> DEFINE opp   == Opposite(taker.side)
           side  == [p \in DOMAIN levels[opp] \ emptied |-> levels[opp][p]]
           swept == [levels EXCEPT ![opp] = [p \in DOMAIN @ \ emptied |-> @[p]]]
           rests == taker.remaining > 0 /\ taker.kind = "limit"
<1>1. /\ taker # NoOrder /\ cur = NoPrice
      /\ levels' = IF rests THEN AddOrderToBook(swept, taker) ELSE swept
      /\ orders' = IF rests THEN Indexed(orders, taker) ELSE orders
      /\ taker' = NoOrder /\ UNCHANGED <<cur, fills, submitted, withdrawn>>
  BY DEF FinishMatch
<1>2. taker \in Order /\ opp \in Sides
  BY <1>1, OppositeFacts
<1>3. rests => taker.price \in Prices /\ taker.id \notin DOMAIN orders
  BY <1>1 DEF IInv, ScanInv, IdsInv
<1>4. levels = [s \in Sides |-> levels[s]] /\ \A s \in Sides : PartialFunction(levels[s], Prices, Level)
  BY DEF IInv, TypeOK, IsBook
<1>5. /\ PartialFunction(side, Prices, Level) /\ DOMAIN side \subseteq DOMAIN levels[opp]
      /\ \A p \in DOMAIN side : side[p] = levels[opp][p]
  BY <1>2, <1>4 DEF PartialFunction
<1>6. swept = [levels EXCEPT ![opp] = side]
  OBVIOUS
<1> HIDE DEF side, swept
<1>7. swept = [s \in Sides |-> swept[s]] /\ swept[opp] = side
      /\ \A s \in Sides : s # opp => swept[s] = levels[s]
  BY <1>2, <1>4, <1>6
<1>8. /\ IsBook(swept)
      /\ \A s \in Sides : \A p \in DOMAIN swept[s] :
           p \in DOMAIN levels[s] /\ swept[s][p] = levels[s][p]
  BY <1>4, <1>5, <1>7 DEF IsBook
<1> QED
  BY <1>1, <1>2, <1>3, <1>8

\* What a restore does to the queues and the index.
LEMMA RestoreOrderEffect ==
  ASSUME IInv, RestoreOrder
  PROVE  \E o \in withdrawn :
           /\ taker = NoOrder /\ o \in Order /\ o.price \in Prices /\ o.remaining > 0
           /\ o.id \notin DOMAIN orders /\ o.id <= submitted
           /\ levels' = AddOrderToBook(levels, o) /\ orders' = Indexed(orders, o)
           /\ withdrawn' \subseteq withdrawn
           /\ UNCHANGED <<taker, todo, cur, fills, submitted>>
<1>1. PICK o \in withdrawn :
        /\ levels' = AddOrderToBook(levels, o)
        /\ orders' = Indexed(orders, o)
        /\ withdrawn' = withdrawn \ {o}
  BY Zenon DEF RestoreOrder
<1>2. taker = NoOrder /\ UNCHANGED <<taker, todo, cur, fills, submitted>>
  BY DEF RestoreOrder
<1>3. /\ o \in Order /\ o.price \in Prices /\ o.remaining > 0
      /\ o.id \notin DOMAIN orders /\ o.id <= submitted
  BY DEF IInv, TypeOK, IdsInv
<1> QED
  BY <1>1, <1>2, <1>3

-----------------------------------------------------------------------------
\* A step leaves the ranks of the orders that stay, and gives an order that comes to rest the last.
LEMMA RankStep == IInv /\ IInv' /\ RankInv /\ [HNext]_hvars => RankInv'
<1> SUFFICES ASSUME IInv, IInv', RankInv, [HNext]_hvars PROVE RankInv'
  OBVIOUS
<1>1. CASE UNCHANGED <<levels, orders>> /\ Rank
  <2>1. /\ ranks' = ranks /\ DOMAIN rankOf' = DOMAIN orders
        /\ \A id \in DOMAIN orders : rankOf'[id] = rankOf[id]
    BY <1>1 DEF Rank
  <2>2. \A s \in Sides : \A p \in DOMAIN levels'[s] :
          p \in DOMAIN levels[s] /\ Thinned(levels'[s][p].queue, levels[s][p].queue)
    BY <1>1 DEF Thinned
  <2>3. QED
    BY <1>1, <2>2, RanksStay
<1>2. CASE MatchFront /\ Rank
  <2>1. DOMAIN orders' \subseteq DOMAIN orders
    <3>1. PICK rest : orders' = IndexAfter(orders, rest)
      BY <1>2, Zenon, MatchFrontEffect
    <3>2. QED
      BY <3>1 DEF IndexAfter, Without
  <2>2. /\ \A s \in Sides : DOMAIN levels'[s] = DOMAIN levels[s]
        /\ \A s \in Sides : \A p \in DOMAIN levels[s] : Thinned(levels'[s][p].queue, levels[s][p].queue)
    BY <1>2, Zenon, MatchFrontEffect
  <2>3. QED
    BY <1>2, <2>1, <2>2, RanksStay
<1>3. CASE FinishMatch /\ Rank
  <2>1. PICK b :
          /\ IsBook(b)
          /\ \A s \in Sides : \A p \in DOMAIN b[s] : p \in DOMAIN levels[s] /\ b[s][p] = levels[s][p]
          /\ \/ /\ taker.kind = "limit" /\ taker.remaining > 0
                /\ levels' = AddOrderToBook(b, taker) /\ orders' = Indexed(orders, taker)
                /\ taker.price \in Prices /\ taker.id \notin DOMAIN orders
             \/ /\ ~(taker.kind = "limit" /\ taker.remaining > 0)
                /\ levels' = b /\ orders' = orders
    BY <1>3, Zenon, FinishMatchEffect
  <2>2. taker \in Order
    BY <1>3, FinishMatchEffect
  <2>3. CASE levels' = b /\ orders' = orders
    <3>1. \A s \in Sides : \A p \in DOMAIN levels'[s] :
            p \in DOMAIN levels[s] /\ Thinned(levels'[s][p].queue, levels[s][p].queue)
      BY <2>1, <2>3 DEF Thinned
    <3>2. QED
      BY <1>3, <2>3, <3>1, RanksStay
  <2>4. CASE ~(levels' = b /\ orders' = orders)
    BY <1>3, <2>1, <2>2, <2>4, RanksGrow
  <2>5. QED
    BY <2>3, <2>4
<1>4. CASE CancelOrder /\ Rank
  <2>1. PICK id \in DOMAIN orders :
           /\ orders' = Without(orders, id)
           /\ \A s \in Sides : DOMAIN levels'[s] \subseteq DOMAIN levels[s]
           /\ \A s \in Sides : \A p \in DOMAIN levels'[s] :
                Thinned(levels'[s][p].queue, levels[s][p].queue)
    BY <1>4, Zenon, CancelOrderEffect
  <2>2. DOMAIN orders' \subseteq DOMAIN orders
    BY <2>1 DEF Without
  <2>3. QED
    BY <1>4, <2>1, <2>2, RanksStay
<1>5. CASE RestoreOrder /\ Rank
  <2>1. PICK o \in withdrawn :
           /\ o \in Order /\ o.price \in Prices /\ o.id \notin DOMAIN orders
           /\ levels' = AddOrderToBook(levels, o) /\ orders' = Indexed(orders, o)
    BY <1>5, Zenon, RestoreOrderEffect
  <2>2. IsBook(levels)
    BY DEF IInv, TypeOK
  <2>3. QED
    BY <1>5, <2>1, <2>2, RanksGrow
<1>6. CASE UNCHANGED hvars
  BY <1>6 DEF hvars, vars, RankInv, Ranked
<1>7. ASSUME Next PROVE UNCHANGED <<levels, orders>> \/ MatchFront \/ FinishMatch \/ CancelOrder \/ RestoreOrder
  BY <1>7 DEF Next, MatchStep, AddLimitOrder, AddMarketOrder, Add, EnterLevel, LeaveLevel
<1> QED
  BY <1>1, <1>2, <1>3, <1>4, <1>5, <1>6, <1>7 DEF HNext

\* The scan enters the best level there is, and visits none twice.
LEMMA BestStep == IInv /\ BestInv /\ [Next]_vars => BestInv'
<1> SUFFICES ASSUME IInv, BestInv, [Next]_vars PROVE BestInv'
  OBVIOUS
<1>1. CASE AddLimitOrder \/ AddMarketOrder
  <2>1. taker = NoOrder /\ cur' = cur
    BY <1>1 DEF AddLimitOrder, AddMarketOrder, Add
  <2>2. cur' = NoPrice
    BY <2>1 DEF IInv, ScanInv
  <2>3. QED
    BY <2>2 DEF BestInv
<1>2. CASE EnterLevel
  <2>1. PICK p \in todo : /\ BestIn(taker.side, todo, p) /\ CanMatch(taker, p)
                          /\ cur' = p /\ todo' = todo \ {p} /\ taker' = taker
    BY <1>2 DEF EnterLevel
  <2>2. \A q \in todo : q \in Int
    BY PricesAssumption DEF IInv, TypeOK
  <2>3. \A q \in todo' : IF taker.side = "bid" THEN p < q ELSE p > q
    BY <2>1, <2>2 DEF BestIn
  <2>4. QED
    BY <2>1, <2>3 DEF BestInv
<1>3. CASE MatchFront
  <2>1. PICK q : taker' = [taker EXCEPT !.remaining = @ - q]
    BY <1>3, Zenon, MatchFrontEffect
  <2>2. taker # NoOrder /\ cur # NoPrice /\ UNCHANGED <<todo, cur>>
    BY <1>3, MatchFrontEffect
  <2>3. taker \in Order
    BY <2>2, OppositeFacts
  <2>4. taker'.side = taker.side /\ taker'.kind = taker.kind /\ taker'.price = taker.price
    BY <2>1, <2>3 DEF Order
  <2>5. QED
    BY <2>2, <2>4 DEF BestInv, CanMatch
<1>4. CASE LeaveLevel
  BY <1>4 DEF LeaveLevel, BestInv
<1>5. CASE FinishMatch \/ CancelOrder \/ RestoreOrder
  <2>1. taker' = NoOrder
    BY <1>5 DEF FinishMatch, CancelOrder, RestoreOrder
  <2>2. QED
    BY <2>1 DEF BestInv
<1>6. CASE UNCHANGED vars
  BY <1>6 DEF vars, BestInv
<1> QED
  BY <1>1, <1>2, <1>3, <1>4, <1>5, <1>6 DEF Next, MatchStep

\* Fills only take from what is left; everything else copies an order whole.
LEMMA SizeStep == IInv /\ SizeInv /\ [Next]_vars => SizeInv'
<1> SUFFICES ASSUME IInv, SizeInv, [Next]_vars PROVE SizeInv'
  OBVIOUS
<1>1. CASE AddLimitOrder \/ AddMarketOrder
  <2>1. PICK side \in Sides, kind \in {"limit", "market"}, price \in Prices \cup {NoPrice},
             quantity \in Quantities : Add(side, kind, price, quantity)
    BY <1>1, Zenon DEF AddLimitOrder, AddMarketOrder
  <2>2. /\ taker' = [id |-> submitted + 1, side |-> side, kind |-> kind, price |-> price,
                     quantity |-> quantity, remaining |-> quantity]
        /\ UNCHANGED <<orders, withdrawn>>
    BY <2>1 DEF Add
  <2>3. Sized(taker')
    BY <2>2, QuantitiesAssumption DEF Sized
  <2>4. QED
    BY <2>2, <2>3 DEF SizeInv
<1>2. CASE EnterLevel \/ LeaveLevel
  BY <1>2 DEF EnterLevel, LeaveLevel, SizeInv
<1>3. CASE MatchFront
  <2> DEFINE front == levels[Opposite(taker.side)][cur].queue[1]
             q     == Smaller(taker.remaining, front.remaining)
             rest  == [front EXCEPT !.remaining = @ - q]
  <2>1. /\ taker # NoOrder /\ taker' = [taker EXCEPT !.remaining = @ - q] /\ withdrawn' = withdrawn
        /\ front \in Order /\ front.id \in DOMAIN orders /\ orders[front.id] = front
        /\ q \in Nat /\ orders' = IndexAfter(orders, rest) /\ rest.id = front.id
    BY <1>3, Zenon, MatchFrontEffect
  <2>2. taker \in Order /\ taker.remaining \in Nat /\ taker.quantity \in Nat
    BY <2>1, OppositeFacts DEF Order
  <2> HIDE DEF front, q
  <2>3. front.remaining \in Nat /\ front.quantity \in Nat
    BY <2>1 DEF Order
  <2>4. Sized(front) /\ Sized(taker)
    BY <2>1 DEF SizeInv
  <2>5. Sized(taker')
    <3>1. taker'.remaining = taker.remaining - q /\ taker'.quantity = taker.quantity
      BY <2>1, <2>2 DEF Order
    <3>2. QED
      BY <2>1, <2>2, <2>4, <3>1 DEF Sized
  <2>6. Sized(rest)
    <3>1. rest.remaining = front.remaining - q /\ rest.quantity = front.quantity
      BY <2>1 DEF Order
    <3> HIDE DEF rest
    <3>2. QED
      BY <2>1, <2>3, <2>4, <3>1 DEF Sized
  <2> HIDE DEF rest
  <2>7. orders = [id \in DOMAIN orders |-> orders[id]]
    BY DEF IInv, TypeOK, PartialFunction
  <2>8. \A id \in DOMAIN orders' : orders'[id] = rest \/ (id \in DOMAIN orders /\ orders'[id] = orders[id])
    <3>1. CASE rest.remaining = 0
      BY <2>1, <3>1 DEF IndexAfter, Without
    <3>2. CASE rest.remaining # 0
      BY <2>1, <2>7, <3>2 DEF IndexAfter
    <3>3. QED
      BY <3>1, <3>2
  <2>9. QED
    BY <2>1, <2>5, <2>6, <2>8 DEF SizeInv
<1>4. CASE FinishMatch
  <2>1. /\ taker # NoOrder /\ taker' = NoOrder /\ withdrawn' = withdrawn
        /\ orders' = Indexed(orders, taker) \/ orders' = orders
    BY <1>4 DEF FinishMatch
  <2>2. \A id \in DOMAIN orders' : orders'[id] = taker \/ (id \in DOMAIN orders /\ orders'[id] = orders[id])
    BY <2>1 DEF Indexed
  <2>3. QED
    BY <2>1, <2>2 DEF SizeInv
<1>5. CASE CancelOrder
  <2>1. PICK id \in DOMAIN orders :
          taker' = NoOrder /\ orders' = Without(orders, id) /\ withdrawn' = {orders[id]}
    BY <1>5, Zenon DEF CancelOrder
  <2>2. \A x \in DOMAIN orders' : x \in DOMAIN orders /\ orders'[x] = orders[x]
    BY <2>1 DEF Without
  <2>3. QED
    BY <2>1, <2>2 DEF SizeInv
<1>6. CASE RestoreOrder
  <2>1. PICK o \in withdrawn : orders' = Indexed(orders, o) /\ withdrawn' \subseteq withdrawn
    BY <1>6, Zenon, RestoreOrderEffect
  <2>2. taker' = NoOrder
    BY <1>6 DEF RestoreOrder
  <2>3. \A x \in DOMAIN orders' : orders'[x] = o \/ (x \in DOMAIN orders /\ orders'[x] = orders[x])
    BY <2>1 DEF Indexed
  <2>4. QED
    BY <2>1, <2>2, <2>3 DEF SizeInv
<1>7. CASE UNCHANGED vars
  BY <1>7 DEF vars, SizeInv
<1> QED
  BY <1>1, <1>2, <1>3, <1>4, <1>5, <1>6, <1>7 DEF Next, MatchStep

\* All of it together.
LEMMA PriorityStep == IInv /\ PriorityInv /\ [HNext]_hvars => IInv' /\ PriorityInv'
<1> SUFFICES ASSUME IInv, PriorityInv, [HNext]_hvars PROVE IInv' /\ PriorityInv'
  OBVIOUS
<1>1. [Next]_vars
  BY DEF HNext, hvars
<1>2. IInv'
  BY <1>1, NextStep
<1>3. RankInv'
  BY <1>2, RankStep DEF PriorityInv
<1>4. BestInv' /\ SizeInv'
  BY <1>1, BestStep, SizeStep DEF PriorityInv
<1> QED
  BY <1>2, <1>3, <1>4 DEF PriorityInv

LEMMA InitPriority == HInit => IInv /\ PriorityInv
<1> SUFFICES ASSUME HInit PROVE IInv /\ PriorityInv
  OBVIOUS
<1>1. Init /\ ranks = 0 /\ rankOf = << >>
  BY DEF HInit
<1>2. IInv
  BY <1>1, InitIInv
<1>3. DOMAIN << >> = {}
  OBVIOUS
<1>4. RankInv
  BY <1>1, <1>3 DEF Init, RankInv, Ranked
<1>5. BestInv /\ SizeInv
  BY <1>1, <1>3 DEF Init, BestInv, SizeInv
<1> QED
  BY <1>2, <1>4, <1>5 DEF PriorityInv

-----------------------------------------------------------------------------
(* The refinement: what PriorityBook sees of the book. *)

Seen(o, r) == [side |-> o.side, price |-> o.price, remaining |-> o.remaining, rank |-> r]

Shown(o) ==
  [id |-> o.id, side |-> o.side, kind |-> o.kind, price |-> o.price, remaining |-> o.remaining]

\* The instance and its next state, in the terms above.
LEMMA RestingFacts ==
  /\ DOMAIN Resting = DOMAIN orders
  /\ Resting = [id \in DOMAIN orders |-> Seen(orders[id], rankOf[id])]
  /\ \A id \in DOMAIN orders : Resting[id] = Seen(orders[id], rankOf[id])
  BY DEF Resting, Seen

LEMMA RestingFactsNext ==
  Resting' = [id \in DOMAIN orders' |-> Seen(orders'[id], rankOf'[id])]
  BY DEF Resting, Seen

LEMMA IncomingFacts ==
  ASSUME taker \in Order
  PROVE  taker # NoOrder /\ Incoming = Shown(taker) /\ Incoming # NoOrder
<1>1. taker # NoOrder
  BY NoOrderAssumption
<1>2. Shown(taker) \in [id : Ids, side : Sides, kind : {"limit", "market"},
                        price : Prices \cup {NoPrice}, remaining : Nat]
  BY DEF Order, Shown
<1>3. Incoming = Shown(taker)
  BY <1>1 DEF Incoming, Shown
<1> QED
  BY <1>1, <1>2, <1>3, IncomingAssumption

LEMMA IncomingNext ==
  /\ taker' # NoOrder => Incoming' = Shown(taker')
  /\ taker' = NoOrder => Incoming' = NoOrder
  /\ taker = NoOrder => Incoming = NoOrder
  BY DEF Incoming, Shown

\* An order that is submitted.
LEMMA AddIsSubmit ==
  ASSUME IInv, Rank, NEW side \in Sides, NEW kind \in {"limit", "market"},
         NEW price \in Prices \cup {NoPrice}, NEW quantity \in Quantities,
         Add(side, kind, price, quantity)
  PROVE  Abstract!Submit(side, kind, price, quantity)
<1>1. /\ taker = NoOrder /\ submitted + 1 \in Ids
      /\ taker' = [id |-> submitted + 1, side |-> side, kind |-> kind, price |-> price,
                   quantity |-> quantity, remaining |-> quantity]
      /\ submitted' = submitted + 1 /\ fills' = << >> /\ UNCHANGED orders
  BY BoundsAssumption DEF Add, IInv, TypeOK, Ids
<1>2. taker' \in Order
  BY <1>1, QuantitiesAssumption DEF Order
<1>3. Incoming = NoOrder /\ Incoming' = Shown(taker')
  BY <1>1, <1>2, NoOrderAssumption, IncomingNext
<1>4. Incoming' = [id |-> submitted + 1, side |-> side, kind |-> kind, price |-> price,
                   remaining |-> quantity]
  BY <1>1, <1>3 DEF Shown
<1>5. UNCHANGED <<Resting, ranks>>
  <2>1. ranks' = ranks /\ \A id \in DOMAIN orders : rankOf'[id] = rankOf[id]
    BY <1>1 DEF Rank
  <2>2. QED
    BY <1>1, <2>1, RestingFacts, RestingFactsNext
<1> QED
  BY <1>1, <1>3, <1>4, <1>5 DEF Abstract!Submit

\* The order at the front of the level is the first of all that could trade.
LEMMA FrontIsFirst ==
  ASSUME IInv, RankInv, BestInv, MatchFront,
         NEW r, r = levels[Opposite(taker.side)][cur].queue[1].id
  PROVE  Abstract!First(r) /\ Abstract!Accepts(Incoming, Resting[r].price)
<1> DEFINE opp   == Opposite(taker.side)
           queue == levels[opp][cur].queue
           front == queue[1]
<1>1. /\ taker # NoOrder /\ cur # NoPrice /\ taker.remaining > 0
      /\ cur \in DOMAIN levels[opp] /\ 1 \in DOMAIN queue
      /\ front \in Order /\ front.side = opp /\ front.price = cur
      /\ front.id \in DOMAIN orders /\ orders[front.id] = front
  BY Zenon, MatchFrontEffect
<1>2. /\ taker \in Order /\ taker.side \in Sides /\ opp \in Sides
      /\ \A p \in DOMAIN levels[opp] : p \in Prices /\ p \in Int /\ p # NoPrice
      /\ PartialFunction(levels[opp], Prices, Level)
  BY <1>1, OppositeFacts
<1>3. /\ Incoming = Shown(taker) /\ Incoming.side = taker.side /\ Incoming.kind = taker.kind
      /\ Incoming.price = taker.price
  BY <1>2, IncomingFacts DEF Shown
<1>4. /\ r \in DOMAIN Resting /\ Resting[r].side = opp /\ Resting[r].price = cur
      /\ Resting[r].rank = rankOf[r]
  BY <1>1, RestingFacts DEF Seen
<1>5. /\ CanMatch(taker, cur)
      /\ \A p \in todo : IF taker.side = "bid" THEN cur < p ELSE cur > p
      /\ taker.kind = "limit" => taker.price \in Int
      /\ \A p \in emptied : levels[opp][p].queue = << >>
      /\ \A p \in DOMAIN levels[opp] : CanMatch(taker, p) => p \in todo \cup emptied \cup {cur}
  BY <1>1, PricesAssumption DEF BestInv, IInv, ScanInv
<1>6. ASSUME NEW c \in DOMAIN orders, orders[c].side = opp, c # r
      PROVE  \/ Abstract!Better(taker.side, cur, orders[c].price)
             \/ cur = orders[c].price /\ rankOf[r] < rankOf[c]
  <2> DEFINE p == orders[c].price
  <2>1. /\ p \in DOMAIN levels[opp] /\ orders[c].id = c
        /\ \E i \in DOMAIN levels[opp][p].queue : levels[opp][p].queue[i] = orders[c]
    BY <1>6 DEF IInv, IndexMatchesLevels, IndexedIsQueued
  <2>2. PICK i \in DOMAIN levels[opp][p].queue : levels[opp][p].queue[i] = orders[c]
    BY <2>1
  <2> HIDE DEF p, opp
  <2>3. CASE p = cur
    <3>1. queue \in Seq(Order)
      BY <1>1, <1>2 DEF PartialFunction, Level
    <3>2. i \in DOMAIN queue /\ queue[i].id = c /\ queue[1].id = r
      BY <2>1, <2>2, <2>3 DEF opp, p
    <3> HIDE DEF queue
    <3>3. i # 1 /\ i \in Nat /\ i > 1
      BY <1>6, <3>1, <3>2
    <3>4. rankOf[queue[1].id] < rankOf[queue[i].id]
      <4>1. \A j, k \in DOMAIN queue : j < k => rankOf[queue[j].id] < rankOf[queue[k].id]
        BY <1>1, <1>2 DEF RankInv, Ranked, queue
      <4>2. QED
        BY <1>1, <3>2, <3>3, <4>1
    <3>5. QED
      BY <2>3, <3>2, <3>4 DEF p
  <2>4. CASE p # cur
    <3>1. p \notin emptied
      BY <1>5, <2>2
    <3>2. CASE CanMatch(taker, p)
      <4>1. p \in todo
        BY <1>5, <2>1, <2>4, <3>1, <3>2
      <4>2. IF taker.side = "bid" THEN cur < p ELSE cur > p
        BY <1>5, <4>1
      <4>3. QED
        BY <4>2 DEF Abstract!Better, p
    <3>3. CASE ~CanMatch(taker, p)
      <4>1. p \in Int /\ cur \in Int
        BY <1>1, <1>2, <2>1
      <4>2. IF taker.side = "bid" THEN cur < p ELSE cur > p
        BY <1>5, <3>3, <4>1 DEF CanMatch
      <4>3. QED
        BY <4>2 DEF Abstract!Better, p
    <3>4. QED
      BY <3>2, <3>3
  <2>5. QED
    BY <2>3, <2>4
<1>7. Abstract!Opposite(Incoming.side) = opp
  BY <1>3 DEF Abstract!Opposite, Opposite
<1>8. Abstract!First(r)
  <2> HIDE DEF opp
  <2>1. r \in Abstract!Candidates
    BY <1>4, <1>7 DEF Abstract!Candidates
  <2>2. ASSUME NEW c \in Abstract!Candidates \ {r}
        PROVE  \/ Abstract!Better(Incoming.side, Resting[r].price, Resting[c].price)
               \/ Resting[r].price = Resting[c].price /\ Resting[r].rank < Resting[c].rank
    <3>1. /\ c \in DOMAIN orders /\ c # r /\ orders[c].side = opp
          /\ Resting[c].price = orders[c].price /\ Resting[c].rank = rankOf[c]
      BY <1>7, <2>2, RestingFacts DEF Abstract!Candidates, Seen
    <3>2. QED
      BY <1>3, <1>4, <1>6, <3>1
  <2>3. QED
    BY <2>1, <2>2 DEF Abstract!First
<1>9. Abstract!Accepts(Incoming, Resting[r].price)
  BY <1>3, <1>4, <1>5 DEF Abstract!Accepts, CanMatch
<1> QED
  BY <1>8, <1>9

\* A fill.
LEMMA MatchFrontIsTrade ==
  ASSUME IInv, IInv', RankInv, BestInv, MatchFront, Rank
  PROVE  Abstract!Trade
<1> DEFINE front == levels[Opposite(taker.side)][cur].queue[1]
           q     == Smaller(taker.remaining, front.remaining)
           rest  == [front EXCEPT !.remaining = @ - q]
           r     == front.id
           fill  == [buy |-> IF taker.side = "bid" THEN taker.id ELSE r,
                     sell |-> IF taker.side = "bid" THEN r ELSE taker.id,
                     price |-> cur, quantity |-> q]
<1>1. /\ taker # NoOrder /\ cur # NoPrice /\ taker.remaining > 0
      /\ taker' \in Order /\ taker' = [taker EXCEPT !.remaining = @ - q]
      /\ front \in Order /\ front.price = cur /\ r \in DOMAIN orders /\ orders[r] = front
      /\ q \in Nat /\ orders' = IndexAfter(orders, rest) /\ rest.id = r
      /\ fills' = Append(fills, fill) /\ submitted' = submitted
  BY Zenon, MatchFrontEffect
<1>2. \A s \in Sides : \A p \in DOMAIN levels'[s] :
        p \in DOMAIN levels[s] /\ Thinned(levels'[s][p].queue, levels[s][p].queue)
  <2>1. /\ \A s \in Sides : DOMAIN levels'[s] = DOMAIN levels[s]
        /\ \A s \in Sides : \A p \in DOMAIN levels[s] : Thinned(levels'[s][p].queue, levels[s][p].queue)
    BY Zenon, MatchFrontEffect
  <2>2. QED
    BY <2>1
<1>3. Abstract!First(r) /\ Abstract!Accepts(Incoming, Resting[r].price)
  BY FrontIsFirst
<1>4. taker \in Order
  BY <1>1, OppositeFacts
<1> HIDE DEF front, q, r
<1>5. /\ Incoming = Shown(taker) /\ Incoming # NoOrder
      /\ Incoming.remaining = taker.remaining /\ Incoming.side = taker.side /\ Incoming.id = taker.id
  BY <1>4, IncomingFacts DEF Shown
<1>6. Incoming' = [Incoming EXCEPT !.remaining = @ - q]
  <2>1. taker' # NoOrder
    BY <1>1, NoOrderAssumption
  <2>2. Incoming' = Shown(taker')
    BY <2>1, IncomingNext
  <2>3. /\ taker'.id = taker.id /\ taker'.side = taker.side /\ taker'.kind = taker.kind
        /\ taker'.price = taker.price /\ taker'.remaining = taker.remaining - q
    BY <1>1, <1>4 DEF Order
  <2>4. QED
    BY <1>5, <2>2, <2>3 DEF Shown
<1>7. /\ Resting[r] = Seen(front, rankOf[r]) /\ Resting[r].price = cur
      /\ Resting[r].remaining = front.remaining
      /\ q = Abstract!Smaller(Incoming.remaining, Resting[r].remaining)
  BY <1>1, <1>5, RestingFacts DEF Seen, Abstract!Smaller, Smaller, q
<1>8. DOMAIN orders' \subseteq DOMAIN orders
  BY <1>1 DEF IndexAfter, Without
<1>9. ranks' = ranks /\ \A id \in DOMAIN orders' : rankOf'[id] = rankOf[id]
  BY <1>2, <1>8, RanksStay
<1>10. /\ rest.side = front.side /\ rest.price = front.price /\ rest.remaining = front.remaining - q
       /\ front.remaining \in Nat
  BY <1>1 DEF Order
<1> HIDE DEF rest
<1>11. Resting' = IF q = Resting[r].remaining
                    THEN Abstract!Without(Resting, r)
                    ELSE [Resting EXCEPT ![r].remaining = @ - q]
  <2>1. CASE rest.remaining = 0
    <3>1. orders' = [x \in DOMAIN orders \ {r} |-> orders[x]]
      BY <1>1, <2>1 DEF IndexAfter, Without
    <3>2. Resting' = [x \in DOMAIN orders \ {r} |-> Seen(orders[x], rankOf[x])]
      BY <1>9, <3>1, RestingFactsNext
    <3>3. Abstract!Without(Resting, r) = [x \in DOMAIN orders \ {r} |-> Seen(orders[x], rankOf[x])]
      BY RestingFacts DEF Abstract!Without
    <3>4. q = Resting[r].remaining
      BY <1>1, <1>7, <1>10, <2>1
    <3>5. QED
      BY <3>2, <3>3, <3>4
  <2>2. CASE rest.remaining # 0
    <3>1. orders = [id \in DOMAIN orders |-> orders[id]]
      BY DEF IInv, TypeOK, PartialFunction
    <3>2. /\ DOMAIN orders' = DOMAIN orders /\ orders'[r] = rest
          /\ \A x \in DOMAIN orders : x # r => orders'[x] = orders[x]
      BY <1>1, <2>2, <3>1 DEF IndexAfter
    <3>3. Resting' = [x \in DOMAIN orders |-> IF x = r THEN Seen(rest, rankOf[r])
                                                       ELSE Seen(orders[x], rankOf[x])]
      BY <1>1, <1>9, <3>2, RestingFactsNext
    <3>4. Seen(rest, rankOf[r]) = [Seen(front, rankOf[r]) EXCEPT !.remaining = @ - q]
      BY <1>10 DEF Seen
    <3>5. [Resting EXCEPT ![r].remaining = @ - q]
            = [x \in DOMAIN orders |-> IF x = r THEN [Resting[r] EXCEPT !.remaining = @ - q]
                                                ELSE Resting[x]]
      BY <1>1, RestingFacts
    <3>6. Resting' = [Resting EXCEPT ![r].remaining = @ - q]
      BY <1>7, <3>3, <3>4, <3>5, RestingFacts
    <3>7. q # Resting[r].remaining
      BY <1>1, <1>7, <1>10, <2>2
    <3>8. QED
      BY <3>6, <3>7
  <2>3. QED
    BY <2>1, <2>2
<1>12. fills' = Append(fills, [buy |-> IF Incoming.side = "bid" THEN Incoming.id ELSE r,
                               sell |-> IF Incoming.side = "bid" THEN r ELSE Incoming.id,
                               price |-> Resting[r].price, quantity |-> q])
  BY <1>1, <1>5, <1>7
<1>13. r \in DOMAIN Resting
  BY <1>1, RestingFacts
<1>14. Incoming.remaining > 0 /\ UNCHANGED <<ranks, submitted>>
  BY <1>1, <1>5, <1>9
<1> HIDE DEF fill
<1> QED
  BY Zenon, <1>3, <1>5, <1>6, <1>7, <1>11, <1>12, <1>13, <1>14 DEF Abstract!Trade

\* The order that an order put behind the level of its price is to PriorityBook.
LEMMA RestedIsLast ==
  ASSUME NEW o, o.id \notin DOMAIN orders, orders' = Indexed(orders, o),
         rankOf'[o.id] = ranks + 1, \A id \in DOMAIN orders : rankOf'[id] = rankOf[id]
  PROVE  Resting' = [x \in DOMAIN Resting \cup {o.id} |->
                       IF x = o.id THEN Seen(o, ranks + 1) ELSE Resting[x]]
<1>1. /\ DOMAIN orders' = DOMAIN orders \cup {o.id} /\ orders'[o.id] = o
      /\ \A id \in DOMAIN orders : orders'[id] = orders[id]
  BY DEF Indexed
<1>2. Resting' = [x \in DOMAIN orders \cup {o.id} |-> Seen(orders'[x], rankOf'[x])]
  BY <1>1, RestingFactsNext
<1>3. \A x \in DOMAIN orders \cup {o.id} :
        Seen(orders'[x], rankOf'[x]) = IF x = o.id THEN Seen(o, ranks + 1) ELSE Resting[x]
  BY <1>1, RestingFacts
<1>4. DOMAIN Resting = DOMAIN orders
  BY RestingFacts
<1> QED
  BY <1>2, <1>3, <1>4

\* The end of a match: nothing acceptable is left, and the rest of a limit order rests last.
LEMMA FinishMatchIsClose ==
  ASSUME IInv, IInv', RankInv, FinishMatch, Rank
  PROVE  Abstract!Close
<1>1. /\ taker # NoOrder /\ taker \in Order /\ taker' = NoOrder /\ cur = NoPrice /\ ScanOver
      /\ UNCHANGED <<fills, submitted>>
  BY FinishMatchEffect DEF FinishMatch
<1>2. PICK b :
        /\ IsBook(b)
        /\ \A s \in Sides : \A p \in DOMAIN b[s] : p \in DOMAIN levels[s] /\ b[s][p] = levels[s][p]
        /\ \/ /\ taker.kind = "limit" /\ taker.remaining > 0
              /\ levels' = AddOrderToBook(b, taker) /\ orders' = Indexed(orders, taker)
              /\ taker.price \in Prices /\ taker.id \notin DOMAIN orders
           \/ /\ ~(taker.kind = "limit" /\ taker.remaining > 0)
              /\ levels' = b /\ orders' = orders
  BY Zenon, FinishMatchEffect
<1>3. /\ Incoming # NoOrder /\ Incoming = Shown(taker) /\ Incoming' = NoOrder
      /\ Incoming.id = taker.id /\ Incoming.side = taker.side /\ Incoming.kind = taker.kind
      /\ Incoming.price = taker.price /\ Incoming.remaining = taker.remaining
  BY <1>1, IncomingFacts, IncomingNext DEF Shown
<1>4. Abstract!Satisfied
  <2>1. taker.remaining \in Nat
    BY <1>1 DEF Order
  <2>2. ASSUME taker.remaining # 0, NEW r \in Abstract!Candidates
        PROVE  ~Abstract!Accepts(Incoming, Resting[r].price)
    <3>1. r \in DOMAIN orders /\ orders[r].side = Opposite(taker.side) /\ Resting[r].price = orders[r].price
      BY <1>3, <2>2, RestingFacts DEF Abstract!Candidates, Abstract!Opposite, Opposite, Seen
    <3>2. ~CanMatch(taker, orders[r].price)
      BY <1>1, <2>1, <2>2, <3>1, ScanLeavesNothing
    <3>3. QED
      BY <1>3, <3>1, <3>2 DEF CanMatch, Abstract!Accepts
  <2>3. QED
    BY <1>3, <2>2 DEF Abstract!Satisfied
<1>5. CASE taker.kind = "limit" /\ taker.remaining > 0
  <2>1. /\ ranks' = ranks + 1 /\ rankOf'[taker.id] = ranks + 1
        /\ \A id \in DOMAIN orders : rankOf'[id] = rankOf[id]
    BY <1>1, <1>2, <1>5, RanksGrow
  <2>2. Resting' = [x \in DOMAIN Resting \cup {taker.id} |->
                      IF x = taker.id THEN Seen(taker, ranks + 1) ELSE Resting[x]]
    BY <1>2, <1>5, <2>1, RestedIsLast
  <2>3. Resting' = [x \in DOMAIN Resting \cup {Incoming.id} |->
                      IF x = Incoming.id
                        THEN [side |-> Incoming.side, price |-> Incoming.price,
                              remaining |-> Incoming.remaining, rank |-> ranks + 1]
                        ELSE Resting[x]]
    BY <1>3, <2>2 DEF Seen
  <2>4. QED
    BY <1>1, <1>3, <1>4, <1>5, <2>1, <2>3 DEF Abstract!Close
<1>6. CASE ~(taker.kind = "limit" /\ taker.remaining > 0)
  <2>1. orders' = orders
    BY <1>2, <1>6
  <2>2. ranks' = ranks /\ \A id \in DOMAIN orders : rankOf'[id] = rankOf[id]
    BY <2>1 DEF Rank
  <2>3. Resting' = Resting
    BY <2>1, <2>2, RestingFacts, RestingFactsNext
  <2>4. QED
    BY <1>1, <1>3, <1>4, <1>6, <2>2, <2>3 DEF Abstract!Close
<1> QED
  BY <1>5, <1>6

\* A cancellation.
LEMMA CancelOrderIsWithdraw ==
  ASSUME IInv, CancelOrder, Rank
  PROVE  Abstract!Withdraw
<1>1. PICK id \in DOMAIN orders :
        taker = NoOrder /\ orders' = Without(orders, id) /\ UNCHANGED <<taker, fills, submitted>>
  BY Zenon, CancelOrderEffect
<1>2. orders' = [x \in DOMAIN orders \ {id} |-> orders[x]]
  BY <1>1 DEF Without
<1>3. ranks' = ranks /\ \A x \in DOMAIN orders' : rankOf'[x] = rankOf[x]
  BY <1>2 DEF Rank
<1>4. Resting' = [x \in DOMAIN orders \ {id} |-> Seen(orders[x], rankOf[x])]
  BY <1>2, <1>3, RestingFactsNext
<1>5. Abstract!Without(Resting, id) = [x \in DOMAIN orders \ {id} |-> Seen(orders[x], rankOf[x])]
  BY RestingFacts DEF Abstract!Without
<1>6. id \in DOMAIN Resting /\ Resting' = Abstract!Without(Resting, id)
  BY <1>4, <1>5, RestingFacts
<1>7. Incoming = NoOrder /\ Incoming' = NoOrder
  BY <1>1, IncomingNext
<1> QED
  BY <1>1, <1>3, <1>6, <1>7 DEF Abstract!Withdraw

\* A restore: the order is one that was submitted, with no more left than it came with.
LEMMA RestoreOrderIsPutBack ==
  ASSUME IInv, IInv', RankInv, SizeInv, RestoreOrder, Rank
  PROVE  \E id \in 1 .. submitted :
           \E s \in {"bid", "ask"}, p \in Prices, q \in UNION {1 .. n : n \in Quantities} :
              Abstract!PutBack(id, [side |-> s, price |-> p, remaining |-> q, rank |-> 0])
<1>1. PICK o \in withdrawn :
        /\ taker = NoOrder /\ o \in Order /\ o.price \in Prices /\ o.remaining > 0
        /\ o.id \notin DOMAIN orders /\ o.id <= submitted
        /\ levels' = AddOrderToBook(levels, o) /\ orders' = Indexed(orders, o)
        /\ UNCHANGED <<taker, fills, submitted>>
  BY Zenon, RestoreOrderEffect
<1>2. IsBook(levels) /\ submitted \in Nat
  BY BoundsAssumption DEF IInv, TypeOK
<1>3. /\ ranks' = ranks + 1 /\ rankOf'[o.id] = ranks + 1
      /\ \A id \in DOMAIN orders : rankOf'[id] = rankOf[id]
  BY <1>1, <1>2, RanksGrow
<1> DEFINE as == [side |-> o.side, price |-> o.price, remaining |-> o.remaining, rank |-> 0]
<1>4. Resting' = [x \in DOMAIN Resting \cup {o.id} |->
                    IF x = o.id THEN Seen(o, ranks + 1) ELSE Resting[x]]
  BY <1>1, <1>3, RestedIsLast
<1>5. Seen(o, ranks + 1) = [as EXCEPT !.rank = ranks + 1]
  BY DEF Seen
<1>6. Incoming = NoOrder /\ Incoming' = NoOrder
  BY <1>1, IncomingNext
<1>7. /\ o.id \in 1 .. submitted /\ o.side \in {"bid", "ask"}
      /\ o.remaining \in 1 .. o.quantity /\ o.quantity \in Quantities
  BY <1>1, <1>2 DEF Order, Sides, Ids, SizeInv, Sized
<1>8. o.id \notin DOMAIN Resting
  BY <1>1, RestingFacts
<1> HIDE DEF as
<1>9. Abstract!PutBack(o.id, as)
  BY <1>1, <1>3, <1>4, <1>5, <1>6, <1>7, <1>8 DEF Abstract!PutBack
<1>10. o.remaining \in UNION {1 .. n : n \in Quantities}
  BY <1>7
<1> QED
  BY <1>1, <1>7, <1>9, <1>10 DEF as

\* Every step is a step of PriorityBook, or shows it nothing.
LEMMA StepIsAbstract ==
  ASSUME IInv, IInv', PriorityInv, [HNext]_hvars
  PROVE  [Abstract!Next]_Abstract!pbvars
<1>1. RankInv /\ BestInv /\ SizeInv
  BY DEF PriorityInv
<1>2. CASE AddLimitOrder /\ Rank
  <2>1. PICK side \in Sides, price \in Prices, quantity \in Quantities :
          Add(side, "limit", price, quantity)
    BY <1>2, Zenon DEF AddLimitOrder
  <2>2. Abstract!Submit(side, "limit", price, quantity)
    BY <1>2, <2>1, AddIsSubmit
  <2>3. QED
    BY <2>1, <2>2 DEF Abstract!Next, Sides
<1>3. CASE AddMarketOrder /\ Rank
  <2>1. PICK side \in Sides, quantity \in Quantities : Add(side, "market", NoPrice, quantity)
    BY <1>3, Zenon DEF AddMarketOrder
  <2>2. Abstract!Submit(side, "market", NoPrice, quantity)
    BY <1>3, <2>1, AddIsSubmit
  <2>3. QED
    BY <2>1, <2>2 DEF Abstract!Next, Sides
<1>4. CASE MatchFront /\ Rank
  BY <1>1, <1>4, MatchFrontIsTrade DEF Abstract!Next
<1>5. CASE FinishMatch /\ Rank
  BY <1>1, <1>5, FinishMatchIsClose DEF Abstract!Next
<1>6. CASE CancelOrder /\ Rank
  BY <1>6, CancelOrderIsWithdraw DEF Abstract!Next
<1>7. CASE RestoreOrder /\ Rank
  BY <1>1, <1>7, RestoreOrderIsPutBack DEF Abstract!Next
<1>8. CASE (EnterLevel \/ LeaveLevel) /\ Rank
  <2>1. UNCHANGED <<orders, taker, fills, submitted>>
    BY <1>8 DEF EnterLevel, LeaveLevel
  <2>2. ranks' = ranks /\ \A id \in DOMAIN orders : rankOf'[id] = rankOf[id]
    BY <1>8, <2>1 DEF Rank
  <2>3. Resting' = Resting /\ Incoming' = Incoming
    BY <2>1, <2>2, RestingFacts, RestingFactsNext DEF Incoming
  <2>4. QED
    BY <2>1, <2>2, <2>3 DEF Abstract!pbvars
<1>9. CASE UNCHANGED hvars
  BY <1>9 DEF hvars, vars, Abstract!pbvars, Resting, Incoming
<1> QED
  BY <1>2, <1>3, <1>4, <1>5, <1>6, <1>7, <1>8, <1>9 DEF HNext, Next, MatchStep

\* Price-time priority: every call behaves as PriorityBook does, although nothing in match_order
\* compares the age of two orders or looks at a whole side of the book.  Each fill is with the
\* order that PriorityBook would choose, and none is missing when the call ends.
THEOREM BookImplementsPriority == HSpec => PriceTimePriority
<1>1. HInit => Abstract!Init
  <2> SUFFICES ASSUME HInit PROVE Abstract!Init
    OBVIOUS
  <2>1. orders = << >> /\ taker = NoOrder /\ fills = << >> /\ ranks = 0 /\ submitted = 0
    BY DEF HInit, Init
  <2>2. Resting = << >>
    BY <2>1 DEF Resting
  <2>3. Incoming = NoOrder
    BY <2>1 DEF Incoming
  <2> QED
    BY <2>1, <2>2, <2>3 DEF Abstract!Init
<1>2. HSpec => [](IInv /\ PriorityInv)
  <2>1. HInit => IInv /\ PriorityInv
    BY InitPriority
  <2>2. IInv /\ PriorityInv /\ [HNext]_hvars => IInv' /\ PriorityInv'
    BY PriorityStep
  <2> QED
    BY <2>1, <2>2, PTL DEF HSpec
<1>3. IInv /\ IInv' /\ PriorityInv /\ [HNext]_hvars => [Abstract!Next]_Abstract!pbvars
  BY StepIsAbstract
<1> QED
  BY <1>1, <1>2, <1>3, PTL DEF HSpec, PriceTimePriority, Abstract!Spec
=============================================================================
