--------------------------- MODULE OrderFlowProofs ---------------------------
(***************************************************************************)
(* What gateway and engine ask of accounts is what accounts allows any     *)
(* client to ask: OrderFlow implements Accounts, so that what is proved of *)
(* Accounts holds of the whole way of an order, for any number of users,   *)
(* orders, requests, attempts and cancellations.  Then what only holds of  *)
(* the whole way: an order is in one place at a time, its fills add up, it *)
(* never fills beyond its quantity, and no money is created but what bids  *)
(* at a negative price are credited with, unless one of the four ways to   *)
(* go beyond a lock was taken or an order of a negative quantity placed.   *)
(***************************************************************************)
EXTENDS OrderFlow, AccountsProofs, SumsProofs

Sides == {"bid", "ask"}

Command == [op : {"place", "cancel"}, id : DOMAIN orders]

Resting == [side : Sides, price : Prices, left : Int]

SettleCall == [op : {"settle"}, fill : Fill, slot : Slots \cup {NoSlot}, attempts : Nat]

CancelCall == [op : {"cancel"}, fill : {<< >>}, slot : Slots, attempts : Nat]

\* An order whose placement succeeded is in the table.
DoneOK ==
  \A t \in Slots :
    tx[t].op \in {"place", "cancel"} /\ tx[t].at = "done" /\ tx[t].ok = TRUE =>
      tx[t].id \in DOMAIN orders

EngineOK ==
  /\ inbox \in Seq(Command)
  /\ Function(book, OrderIds, Resting)
  /\ taker # None => taker \in Taken
  /\ call # None => taker \in Taken /\ call \in SettleCall \cup CancelCall

FInv == IInv /\ DoneOK /\ EngineOK

-----------------------------------------------------------------------------
(* Accounts keeps the orders it has, and what it said of them. *)

LEMMA AnswerDone ==
  ASSUME IInv, DoneOK, NEW t \in Slots, NEW x, NEW ok \in BOOLEAN,
         tx' = [tx EXCEPT ![t] = Answer(x, ok)],
         DOMAIN orders \subseteq DOMAIN orders',
         ok = FALSE \/ x.op \notin {"place", "cancel"} \/ x.id \in DOMAIN orders'
  PROVE  DoneOK'
<1>1. PICK y : y = Answer(x, ok)
  OBVIOUS
<1>2. y.op = x.op /\ y.id = x.id
  BY <1>1, BlankShape DEF Answer
<1>3. y.ok = ok
  BY <1>1, BlankShape DEF Answer
<1>4. tx'[t] = y /\ \A s \in Slots : s # t => tx'[s] = tx[s]
  BY <1>1 DEF IInv
<1> QED BY <1>2, <1>3, <1>4 DEF DoneOK

LEMMA AbortDone ==
  ASSUME IInv, DoneOK, NEW t \in Slots, NEW ok \in BOOLEAN, Abort(t, ok),
         ok = FALSE \/ tx[t].op \notin {"place", "cancel"}
  PROVE  DoneOK' /\ orders' = orders
<1>1. tx' = [tx EXCEPT ![t] = Answer(tx[t], ok)] /\ orders' = orders
  BY DEF Abort
<1> QED BY <1>1, AnswerDone

LEMMA LocalDone ==
  ASSUME IInv, DoneOK, NEW t \in Slots, NEW y, tx' = [tx EXCEPT ![t] = y], orders' = orders,
         y.at # "done"
  PROVE  DoneOK'
BY DEF IInv, DoneOK

LEMMA CommitDone ==
  ASSUME IInv, DoneOK, NEW t \in Slots, NEW x, Commit(t, x),
         x.op \in {"place", "cancel"} => x.id \in DOMAIN orders \cup DOMAIN x.rows
  PROVE  DoneOK' /\ DOMAIN orders \subseteq DOMAIN orders'
<1>1. tx' = [tx EXCEPT ![t] = Answer(x, TRUE)] /\ DOMAIN orders' = DOMAIN orders \cup DOMAIN x.rows
  BY DEF Commit
<1> QED BY <1>1, AnswerDone

LEMMA PlaceApplyDone ==
  ASSUME IInv, DoneOK, NEW t \in Slots, PlaceApply(t)
  PROVE  DoneOK' /\ DOMAIN orders \subseteq DOMAIN orders'
<1>1. PICK x : x = tx[t]
  OBVIOUS
<1> DEFINE k == LockKey(x.order)
           amount == -LockAmount(x.order)
<1>2. PICK y : y = Post(x, k, amount, "lock")
  OBVIOUS
<1>3. PICK z : z = [y EXCEPT !.rows = Put(@, x.id, x.order)]
  OBVIOUS
<1>4. /\ x.op = "place" /\ x.at = "apply"
      /\ Commit(t, z) \/ Abort(t, FALSE)
  BY <1>1, <1>2, <1>3 DEF PlaceApply, At
<1>5. /\ Shape(x) /\ Function(x.bal, Keys, Int) /\ x.sum \in [Keys -> Int]
      /\ x.order \in Order /\ balances \in [Keys -> Int]
  BY <1>1, <1>4 DEF IInv, TablesOK, SlotOK, RequestOK
<1>6. k \in Keys /\ amount \in Int
  BY <1>5, OrderFacts
<1> HIDE DEF k, amount
<1>7. Shape(y) /\ y.op = x.op /\ y.id = x.id
  BY <1>2, <1>5, <1>6, PostFacts
<1>8. z.op = x.op /\ z.id = x.id /\ x.id \in DOMAIN z.rows
  BY <1>3, <1>7 DEF Shape, Put
<1> QED BY <1>4, <1>8, CommitDone, AbortDone

LEMMA CancelApplyDone ==
  ASSUME IInv, DoneOK, NEW t \in Slots, CancelApply(t)
  PROVE  DoneOK' /\ DOMAIN orders \subseteq DOMAIN orders'
<1>1. PICK x, o : x = tx[t] /\ o = orders[tx[t].id]
  OBVIOUS
<1> DEFINE k == LockKey(o)
           amount == UnlockAmount(o, x.filled)
<1>2. PICK y : y = IF amount > 0 THEN Post(x, k, amount, "unlock") ELSE x
  OBVIOUS
<1>3. PICK after : after = [o EXCEPT !.status = "cancelled", !.filled = x.filled]
  OBVIOUS
<1>4. PICK z : z = [y EXCEPT !.rows = Put(@, x.id, after)]
  OBVIOUS
<1>5. x.op \in Cancels /\ x.at = "apply" /\ Commit(t, z)
  BY <1>1, <1>2, <1>3, <1>4 DEF CancelApply, At, Cancels
<1>6. /\ Shape(x) /\ Function(x.bal, Keys, Int) /\ x.sum \in [Keys -> Int]
      /\ x.id \in DOMAIN orders /\ x.filled \in Int /\ balances \in [Keys -> Int]
  BY <1>1, <1>5 DEF IInv, TablesOK, SlotOK, RequestOK
<1>7. o \in Order
  BY <1>1, <1>6 DEF IInv, TablesOK, Function
<1>8. k \in Keys /\ amount \in Int
  BY <1>6, <1>7, OrderFacts, UnlockFacts
<1> HIDE DEF k, amount
<1>9. Shape(y) /\ y.op = x.op /\ y.id = x.id
  BY <1>2, <1>6, <1>8, PostFacts
<1>10. z.op = x.op /\ z.id = x.id
  BY <1>4, <1>9 DEF Shape
<1> QED BY <1>5, <1>6, <1>10, CommitDone

\* A party's statement either aborts or moves the request on.
LEMMA PartyDone ==
  ASSUME IInv, DoneOK, NEW t \in Slots, SettleBuyer(t) \/ SettleSeller(t)
  PROVE  DoneOK' /\ orders' = orders
<1>1. (BuyerGoesOn(t) \/ SellerGoesOn(t)) /\ tx[t].op = "settle"
  BY SettleBuyerFacts, SettleSellerFacts
<1>2. CASE Abort(t, FALSE)
  BY <1>2, AbortDone
<1>3. CASE ~Abort(t, FALSE)
  <2>1. PICK y : y.at \in {"seller", "commit"} /\ tx' = [tx EXCEPT ![t] = y] /\ orders' = orders
    BY <1>1, <1>3 DEF BuyerGoesOn, SellerGoesOn, GoesOn, Moves
  <2> QED BY <2>1, LocalDone
<1> QED BY <1>2, <1>3

LEMMA StatementDone ==
  ASSUME IInv, DoneOK, NEW t \in Slots, Statement(t)
  PROVE  DoneOK' /\ DOMAIN orders \subseteq DOMAIN orders'
<1>1. CASE AdvisoryLock(t)
  <2>1. PICK y : y = [tx[t] EXCEPT !.want = Tail(@)]
    OBVIOUS
  <2>2. tx' = [tx EXCEPT ![t] = y] /\ orders' = orders
    BY <1>1, <2>1 DEF AdvisoryLock, IInv
  <2>3. Shape(tx[t])
    BY DEF IInv, SlotOK, RequestOK
  <2>4. y.op = tx[t].op /\ y.at = tx[t].at /\ y.id = tx[t].id
    BY <2>1, <2>3 DEF Shape
  <2>5. y.ok = tx[t].ok
    BY <2>1, <2>3 DEF Shape
  <2> QED BY <2>2, <2>4, <2>5 DEF IInv, DoneOK
<1>2. CASE PlaceApply(t)
  BY <1>2, PlaceApplyDone
<1>3. CASE CancelLookup(t)
  <2>1. CASE Abort(t, FALSE)
    BY <2>1, AbortDone
  <2>2. CASE ~Abort(t, FALSE)
    <3> DEFINE o == orders[tx[t].id]
               filled == IF tx[t].op = "cancel" THEN o.filled ELSE tx[t].filled
               want == IF UnlockAmount(o, filled) > 0 THEN <<LockKey(o)>> ELSE << >>
    <3>1. /\ tx' = [tx EXCEPT ![t].at = "apply", ![t].filled = filled, ![t].want = want]
          /\ orders' = orders
      BY <1>3, <2>2 DEF CancelLookup
    <3> HIDE DEF filled, want
    <3>2. PICK y : y = [tx[t] EXCEPT !.at = "apply", !.filled = filled, !.want = want]
      OBVIOUS
    <3>3. tx' = [tx EXCEPT ![t] = y]
      BY <3>1, <3>2 DEF IInv
    <3>4. y.at = "apply"
      BY <3>2 DEF IInv, SlotOK, RequestOK, Shape
    <3> QED BY <3>1, <3>3, <3>4, LocalDone
  <2> QED BY <2>1, <2>2
<1>4. CASE CancelApply(t)
  BY <1>4, CancelApplyDone
<1>5. CASE SettleCheck(t)
  <2>1. tx[t].op = "settle"
    BY <1>5 DEF SettleCheck, At
  <2>2. CASE Abort(t, TRUE)
    BY <2>1, <2>2, AbortDone
  <2>3. CASE ~Abort(t, TRUE)
    <3>1. PICK want, known :
            /\ tx' = [tx EXCEPT ![t].at = "buyer", ![t].want = want, ![t].known = known]
            /\ orders' = orders
      BY <1>5, <2>3 DEF SettleCheck
    <3>2. PICK y : y = [tx[t] EXCEPT !.at = "buyer", !.want = want, !.known = known]
      OBVIOUS
    <3>3. tx' = [tx EXCEPT ![t] = y]
      BY <3>1, <3>2 DEF IInv
    <3>4. y.at = "buyer"
      BY <3>2 DEF IInv, SlotOK, RequestOK, Shape
    <3> QED BY <3>1, <3>3, <3>4, LocalDone
  <2> QED BY <2>2, <2>3
<1>6. CASE SettleBuyer(t) \/ SettleSeller(t)
  BY <1>6, PartyDone
<1>7. CASE SettleRecord(t)
  BY <1>7, CommitDone DEF SettleRecord, At
<1>8. CASE DeadlockAbort(t)
  BY <1>8, AbortDone DEF DeadlockAbort
<1> QED BY <1>1, <1>2, <1>3, <1>4, <1>5, <1>6, <1>7, <1>8 DEF Statement

\* A request that has just arrived is not answered yet.
LEMMA RequestDone ==
  ASSUME IInv, DoneOK, NEW t \in Slots, NEW y, Request(t, y), y.at # "done"
  PROVE  DoneOK' /\ orders' = orders
BY LocalDone DEF Request

LEMMA NextDone ==
  ASSUME IInv, DoneOK, [Next]_vars
  PROVE  DoneOK' /\ DOMAIN orders \subseteq DOMAIN orders'
<1>1. CASE UNCHANGED vars
  BY <1>1 DEF vars, DoneOK
<1>2. ASSUME NEW t \in Slots, NEW o \in NewOrder, RequestPlace(t, o)
      PROVE  DoneOK' /\ DOMAIN orders \subseteq DOMAIN orders'
  <2>1. PICK y : y = [Blank EXCEPT !.op = "place", !.at = "apply", !.want = <<LockKey(o)>>,
                                   !.id = ids + 1, !.order = o]
    OBVIOUS
  <2>2. Request(t, y) /\ y.at # "done"
    BY <1>2, <2>1, BlankShape DEF RequestPlace
  <2> QED BY <2>2, RequestDone
<1>3. ASSUME NEW t \in Slots, NEW id \in OrderIds, RequestCancel(t, id)
      PROVE  DoneOK' /\ DOMAIN orders \subseteq DOMAIN orders'
  <2>1. PICK y : y = [Blank EXCEPT !.op = "cancel", !.at = "row", !.id = id]
    OBVIOUS
  <2>2. Request(t, y) /\ y.at # "done"
    BY <1>3, <2>1, BlankShape DEF RequestCancel
  <2> QED BY <2>2, RequestDone
<1>4. ASSUME NEW t \in Slots, NEW id \in OrderIds, NEW filled \in Int,
             RequestCancelInternal(t, id, filled)
      PROVE  DoneOK' /\ DOMAIN orders \subseteq DOMAIN orders'
  <2>1. PICK y : y = [Blank EXCEPT !.op = "cancel_internal", !.at = "row", !.id = id,
                                   !.filled = filled]
    OBVIOUS
  <2>2. Request(t, y) /\ y.at # "done"
    BY <1>4, <2>1, BlankShape DEF RequestCancelInternal
  <2> QED BY <2>2, RequestDone
<1>5. ASSUME NEW t \in Slots, NEW f \in Fill, RequestSettle(t, f)
      PROVE  DoneOK' /\ DOMAIN orders \subseteq DOMAIN orders'
  <2>1. PICK y : y = [Blank EXCEPT !.op = "settle", !.at = "check", !.fill = f]
    OBVIOUS
  <2>2. Request(t, y) /\ y.at # "done"
    BY <1>5, <2>1, BlankShape DEF RequestSettle
  <2> QED BY <2>2, RequestDone
<1>6. ASSUME NEW t \in Slots, Statement(t)
      PROVE  DoneOK' /\ DOMAIN orders \subseteq DOMAIN orders'
  BY <1>6, StatementDone
<1>7. ASSUME NEW t \in Slots, Drop(t)
      PROVE  DoneOK' /\ DOMAIN orders \subseteq DOMAIN orders'
  BY <1>7, AbortDone DEF Drop
<1>8. ASSUME NEW t \in Slots, Collect(t)
      PROVE  DoneOK' /\ DOMAIN orders \subseteq DOMAIN orders'
  <2>1. Blank.at # "done" /\ tx' = [tx EXCEPT ![t] = Blank] /\ orders' = orders
    BY <1>8, BlankShape DEF Collect
  <2> QED BY <2>1, LocalDone
<1> QED BY <1>1, <1>2, <1>3, <1>4, <1>5, <1>6, <1>7, <1>8 DEF Next

-----------------------------------------------------------------------------
(* Gateway and engine. *)

LEMMA MatchFacts ==
  ASSUME FInv, NEW t \in Slots, Match(t)
  PROVE  /\ \E f \in Fill : RequestSettle(t, f) /\ call' \in SettleCall
         /\ taker' \in Taken /\ Function(book', OrderIds, Resting) /\ inbox' = inbox
<1>1. PICK id \in DOMAIN book :
        LET maker == book[id]
            q     == IF taker.left <= maker.left THEN taker.left ELSE maker.left
            f     == [buy  |-> IF taker.side = "bid" THEN taker.id ELSE id,
                      sell |-> IF taker.side = "bid" THEN id ELSE taker.id,
                      price |-> maker.price, quantity |-> q]
        IN /\ taker' = [taker EXCEPT !.left = @ - q]
           /\ IF maker.left = q
                THEN book' = [x \in DOMAIN book \ {id} |-> book[x]]
                ELSE book' = [book EXCEPT ![id].left = @ - q]
           /\ call' = [op |-> "settle", fill |-> f, slot |-> t, attempts |-> 1]
           /\ RequestSettle(t, f)
  BY DEF Match
<1>2. PICK maker, q : /\ maker = book[id]
                      /\ q = IF taker.left <= maker.left THEN taker.left ELSE maker.left
  OBVIOUS
<1>3. PICK f : f = [buy  |-> IF taker.side = "bid" THEN taker.id ELSE id,
                    sell |-> IF taker.side = "bid" THEN id ELSE taker.id,
                    price |-> maker.price, quantity |-> q]
  OBVIOUS
<1>4. /\ taker' = [taker EXCEPT !.left = @ - q]
      /\ IF maker.left = q
           THEN book' = [x \in DOMAIN book \ {id} |-> book[x]]
           ELSE book' = [book EXCEPT ![id].left = @ - q]
      /\ call' = [op |-> "settle", fill |-> f, slot |-> t, attempts |-> 1]
      /\ RequestSettle(t, f)
  BY <1>1, <1>2, <1>3
<1>5. taker \in Taken /\ inbox' = inbox
  BY DEF Match, FInv, EngineOK
<1>6. id \in OrderIds /\ maker \in Resting
  BY <1>2 DEF FInv, EngineOK, Function
<1>7. q \in Int
  BY <1>2, <1>5, <1>6 DEF Taken, Resting
<1>8. f \in Fill
  BY <1>3, <1>5, <1>6, <1>7 DEF Fill, Taken, Resting
<1>9. taker' \in Taken
  BY <1>4, <1>5, <1>7 DEF Taken
<1>10. Function(book', OrderIds, Resting)
  <2>1. CASE maker.left = q
    BY <1>4, <2>1 DEF FInv, EngineOK, Function
  <2>2. CASE maker.left # q
    <3>1. maker.left - q \in Int
      BY <1>6, <1>7, <2>2 DEF Resting
    <3>2. [maker EXCEPT !.left = @ - q] \in Resting
      BY <1>6, <3>1 DEF Resting
    <3>3. /\ DOMAIN book' = DOMAIN book /\ book'[id] = [maker EXCEPT !.left = @ - q]
          /\ \A x \in DOMAIN book : x # id => book'[x] = book[x]
      BY <1>2, <1>4, <2>2
    <3> QED BY <3>2, <3>3 DEF FInv, EngineOK, Function
  <2> QED BY <2>1, <2>2
<1>11. call' \in SettleCall
  BY <1>4, <1>8 DEF SettleCall
<1> QED BY <1>4, <1>5, <1>8, <1>9, <1>10, <1>11

LEMMA CallFacts ==
  ASSUME FInv, call # None
  PROVE  /\ call \in SettleCall \/ call \in CancelCall
         /\ call.slot # NoSlot => call.slot \in Slots
         /\ call.slot = NoSlot => call \in SettleCall
BY SlotsAssumption DEF FInv, EngineOK, SettleCall, CancelCall

\* What gateway and engine do is a step of Accounts, or none.
LEMMA FlowIsAccounts ==
  ASSUME FInv, [FlowNext]_fvars
  PROVE  [Next]_vars
<1>1. CASE UNCHANGED fvars
  BY <1>1 DEF fvars
<1>2. ASSUME NEW t \in Slots, Place(t) PROVE Next
  BY <1>2, OffersAssumption DEF Place, Next
<1>3. ASSUME NEW t \in Slots, Cancel(t) PROVE Next
  <2>1. PICK id \in DOMAIN orders : RequestCancel(t, id)
    BY <1>3 DEF Cancel
  <2>2. id \in OrderIds
    BY DEF FInv, IInv, TablesOK, Function
  <2> QED BY <2>1, <2>2 DEF Next
<1>4. ASSUME NEW t \in Slots, GatewayReply(t) PROVE Next
  BY <1>4 DEF GatewayReply, Next
<1>5. ASSUME NEW t \in Slots, AccountsStep(t) PROVE Next
  BY <1>5 DEF AccountsStep, Next
<1>6. ASSUME NEW t \in Slots, Orphan(t) PROVE Next
  BY <1>6 DEF Orphan, Next
<1>7. CASE TakeOrder \/ TakeCancel \/ Finish \/ EngineTimeout
  BY <1>7 DEF TakeOrder, TakeCancel, Finish, EngineTimeout
<1>8. CASE EngineReply
  <2>1. call.slot \in Slots /\ Collect(call.slot)
    BY <1>8, CallFacts DEF EngineReply
  <2> QED BY <2>1 DEF Next
<1>9. ASSUME NEW t \in Slots, Match(t) PROVE Next
  BY <1>9, MatchFacts DEF Next
<1>10. ASSUME NEW t \in Slots, Retry(t) PROVE Next
  <2>1. call \in SettleCall /\ RequestSettle(t, call.fill)
    BY <1>10, CallFacts DEF Retry
  <2>2. call.fill \in Fill
    BY <2>1 DEF SettleCall
  <2> QED BY <2>1, <2>2 DEF Next
<1>11. ASSUME NEW t \in Slots, CancelRest(t) PROVE Next
  <2>1. taker \in Taken /\ RequestCancelInternal(t, taker.id, taker.settled)
    BY <1>11 DEF CancelRest, FInv, EngineOK
  <2>2. taker.id \in OrderIds /\ taker.settled \in Int
    BY <2>1 DEF Taken
  <2> QED BY <2>1, <2>2 DEF Next
<1> QED BY <1>1, <1>2, <1>3, <1>4, <1>5, <1>6, <1>7, <1>8, <1>9, <1>10, <1>11
        DEF FlowNext, EngineStep

\* Commands in the inbox stay commands, since no order leaves the table.
LEMMA InboxFacts ==
  ASSUME inbox \in Seq(Command), DOMAIN orders \subseteq DOMAIN orders'
  PROVE  inbox \in Seq(Command')
<1>1. Command \subseteq Command'
  BY DEF Command
<1> HIDE DEF Command
<1> QED BY <1>1, SeqMonotonic

\* The gateway passes on what accounts accepted, and the engine takes a command and skips
\* the ones before it.
LEMMA GatewayReplyEngine ==
  ASSUME FInv, NEW t \in Slots, GatewayReply(t), DOMAIN orders \subseteq DOMAIN orders'
  PROVE  inbox' \in Seq(Command')
<1>1. inbox \in Seq(Command')
  BY InboxFacts DEF FInv, EngineOK
<1>2. PICK c : c = [op |-> tx[t].op, id |-> tx[t].id]
  OBVIOUS
<1>3. tx[t].op \in {"place", "cancel"} /\ tx[t].at = "done"
  BY DEF GatewayReply, Collect
<1>4. inbox' = IF tx[t].ok THEN Append(inbox, c) ELSE inbox
  BY <1>2 DEF GatewayReply
<1>5. tx[t].ok \in BOOLEAN
  BY DEF FInv, IInv, SlotOK, RequestOK, Shape
<1>6. CASE tx[t].ok = TRUE
  <2>1. tx[t].id \in DOMAIN orders
    BY <1>3, <1>6 DEF FInv, DoneOK
  <2>2. c \in Command'
    BY <1>2, <1>3, <2>1 DEF Command
  <2>3. inbox' = Append(inbox, c)
    BY <1>4, <1>6
  <2> QED BY <1>1, <2>2, <2>3, AppendProperties
<1>7. CASE tx[t].ok = FALSE
  BY <1>1, <1>4, <1>7
<1> QED BY <1>5, <1>6, <1>7

LEMMA SkipFacts ==
  ASSUME NEW S, NEW s \in Seq(S), NEW i \in DOMAIN s
  PROVE  s[i] \in S /\ SubSeq(s, i + 1, Len(s)) \in Seq(S)
<1>1. Len(s) \in Nat /\ i \in 1 .. Len(s) /\ \A j \in 1 .. Len(s) : s[j] \in S
  BY LenProperties, ElementOfSeq
<1>2. \A j \in i + 1 .. Len(s) : s[j] \in S
  BY <1>1
<1>3. i + 1 \in Int /\ Len(s) \in Int
  BY <1>1
<1> QED BY <1>1, <1>2, <1>3, SubSeqProperties

LEMMA TakeOrderEngine ==
  ASSUME FInv, TakeOrder
  PROVE  /\ inbox' \in Seq(Command') /\ taker' \in Taken
         /\ book' = book /\ call' = call
<1>1. PICK i \in DOMAIN inbox :
        /\ LET id == inbox[i].id
               o  == orders[id]
           IN taker' = [id |-> id, side |-> o.side, kind |-> o.kind, price |-> o.price,
                        quantity |-> o.quantity, left |-> o.quantity, settled |-> 0,
                        closed |-> FALSE]
        /\ inbox' = SubSeq(inbox, i + 1, Len(inbox))
  BY DEF TakeOrder
<1>2. PICK id, o : id = inbox[i].id /\ o = orders[id]
  OBVIOUS
<1>3. inbox[i] \in Command /\ inbox' \in Seq(Command)
  BY <1>1, SkipFacts DEF FInv, EngineOK
<1>4. id \in DOMAIN orders
  BY <1>2, <1>3 DEF Command
<1>5. id \in OrderIds /\ o \in Order
  BY <1>2, <1>4 DEF FInv, IInv, TablesOK, Function
<1>6. /\ o.side \in Sides /\ o.kind \in {"limit", "market"} /\ o.price \in Prices \cup {NoPrice}
      /\ o.quantity \in Int /\ (o.kind = "limit" => o.price \in Prices)
  BY <1>5, QuantitiesAssumption DEF Order, Sides
<1>7. taker' = [id |-> id, side |-> o.side, kind |-> o.kind, price |-> o.price,
                quantity |-> o.quantity, left |-> o.quantity, settled |-> 0, closed |-> FALSE]
  BY <1>1, <1>2
<1>8. taker' \in Taken
  BY <1>5, <1>6, <1>7 DEF Taken, Sides
<1>9. orders' = orders /\ book' = book /\ call' = call
  BY DEF TakeOrder, vars
<1>10. Command' = Command
  BY <1>9 DEF Command
<1> QED BY <1>3, <1>8, <1>9, <1>10

LEMMA TakeCancelEngine ==
  ASSUME FInv, TakeCancel
  PROVE  /\ inbox' \in Seq(Command') /\ Function(book', OrderIds, Resting)
         /\ taker' = taker /\ call' = call
<1>1. PICK i \in DOMAIN inbox :
        /\ book' = [id \in DOMAIN book \ {inbox[i].id} |-> book[id]]
        /\ inbox' = SubSeq(inbox, i + 1, Len(inbox))
  BY DEF TakeCancel
<1>2. inbox' \in Seq(Command)
  BY <1>1, SkipFacts DEF FInv, EngineOK
<1>3. orders' = orders /\ taker' = taker /\ call' = call
  BY DEF TakeCancel, vars
<1>4. Command' = Command
  BY <1>3 DEF Command
<1>5. Function(book', OrderIds, Resting)
  BY <1>1 DEF FInv, EngineOK, Function
<1> QED BY <1>2, <1>3, <1>4, <1>5

\* What an answer, a timeout or a retry does to the call and to the order being matched.
LEMMA CallEngine ==
  ASSUME FInv, EngineReply \/ EngineTimeout \/ \E t \in Slots : Retry(t)
  PROVE  /\ inbox' = inbox /\ book' = book
         /\ taker' # None => taker' \in Taken
         /\ call' # None => taker' \in Taken /\ call' \in SettleCall \cup CancelCall
<1>1. CASE EngineReply
  <2>1. call \in SettleCall \/ call \in CancelCall
    BY <1>1, CallFacts DEF EngineReply
  <2>2. /\ taker' # taker => /\ call.op = "settle"
                            /\ taker' = [taker EXCEPT !.settled = @ + call.fill.quantity]
        /\ inbox' = inbox /\ book' = book /\ call' = None
    BY <1>1 DEF EngineReply
  <2>3. taker \in Taken
    BY <1>1 DEF EngineReply, FInv, EngineOK
  <2>4. call.op = "settle" => call.fill.quantity \in Int
    BY <2>1 DEF SettleCall, CancelCall, Fill
  <2>5. call.op = "settle" => [taker EXCEPT !.settled = @ + call.fill.quantity] \in Taken
    BY <2>3, <2>4 DEF Taken
  <2> QED BY <2>2, <2>3, <2>5
<1>2. CASE EngineTimeout
  <2>1. call \in SettleCall \/ call \in CancelCall
    BY <1>2, CallFacts DEF EngineTimeout
  <2>2. /\ inbox' = inbox /\ book' = book /\ taker' = taker /\ call # None
        /\ call' = IF MayRetry THEN [call EXCEPT !.slot = NoSlot] ELSE None
    BY <1>2 DEF EngineTimeout
  <2>3. MayRetry => call \in SettleCall
    BY <2>1 DEF MayRetry, CancelCall
  <2>4. MayRetry => [call EXCEPT !.slot = NoSlot] \in SettleCall
    BY <2>3 DEF SettleCall
  <2> QED BY <2>2, <2>4 DEF FInv, EngineOK
<1>3. ASSUME NEW t \in Slots, Retry(t)
      PROVE  /\ inbox' = inbox /\ book' = book /\ taker' = taker
             /\ call # None /\ call' \in SettleCall
  <2>1. call \in SettleCall
    BY <1>3, CallFacts DEF Retry
  <2>2. PICK n \in Nat : n = call.attempts + 1
    BY <2>1 DEF SettleCall
  <2>3. call' = [call EXCEPT !.slot = t, !.attempts = n]
    BY <1>3, <2>2 DEF Retry, NextAttempt
  <2>4. [call EXCEPT !.slot = t, !.attempts = n] \in SettleCall
    BY <2>1 DEF SettleCall
  <2> QED BY <1>3, <2>3, <2>4 DEF Retry
<1> QED BY <1>1, <1>2, <1>3 DEF FInv, EngineOK

LEMMA CancelRestEngine ==
  ASSUME FInv, NEW t \in Slots, CancelRest(t)
  PROVE  inbox' = inbox /\ book' = book /\ taker' \in Taken /\ call' \in CancelCall
<1>1. taker \in Taken
  BY DEF CancelRest, FInv, EngineOK
<1>2. /\ taker' = [taker EXCEPT !.closed = TRUE] /\ inbox' = inbox /\ book' = book
      /\ call' = [op |-> "cancel", fill |-> << >>, slot |-> t, attempts |-> 1]
  BY DEF CancelRest
<1>3. taker' \in Taken
  BY <1>1, <1>2 DEF Taken
<1> QED BY <1>2, <1>3 DEF CancelCall

LEMMA FinishEngine ==
  ASSUME FInv, Finish
  PROVE  /\ inbox' = inbox /\ taker' = None /\ call' = None
         /\ Function(book', OrderIds, Resting)
<1>1. taker \in Taken
  BY DEF Finish, FInv, EngineOK
<1>2. PICK r : r = [side |-> taker.side, price |-> taker.price, left |-> taker.left]
  OBVIOUS
<1>3. /\ inbox' = inbox /\ taker' = None /\ call' = None
      /\ book' = IF taker.kind = "limit" /\ taker.left # 0 THEN Put(book, taker.id, r) ELSE book
  BY <1>2 DEF Finish
<1>4. CASE taker.kind = "limit" /\ taker.left # 0
  <2>1. r \in Resting /\ taker.id \in OrderIds
    BY <1>1, <1>2, <1>4 DEF Taken, Resting, Sides
  <2> QED BY <1>3, <1>4, <2>1 DEF FInv, EngineOK, Function, Put
<1>5. CASE ~(taker.kind = "limit" /\ taker.left # 0)
  BY <1>3, <1>5 DEF FInv, EngineOK
<1> QED BY <1>3, <1>4, <1>5

LEMMA EngineStepOK ==
  ASSUME FInv, DOMAIN orders \subseteq DOMAIN orders', [FlowNext]_fvars
  PROVE  EngineOK'
<1>1. inbox \in Seq(Command')
  BY InboxFacts DEF FInv, EngineOK
<1>2. CASE UNCHANGED <<inbox, book, taker, call>>
  BY <1>1, <1>2 DEF FInv, EngineOK, Function
<1>3. ASSUME NEW t \in Slots, Place(t) \/ Cancel(t) \/ AccountsStep(t) \/ Orphan(t)
      PROVE  UNCHANGED <<inbox, book, taker, call>>
  BY <1>3 DEF Place, Cancel, AccountsStep, Orphan, engine
<1>4. ASSUME NEW t \in Slots, GatewayReply(t)
      PROVE  EngineOK'
  <2>1. inbox' \in Seq(Command')
    BY <1>4, GatewayReplyEngine
  <2>2. UNCHANGED <<book, taker, call>>
    BY <1>4 DEF GatewayReply, engine
  <2> QED BY <2>1, <2>2 DEF FInv, EngineOK, Function
<1>5. CASE TakeOrder
  BY <1>5, TakeOrderEngine DEF FInv, EngineOK, Function
<1>6. CASE TakeCancel
  BY <1>6, TakeCancelEngine DEF FInv, EngineOK
<1>7. ASSUME NEW t \in Slots, Match(t) PROVE EngineOK'
  BY <1>1, <1>7, MatchFacts DEF EngineOK
<1>8. CASE EngineReply \/ EngineTimeout \/ \E t \in Slots : Retry(t)
  BY <1>1, <1>8, CallEngine DEF FInv, EngineOK, Function
<1>9. ASSUME NEW t \in Slots, CancelRest(t) PROVE EngineOK'
  BY <1>1, <1>9, CancelRestEngine DEF FInv, EngineOK, Function
<1>10. CASE Finish
  BY <1>1, <1>10, FinishEngine DEF FInv, EngineOK
<1>11. UNCHANGED fvars => UNCHANGED <<inbox, book, taker, call>>
  BY DEF fvars
<1> QED BY <1>2, <1>3, <1>4, <1>5, <1>6, <1>7, <1>8, <1>9, <1>10, <1>11
        DEF FlowNext, EngineStep

LEMMA InitFInv == FlowInit => FInv /\ Init
<1> SUFFICES ASSUME FlowInit PROVE FInv /\ Init
  OBVIOUS
<1>1. Init
  BY DEF FlowInit
<1>2. DoneOK
  BY <1>1, BlankShape DEF Init, DoneOK
<1>3. EngineOK
  <2>1. inbox \in Seq(Command)
    BY EmptySeq DEF FlowInit
  <2> QED BY <2>1 DEF FlowInit, EngineOK, Function
<1> QED BY <1>1, <1>2, <1>3, InitIInv DEF FInv

LEMMA NextFInv == FInv /\ [FlowNext]_fvars => FInv'
<1> SUFFICES ASSUME FInv, [FlowNext]_fvars PROVE FInv'
  OBVIOUS
<1>1. [Next]_vars
  BY FlowIsAccounts
<1>2. IInv'
  BY <1>1, NextIInv DEF FInv
<1>3. DoneOK' /\ DOMAIN orders \subseteq DOMAIN orders'
  BY <1>1, NextDone DEF FInv
<1>4. EngineOK'
  BY <1>3, EngineStepOK
<1> QED BY <1>2, <1>3, <1>4 DEF FInv

-----------------------------------------------------------------------------
\* A command names an order accounts has, a resting order has something left, and the call
\* the engine waits for carries a proper fill, whatever datagrams are lost and however often
\* a call times out.
THEOREM FlowInvariance == FlowSpec => []FInv
BY InitFInv, NextFInv, PTL DEF FlowSpec

\* Gateway and engine, with timeouts, retries and requests left behind, ask of accounts only
\* what any client may ask: the whole way of an order implements Accounts.
THEOREM FlowImplementsAccounts == FlowSpec => Spec
<1>1. FlowInit => Init
  BY InitFInv
<1>2. FInv /\ [FlowNext]_fvars => [Next]_vars
  BY FlowIsAccounts
<1> QED BY <1>1, <1>2, FlowInvariance, PTL DEF FlowSpec, Spec

\* The tables, locks and requests of accounts keep their types under gateway and engine.
THEOREM FlowTypeCorrect == FlowSpec => []TypeOK
BY FlowImplementsAccounts, AccountsTypeCorrect, PTL

\* reconcile finds nothing, however placements, cancellations, settlements and retries
\* interleave.
THEOREM FlowBalancesAreTheLedger == FlowSpec => []LedgerMatchesBalances
BY FlowImplementsAccounts, BalancesAreTheLedger, PTL

\* No settlement or retry of the engine ever takes a balance below zero.
THEOREM FlowNobodyOverdraws == FlowSpec => []NoOverdraft
BY FlowImplementsAccounts, NobodyOverdraws, PTL

-----------------------------------------------------------------------------
(* What a step does to a request: it moves on, arrives or is done with. *)

\* A request from one statement to the next, or to its answer.
Goes(x, y) ==
  /\ y.op = x.op /\ y.fill = x.fill /\ (x.op = "settle" \/ y.id = x.id)
  /\ \/ y.at = "done" /\ (y.ok = TRUE => x.at # "done")
     \/ y.at = x.at /\ y.known = x.known /\ y.ok = x.ok
     \/ x.at \in {"buyer", "seller"} /\ y.at \in {"seller", "commit"} /\ y.known = x.known
     \/ x.at = "check" /\ y.at = "buyer" /\ y.known = Known(x.fill)
     \/ x.at = "row" /\ y.at = "apply"

LEMMA AnswerGoes ==
  ASSUME IInv, NEW t \in Slots, NEW x, NEW ok \in BOOLEAN,
         tx' = [tx EXCEPT ![t] = Answer(x, ok)],
         x.op = tx[t].op, x.id = tx[t].id, x.fill = tx[t].fill,
         ok = TRUE => tx[t].at # "done"
  PROVE  Goes(tx[t], tx'[t]) /\ \A s \in Slots : s # t => tx'[s] = tx[s]
<1>1. PICK y : y = Answer(x, ok)
  OBVIOUS
<1>2. y.op = x.op /\ y.id = x.id /\ y.fill = x.fill /\ y.at = "done" /\ y.ok = ok
  BY <1>1, BlankShape DEF Answer
<1>3. tx'[t] = y /\ \A s \in Slots : s # t => tx'[s] = tx[s]
  BY <1>1 DEF IInv
<1> QED BY <1>2, <1>3 DEF Goes

LEMMA AbortGoes ==
  ASSUME IInv, NEW t \in Slots, NEW ok \in BOOLEAN, Abort(t, ok), ok = TRUE => tx[t].at # "done"
  PROVE  Goes(tx[t], tx'[t]) /\ \A s \in Slots : s # t => tx'[s] = tx[s]
BY AnswerGoes DEF Abort

LEMMA CommitGoes ==
  ASSUME IInv, NEW t \in Slots, NEW x, Commit(t, x),
         x.op = tx[t].op, x.id = tx[t].id, x.fill = tx[t].fill, tx[t].at # "done"
  PROVE  Goes(tx[t], tx'[t]) /\ \A s \in Slots : s # t => tx'[s] = tx[s]
BY AnswerGoes DEF Commit

LEMMA PlaceApplyGoes ==
  ASSUME IInv, NEW t \in Slots, PlaceApply(t)
  PROVE  Goes(tx[t], tx'[t]) /\ \A s \in Slots : s # t => tx'[s] = tx[s]
<1>1. PICK x : x = tx[t]
  OBVIOUS
<1> DEFINE k == LockKey(x.order)
           amount == -LockAmount(x.order)
<1>2. PICK y : y = Post(x, k, amount, "lock")
  OBVIOUS
<1>3. PICK z : z = [y EXCEPT !.rows = Put(@, x.id, x.order)]
  OBVIOUS
<1>4. /\ x.op = "place" /\ x.at = "apply"
      /\ Commit(t, z) \/ Abort(t, FALSE)
  BY <1>1, <1>2, <1>3 DEF PlaceApply, At
<1>5. /\ Shape(x) /\ Function(x.bal, Keys, Int) /\ x.sum \in [Keys -> Int]
      /\ x.order \in Order /\ balances \in [Keys -> Int]
  BY <1>1, <1>4 DEF IInv, TablesOK, SlotOK, RequestOK
<1>6. k \in Keys /\ amount \in Int
  BY <1>5, OrderFacts
<1> HIDE DEF k, amount
<1>7. Shape(y) /\ y.op = x.op /\ y.id = x.id /\ y.fill = x.fill
  BY <1>2, <1>5, <1>6, PostFacts
<1>8. z.op = x.op /\ z.id = x.id /\ z.fill = x.fill
  BY <1>3, <1>7 DEF Shape
<1> QED BY <1>1, <1>4, <1>8, CommitGoes, AbortGoes

LEMMA CancelApplyGoes ==
  ASSUME IInv, NEW t \in Slots, CancelApply(t)
  PROVE  Goes(tx[t], tx'[t]) /\ \A s \in Slots : s # t => tx'[s] = tx[s]
<1>1. PICK x, o : x = tx[t] /\ o = orders[tx[t].id]
  OBVIOUS
<1> DEFINE k == LockKey(o)
           amount == UnlockAmount(o, x.filled)
<1>2. PICK y : y = IF amount > 0 THEN Post(x, k, amount, "unlock") ELSE x
  OBVIOUS
<1>3. PICK after : after = [o EXCEPT !.status = "cancelled", !.filled = x.filled]
  OBVIOUS
<1>4. PICK z : z = [y EXCEPT !.rows = Put(@, x.id, after)]
  OBVIOUS
<1>5. x.op \in Cancels /\ x.at = "apply" /\ Commit(t, z)
  BY <1>1, <1>2, <1>3, <1>4 DEF CancelApply, At, Cancels
<1>6. /\ Shape(x) /\ Function(x.bal, Keys, Int) /\ x.sum \in [Keys -> Int]
      /\ x.id \in DOMAIN orders /\ x.filled \in Int /\ balances \in [Keys -> Int]
  BY <1>1, <1>5 DEF IInv, TablesOK, SlotOK, RequestOK
<1>7. o \in Order
  BY <1>1, <1>6 DEF IInv, TablesOK, Function
<1>8. k \in Keys /\ amount \in Int
  BY <1>6, <1>7, OrderFacts, UnlockFacts
<1> HIDE DEF k, amount
<1>9. Shape(y) /\ y.op = x.op /\ y.id = x.id /\ y.fill = x.fill
  BY <1>2, <1>6, <1>8, PostFacts
<1>10. z.op = x.op /\ z.id = x.id /\ z.fill = x.fill
  BY <1>4, <1>9 DEF Shape
<1> QED BY <1>1, <1>5, <1>10, CommitGoes

LEMMA StatementGoes ==
  ASSUME IInv, NEW t \in Slots, Statement(t)
  PROVE  Goes(tx[t], tx'[t]) /\ \A s \in Slots : s # t => tx'[s] = tx[s]
<1>1. Shape(tx[t])
  BY DEF IInv, SlotOK, RequestOK
<1>2. CASE AdvisoryLock(t)
  <2>1. PICK y : y = [tx[t] EXCEPT !.want = Tail(@)]
    OBVIOUS
  <2>2. tx' = [tx EXCEPT ![t] = y]
    BY <1>2, <2>1 DEF AdvisoryLock, IInv
  <2>3. /\ y.op = tx[t].op /\ y.at = tx[t].at /\ y.id = tx[t].id /\ y.fill = tx[t].fill
        /\ y.known = tx[t].known
    BY <1>1, <2>1 DEF Shape
  <2>4. y.ok = tx[t].ok
    BY <1>1, <2>1 DEF Shape
  <2> QED BY <2>2, <2>3, <2>4 DEF IInv, Goes
<1>3. CASE PlaceApply(t)
  BY <1>3, PlaceApplyGoes
<1>4. CASE CancelLookup(t)
  <2>1. CASE Abort(t, FALSE)
    BY <2>1, AbortGoes
  <2>2. CASE ~Abort(t, FALSE)
    <3> DEFINE o == orders[tx[t].id]
               filled == IF tx[t].op = "cancel" THEN o.filled ELSE tx[t].filled
               want == IF UnlockAmount(o, filled) > 0 THEN <<LockKey(o)>> ELSE << >>
    <3>1. tx' = [tx EXCEPT ![t].at = "apply", ![t].filled = filled, ![t].want = want]
      BY <1>4, <2>2 DEF CancelLookup
    <3> HIDE DEF filled, want
    <3>2. PICK y : y = [tx[t] EXCEPT !.at = "apply", !.filled = filled, !.want = want]
      OBVIOUS
    <3>3. tx' = [tx EXCEPT ![t] = y]
      BY <3>1, <3>2 DEF IInv
    <3>4. y.at = "apply" /\ y.op = tx[t].op /\ y.id = tx[t].id /\ y.fill = tx[t].fill
      BY <1>1, <3>2 DEF Shape
    <3>5. tx[t].at = "row"
      BY <1>4 DEF CancelLookup, At
    <3> QED BY <3>3, <3>4, <3>5 DEF IInv, Goes
  <2> QED BY <2>1, <2>2
<1>5. CASE CancelApply(t)
  BY <1>5, CancelApplyGoes
<1>6. CASE SettleCheck(t)
  <2>1. tx[t].at = "check"
    BY <1>6 DEF SettleCheck, At
  <2>2. CASE Abort(t, TRUE)
    BY <2>1, <2>2, AbortGoes
  <2>3. CASE ~Abort(t, TRUE)
    <3>1. PICK want, known :
            /\ tx' = [tx EXCEPT ![t].at = "buyer", ![t].want = want, ![t].known = known]
            /\ known = Known(tx[t].fill)
      BY <1>6, <2>3 DEF SettleCheck
    <3>2. PICK y : y = [tx[t] EXCEPT !.at = "buyer", !.want = want, !.known = known]
      OBVIOUS
    <3>3. tx' = [tx EXCEPT ![t] = y]
      BY <3>1, <3>2 DEF IInv
    <3>4. /\ y.at = "buyer" /\ y.op = tx[t].op /\ y.id = tx[t].id /\ y.fill = tx[t].fill
          /\ y.known = known
      BY <1>1, <3>2 DEF Shape
    <3> QED BY <2>1, <3>1, <3>3, <3>4 DEF IInv, Goes
  <2> QED BY <2>2, <2>3
<1>7. CASE SettleBuyer(t) \/ SettleSeller(t)
  <2>1. (BuyerGoesOn(t) \/ SellerGoesOn(t)) /\ tx[t].op = "settle"
    BY <1>7, SettleBuyerFacts, SettleSellerFacts
  <2>2. tx[t].at \in {"buyer", "seller"}
    BY <1>7 DEF SettleBuyer, SettleSeller, At
  <2>3. CASE Abort(t, FALSE)
    BY <2>3, AbortGoes
  <2>4. CASE ~Abort(t, FALSE)
    <3>1. PICK y : /\ y.op = "settle" /\ y.at \in {"seller", "commit"} /\ y.fill = tx[t].fill
                   /\ y.known = tx[t].known /\ tx' = [tx EXCEPT ![t] = y]
      BY <2>1, <2>4 DEF BuyerGoesOn, SellerGoesOn, GoesOn, Moves
    <3> QED BY <2>1, <2>2, <3>1 DEF IInv, Goes
  <2> QED BY <2>3, <2>4
<1>8. CASE SettleRecord(t)
  BY <1>8, CommitGoes DEF SettleRecord, At
<1>9. CASE DeadlockAbort(t)
  BY <1>9, AbortGoes DEF DeadlockAbort
<1> QED BY <1>2, <1>3, <1>4, <1>5, <1>6, <1>7, <1>8, <1>9 DEF Statement

\* What becomes of slot s: nothing, or its request moves on or is done with, or a request
\* arrives, a settlement of which carries the fill of the engine's call.
Stays(s) == tx'[s] = tx[s] \/ tx'[s].op = "idle" \/ Goes(tx[s], tx'[s])

Arrives(s) ==
  /\ tx[s].op = "idle"
  /\ \/ tx'[s].op \in Cancels /\ tx'[s].at = "row"
     \/ tx'[s].op = "place" /\ tx'[s].at = "apply"
     \/ /\ tx'[s].op = "settle" /\ tx'[s].at = "check"
        /\ call' # None /\ call'.op = "settle" /\ call'.fill = tx'[s].fill

LEMMA RequestSlot ==
  ASSUME IInv, NEW t \in Slots, NEW y, Request(t, y)
  PROVE  tx[t].op = "idle" /\ tx'[t] = y /\ \A s \in Slots : s # t => tx'[s] = tx[s]
BY DEF Request, IInv

LEMMA CollectSlot ==
  ASSUME IInv, NEW t \in Slots, Collect(t)
  PROVE  tx'[t].op = "idle" /\ \A s \in Slots : s # t => tx'[s] = tx[s]
<1>1. Blank.op = "idle"
  BY BlankShape
<1> QED BY <1>1 DEF Collect, IInv

LEMMA SettleSlot ==
  ASSUME IInv, NEW t \in Slots, NEW f, RequestSettle(t, f)
  PROVE  /\ tx[t].op = "idle" /\ tx'[t].op = "settle" /\ tx'[t].at = "check" /\ tx'[t].fill = f
         /\ \A s \in Slots : s # t => tx'[s] = tx[s]
<1>1. PICK y : y = [Blank EXCEPT !.op = "settle", !.at = "check", !.fill = f]
  OBVIOUS
<1>2. Request(t, y)
  BY <1>1 DEF RequestSettle
<1>3. y.op = "settle" /\ y.at = "check" /\ y.fill = f
  BY <1>1, BlankShape
<1> QED BY <1>2, <1>3, RequestSlot

LEMMA CallNotNone ==
  ASSUME NEW c, c \in SettleCall \/ c \in CancelCall
  PROVE  c # None
<1>1. c \in Calls
  BY DEF SettleCall, CancelCall, Calls
<1> QED BY <1>1, NoneAssumption

LEMMA RetryCall ==
  ASSUME call \in SettleCall, NEW t \in Slots, Retry(t)
  PROVE  call' \in SettleCall /\ call'.fill = call.fill
<1>1. PICK n \in Nat : n = call.attempts + 1
  BY DEF SettleCall
<1>2. call' = [call EXCEPT !.slot = t, !.attempts = n]
  BY <1>1 DEF Retry, NextAttempt
<1> QED BY <1>2 DEF SettleCall

LEMMA FlowSlots ==
  ASSUME FInv, [FlowNext]_fvars
  PROVE  \A s \in Slots : Stays(s) \/ Arrives(s)
<1>1. IInv
  BY DEF FInv
<1>2. CASE UNCHANGED tx
  BY <1>2 DEF Stays
<1>3. ASSUME NEW t \in Slots, Place(t) PROVE \A s \in Slots : Stays(s) \/ Arrives(s)
  <2>1. PICK o : RequestPlace(t, o)
    BY <1>3 DEF Place
  <2>2. PICK y : y = [Blank EXCEPT !.op = "place", !.at = "apply", !.want = <<LockKey(o)>>,
                                   !.id = ids + 1, !.order = o]
    OBVIOUS
  <2>3. Request(t, y)
    BY <2>1, <2>2 DEF RequestPlace
  <2>4. y.op = "place" /\ y.at = "apply"
    BY <2>2, BlankShape
  <2> QED BY <1>1, <2>3, <2>4, RequestSlot DEF Stays, Arrives
<1>4. ASSUME NEW t \in Slots, Cancel(t) PROVE \A s \in Slots : Stays(s) \/ Arrives(s)
  <2>1. PICK id : RequestCancel(t, id)
    BY <1>4 DEF Cancel
  <2>2. PICK y : y = [Blank EXCEPT !.op = "cancel", !.at = "row", !.id = id]
    OBVIOUS
  <2>3. Request(t, y)
    BY <2>1, <2>2 DEF RequestCancel
  <2>4. y.op = "cancel" /\ y.at = "row"
    BY <2>2, BlankShape
  <2> QED BY <1>1, <2>3, <2>4, RequestSlot DEF Stays, Arrives, Cancels
<1>5. ASSUME NEW t \in Slots, GatewayReply(t) PROVE \A s \in Slots : Stays(s) \/ Arrives(s)
  BY <1>1, <1>5, CollectSlot DEF GatewayReply, Stays
<1>6. ASSUME NEW t \in Slots, AccountsStep(t) PROVE \A s \in Slots : Stays(s) \/ Arrives(s)
  BY <1>1, <1>6, StatementGoes DEF AccountsStep, Stays
<1>7. ASSUME NEW t \in Slots, Orphan(t) PROVE \A s \in Slots : Stays(s) \/ Arrives(s)
  <2>1. CASE Drop(t)
    BY <1>1, <2>1, AbortGoes DEF Drop, Stays
  <2>2. CASE Collect(t)
    BY <1>1, <2>2, CollectSlot DEF Stays
  <2> QED BY <1>7, <2>1, <2>2 DEF Orphan
<1>8. CASE TakeOrder \/ TakeCancel \/ Finish \/ EngineTimeout
  BY <1>2, <1>8 DEF TakeOrder, TakeCancel, Finish, EngineTimeout, vars
<1>9. CASE EngineReply
  <2>1. call.slot \in Slots /\ Collect(call.slot)
    BY <1>9, CallFacts DEF EngineReply
  <2> QED BY <1>1, <2>1, CollectSlot DEF Stays
<1>10. ASSUME NEW t \in Slots, Match(t) PROVE \A s \in Slots : Stays(s) \/ Arrives(s)
  <2>1. PICK f : /\ RequestSettle(t, f)
                 /\ call' = [op |-> "settle", fill |-> f, slot |-> t, attempts |-> 1]
    BY <1>10 DEF Match
  <2>2. call' \in SettleCall
    BY <1>10, MatchFacts
  <2>3. call'.op = "settle" /\ call'.fill = f
    BY <2>1
  <2> QED BY <1>1, <2>1, <2>2, <2>3, CallNotNone, SettleSlot DEF Stays, Arrives
<1>11. ASSUME NEW t \in Slots, Retry(t) PROVE \A s \in Slots : Stays(s) \/ Arrives(s)
  <2>1. call \in SettleCall
    BY <1>11, CallFacts DEF Retry
  <2>2. RequestSettle(t, call.fill) /\ call'.op = "settle" /\ call'.fill = call.fill
    BY <1>11, <2>1 DEF Retry, SettleCall
  <2>3. call' \in SettleCall
    BY <1>11, <2>1, RetryCall
  <2> QED BY <1>1, <2>2, <2>3, CallNotNone, SettleSlot DEF Stays, Arrives
<1>12. ASSUME NEW t \in Slots, CancelRest(t) PROVE \A s \in Slots : Stays(s) \/ Arrives(s)
  <2>1. PICK id, filled : RequestCancelInternal(t, id, filled)
    BY <1>12 DEF CancelRest
  <2>2. PICK y : y = [Blank EXCEPT !.op = "cancel_internal", !.at = "row", !.id = id,
                                   !.filled = filled]
    OBVIOUS
  <2>3. Request(t, y)
    BY <2>1, <2>2 DEF RequestCancelInternal
  <2>4. y.op = "cancel_internal" /\ y.at = "row"
    BY <2>2, BlankShape
  <2> QED BY <1>1, <2>3, <2>4, RequestSlot DEF Stays, Arrives, Cancels
<1> QED BY <1>2, <1>3, <1>4, <1>5, <1>6, <1>7, <1>8, <1>9, <1>10, <1>11, <1>12
        DEF FlowNext, EngineStep, fvars, vars

-----------------------------------------------------------------------------
(* Which orders the engine, its requests and the trades speak of. *)

Names(f) == {f.buy, f.sell}

\* Both orders of a fill are in the table, a bid and an ask.
Sided(f) ==
  Names(f) \subseteq DOMAIN orders /\ orders[f.buy].side = "bid" /\ orders[f.sell].side = "ask"

\* Whatever is settled, going to be settled or was settled is a fill of two accepted orders,
\* and a settlement that went past its lookups has found both.
FillsOK ==
  /\ call # None /\ call.op = "settle" => Sided(call.fill)
  /\ \A t \in Slots : tx[t].op = "settle" =>
       /\ Sided(tx[t].fill)
       /\ tx[t].at \in {"buyer", "seller", "commit"} => tx[t].known = Names(tx[t].fill)
  /\ \A f \in DOMAIN applied : Sided(f)

\* An accepted order that the gateway has not passed on yet, and a command that has not
\* reached the engine.
Accepted(t) == tx[t].op = "place" /\ tx[t].at = "done" /\ tx[t].ok = TRUE

Passed(i) == inbox[i].op = "place"

Waiting ==
  {inbox[i].id : i \in {j \in DOMAIN inbox : Passed(j)}}
    \cup {tx[t].id : t \in {s \in Slots : Accepted(s)}}

\* No order is on its way to the engine twice.
WaitingOK ==
  /\ \A i, j \in DOMAIN inbox : Passed(i) /\ Passed(j) /\ inbox[i].id = inbox[j].id => i = j
  /\ \A s, t \in Slots : Accepted(s) /\ Accepted(t) /\ tx[s].id = tx[t].id => s = t
  /\ \A t \in Slots, i \in DOMAIN inbox : Accepted(t) /\ Passed(i) => tx[t].id # inbox[i].id

\* An order is on its way to the engine, being matched or resting, never two of these.
BookOK ==
  /\ \A id \in DOMAIN book :
       id \in DOMAIN orders /\ book[id].side = orders[id].side /\ id \notin Waiting
  /\ taker # None =>
       /\ taker.id \in DOMAIN orders /\ taker.side = orders[taker.id].side
       /\ taker.id \notin DOMAIN book /\ taker.id \notin Waiting

\* What commits under gateway and engine.
LEMMA FlowEffect ==
  ASSUME FInv, RInv, [FlowNext]_fvars
  PROVE  \/ NoEffect /\ raised' = raised
         \/ \E t \in Slots : AccountsStep(t) /\ Effect(t)
<1>1. ASSUME NEW t \in Slots, AccountsStep(t) PROVE Effect(t)
  BY <1>1, StatementEffect DEF AccountsStep, FInv
<1>2. ASSUME NEW t \in Slots, Place(t) \/ Cancel(t) \/ GatewayReply(t) \/ Orphan(t)
      PROVE  NoEffect /\ raised' = raised
  BY <1>2 DEF Place, Cancel, GatewayReply, Orphan, RequestPlace, RequestCancel, Request, Collect,
              Drop, Abort, NoEffect
<1>3. ASSUME NEW t \in Slots, Match(t) \/ Retry(t) \/ CancelRest(t)
      PROVE  NoEffect /\ raised' = raised
  BY <1>3 DEF Match, Retry, CancelRest, RequestSettle, RequestCancelInternal, Request, NoEffect
<1>4. CASE TakeOrder \/ TakeCancel \/ Finish \/ EngineTimeout \/ EngineReply
  BY <1>4 DEF TakeOrder, TakeCancel, Finish, EngineTimeout, EngineReply, Collect, vars, NoEffect
<1>5. CASE UNCHANGED fvars
  BY <1>5 DEF fvars, vars, NoEffect
<1> QED BY <1>1, <1>2, <1>3, <1>4, <1>5 DEF FlowNext, EngineStep

\* An order stays in the table, and stays what it was but for its status and fills.
LEMMA OrdersKept ==
  ASSUME FInv, RInv, [FlowNext]_fvars
  PROVE  \A id \in DOMAIN orders : id \in DOMAIN orders' /\ SameLock(orders'[id], orders[id])
<1>1. CASE NoEffect
  BY <1>1 DEF NoEffect, SameLock
<1>2. ASSUME NEW t \in Slots, PlaceEffect(t)
      PROVE  \A id \in DOMAIN orders : id \in DOMAIN orders' /\ SameLock(orders'[id], orders[id])
  BY <1>2 DEF PlaceEffect, Put, SameLock
<1>3. ASSUME NEW t \in Slots, CancelEffect(t)
      PROVE  \A id \in DOMAIN orders : id \in DOMAIN orders' /\ SameLock(orders'[id], orders[id])
  <2>1. \A o \in Order, n \in Int :
          SameLock([o EXCEPT !.status = "cancelled", !.filled = n], o)
    BY DEF Order, SameLock
  <2>2. \A id \in DOMAIN orders : orders[id] \in Order
    BY DEF FInv, IInv, TablesOK, Function
  <2> DEFINE i == tx[t].id
             n == tx[t].filled
  <2>3. /\ i \in DOMAIN orders /\ n \in Int
        /\ orders' = [orders EXCEPT ![i] = [@ EXCEPT !.status = "cancelled", !.filled = n]]
    BY <1>3 DEF CancelEffect
  <2> HIDE DEF i, n
  <2>4. DOMAIN orders' = DOMAIN orders /\ \A id \in DOMAIN orders : id # i => orders'[id] = orders[id]
    BY <2>3
  <2>5. orders'[i] = [orders[i] EXCEPT !.status = "cancelled", !.filled = n]
    BY <2>3
  <2>6. SameLock(orders'[i], orders[i])
    BY <2>1, <2>2, <2>3, <2>5
  <2> QED BY <2>4, <2>6 DEF SameLock
<1>4. ASSUME NEW t \in Slots, SettleEffect(t)
      PROVE  \A id \in DOMAIN orders : id \in DOMAIN orders' /\ SameLock(orders'[id], orders[id])
  BY <1>4 DEF SettleEffect
<1> QED BY <1>1, <1>2, <1>3, <1>4, FlowEffect DEF Effect

LEMMA SidedKept ==
  ASSUME FInv, RInv, [FlowNext]_fvars, NEW f, Sided(f)
  PROVE  Sided(f)'
BY OrdersKept DEF Sided, Names, SameLock

\* The fill of a match is one of a bid and an ask in the table.
LEMMA MatchSided ==
  ASSUME FInv, BookOK, NEW t \in Slots, Match(t)
  PROVE  Sided(call'.fill)
<1>1. PICK id \in DOMAIN book :
        LET maker == book[id]
            q     == IF taker.left <= maker.left THEN taker.left ELSE maker.left
            f     == [buy  |-> IF taker.side = "bid" THEN taker.id ELSE id,
                      sell |-> IF taker.side = "bid" THEN id ELSE taker.id,
                      price |-> maker.price, quantity |-> q]
        IN /\ Best(id)
           /\ call' = [op |-> "settle", fill |-> f, slot |-> t, attempts |-> 1]
  BY DEF Match
<1>2. book[id].side # taker.side
  BY <1>1 DEF Best, Acceptable
<1>3. book[id] \in Resting /\ taker \in Taken
  BY DEF Match, FInv, EngineOK, Function
<1>4. {book[id].side, taker.side} \subseteq Sides
  BY <1>3 DEF Resting, Taken, Sides
<1>5. /\ call'.fill.buy = IF taker.side = "bid" THEN taker.id ELSE id
      /\ call'.fill.sell = IF taker.side = "bid" THEN id ELSE taker.id
  BY <1>1
<1>6. /\ taker.id \in DOMAIN orders /\ taker.side = orders[taker.id].side
      /\ id \in DOMAIN orders /\ book[id].side = orders[id].side
  BY DEF Match, BookOK
<1> QED BY <1>2, <1>4, <1>5, <1>6 DEF Sided, Names, Sides

\* The engine waits for a settlement it waited for before, or that of a match.
LEMMA CallSteps ==
  ASSUME FInv, [FlowNext]_fvars, call' # None, call'.op = "settle"
  PROVE  \/ call # None /\ call.op = "settle" /\ call'.fill = call.fill
         \/ \E t \in Slots : Match(t)
<1>1. CASE call' = call
  BY <1>1
<1>2. ASSUME NEW t \in Slots, Retry(t)
      PROVE  call # None /\ call.op = "settle" /\ call'.fill = call.fill
  <2>1. call \in SettleCall /\ call # None
    BY <1>2, CallFacts DEF Retry
  <2> QED BY <1>2, <2>1, RetryCall DEF SettleCall
<1>3. CASE EngineTimeout
  <2>1. call # None /\ call \in SettleCall \cup CancelCall
    BY <1>3 DEF EngineTimeout, FInv, EngineOK
  <2>2. MayRetry /\ call' = [call EXCEPT !.slot = NoSlot]
    BY <1>3 DEF EngineTimeout
  <2>3. call'.fill = call.fill /\ call.op = "settle"
    BY <2>1, <2>2 DEF MayRetry, SettleCall, CancelCall
  <2> QED BY <2>1, <2>3
<1>4. ASSUME NEW t \in Slots, CancelRest(t) PROVE FALSE
  BY <1>4, CancelRestEngine DEF CancelCall
<1>5. CASE EngineReply
  BY <1>5 DEF EngineReply
<1>6. ASSUME NEW t \in Slots,
             Place(t) \/ Cancel(t) \/ GatewayReply(t) \/ AccountsStep(t) \/ Orphan(t)
      PROVE  call' = call
  BY <1>6 DEF Place, Cancel, GatewayReply, AccountsStep, Orphan, engine
<1>7. CASE TakeOrder \/ TakeCancel \/ Finish
  BY <1>1, <1>7 DEF TakeOrder, TakeCancel, Finish
<1>8. CASE UNCHANGED fvars
  BY <1>1, <1>8 DEF fvars
<1> QED BY <1>1, <1>2, <1>3, <1>4, <1>5, <1>6, <1>7, <1>8 DEF FlowNext, EngineStep

\* The fill the engine waits for, after a step.
LEMMA CallFill ==
  ASSUME FInv, FillsOK, BookOK, [FlowNext]_fvars, call' # None, call'.op = "settle"
  PROVE  Sided(call'.fill)
BY CallSteps, MatchSided DEF FillsOK

\* A fill that was settled belongs to a settlement that got through.
LEMMA AppliedFills ==
  ASSUME FInv, RInv, [FlowNext]_fvars
  PROVE  \A f \in DOMAIN applied' :
            f \in DOMAIN applied \/ \E t \in Slots : tx[t].op = "settle" /\ f = tx[t].fill
<1>1. ASSUME NEW t \in Slots, PlaceEffect(t) \/ CancelEffect(t) \/ NoEffect
      PROVE  applied' = applied
  BY <1>1 DEF PlaceEffect, CancelEffect, NoEffect
<1>2. ASSUME NEW t \in Slots, SettleEffect(t)
      PROVE  tx[t].op = "settle" /\ DOMAIN applied' = DOMAIN applied \cup {tx[t].fill}
  BY <1>2 DEF SettleEffect, Put
<1> QED BY <1>1, <1>2, FlowEffect DEF Effect, NoEffect

LEMMA FillsKept ==
  ASSUME FInv, RInv, FillsOK, BookOK, [FlowNext]_fvars
  PROVE  FillsOK'
<1>1. call' # None /\ call'.op = "settle" => Sided(call'.fill)
  BY CallFill
<1>2. ASSUME NEW s \in Slots, tx'[s].op = "settle"
      PROVE  /\ Sided(tx'[s].fill)
             /\ tx'[s].at \in {"buyer", "seller", "commit"} => tx'[s].known = Names(tx'[s].fill)
  <2>1. CASE tx'[s] = tx[s]
    BY <1>2, <2>1 DEF FillsOK
  <2>2. CASE Goes(tx[s], tx'[s])
    <3>1. Sided(tx[s].fill) /\ Known(tx[s].fill) = Names(tx[s].fill)
      BY <1>2, <2>2 DEF FillsOK, Goes, Sided, Known, Names
    <3> QED BY <1>2, <2>2, <3>1 DEF Goes, FillsOK
  <2>3. CASE Arrives(s)
    BY <1>1, <1>2, <2>3 DEF Arrives, Cancels
  <2> QED BY <1>2, <2>1, <2>2, <2>3, FlowSlots DEF Stays
<1>3. \A f \in DOMAIN applied' : Sided(f)
  BY AppliedFills DEF FillsOK
<1>4. \A f : Sided(f) => Sided(f)'
  BY SidedKept
<1>5. call' # None /\ call'.op = "settle" => Sided(call.fill)'
  BY <1>1, <1>4 DEF Sided, Names
<1> QED BY <1>2, <1>3, <1>4, <1>5 DEF FillsOK, Sided, Names

\* An acceptance that is waiting for the gateway was there before, or is of a new order.
LEMMA AcceptedFacts ==
  ASSUME FInv, [FlowNext]_fvars, NEW s \in Slots, Accepted(s)'
  PROVE  /\ tx'[s].id = tx[s].id
         /\ \/ Accepted(s) /\ tx[s].id \in DOMAIN orders
            \/ tx[s].op = "place" /\ tx[s].at = "apply" /\ tx[s].id \notin DOMAIN orders
<1>1. tx'[s].op = "place" /\ tx'[s].at = "done" /\ tx'[s].ok = TRUE
  BY DEF Accepted
<1>2. RequestOK(tx[s])
  BY DEF FInv, IInv, SlotOK
<1>3. tx'[s] = tx[s] \/ Goes(tx[s], tx'[s])
  BY <1>1, FlowSlots DEF Stays, Arrives, Cancels
<1>4. CASE tx'[s] = tx[s]
  BY <1>1, <1>4 DEF Accepted, FInv, DoneOK
<1>5. CASE Goes(tx[s], tx'[s])
  <2>1. tx[s].op = "place" /\ tx'[s].id = tx[s].id
    BY <1>1, <1>5 DEF Goes
  <2>2. tx[s].at # "done" \/ (tx[s].at = "done" /\ tx[s].ok = TRUE)
    BY <1>1, <1>5 DEF Goes
  <2>3. tx[s].at \in {"apply", "done"}
    BY <1>2, <2>1 DEF RequestOK, Stage, Cancels
  <2> QED BY <1>2, <2>1, <2>2, <2>3 DEF Accepted, RequestOK, FInv, DoneOK
<1> QED BY <1>3, <1>4, <1>5

\* What is left of the inbox is its end.
LEMMA SkipInbox ==
  ASSUME FInv, NEW i \in DOMAIN inbox, inbox' = SubSeq(inbox, i + 1, Len(inbox))
  PROVE  /\ i \in Nat
         /\ \A j \in DOMAIN inbox' : /\ j \in Nat /\ i + j \in DOMAIN inbox /\ i + j # i
                                     /\ inbox'[j] = inbox[i + j]
<1>1. inbox \in Seq(Command)
  BY DEF FInv, EngineOK
<1>2. Len(inbox) \in Nat /\ DOMAIN inbox = 1 .. Len(inbox)
  BY <1>1, LenProperties
<1>3. inbox' \in Seq(Command) /\ i \in 1 .. Len(inbox)
  BY <1>1, <1>2, SkipFacts
<1>4. Len(inbox') = Len(inbox) - i /\ \A j \in 1 .. Len(inbox) - i : inbox'[j] = inbox[i + j]
  <2>1. \A j \in i + 1 .. Len(inbox) : inbox[j] \in Command
    BY <1>1, <1>2, <1>3, ElementOfSeq
  <2>2. i + 1 \in Int /\ Len(inbox) \in Int
    BY <1>2, <1>3
  <2>3. /\ Len(SubSeq(inbox, i + 1, Len(inbox))) =
             IF i + 1 <= Len(inbox) THEN Len(inbox) - (i + 1) + 1 ELSE 0
        /\ \A j \in 1 .. (Len(inbox) - (i + 1) + 1) :
             SubSeq(inbox, i + 1, Len(inbox))[j] = inbox[i + 1 + j - 1]
    BY <2>1, <2>2, SubSeqProperties
  <2>4. Len(inbox') = Len(inbox) - i
    BY <1>2, <1>3, <2>3
  <2>5. ASSUME NEW j \in 1 .. Len(inbox) - i PROVE inbox'[j] = inbox[i + j]
    <3>1. PICK n \in Nat : n = Len(inbox)
      BY <1>2
    <3>2. i \in Nat /\ j \in Nat
      BY <1>3, <3>1
    <3>3. i + 1 + j - 1 = i + j
      BY <3>2
    <3>4. n - (i + 1) + 1 = n - i
      BY <3>1, <3>2
    <3>5. j \in 1 .. (Len(inbox) - (i + 1) + 1)
      BY <3>1, <3>4
    <3> QED BY <2>3, <3>3, <3>5
  <2> QED BY <2>4, <2>5
<1>5. DOMAIN inbox' = 1 .. Len(inbox')
  BY <1>3, LenProperties
<1> QED BY <1>2, <1>3, <1>4, <1>5

\* A step takes commands from the front of the inbox, or the gateway adds one of an order it
\* was waiting for, or of a cancellation.
InboxTail ==
  \E m \in Nat : \A j \in DOMAIN inbox' : /\ j \in Nat /\ m + j \in DOMAIN inbox
                                          /\ inbox'[j] = inbox[m + j]

InboxMore(t) ==
  /\ tx'[t].op = "idle" /\ \A s \in Slots : s # t => tx'[s] = tx[s]
  /\ \A j \in DOMAIN inbox' : \/ j \in DOMAIN inbox /\ inbox'[j] = inbox[j]
                              \/ /\ j = Len(inbox) + 1 /\ inbox'[j].id = tx[t].id
                                 /\ inbox'[j].op = "place" => Accepted(t)

LEMMA InboxSteps ==
  ASSUME FInv, [FlowNext]_fvars
  PROVE  InboxTail \/ \E t \in Slots : GatewayReply(t) /\ InboxMore(t)
<1>1. inbox \in Seq(Command)
  BY DEF FInv, EngineOK
<1>2. Len(inbox) \in Nat /\ DOMAIN inbox = 1 .. Len(inbox)
  BY <1>1, LenProperties
<1>3. CASE inbox' = inbox
  <2>1. \A j \in DOMAIN inbox' : j \in Nat /\ 0 + j \in DOMAIN inbox /\ inbox'[j] = inbox[0 + j]
    BY <1>2, <1>3
  <2> QED BY <2>1 DEF InboxTail
<1>4. ASSUME NEW i \in DOMAIN inbox, inbox' = SubSeq(inbox, i + 1, Len(inbox))
      PROVE  InboxTail
  BY <1>4, SkipInbox DEF InboxTail
<1>5. CASE TakeOrder
  <2>1. PICK i \in DOMAIN inbox : inbox' = SubSeq(inbox, i + 1, Len(inbox))
    BY <1>5 DEF TakeOrder
  <2> QED BY <1>4, <2>1
<1>6. CASE TakeCancel
  <2>1. PICK i \in DOMAIN inbox : inbox' = SubSeq(inbox, i + 1, Len(inbox))
    BY <1>6 DEF TakeCancel
  <2> QED BY <1>4, <2>1
<1>7. ASSUME NEW t \in Slots, GatewayReply(t) PROVE InboxMore(t)
  <2>1. PICK c : c = [op |-> tx[t].op, id |-> tx[t].id]
    OBVIOUS
  <2>2. /\ inbox' = IF tx[t].ok THEN Append(inbox, c) ELSE inbox
        /\ tx[t].at = "done" /\ Collect(t) /\ UNCHANGED <<book, taker>>
    BY <1>7, <2>1 DEF GatewayReply, Collect, engine
  <2>3. tx'[t].op = "idle" /\ (\A s \in Slots : s # t => tx'[s] = tx[s]) /\ orders' = orders
    BY <2>2, CollectSlot DEF FInv, Collect
  <2>4. tx[t].ok \in BOOLEAN
    BY DEF FInv, IInv, SlotOK, RequestOK, Shape
  <2>5. CASE tx[t].ok = TRUE
    <3>1. inbox' = Append(inbox, c)
      BY <2>2, <2>5
    <3>2. c.op = tx[t].op /\ c.id = tx[t].id
      BY <2>1
    <3>3. \A j \in DOMAIN inbox' : \/ j \in DOMAIN inbox /\ inbox'[j] = inbox[j]
                                   \/ j = Len(inbox) + 1 /\ inbox'[j] = c
      BY <1>2, <3>1
    <3> QED BY <2>2, <2>3, <2>5, <3>2, <3>3 DEF InboxMore, Accepted
  <2>6. CASE tx[t].ok = FALSE
    BY <2>2, <2>3, <2>6 DEF InboxMore
  <2> QED BY <2>4, <2>5, <2>6
<1>8. ASSUME NEW t \in Slots,
             \/ Place(t) \/ Cancel(t) \/ AccountsStep(t) \/ Orphan(t)
             \/ Match(t) \/ Retry(t) \/ CancelRest(t)
      PROVE  inbox' = inbox
  BY <1>8 DEF Place, Cancel, AccountsStep, Orphan, Match, Retry, CancelRest
<1>9. CASE Finish \/ EngineTimeout \/ EngineReply \/ UNCHANGED fvars
  BY <1>3, <1>9 DEF Finish, EngineTimeout, EngineReply, fvars
<1> QED BY <1>3, <1>5, <1>6, <1>7, <1>8, <1>9 DEF FlowNext, EngineStep

\* Only a new order begins to wait.
LEMMA WaitingFacts ==
  ASSUME FInv, [FlowNext]_fvars
  PROVE  \A id \in Waiting' : id \in Waiting \/ id \notin DOMAIN orders
<1> SUFFICES ASSUME NEW id \in Waiting' PROVE id \in Waiting \/ id \notin DOMAIN orders
  OBVIOUS
<1>1. ASSUME NEW s \in Slots, Accepted(s)', id = tx'[s].id
      PROVE  id \in Waiting \/ id \notin DOMAIN orders
  BY <1>1, AcceptedFacts DEF Waiting
<1>2. ASSUME NEW j \in DOMAIN inbox', Passed(j)', id = inbox'[j].id
      PROVE  id \in Waiting
  BY <1>2, InboxSteps DEF InboxTail, InboxMore, Passed, Waiting
<1> QED BY <1>1, <1>2 DEF Waiting

LEMMA InboxOrders ==
  ASSUME FInv
  PROVE  \A j \in DOMAIN inbox : inbox[j].id \in DOMAIN orders
<1>1. \A j \in DOMAIN inbox : inbox[j] \in Command
  BY SkipFacts DEF FInv, EngineOK
<1> QED BY <1>1 DEF Command

LEMMA WaitingKept ==
  ASSUME FInv, WaitingOK, [FlowNext]_fvars
  PROVE  WaitingOK'
<1>1. Len(inbox) \in Nat /\ DOMAIN inbox = 1 .. Len(inbox)
  BY LenProperties DEF FInv, EngineOK
<1>2. ASSUME NEW s \in Slots, NEW t \in Slots, Accepted(s)', Accepted(t)', tx'[s].id = tx'[t].id
      PROVE  s = t
  <2>1. \/ Accepted(s) /\ Accepted(t)
        \/ tx[s].op = "place" /\ tx[s].at = "apply" /\ tx[t].op = "place" /\ tx[t].at = "apply"
    BY <1>2, AcceptedFacts
  <2>2. tx[s].id = tx[t].id
    BY <1>2, AcceptedFacts
  <2> QED BY <2>1, <2>2 DEF WaitingOK, FInv, IInv, IdsDiffer
<1>3. ASSUME NEW s \in Slots, NEW j \in DOMAIN inbox', Accepted(s)', Passed(j)'
      PROVE  tx'[s].id # inbox'[j].id
  <2>1. tx'[s].id = tx[s].id /\ (Accepted(s) \/ tx[s].id \notin DOMAIN orders)
    BY <1>3, AcceptedFacts
  <2>2. CASE InboxTail
    <3>1. PICK k \in DOMAIN inbox : inbox'[j] = inbox[k]
      BY <2>2 DEF InboxTail
    <3> QED BY <1>3, <2>1, <3>1, InboxOrders DEF WaitingOK, Passed
  <2>3. ASSUME NEW t \in Slots, InboxMore(t) PROVE tx'[s].id # inbox'[j].id
    <3>1. s # t
      BY <1>3, <2>3 DEF InboxMore, Accepted
    <3>2. Accepted(s)
      BY <1>3, <2>3, <3>1 DEF InboxMore, Accepted
    <3> QED BY <1>3, <2>1, <2>3, <3>1, <3>2 DEF InboxMore, WaitingOK, Passed
  <2> QED BY <2>2, <2>3, InboxSteps
<1>4. ASSUME NEW i \in DOMAIN inbox', NEW j \in DOMAIN inbox', Passed(i)', Passed(j)',
             inbox'[i].id = inbox'[j].id
      PROVE  i = j
  <2>1. CASE InboxTail
    <3>1. PICK m \in Nat : \A k \in DOMAIN inbox' : /\ k \in Nat /\ m + k \in DOMAIN inbox
                                                    /\ inbox'[k] = inbox[m + k]
      BY <2>1 DEF InboxTail
    <3>2. m + i = m + j
      BY <1>4, <3>1 DEF WaitingOK, Passed
    <3> QED BY <3>1, <3>2
  <2>2. ASSUME NEW t \in Slots, InboxMore(t) PROVE i = j
    BY <1>1, <1>4, <2>2 DEF InboxMore, WaitingOK, Passed
  <2> QED BY <2>1, <2>2, InboxSteps
<1> QED BY <1>2, <1>3, <1>4 DEF WaitingOK

\* Where the resting orders come from.
LEMMA BookSteps ==
  ASSUME FInv, [FlowNext]_fvars
  PROVE  \A id \in DOMAIN book' :
            \/ id \in DOMAIN book /\ book'[id].side = book[id].side
            \/ taker # None /\ taker' = None /\ id = taker.id /\ book'[id].side = taker.side
<1>1. CASE book' = book
  BY <1>1
<1>2. CASE TakeCancel
  BY <1>2 DEF TakeCancel
<1>3. ASSUME NEW t \in Slots, Match(t), NEW id \in DOMAIN book'
      PROVE  id \in DOMAIN book /\ book'[id].side = book[id].side
  <2>1. PICK i, q : /\ i \in DOMAIN book
                    /\ \/ book' = [x \in DOMAIN book \ {i} |-> book[x]]
                       \/ book' = [book EXCEPT ![i].left = @ - q]
    BY <1>3 DEF Match
  <2>2. CASE book' = [x \in DOMAIN book \ {i} |-> book[x]]
    BY <1>3, <2>2
  <2>3. CASE book' = [book EXCEPT ![i].left = @ - q]
    <3>1. \A x \in DOMAIN book : book[x] \in Resting
      BY DEF FInv, EngineOK, Function
    <3>2. [book[i] EXCEPT !.left = @ - q].side = book[i].side
      BY <2>1, <3>1 DEF Resting
    <3> QED BY <1>3, <2>3, <3>2
  <2> QED BY <2>1, <2>2, <2>3
<1>4. CASE Finish
  <2>1. PICK r : r = [side |-> taker.side, price |-> taker.price, left |-> taker.left]
    OBVIOUS
  <2>2. /\ taker # None /\ taker' = None /\ r.side = taker.side
        /\ book' = book \/ book' = Put(book, taker.id, r)
    BY <1>4, <2>1 DEF Finish
  <2> QED BY <2>2 DEF Put
<1>5. ASSUME NEW t \in Slots,
             \/ Place(t) \/ Cancel(t) \/ GatewayReply(t) \/ AccountsStep(t) \/ Orphan(t)
             \/ Retry(t) \/ CancelRest(t)
      PROVE  book' = book
  BY <1>5 DEF Place, Cancel, GatewayReply, AccountsStep, Orphan, Retry, CancelRest, engine
<1>6. CASE TakeOrder \/ EngineTimeout \/ EngineReply \/ UNCHANGED fvars
  BY <1>1, <1>6 DEF TakeOrder, EngineTimeout, EngineReply, fvars
<1> QED BY <1>1, <1>2, <1>3, <1>4, <1>5, <1>6 DEF FlowNext, EngineStep

\* Where the order being matched comes from.
LEMMA TakerSteps ==
  ASSUME FInv, [FlowNext]_fvars, taker' # None
  PROVE  \/ taker # None /\ taker'.id = taker.id /\ taker'.side = taker.side
         \/ TakeOrder
<1>1. CASE taker' = taker
  BY <1>1
<1>2. ASSUME taker # None, NEW n, taker' = [taker EXCEPT !.left = n]
      PROVE  taker'.id = taker.id /\ taker'.side = taker.side
  BY <1>2 DEF FInv, EngineOK, Taken
<1>3. ASSUME NEW t \in Slots, Match(t)
      PROVE  taker # None /\ taker'.id = taker.id /\ taker'.side = taker.side
  <2>1. PICK q : taker' = [taker EXCEPT !.left = @ - q]
    BY <1>3 DEF Match
  <2> QED BY <1>2, <1>3, <2>1 DEF Match
<1>4. CASE EngineReply
  <2>1. taker \in Taken /\ taker # None
    BY <1>4, NoneAssumption DEF EngineReply, FInv, EngineOK
  <2>2. taker' = taker \/ \E n : taker' = [taker EXCEPT !.settled = n]
    BY <1>4 DEF EngineReply
  <2> QED BY <2>1, <2>2 DEF Taken
<1>5. ASSUME NEW t \in Slots, CancelRest(t)
      PROVE  taker # None /\ taker'.id = taker.id /\ taker'.side = taker.side
  <2>1. taker # None /\ taker \in Taken /\ taker' = [taker EXCEPT !.closed = TRUE]
    BY <1>5 DEF CancelRest, FInv, EngineOK
  <2> QED BY <2>1 DEF Taken
<1>6. CASE Finish
  BY <1>6 DEF Finish
<1>7. ASSUME NEW t \in Slots,
             \/ Place(t) \/ Cancel(t) \/ GatewayReply(t) \/ AccountsStep(t) \/ Orphan(t)
             \/ Retry(t)
      PROVE  taker' = taker
  BY <1>7 DEF Place, Cancel, GatewayReply, AccountsStep, Orphan, Retry, engine
<1>8. CASE TakeCancel \/ EngineTimeout \/ UNCHANGED fvars
  BY <1>1, <1>8 DEF TakeCancel, EngineTimeout, fvars
<1> QED BY <1>1, <1>3, <1>4, <1>5, <1>6, <1>7, <1>8 DEF FlowNext, EngineStep

\* The engine takes an order that waited, and that waits no longer.
LEMMA TakeOrderFacts ==
  ASSUME FInv, WaitingOK, TakeOrder
  PROVE  \E i \in DOMAIN inbox :
           /\ inbox[i].id \in Waiting /\ inbox[i].id \notin Waiting'
           /\ inbox[i].id \in DOMAIN orders
           /\ taker'.id = inbox[i].id /\ taker'.side = orders[inbox[i].id].side
           /\ taker'.left = orders[inbox[i].id].quantity
           /\ taker = None /\ UNCHANGED <<vars, book, call, raised>>
<1>1. PICK i \in DOMAIN inbox :
        /\ inbox[i].op = "place"
        /\ LET id == inbox[i].id
               o  == orders[id]
           IN taker' = [id |-> id, side |-> o.side, kind |-> o.kind, price |-> o.price,
                        quantity |-> o.quantity, left |-> o.quantity, settled |-> 0,
                        closed |-> FALSE]
        /\ inbox' = SubSeq(inbox, i + 1, Len(inbox))
  BY DEF TakeOrder
<1>2. taker = None /\ UNCHANGED <<vars, book, call, raised>>
  BY DEF TakeOrder, Ready
<1>3. inbox[i].id \in Waiting
  BY <1>1 DEF Waiting, Passed
<1>4. \A j \in DOMAIN inbox' : /\ j \in Nat /\ i + j \in DOMAIN inbox /\ i + j # i
                               /\ inbox'[j] = inbox[i + j]
  BY <1>1, SkipInbox
<1>5. \A j \in DOMAIN inbox' : Passed(j)' => inbox'[j].id # inbox[i].id
  BY <1>1, <1>4 DEF WaitingOK, Passed
<1>6. \A t \in Slots : Accepted(t)' => tx'[t].id # inbox[i].id
  BY <1>1, <1>2 DEF WaitingOK, Accepted, Passed, vars
<1>7. inbox[i].id \notin Waiting'
  BY <1>5, <1>6 DEF Waiting
<1>8. /\ taker'.id = inbox[i].id /\ taker'.side = orders[inbox[i].id].side
      /\ taker'.left = orders[inbox[i].id].quantity
  BY <1>1
<1> QED BY <1>2, <1>3, <1>7, <1>8, InboxOrders

LEMMA BookKept ==
  ASSUME FInv, RInv, WaitingOK, BookOK, [FlowNext]_fvars
  PROVE  BookOK'
<1>1. ASSUME NEW id \in DOMAIN orders
      PROVE  id \in DOMAIN orders' /\ orders'[id].side = orders[id].side
  BY OrdersKept DEF SameLock
<1>2. ASSUME NEW id \in DOMAIN book'
      PROVE  id \in DOMAIN orders' /\ book'[id].side = orders'[id].side /\ id \notin Waiting'
  BY <1>1, BookSteps, WaitingFacts DEF BookOK
<1>3. ASSUME taker' # None
      PROVE  /\ taker'.id \in DOMAIN orders' /\ taker'.side = orders'[taker'.id].side
             /\ taker'.id \notin DOMAIN book' /\ taker'.id \notin Waiting'
  <2>1. CASE taker # None /\ taker'.id = taker.id /\ taker'.side = taker.side
    BY <1>1, <1>3, <2>1, BookSteps, WaitingFacts DEF BookOK
  <2>2. CASE TakeOrder
    <3>1. PICK i \in DOMAIN inbox :
             /\ inbox[i].id \in Waiting /\ inbox[i].id \notin Waiting'
             /\ inbox[i].id \in DOMAIN orders
             /\ taker'.id = inbox[i].id /\ taker'.side = orders[inbox[i].id].side
             /\ UNCHANGED <<vars, book>>
      BY <2>2, TakeOrderFacts
    <3> QED BY <1>1, <3>1 DEF BookOK
  <2> QED BY <1>3, <2>1, <2>2, TakerSteps
<1> QED BY <1>2, <1>3 DEF BookOK

AppliedFinite == IsFiniteSet(DOMAIN applied)

\* What gateway, engine and accounts agree on about orders and fills.
PInv == FInv /\ RInv /\ FillsOK /\ WaitingOK /\ BookOK /\ AppliedFinite

LEMMA AppliedStaysFinite ==
  ASSUME FInv, RInv, AppliedFinite, [FlowNext]_fvars
  PROVE  AppliedFinite'
<1>1. ASSUME NEW t \in Slots, SettleEffect(t)
      PROVE  DOMAIN applied' = DOMAIN applied \cup {tx[t].fill}
  BY <1>1 DEF SettleEffect, Put
<1>2. \/ applied' = applied
      \/ \E t \in Slots : SettleEffect(t)
  BY FlowEffect DEF Effect, PlaceEffect, CancelEffect, NoEffect
<1>3. IsFiniteSet(DOMAIN applied) /\ \A t : IsFiniteSet(DOMAIN applied \cup {tx[t].fill})
  BY FS_AddElement DEF AppliedFinite
<1>4. IsFiniteSet(DOMAIN applied')
  BY <1>1, <1>2, <1>3
<1> QED BY <1>4 DEF AppliedFinite

LEMMA InitPInv == FlowInit => PInv
<1> SUFFICES ASSUME FlowInit PROVE PInv
  OBVIOUS
<1>1. FInv /\ Init /\ RInv
  BY InitFInv, InitRInv
<1>2. inbox = << >> /\ book = << >> /\ taker = None /\ call = None
  BY DEF FlowInit
<1>3. applied = << >> /\ \A t \in Slots : tx[t].op = "idle"
  BY <1>1, BlankShape DEF Init
<1>4. WaitingOK /\ FillsOK /\ BookOK
  BY <1>2, <1>3 DEF WaitingOK, FillsOK, BookOK, Accepted, Passed
<1>5. AppliedFinite
  BY <1>3, FS_EmptySet DEF AppliedFinite
<1> QED BY <1>1, <1>4, <1>5 DEF PInv

LEMMA NextPInv == PInv /\ [FlowNext]_fvars => PInv'
<1> SUFFICES ASSUME PInv, [FlowNext]_fvars PROVE PInv'
  OBVIOUS
<1>1. FInv' /\ RInv'
  BY NextFInv, FlowIsAccounts, NextRInv DEF PInv, FInv
<1>2. FillsOK' /\ WaitingOK' /\ BookOK' /\ AppliedFinite'
  BY FillsKept, WaitingKept, BookKept, AppliedStaysFinite DEF PInv
<1> QED BY <1>1, <1>2 DEF PInv

\* Orders, fills and commands keep in step: an order is on its way to the engine, being matched
\* or resting, never two of these; whatever the engine settles is a fill of a bid and an ask
\* that accounts knows; and a settlement past its lookups found both.
THEOREM FlowKeepsInStep == FlowSpec => []PInv
BY InitPInv, NextPInv, PTL DEF FlowSpec

\* A settlement that commits adds its quantity to both of its orders, unless they are cancelled.
LEMMA SettleMarks ==
  ASSUME PInv, NEW t \in Slots, SettleEffect(t)
  PROVE  LET f == tx[t].fill
         IN /\ f \in Fill /\ Sided(f) /\ Marked(tx[t]) = Names(f)
            /\ \A id \in DOMAIN orders :
                 MarkedBy(orders[id], orders'[id], (IF f.buy = id THEN f.quantity ELSE 0)
                                                     + (IF f.sell = id THEN f.quantity ELSE 0))
<1>1. PICK x, f : x = tx[t] /\ f = x.fill
  OBVIOUS
<1>2. x.op = "settle" /\ x.at = "commit" /\ f \in Fill
  BY <1>1 DEF SettleEffect
<1>3. Sided(f) /\ x.known = Names(f)
  BY <1>1, <1>2 DEF PInv, FillsOK
<1>4. Marked(x) = Names(f)
  BY <1>1, <1>2, <1>3 DEF Marked, Names
<1>5. ASSUME NEW id \in DOMAIN orders
      PROVE  MarkedBy(orders[id], orders'[id], (IF f.buy = id THEN f.quantity ELSE 0)
                                                 + (IF f.sell = id THEN f.quantity ELSE 0))
  <2>1. Part(x, id) = (IF f.buy = id THEN f.quantity ELSE 0) + (IF f.sell = id THEN f.quantity ELSE 0)
    BY <1>1, <1>2 DEF Part
  <2>2. CASE id \in Names(f)
    BY <1>1, <1>4, <2>1, <2>2 DEF SettleEffect
  <2>3. CASE id \notin Names(f)
    <3>1. orders'[id] = orders[id] /\ f.buy # id /\ f.sell # id
      BY <1>1, <1>4, <2>3 DEF SettleEffect, Names
    <3>2. orders[id].filled \in Int
      BY DEF PInv, FInv, IInv, TablesOK, Function, Order
    <3> QED BY <3>1, <3>2 DEF MarkedBy
  <2> QED BY <2>2, <2>3
<1> QED BY <1>1, <1>2, <1>3, <1>4, <1>5

\* The sum of what settlements moved for the fills of some kind grows with a fill of that kind.
LEMMA MovedGrows ==
  ASSUME AppliedFinite, Function(applied, Fill, Nat), NEW f \in Fill, NEW Kind,
         applied' = Put(applied, f, (IF f \in DOMAIN applied THEN applied[f] ELSE 0) + 1)
  PROVE  SumOver(Moved', DOMAIN applied' \cap Kind)
           = SumOver(Moved, DOMAIN applied \cap Kind) + (IF f \in Kind THEN f.quantity ELSE 0)
<1> DEFINE D == DOMAIN applied
           S == D \cap Kind
<1>1. DOMAIN applied' = D \cup {f} /\ f.quantity \in Int
  BY DEF Put, Fill
<1>2. IsFiniteSet(S)
  BY FS_Subset DEF AppliedFinite
<1>3. \A g \in D : applied[g] \in Nat /\ g.quantity \in Int /\ Moved[g] = applied[g] * g.quantity
  BY DEF Moved, Function, Fill
<1>4. \A m \in Nat, n \in Int : m * n \in Int /\ (m + 1) * n = m * n + n
  OBVIOUS
<1>5. \A g \in D : Moved[g] \in Int
  BY <1>3, <1>4
<1>6. \A g \in D \ {f} : Moved'[g] = Moved[g]
  BY <1>1, <1>3 DEF Moved, Put
<1>7. Moved'[f] = (IF f \in D THEN Moved[f] ELSE 0) + f.quantity
  <2>1. PICK n \in Nat : n = IF f \in D THEN applied[f] ELSE 0
    BY <1>3
  <2>2. Moved'[f] = (n + 1) * f.quantity
    BY <1>1, <2>1 DEF Moved, Put
  <2>3. (n + 1) * f.quantity = n * f.quantity + f.quantity
    BY <1>1, <1>4
  <2>4. n * f.quantity = IF f \in D THEN Moved[f] ELSE 0
    BY <1>1, <1>3, <2>1
  <2> QED BY <2>2, <2>3, <2>4
<1>8. PICK g, h : g = Moved /\ h = Moved'
  OBVIOUS
<1>9. CASE f \in Kind
  <2>1. DOMAIN applied' \cap Kind = S \cup {f}
    BY <1>1, <1>9
  <2>2. SumOver(h, S \cup {f}) = SumOver(g, S) + f.quantity
    <3>1. \A y \in S : g[y] \in Int
      BY <1>5, <1>8
    <3>2. \A y \in S \ {f} : h[y] = g[y]
      BY <1>6, <1>8
    <3>3. h[f] = (IF f \in S THEN g[f] ELSE 0) + f.quantity
      BY <1>7, <1>8, <1>9
    <3>4. f.quantity \in Int
      BY <1>1
    <3> HIDE DEF S
    <3> QED BY <1>2, <3>1, <3>2, <3>3, <3>4, SumPut
  <2>3. SumOver(Moved', DOMAIN applied' \cap Kind) = SumOver(Moved, S) + f.quantity
    BY <1>8, <2>1, <2>2
  <2> QED BY <1>9, <2>3
<1>10. CASE f \notin Kind
  <2>1. DOMAIN applied' \cap Kind = S
    BY <1>1, <1>10
  <2>2. SumOver(h, S) = SumOver(g, S)
    BY <1>2, <1>6, <1>8, <1>10, SumEqual
  <2>3. SumOver(g, S) \in Int
    BY <1>2, <1>5, <1>8, SumType
  <2>4. SumOver(Moved', DOMAIN applied' \cap Kind) = SumOver(Moved, S) + 0
    BY <1>8, <2>1, <2>2, <2>3
  <2> QED BY <1>10, <2>4
<1> QED BY <1>9, <1>10

LEMMA BoughtSoldGrow ==
  ASSUME PInv, NEW t \in Slots, SettleEffect(t), NEW id
  PROVE  LET f == tx[t].fill
         IN /\ Bought(id)' = Bought(id) + (IF f.buy = id THEN f.quantity ELSE 0)
            /\ Sold(id)' = Sold(id) + (IF f.sell = id THEN f.quantity ELSE 0)
            /\ Bought(id) \in Int /\ Sold(id) \in Int
<1>1. PICK f : f = tx[t].fill
  OBVIOUS
<1>2. PICK Buys, Sells : Buys = {g \in Fill : g.buy = id} /\ Sells = {g \in Fill : g.sell = id}
  OBVIOUS
<1>3. f \in Fill /\ applied' = Put(applied, f, (IF f \in DOMAIN applied THEN applied[f] ELSE 0) + 1)
  BY <1>1 DEF SettleEffect
<1>4. AppliedFinite /\ Function(applied, Fill, Nat)
  BY DEF PInv, FInv, IInv, TablesOK
<1>5. DOMAIN applied' \subseteq Fill /\ DOMAIN applied \subseteq Fill
  BY <1>3, <1>4 DEF Put, Function
<1>6. /\ Bought(id) = SumOver(Moved, DOMAIN applied \cap Buys)
      /\ Sold(id) = SumOver(Moved, DOMAIN applied \cap Sells)
  <2>1. /\ {g \in DOMAIN applied : g.buy = id} = DOMAIN applied \cap Buys
        /\ {g \in DOMAIN applied : g.sell = id} = DOMAIN applied \cap Sells
    BY <1>2, <1>5
  <2> QED BY <2>1 DEF Bought, Sold
<1>7. /\ Bought(id)' = SumOver(Moved', DOMAIN applied' \cap Buys)
      /\ Sold(id)' = SumOver(Moved', DOMAIN applied' \cap Sells)
  <2>1. /\ {g \in DOMAIN applied' : g.buy = id} = DOMAIN applied' \cap Buys
        /\ {g \in DOMAIN applied' : g.sell = id} = DOMAIN applied' \cap Sells
    BY <1>2, <1>5
  <2> QED BY <2>1 DEF Bought, Sold
<1>8. /\ SumOver(Moved', DOMAIN applied' \cap Buys)
           = SumOver(Moved, DOMAIN applied \cap Buys) + (IF f \in Buys THEN f.quantity ELSE 0)
      /\ SumOver(Moved', DOMAIN applied' \cap Sells)
           = SumOver(Moved, DOMAIN applied \cap Sells) + (IF f \in Sells THEN f.quantity ELSE 0)
  BY <1>3, <1>4, MovedGrows
<1>9. \A S \in SUBSET DOMAIN applied : SumOver(Moved, S) \in Int
  <2>1. \A g \in DOMAIN applied : Moved[g] \in Int
    <3>1. \A g \in DOMAIN applied : applied[g] \in Nat /\ g.quantity \in Int
      BY <1>4 DEF Function, Fill
    <3>2. \A m \in Nat, n \in Int : m * n \in Int
      OBVIOUS
    <3> QED BY <3>1, <3>2 DEF Moved
  <2>2. \A S \in SUBSET DOMAIN applied : IsFiniteSet(S)
    BY <1>4, FS_Subset DEF AppliedFinite
  <2>3. PICK g : g = Moved
    OBVIOUS
  <2> QED BY <2>1, <2>2, <2>3, SumType
<1>10. Bought(id) \in Int /\ Sold(id) \in Int
  BY <1>6, <1>9
<1>11. (f \in Buys <=> f.buy = id) /\ (f \in Sells <=> f.sell = id)
  BY <1>2, <1>3
<1> QED BY <1>1, <1>6, <1>7, <1>8, <1>10, <1>11

LEMMA FillsStayAddedUp ==
  ASSUME PInv, FillsAddUp, [FlowNext]_fvars
  PROVE  FillsAddUp'
<1>1. FInv /\ RInv
  BY DEF PInv
<1>2. ASSUME applied' = applied
      PROVE  \A id : Bought(id)' = Bought(id) /\ Sold(id)' = Sold(id)
  BY <1>2 DEF Bought, Sold, Moved
<1>3. CASE NoEffect
  BY <1>2, <1>3 DEF NoEffect, FillsAddUp
<1>4. ASSUME NEW t \in Slots, PlaceEffect(t) PROVE FillsAddUp'
  <2>1. PICK new, o : /\ new \notin DOMAIN orders /\ o \in NewOrder
                      /\ orders' = Put(orders, new, o) /\ applied' = applied
    BY <1>4 DEF PlaceEffect
  <2>2. \A f \in DOMAIN applied : f.buy # new /\ f.sell # new
    BY <2>1 DEF PInv, FillsOK, Sided, Names
  <2>3. Bought(new) = 0 /\ Sold(new) = 0
    <3>1. {f \in DOMAIN applied : f.buy = new} = {} /\ {f \in DOMAIN applied : f.sell = new} = {}
      BY <2>2
    <3> QED BY <3>1, SumEmpty DEF Bought, Sold
  <2>4. o.filled = 0
    BY <2>1 DEF NewOrder
  <2>5. \A id : Bought(id)' = Bought(id) /\ Sold(id)' = Sold(id)
    BY <1>2, <2>1
  <2>6. ASSUME NEW id \in DOMAIN orders', orders'[id].status # "cancelled"
        PROVE  orders'[id].filled = Bought(id) + Sold(id)
    BY <2>1, <2>3, <2>4, <2>6 DEF Put, FillsAddUp
  <2> QED BY <2>5, <2>6 DEF FillsAddUp
<1>5. ASSUME NEW t \in Slots, CancelEffect(t) PROVE FillsAddUp'
  <2>1. /\ tx[t].id \in DOMAIN orders /\ applied' = applied
        /\ orders' = [orders EXCEPT ![tx[t].id] =
                        [@ EXCEPT !.status = "cancelled", !.filled = tx[t].filled]]
    BY <1>5 DEF CancelEffect
  <2>2. orders[tx[t].id] \in Order
    BY <2>1, <1>1 DEF FInv, IInv, TablesOK, Function
  <2>3. orders'[tx[t].id].status = "cancelled"
    BY <2>1, <2>2 DEF Order
  <2>4. DOMAIN orders' = DOMAIN orders /\ \A id \in DOMAIN orders : id # tx[t].id => orders'[id] = orders[id]
    BY <2>1
  <2>5. \A id : Bought(id)' = Bought(id) /\ Sold(id)' = Sold(id)
    BY <1>2, <2>1
  <2>6. ASSUME NEW id \in DOMAIN orders', orders'[id].status # "cancelled"
        PROVE  orders'[id].filled = Bought(id) + Sold(id)
    BY <2>3, <2>4, <2>6 DEF FillsAddUp
  <2> QED BY <2>5, <2>6 DEF FillsAddUp
<1>6. ASSUME NEW t \in Slots, SettleEffect(t) PROVE FillsAddUp'
  <2>1. PICK f : f = tx[t].fill
    OBVIOUS
  <2>2. /\ f \in Fill
        /\ \A id \in DOMAIN orders :
             MarkedBy(orders[id], orders'[id], (IF f.buy = id THEN f.quantity ELSE 0)
                                                 + (IF f.sell = id THEN f.quantity ELSE 0))
    BY <1>6, <2>1, SettleMarks
  <2>3. DOMAIN orders' = DOMAIN orders /\ f.quantity \in Int
    BY <1>6, <2>2 DEF SettleEffect, Fill
  <2>4. ASSUME NEW id \in DOMAIN orders, orders'[id].status # "cancelled"
        PROVE  orders'[id].filled = Bought(id)' + Sold(id)'
    <3>1. /\ orders[id].status # "cancelled"
          /\ orders'[id].filled = orders[id].filled + ((IF f.buy = id THEN f.quantity ELSE 0)
                                                        + (IF f.sell = id THEN f.quantity ELSE 0))
      BY <2>2, <2>4 DEF MarkedBy
    <3>2. orders[id].filled = Bought(id) + Sold(id)
      BY <3>1 DEF FillsAddUp
    <3>3. /\ Bought(id)' = Bought(id) + (IF f.buy = id THEN f.quantity ELSE 0)
          /\ Sold(id)' = Sold(id) + (IF f.sell = id THEN f.quantity ELSE 0)
          /\ Bought(id) \in Int /\ Sold(id) \in Int
      BY <1>6, <2>1, BoughtSoldGrow
    <3>4. PICK b \in Int, s \in Int : b = Bought(id) /\ s = Sold(id)
      BY <3>3
    <3>5. PICK p \in Int, q \in Int : /\ p = IF f.buy = id THEN f.quantity ELSE 0
                                      /\ q = IF f.sell = id THEN f.quantity ELSE 0
      BY <2>3
    <3>6. (b + s) + (p + q) = (b + p) + (s + q)
      OBVIOUS
    <3> QED BY <3>1, <3>2, <3>3, <3>4, <3>5, <3>6
  <2> QED BY <2>3, <2>4 DEF FillsAddUp
<1> QED BY <1>1, <1>3, <1>4, <1>5, <1>6, FlowEffect DEF Effect

\* No fill gets lost or counted without its money: what an order has filled is what committed
\* settlements bought and sold for it until it was cancelled, however many requests settle side
\* by side, are sent again, or are dropped.
THEOREM FlowFillsAddUp == FlowSpec => []FillsAddUp
<1>1. FlowInit => FillsAddUp
  BY InitFInv DEF Init, FillsAddUp
<1>2. PInv /\ FillsAddUp /\ [FlowNext]_fvars => FillsAddUp'
  BY FillsStayAddedUp
<1> QED BY <1>1, <1>2, FlowKeepsInStep, PTL DEF FlowSpec

\* No late settlement of the engine changes a cancelled order.
THEOREM FlowCancelledStaysCancelled == FlowSpec => CancelledIsFinal
BY FlowImplementsAccounts, CancelledStaysCancelled, PTL

-----------------------------------------------------------------------------
(* An order never fills beyond its quantity: what it has filled, what is    *)
(* being settled for it and what the engine has left of it fit into it.     *)

\* What the engine may still match of an order.
Left(id) ==
  IF taker # None /\ taker.id = id THEN taker.left
  ELSE IF id \in DOMAIN book THEN book[id].left
  ELSE IF id \in Waiting THEN orders[id].quantity ELSE 0

\* The fills that requests under way or the engine's call may settle and nobody has settled.
Unsettled ==
  ({tx[t].fill : t \in {s \in Slots : tx[s].op = "settle" /\ tx[s].at # "done"}}
     \cup {c.fill : c \in {call} \cap SettleCall}) \ trades

UnsettledOf(id) == {f \in Unsettled : id \in Names(f)}

Quantity == [f \in Fill |-> f.quantity]

\* As long as no settlement or cancellation went beyond a lock.
Covered ==
  \A id \in DOMAIN orders : \A F \in SUBSET UnsettledOf(id) : IsFiniteSet(F) =>
     orders[id].filled + SumOver(Quantity, F) + Left(id) <= orders[id].quantity

\* Without a negative quantity in the table the engine has none at work either.
Natural ==
  /\ taker # None => taker.left >= 0
  /\ \A id \in DOMAIN book : book[id].left >= 0
  /\ \A f \in Unsettled : f.quantity >= 0

KInv == PInv /\ Natural /\ ~NegativeQuantity

LEMMA LeftFacts ==
  ASSUME KInv, NEW id \in DOMAIN orders
  PROVE  Left(id) \in Nat
<1>1. orders[id].quantity \in Nat
  <2>1. orders[id].quantity \in Int
    BY OrderFacts DEF KInv, PInv, FInv, IInv, TablesOK, Function
  <2> QED BY <2>1 DEF KInv, NegativeQuantity
<1>2. taker # None => taker.left \in Nat
  BY DEF KInv, Natural, PInv, FInv, EngineOK, Taken
<1>3. id \in DOMAIN book => book[id].left \in Nat
  BY DEF KInv, Natural, PInv, FInv, EngineOK, Function, Resting
<1> QED BY <1>1, <1>2, <1>3 DEF Left

LEMMA UnsettledFills ==
  ASSUME PInv
  PROVE  Unsettled \subseteq Fill /\ \A f \in Unsettled : Sided(f)
<1>1. ASSUME NEW t \in Slots, tx[t].op = "settle", tx[t].at # "done"
      PROVE  tx[t].fill \in Fill /\ Sided(tx[t].fill)
  BY <1>1 DEF PInv, FInv, IInv, SlotOK, RequestOK, FillsOK
<1>2. call \in SettleCall => call.fill \in Fill /\ Sided(call.fill)
  BY CallNotNone DEF PInv, FillsOK, SettleCall
<1> QED BY <1>1, <1>2 DEF Unsettled

\* Only a match adds a fill.
LEMMA UnsettledSteps ==
  ASSUME PInv, [FlowNext]_fvars
  PROVE  \A f \in Unsettled' : f \in Unsettled \/ \E t \in Slots : Match(t) /\ f = call'.fill
<1>1. FInv /\ FInv' /\ RInv
  BY NextFInv DEF PInv
<1>2. trades \subseteq trades'
  BY <1>1, FlowEffect DEF Effect, PlaceEffect, CancelEffect, SettleEffect, NoEffect
<1>3. ASSUME call' \in SettleCall, call'.fill \notin trades
      PROVE  call'.fill \in Unsettled \/ \E t \in Slots : Match(t)
  <2>1. call' # None /\ call'.op = "settle"
    BY <1>3, CallNotNone DEF SettleCall
  <2>2. CASE call # None /\ call.op = "settle" /\ call'.fill = call.fill
    <3>1. call \in SettleCall
      BY <1>1, <2>2, CallFacts DEF CancelCall
    <3> QED BY <1>3, <2>2, <3>1 DEF Unsettled
  <2> QED BY <1>1, <2>1, <2>2, CallSteps
<1>4. ASSUME NEW s \in Slots, tx'[s].op = "settle", tx'[s].at # "done", tx'[s].fill \notin trades
      PROVE  tx'[s].fill \in Unsettled \/ \E t \in Slots : Match(t) /\ tx'[s].fill = call'.fill
  <2>1. CASE tx'[s] = tx[s]
    BY <1>4, <2>1 DEF Unsettled
  <2>2. CASE Goes(tx[s], tx'[s])
    <3>1. tx[s].op = "settle" /\ tx[s].at # "done" /\ tx[s].fill = tx'[s].fill
      BY <1>4, <2>2 DEF Goes
    <3> QED BY <1>4, <3>1 DEF Unsettled
  <2>3. CASE Arrives(s)
    <3>1. call' # None /\ call'.op = "settle" /\ call'.fill = tx'[s].fill
      BY <1>4, <2>3 DEF Arrives, Cancels
    <3>2. call' \in SettleCall
      BY <1>1, <3>1 DEF FInv, EngineOK, CancelCall
    <3> QED BY <1>3, <1>4, <3>1, <3>2
  <2> QED BY <1>1, <1>4, <2>1, <2>2, <2>3, FlowSlots DEF Stays
<1> QED BY <1>2, <1>3, <1>4 DEF Unsettled

\* Orders keep their quantity, so that a negative one stays in the table.
LEMMA SignKept ==
  ASSUME PInv, [FlowNext]_fvars, ~NegativeQuantity'
  PROVE  ~NegativeQuantity
<1>1. \A id \in DOMAIN orders : id \in DOMAIN orders' /\ SameLock(orders'[id], orders[id])
  BY OrdersKept DEF PInv
<1> QED BY <1>1 DEF NegativeQuantity, SameLock

\* What a match does to the quantities.
LEMMA MatchQuantities ==
  ASSUME KInv, NEW t \in Slots, Match(t)
  PROVE  /\ taker'.left >= 0 /\ call'.fill.quantity >= 0
         /\ \A id \in DOMAIN book' : book'[id].left >= 0
<1>1. PICK m \in DOMAIN book :
        LET maker == book[m]
            q     == IF taker.left <= maker.left THEN taker.left ELSE maker.left
            f     == [buy  |-> IF taker.side = "bid" THEN taker.id ELSE m,
                      sell |-> IF taker.side = "bid" THEN m ELSE taker.id,
                      price |-> maker.price, quantity |-> q]
        IN /\ taker' = [taker EXCEPT !.left = @ - q]
           /\ IF maker.left = q
                THEN book' = [x \in DOMAIN book \ {m} |-> book[x]]
                ELSE book' = [book EXCEPT ![m].left = @ - q]
           /\ call' = [op |-> "settle", fill |-> f, slot |-> t, attempts |-> 1]
  BY DEF Match
<1>2. PICK q : q = IF taker.left <= book[m].left THEN taker.left ELSE book[m].left
  OBVIOUS
<1>3. /\ taker' = [taker EXCEPT !.left = @ - q]
      /\ IF book[m].left = q
           THEN book' = [x \in DOMAIN book \ {m} |-> book[x]]
           ELSE book' = [book EXCEPT ![m].left = @ - q]
      /\ call'.fill.quantity = q
  BY <1>1, <1>2
<1>4. taker \in Taken /\ \A id \in DOMAIN book : book[id] \in Resting
  BY DEF Match, KInv, PInv, FInv, EngineOK, Function
<1>5. PICK a \in Nat, b \in Nat : a = taker.left /\ b = book[m].left
  BY <1>4 DEF Match, KInv, Natural, Taken, Resting
<1>6. q \in Nat /\ q <= a /\ q <= b
  BY <1>2, <1>5
<1>7. taker'.left = a - q
  BY <1>3, <1>4, <1>5 DEF Taken
<1>8. ASSUME NEW id \in DOMAIN book' PROVE book'[id].left >= 0
  <2>1. CASE book[m].left = q
    BY <1>3, <1>8, <2>1 DEF KInv, Natural
  <2>2. CASE book[m].left # q
    <3>1. [book[m] EXCEPT !.left = @ - q].left = b - q
      BY <1>4, <1>5 DEF Resting
    <3>2. /\ DOMAIN book' = DOMAIN book /\ book'[m].left = b - q
          /\ \A x \in DOMAIN book : x # m => book'[x] = book[x]
      BY <1>3, <2>2, <3>1
    <3>3. b - q >= 0
      BY <1>5, <1>6
    <3> QED BY <1>8, <3>2, <3>3 DEF KInv, Natural
  <2> QED BY <2>1, <2>2
<1> QED BY <1>3, <1>5, <1>6, <1>7, <1>8

\* What a step of the engine leaves of the order it works on.
LEMMA TakerLeft ==
  ASSUME taker \in Taken, \/ taker' = taker
                          \/ \E n : taker' = [taker EXCEPT !.settled = n]
                          \/ taker' = [taker EXCEPT !.closed = TRUE]
  PROVE  taker'.id = taker.id /\ taker'.left = taker.left
BY DEF Taken

LEMMA NextNatural ==
  ASSUME KInv, [FlowNext]_fvars
  PROVE  Natural'
<1>1. PInv /\ FInv /\ RInv
  BY DEF KInv, PInv
<1>2. ASSUME NEW f \in Unsettled' PROVE f.quantity >= 0
  BY <1>1, <1>2, UnsettledSteps, MatchQuantities DEF KInv, Natural
<1>3. taker' # None => taker'.left >= 0
  <2>1. CASE taker' = taker
    BY <2>1 DEF KInv, Natural
  <2>2. ASSUME NEW t \in Slots, Match(t) PROVE taker'.left >= 0
    BY <2>2, MatchQuantities
  <2>3. CASE TakeOrder
    <3>1. PICK i \in DOMAIN inbox : /\ inbox[i].id \in DOMAIN orders
                                   /\ taker'.left = orders[inbox[i].id].quantity
      BY <1>1, <2>3, TakeOrderFacts DEF PInv
    <3>2. orders[inbox[i].id].quantity \in Int
      BY <1>1, <3>1, OrderFacts DEF FInv, IInv, TablesOK, Function
    <3> QED BY <3>1, <3>2 DEF KInv, NegativeQuantity
  <2>4. CASE EngineReply
    <3>1. taker \in Taken /\ (taker' = taker \/ \E n : taker' = [taker EXCEPT !.settled = n])
      BY <1>1, <2>4 DEF EngineReply, FInv, EngineOK
    <3> QED BY <3>1, TakerLeft, NoneAssumption DEF KInv, Natural
  <2>5. ASSUME NEW t \in Slots, CancelRest(t) PROVE taker'.left >= 0
    <3>1. taker \in Taken /\ taker # None /\ taker' = [taker EXCEPT !.closed = TRUE]
      BY <1>1, <2>5 DEF CancelRest, FInv, EngineOK
    <3> QED BY <3>1, TakerLeft DEF KInv, Natural
  <2>6. CASE Finish
    BY <2>6 DEF Finish
  <2>7. \/ taker' = taker \/ TakeOrder \/ EngineReply \/ Finish
        \/ \E t \in Slots : Match(t) \/ CancelRest(t)
    BY DEF FlowNext, fvars, engine, EngineStep, Place, Cancel, GatewayReply, AccountsStep,
           Orphan, Retry, TakeCancel, EngineTimeout
  <2> QED BY <2>1, <2>2, <2>3, <2>4, <2>5, <2>6, <2>7
<1>4. ASSUME NEW id \in DOMAIN book' PROVE book'[id].left >= 0
  <2>1. CASE book' = book
    BY <1>4, <2>1 DEF KInv, Natural
  <2>2. ASSUME NEW t \in Slots, Match(t) PROVE book'[id].left >= 0
    BY <1>4, <2>2, MatchQuantities
  <2>3. CASE TakeCancel
    BY <1>4, <2>3 DEF TakeCancel, KInv, Natural
  <2>4. CASE Finish
    <3>1. PICK x : x = [side |-> taker.side, price |-> taker.price, left |-> taker.left]
      OBVIOUS
    <3>2. /\ taker # None /\ x.left = taker.left
          /\ book' = book \/ book' = Put(book, taker.id, x)
      BY <2>4, <3>1 DEF Finish
    <3> QED BY <1>4, <3>2 DEF Put, KInv, Natural
  <2>5. book' = book \/ TakeCancel \/ Finish \/ \E t \in Slots : Match(t)
    BY DEF FlowNext, fvars, engine, EngineStep, Place, Cancel, GatewayReply, AccountsStep,
           Orphan, Retry, CancelRest, TakeOrder, EngineReply, EngineTimeout
  <2> QED BY <2>1, <2>2, <2>3, <2>4, <2>5
<1> QED BY <1>2, <1>3, <1>4 DEF Natural

LEMMA NextKInv ==
  ASSUME KInv, [FlowNext]_fvars, ~NegativeQuantity'
  PROVE  KInv'
<1>1. PInv'
  BY NextPInv DEF KInv
<1>2. Natural'
  BY NextNatural
<1> QED BY <1>1, <1>2 DEF KInv

\* A match takes its quantity off both orders.
LEMMA MatchLeft ==
  ASSUME KInv, [FlowNext]_fvars, NEW t \in Slots, Match(t), NEW id \in DOMAIN orders
  PROVE  /\ Left(id)' <= Left(id)
         /\ id \in Names(call'.fill) => Left(id)' + call'.fill.quantity <= Left(id)
         /\ call'.fill.quantity \in Nat
<1>1. PInv /\ FInv /\ FInv'
  BY NextFInv DEF KInv, PInv
<1>a. PICK m \in DOMAIN book :
        LET maker == book[m]
            q     == IF taker.left <= maker.left THEN taker.left ELSE maker.left
            f     == [buy  |-> IF taker.side = "bid" THEN taker.id ELSE m,
                      sell |-> IF taker.side = "bid" THEN m ELSE taker.id,
                      price |-> maker.price, quantity |-> q]
        IN /\ taker' = [taker EXCEPT !.left = @ - q]
           /\ IF maker.left = q
                THEN book' = [x \in DOMAIN book \ {m} |-> book[x]]
                ELSE book' = [book EXCEPT ![m].left = @ - q]
           /\ call' = [op |-> "settle", fill |-> f, slot |-> t, attempts |-> 1]
  BY DEF Match
<1>b. PICK q : q = IF taker.left <= book[m].left THEN taker.left ELSE book[m].left
  OBVIOUS
<1>c. PICK f : f = [buy  |-> IF taker.side = "bid" THEN taker.id ELSE m,
                    sell |-> IF taker.side = "bid" THEN m ELSE taker.id,
                    price |-> book[m].price, quantity |-> q]
  OBVIOUS
<1>2. /\ taker' = [taker EXCEPT !.left = @ - q]
      /\ IF book[m].left = q
           THEN book' = [x \in DOMAIN book \ {m} |-> book[x]]
           ELSE book' = [book EXCEPT ![m].left = @ - q]
      /\ call' = [op |-> "settle", fill |-> f, slot |-> t, attempts |-> 1]
  BY <1>a, <1>b, <1>c
<1>3. taker \in Taken /\ book[m] \in Resting /\ taker # None
  BY <1>1 DEF Match, FInv, EngineOK, Function
<1>4. PICK a \in Nat, b \in Nat : a = taker.left /\ b = book[m].left
  BY <1>3 DEF KInv, Natural, Taken, Resting
<1>5. q \in Nat /\ q <= a /\ q <= b
  BY <1>b, <1>4
<1>6. call'.fill = f /\ f.quantity = q /\ Names(f) = {taker.id, m}
  BY <1>2, <1>c DEF Names
<1>7. taker' # None /\ taker'.id = taker.id /\ taker'.left = a - q
  <2>1. taker'.id = taker.id /\ taker'.left = a - q
    BY <1>2, <1>3, <1>4 DEF Taken
  <2>2. taker' \in Taken
    BY <1>1, MatchFacts
  <2> QED BY <2>1, <2>2, NoneAssumption
<1>8. taker.id \notin DOMAIN book /\ taker.id \notin Waiting
  BY <1>1, <1>3 DEF PInv, BookOK
<1>9. /\ \A x \in DOMAIN book : x # m => x \in DOMAIN book' /\ book'[x] = book[x]
      /\ DOMAIN book' \subseteq DOMAIN book
      /\ m \in DOMAIN book' => book'[m].left = b - q
  <2>1. CASE book[m].left = q
    BY <1>2, <2>1
  <2>2. CASE book[m].left # q
    <3>1. [book[m] EXCEPT !.left = @ - q].left = b - q
      BY <1>3, <1>4 DEF Resting
    <3> QED BY <1>2, <2>2, <3>1
  <2> QED BY <2>1, <2>2
<1>10. id \notin Waiting => id \notin Waiting'
  BY <1>1, WaitingFacts
<1>11. CASE id = taker.id
  <2>1. Left(id) = a /\ Left(id)' = a - q
    BY <1>3, <1>4, <1>7, <1>11 DEF Left
  <2> QED BY <1>4, <1>5, <1>6, <2>1
<1>12. CASE id = m
  <2>1. id # taker.id /\ id \notin Waiting
    BY <1>1, <1>8, <1>12 DEF PInv, BookOK
  <2>2. Left(id) = b
    BY <1>4, <1>12, <2>1 DEF Left
  <2>3. Left(id)' = b - q \/ (Left(id)' = 0 /\ b = q)
    <3>1. id \in DOMAIN book' => Left(id)' = b - q
      BY <1>7, <1>9, <1>12, <2>1 DEF Left
    <3>2. id \notin DOMAIN book' => b = q
      BY <1>2, <1>4, <1>12
    <3>3. id \notin DOMAIN book' => Left(id)' = 0
      BY <1>7, <1>10, <2>1 DEF Left
    <3> QED BY <3>1, <3>2, <3>3
  <2> QED BY <1>4, <1>5, <1>6, <2>2, <2>3
<1>13. CASE id # taker.id /\ id # m
  <2>1. id \notin Names(f)
    BY <1>6, <1>13
  <2>2. orders'[id].quantity = orders[id].quantity
    BY <1>1, OrdersKept DEF SameLock, PInv
  <2>3. Left(id)' = Left(id) \/ Left(id)' = 0
    BY <1>7, <1>9, <1>10, <1>13, <2>2 DEF Left
  <2>4. Left(id) \in Nat
    BY LeftFacts
  <2> QED BY <1>5, <1>6, <2>1, <2>3, <2>4
<1> QED BY <1>11, <1>12, <1>13

\* Nothing gives the engine more of an order.
LEMMA LeftSteps ==
  ASSUME KInv, [FlowNext]_fvars, NEW id \in DOMAIN orders
  PROVE  Left(id)' <= Left(id)
<1>1. PInv /\ FInv /\ FInv' /\ RInv
  BY NextFInv DEF KInv, PInv
<1>2. id \notin Waiting => id \notin Waiting'
  BY <1>1, WaitingFacts
<1>3. orders'[id].quantity = orders[id].quantity
  BY <1>1, OrdersKept DEF SameLock
<1>4. Left(id) \in Nat
  BY LeftFacts
<1>5. ASSUME book' = book, \/ taker = None /\ taker' = None
                           \/ /\ taker # None
                              /\ taker'.id = taker.id /\ taker'.left = taker.left
      PROVE  Left(id)' <= Left(id)
  <2>1. taker # None => taker.id \notin DOMAIN book /\ taker.id \notin Waiting
    BY <1>1 DEF PInv, BookOK
  <2>2. CASE taker # None /\ taker.id = id
    BY <1>2, <1>4, <1>5, <2>1, <2>2 DEF Left
  <2>3. CASE ~(taker # None /\ taker.id = id)
    <3>1. Left(id)' = Left(id) \/ Left(id)' = 0
      BY <1>2, <1>3, <1>5, <2>3 DEF Left
    <3> QED BY <1>4, <3>1
  <2> QED BY <2>2, <2>3
<1>7. ASSUME NEW t \in Slots,
             \/ Place(t) \/ Cancel(t) \/ GatewayReply(t) \/ AccountsStep(t) \/ Orphan(t)
             \/ Retry(t)
      PROVE  Left(id)' <= Left(id)
  <2>1. book' = book /\ taker' = taker
    BY <1>7 DEF Place, Cancel, GatewayReply, AccountsStep, Orphan, Retry, engine
  <2> QED BY <1>5, <2>1
<1>8. CASE EngineTimeout \/ UNCHANGED fvars
  BY <1>5, <1>8 DEF EngineTimeout, fvars
<1>9. CASE EngineReply
  <2>1. /\ taker \in Taken /\ book' = book
        /\ taker' = taker \/ \E n : taker' = [taker EXCEPT !.settled = n]
    BY <1>1, <1>9 DEF EngineReply, FInv, EngineOK
  <2> QED BY <1>5, <2>1, TakerLeft, NoneAssumption
<1>10. ASSUME NEW t \in Slots, CancelRest(t) PROVE Left(id)' <= Left(id)
  <2>1. taker \in Taken /\ taker' \in Taken /\ book' = book /\ taker' = [taker EXCEPT !.closed = TRUE]
    BY <1>1, <1>10, CancelRestEngine DEF CancelRest, FInv, EngineOK
  <2> QED BY <1>5, <2>1, TakerLeft, NoneAssumption
<1>11. CASE TakeOrder
  <2>1. PICK i \in DOMAIN inbox :
           /\ inbox[i].id \in Waiting /\ inbox[i].id \notin Waiting'
           /\ inbox[i].id \in DOMAIN orders
           /\ taker'.id = inbox[i].id
           /\ taker'.left = orders[inbox[i].id].quantity
           /\ taker = None /\ UNCHANGED <<vars, book>>
    BY <1>1, <1>11, TakeOrderFacts DEF PInv
  <2>2. CASE id = inbox[i].id
    <3>1. id \notin DOMAIN book
      BY <1>1, <2>1, <2>2 DEF PInv, BookOK
    <3>2. Left(id) = orders[id].quantity
      BY <2>1, <2>2, <3>1 DEF Left
    <3>3. Left(id)' = orders[id].quantity \/ Left(id)' = 0
      BY <2>1, <2>2, <3>1 DEF Left
    <3> QED BY <1>4, <3>2, <3>3
  <2>3. CASE id # inbox[i].id
    <3>1. Left(id)' = Left(id) \/ Left(id)' = 0
      BY <1>2, <1>3, <2>1, <2>3 DEF Left
    <3> QED BY <1>4, <3>1
  <2> QED BY <2>2, <2>3
<1>12. CASE TakeCancel
  <2>1. PICK i \in DOMAIN inbox : book' = [x \in DOMAIN book \ {inbox[i].id} |-> book[x]]
    BY <1>12 DEF TakeCancel
  <2>2. taker = None /\ taker' = None
    BY <1>12 DEF TakeCancel, Ready
  <2>3. id \in DOMAIN book => id \notin Waiting
    BY <1>1 DEF PInv, BookOK
  <2>4. Left(id)' = Left(id) \/ Left(id)' = 0
    BY <1>2, <1>3, <2>1, <2>2, <2>3 DEF Left
  <2> QED BY <1>4, <2>4
<1>13. CASE Finish
  <2>1. PICK r : r = [side |-> taker.side, price |-> taker.price, left |-> taker.left]
    OBVIOUS
  <2>2. /\ taker # None /\ taker' = None /\ r.left = taker.left
        /\ book' = book \/ book' = Put(book, taker.id, r)
    BY <1>13, <2>1 DEF Finish
  <2>3. taker.id \notin DOMAIN book /\ taker.id \notin Waiting
    BY <1>1, <2>2 DEF PInv, BookOK
  <2>4. Left(id)' = Left(id) \/ Left(id)' = 0
    BY <1>2, <1>3, <2>2, <2>3 DEF Left, Put
  <2> QED BY <1>4, <2>4
<1>14. ASSUME NEW t \in Slots, Match(t) PROVE Left(id)' <= Left(id)
  BY <1>14, MatchLeft
<1> QED BY <1>7, <1>8, <1>9, <1>10, <1>11, <1>12, <1>13, <1>14 DEF FlowNext, EngineStep

\* What an order has filled or is going to fill grows with a fill in the set.
LEMMA QuantityWith ==
  ASSUME NEW F \in SUBSET Fill, IsFiniteSet(F), NEW f \in Fill, f \notin F
  PROVE  /\ SumOver(Quantity, F \cup {f}) = f.quantity + SumOver(Quantity, F)
         /\ IsFiniteSet(F \cup {f})
         /\ f.quantity \in Int /\ SumOver(Quantity, F) \in Int
<1>1. PICK w : w = Quantity
  OBVIOUS
<1>2. \A g \in Fill : w[g] = g.quantity /\ w[g] \in Int
  BY <1>1 DEF Quantity, Fill
<1>3. SumOver(w, F \cup {f}) = w[f] + SumOver(w, F)
  <2>1. \A y \in F \cup {f} : w[y] \in Int
    BY <1>2
  <2> QED BY <2>1, SumAdd
<1>4. SumOver(w, F) \in Int
  <2>1. \A y \in F : w[y] \in Int
    BY <1>2
  <2> QED BY <2>1, SumType
<1> QED BY <1>1, <1>2, <1>3, <1>4, FS_AddElement

\* The same of the state after a step, as two facts that hold of every state.
LEMMA LeftIsNat == KInv => \A id \in DOMAIN orders : Left(id) \in Nat
  BY LeftFacts

LEMMA UnsettledAreFills == KInv => Unsettled \subseteq Fill
  BY UnsettledFills DEF KInv

LEMMA NextLeft ==
  ASSUME KInv, [FlowNext]_fvars, ~NegativeQuantity'
  PROVE  (\A id \in DOMAIN orders : Left(id) \in Nat)' /\ (Unsettled \subseteq Fill)'
<1>1. KInv'
  BY NextKInv
<1>2. (KInv => \A id \in DOMAIN orders : Left(id) \in Nat)'
  BY LeftIsNat, PTL
<1>3. (KInv => Unsettled \subseteq Fill)'
  BY UnsettledAreFills, PTL
<1> QED BY <1>1, <1>2, <1>3

\* A step that leaves the order as it is.
LEMMA CoveredSame ==
  ASSUME KInv, Covered, [FlowNext]_fvars, ~NegativeQuantity', NEW id \in DOMAIN orders,
         orders'[id].filled = orders[id].filled,
         NEW F \in SUBSET UnsettledOf(id)', IsFiniteSet(F)
  PROVE  orders'[id].filled + SumOver(Quantity, F) + Left(id)' <= orders'[id].quantity
<1>1. PInv /\ FInv /\ RInv /\ PInv' /\ orders[id] \in Order /\ id \in DOMAIN orders'
  BY NextPInv, OrdersKept DEF KInv, PInv, FInv, IInv, TablesOK, Function
<1>2. orders'[id].quantity = orders[id].quantity
  BY <1>1, OrdersKept DEF SameLock
<1>3. PICK a \in Int, n \in Int : a = orders[id].filled /\ n = orders[id].quantity
  BY <1>1, OrderFacts
<1>4. PICK l \in Int, m \in Int : l = Left(id) /\ m = Left(id)' /\ m <= l
  <2>1. Left(id) \in Nat
    BY LeftFacts
  <2>2. Left(id)' \in Nat
    BY <1>1, NextLeft
  <2> QED BY <2>1, <2>2, LeftSteps
<1>5. F \subseteq Fill /\ \A f \in F : id \in Names(f)
  <2>1. Unsettled' \subseteq Fill
    BY NextLeft
  <2> QED BY <2>1 DEF UnsettledOf, Names
<1>6. PICK u \in Int : u = SumOver(Quantity, F)
  <2>1. PICK w : w = Quantity
    OBVIOUS
  <2>2. \A g \in F : w[g] \in Int
    BY <1>5, <2>1 DEF Quantity, Fill
  <2> QED BY <2>1, <2>2, SumType
<1>7. CASE F \subseteq Unsettled
  <2>1. F \in SUBSET UnsettledOf(id)
    BY <1>5, <1>7 DEF UnsettledOf
  <2>2. a + u + l <= n
    BY <1>3, <1>4, <1>6, <2>1 DEF Covered
  <2>3. a + u + m <= n
    BY <1>4, <2>2
  <2> QED BY <1>2, <1>3, <1>4, <1>6, <2>3
<1>8. CASE ~(F \subseteq Unsettled)
  <2>1. PICK f \in F : f \notin Unsettled
    BY <1>8
  <2>2. PICK t \in Slots : Match(t) /\ f = call'.fill
    BY <1>1, <2>1, UnsettledSteps DEF UnsettledOf
  <2>3. PICK G : G = F \ {f}
    OBVIOUS
  <2>4. G \subseteq Unsettled /\ IsFiniteSet(G) /\ G \subseteq Fill
    <3>1. \A g \in Unsettled' : g \in Unsettled \/ g = call'.fill
      BY <1>1, UnsettledSteps
    <3> QED BY <1>5, <2>2, <2>3, <3>1, FS_Subset DEF UnsettledOf
  <2>5. G \in SUBSET UnsettledOf(id)
    BY <1>5, <2>3, <2>4 DEF UnsettledOf
  <2>6. PICK q \in Int, v \in Int : q = f.quantity /\ v = SumOver(Quantity, G) /\ u = q + v
    <3>1. f \in Fill /\ f \notin G /\ G \cup {f} = F
      BY <1>5, <2>1, <2>3
    <3> QED BY <1>6, <2>4, <3>1, QuantityWith
  <2>7. a + v + l <= n
    BY <1>3, <1>4, <2>4, <2>5, <2>6 DEF Covered
  <2>8. m + q <= l
    BY <1>4, <1>5, <2>1, <2>2, <2>6, MatchLeft
  <2>9. a + u + m <= n
    BY <1>4, <2>6, <2>7, <2>8
  <2> QED BY <1>2, <1>3, <1>4, <1>6, <2>9
<1> QED BY <1>7, <1>8

LEMMA PlaceCovered ==
  ASSUME KInv, Covered, [FlowNext]_fvars, ~NegativeQuantity', NEW t \in Slots, AccountsStep(t), PlaceEffect(t)
  PROVE  Covered'
<1>1. PInv /\ FInv /\ RInv /\ PInv'
  BY NextPInv DEF KInv, PInv
<1>2. PICK new, o : /\ new \notin DOMAIN orders /\ o \in NewOrder
                    /\ orders' = Put(orders, new, o)
  BY DEF PlaceEffect
<1>3. UNCHANGED <<book, taker, call>>
  BY DEF AccountsStep, engine
<1>4. DOMAIN orders' = DOMAIN orders \cup {new} /\ orders'[new] = o
      /\ \A id \in DOMAIN orders : orders'[id] = orders[id]
  BY <1>2 DEF Put
<1>5. UnsettledOf(new)' = {}
  <2>1. \A f \in Unsettled' : f \in Unsettled
    <3>1. ASSUME NEW s \in Slots, Match(s) PROVE FALSE
      <4>1. call = None /\ call' \in SettleCall
        BY <1>1, <3>1, MatchFacts DEF Match
      <4> QED BY <1>3, <4>1, CallNotNone
    <3> QED BY <1>1, <3>1, UnsettledSteps
  <2>2. \A f \in Unsettled : new \notin Names(f)
    BY <1>1, <1>2, UnsettledFills DEF Sided
  <2> QED BY <2>1, <2>2 DEF UnsettledOf, Names
<1>6. o.filled = 0 /\ o \in Order
  BY <1>2 DEF NewOrder
<1>7. Left(new)' <= o.quantity
  <2>1. new \notin DOMAIN book' /\ (taker' # None => taker'.id # new)
    BY <1>1, <1>2, <1>3 DEF PInv, BookOK
  <2>2. Left(new)' = orders'[new].quantity \/ Left(new)' = 0
    BY <2>1 DEF Left
  <2>3. o.quantity \in Nat
    BY <1>4, <1>6, OrderFacts DEF NegativeQuantity
  <2> QED BY <1>4, <2>2, <2>3
<1>8. ASSUME NEW F \in SUBSET UnsettledOf(new)', IsFiniteSet(F)
      PROVE  orders'[new].filled + SumOver(Quantity, F) + Left(new)' <= orders'[new].quantity
  <2>1. SumOver(Quantity, F) = 0
    BY <1>5, <1>8, SumEmpty
  <2>2. Left(new)' \in Nat
    BY <1>1, <1>4, NextLeft
  <2>3. 0 + 0 + Left(new)' <= o.quantity
    BY <1>7, <2>2
  <2> QED BY <1>4, <1>6, <2>1, <2>3
<1>9. ASSUME NEW id \in DOMAIN orders, NEW F \in SUBSET UnsettledOf(id)', IsFiniteSet(F)
      PROVE  orders'[id].filled + SumOver(Quantity, F) + Left(id)' <= orders'[id].quantity
  BY <1>4, <1>9, CoveredSame
<1> QED BY <1>4, <1>8, <1>9 DEF Covered, Quantity, Fill

\* Without a misreported cancellation a cancelled order keeps what it had filled.
LEMMA CancelFilled ==
  ASSUME PInv, NEW t \in Slots, CancelEffect(t), "misreported" \notin Excess(t)
  PROVE  LET id == tx[t].id
         IN /\ id \in DOMAIN orders /\ tx[t].filled = orders[id].filled
            /\ orders[id] \in Order /\ orders[id].status # "cancelled"
            /\ DOMAIN orders' = DOMAIN orders
            /\ \A j \in DOMAIN orders : j # id => orders'[j] = orders[j]
            /\ orders'[id] = [orders[id] EXCEPT !.status = "cancelled"]
<1>1. PICK x, o : x = tx[t] /\ o = orders[x.id]
  OBVIOUS
<1>2. /\ x.op \in Cancels /\ x.at = "apply" /\ x.id \in DOMAIN orders
      /\ o.status # "cancelled" /\ (x.op = "cancel" => x.filled = o.filled)
      /\ orders' = [orders EXCEPT ![x.id] = [@ EXCEPT !.status = "cancelled", !.filled = x.filled]]
  BY <1>1 DEF CancelEffect
<1>3. o \in Order
  BY <1>1, <1>2 DEF PInv, FInv, IInv, TablesOK, Function
<1>4. x.op = "cancel_internal" => x.filled = o.filled
  BY <1>1, <1>2 DEF Excess
<1>5. x.filled = o.filled
  BY <1>2, <1>4 DEF Cancels
<1>6. [o EXCEPT !.status = "cancelled", !.filled = x.filled] = [o EXCEPT !.status = "cancelled"]
  BY <1>3, <1>5 DEF Order
<1>7. /\ DOMAIN orders' = DOMAIN orders
      /\ \A j \in DOMAIN orders : j # x.id => orders'[j] = orders[j]
      /\ orders'[x.id] = [o EXCEPT !.status = "cancelled", !.filled = x.filled]
  BY <1>1, <1>2
<1> QED BY <1>1, <1>2, <1>3, <1>5, <1>6, <1>7

LEMMA CancelCovered ==
  ASSUME KInv, Covered, [FlowNext]_fvars, ~NegativeQuantity', NEW t \in Slots, AccountsStep(t), CancelEffect(t),
         "misreported" \notin Excess(t)
  PROVE  Covered'
<1>1. PICK i : i = tx[t].id
  OBVIOUS
<1>2. /\ i \in DOMAIN orders /\ orders[i] \in Order /\ DOMAIN orders' = DOMAIN orders
      /\ \A j \in DOMAIN orders : j # i => orders'[j] = orders[j]
      /\ orders'[i] = [orders[i] EXCEPT !.status = "cancelled"]
  BY <1>1, CancelFilled DEF KInv
<1>3. orders'[i].filled = orders[i].filled
  BY <1>2 DEF Order
<1>4. ASSUME NEW id \in DOMAIN orders, NEW F \in SUBSET UnsettledOf(id)', IsFiniteSet(F)
      PROVE  orders'[id].filled + SumOver(Quantity, F) + Left(id)' <= orders'[id].quantity
  BY <1>2, <1>3, <1>4, CoveredSame
<1> QED BY <1>2, <1>4 DEF Covered, Quantity, Fill

\* A settlement moves its fill from what is going to be filled to what is.
LEMMA SettleCovered ==
  ASSUME KInv, Covered, [FlowNext]_fvars, ~NegativeQuantity', NEW t \in Slots, AccountsStep(t), SettleEffect(t),
         "twice" \notin Excess(t)
  PROVE  Covered'
<1>1. PInv /\ FInv /\ RInv /\ PInv'
  BY NextPInv DEF KInv, PInv
<1>2. PICK f : f = tx[t].fill
  OBVIOUS
<1>3. /\ f \in Fill /\ Sided(f)
      /\ \A id \in DOMAIN orders :
           MarkedBy(orders[id], orders'[id], (IF f.buy = id THEN f.quantity ELSE 0)
                                               + (IF f.sell = id THEN f.quantity ELSE 0))
  BY <1>1, <1>2, SettleMarks
<1>4. /\ tx[t].op = "settle" /\ tx[t].at = "commit" /\ DOMAIN orders' = DOMAIN orders
      /\ trades' = trades \cup {f}
  BY <1>2 DEF SettleEffect
<1>5. f \notin trades /\ f \in Unsettled /\ f \notin Unsettled'
  <2>1. f \notin trades
    BY <1>2, <1>4 DEF Excess
  <2> QED BY <1>2, <1>4, <2>1 DEF Unsettled
<1>6. \A g \in Unsettled' : g \in Unsettled
  <2>1. ASSUME NEW s \in Slots, Match(s) PROVE FALSE
    <3>1. call = None /\ call' \in SettleCall
      BY <1>1, <2>1, MatchFacts DEF Match
    <3>2. call' = call
      BY DEF AccountsStep, engine
    <3> QED BY <3>1, <3>2, CallNotNone
  <2> QED BY <1>1, <2>1, UnsettledSteps
<1>7. ASSUME NEW id \in DOMAIN orders, NEW F \in SUBSET UnsettledOf(id)', IsFiniteSet(F)
      PROVE  orders'[id].filled + SumOver(Quantity, F) + Left(id)' <= orders'[id].quantity
  <2>1. CASE orders'[id].filled = orders[id].filled
    BY <1>7, <2>1, CoveredSame
  <2>2. CASE orders'[id].filled # orders[id].filled
    <3>1. orders[id].status # "cancelled"
      BY <1>3, <2>2 DEF MarkedBy
    <3>2. orders[id] \in Order
      BY <1>1 DEF FInv, IInv, TablesOK, Function
    <3>3. PICK a \in Int, n \in Int : a = orders[id].filled /\ n = orders[id].quantity
      BY <3>2, OrderFacts
    <3>4. f.buy # f.sell /\ f.quantity \in Int
      BY <1>3 DEF Sided, Fill
    <3>5. PICK q \in Int : q = f.quantity
      BY <3>4
    <3>6. id \in Names(f) /\ orders'[id].filled = a + q
      <4>1. orders'[id].filled = a + ((IF f.buy = id THEN q ELSE 0) + (IF f.sell = id THEN q ELSE 0))
        BY <1>3, <3>1, <3>3, <3>5 DEF MarkedBy
      <4> QED BY <2>2, <3>3, <3>4, <4>1 DEF Names
    <3>7. F \subseteq Fill /\ F \subseteq Unsettled /\ f \notin F /\ \A g \in F : id \in Names(g)
      BY <1>1, <1>5, <1>6, UnsettledFills DEF UnsettledOf, Names
    <3>8. F \cup {f} \in SUBSET UnsettledOf(id)
      BY <1>5, <3>6, <3>7 DEF UnsettledOf
    <3>9. PICK u \in Int : /\ u = SumOver(Quantity, F) /\ SumOver(Quantity, F \cup {f}) = q + u
                           /\ IsFiniteSet(F \cup {f})
      BY <1>3, <1>7, <3>5, <3>7, QuantityWith
    <3>10. PICK l \in Int, m \in Int : l = Left(id) /\ m = Left(id)' /\ m <= l
      <4>1. Left(id) \in Nat
        BY LeftFacts
      <4>2. Left(id)' \in Nat
        BY <1>1, <1>4, NextLeft
      <4> QED BY <4>1, <4>2, LeftSteps
    <3>11. a + (q + u) + l <= n
      BY <3>3, <3>8, <3>9, <3>10 DEF Covered
    <3>12. (a + q) + u + m <= n
      BY <3>10, <3>11
    <3>13. orders'[id].quantity = n
      BY <1>1, <3>3, OrdersKept DEF SameLock
    <3> QED BY <3>6, <3>9, <3>10, <3>12, <3>13
  <2> QED BY <2>1, <2>2
<1> QED BY <1>4, <1>7 DEF Covered, Quantity, Fill

\* No order has filled less than nothing.
FilledOK == \A id \in DOMAIN orders : orders[id].filled >= 0

\* A fill that settles and is not in the trades yet is one of those to be settled.
LEMMA SettledFill ==
  ASSUME KInv, NEW t \in Slots, SettleEffect(t), "twice" \notin Excess(t)
  PROVE  tx[t].fill.quantity >= 0
<1>1. tx[t].op = "settle" /\ tx[t].at = "commit"
  BY DEF SettleEffect
<1>2. tx[t].fill \notin trades
  BY <1>1 DEF Excess
<1>3. tx[t].fill \in Unsettled
  BY <1>1, <1>2 DEF Unsettled
<1> QED BY <1>3 DEF KInv, Natural

LEMMA FilledKept ==
  ASSUME KInv, FilledOK, NEW t \in Slots, Effect(t), Excess(t) = {}
  PROVE  FilledOK'
<1>1. PInv /\ \A id \in DOMAIN orders : orders[id].filled \in Int
  BY OrderFacts DEF KInv, PInv, FInv, IInv, TablesOK, Function
<1>2. CASE PlaceEffect(t)
  <2>1. PICK new, o : o \in NewOrder /\ orders' = Put(orders, new, o)
    BY <1>2 DEF PlaceEffect
  <2>2. o.filled = 0
    BY <2>1 DEF NewOrder
  <2> QED BY <2>1, <2>2 DEF FilledOK, Put
<1>3. CASE CancelEffect(t)
  <2>1. PICK i : i = tx[t].id
    OBVIOUS
  <2>2. /\ i \in DOMAIN orders /\ orders[i] \in Order /\ DOMAIN orders' = DOMAIN orders
        /\ \A j \in DOMAIN orders : j # i => orders'[j] = orders[j]
        /\ orders'[i] = [orders[i] EXCEPT !.status = "cancelled"]
    BY <1>1, <1>3, <2>1, CancelFilled
  <2>3. orders'[i].filled = orders[i].filled
    BY <2>2 DEF Order
  <2> QED BY <2>2, <2>3 DEF FilledOK
<1>4. CASE SettleEffect(t)
  <2>1. PICK f : f = tx[t].fill
    OBVIOUS
  <2>2. f \in Fill /\ \A id \in DOMAIN orders :
          MarkedBy(orders[id], orders'[id], (IF f.buy = id THEN f.quantity ELSE 0)
                                              + (IF f.sell = id THEN f.quantity ELSE 0))
    BY <1>1, <1>4, <2>1, SettleMarks
  <2>3. PICK q \in Nat : q = f.quantity
    BY <1>4, <2>1, <2>2, SettledFill DEF Fill
  <2>4. DOMAIN orders' = DOMAIN orders
    BY <1>4 DEF SettleEffect
  <2>5. ASSUME NEW id \in DOMAIN orders PROVE orders'[id].filled >= 0
    <3>1. PICK a \in Nat : a = orders[id].filled
      BY <1>1 DEF FilledOK
    <3>2. \/ orders'[id] = orders[id]
          \/ orders'[id].filled = a + ((IF f.buy = id THEN q ELSE 0) + (IF f.sell = id THEN q ELSE 0))
      BY <2>2, <2>3, <3>1 DEF MarkedBy
    <3> QED BY <3>1, <3>2
  <2> QED BY <2>4, <2>5 DEF FilledOK
<1>5. CASE NoEffect
  BY <1>5 DEF NoEffect, FilledOK
<1> QED BY <1>2, <1>3, <1>4, <1>5 DEF Effect

LEMMA CoveredKept ==
  ASSUME KInv, raised = {} => Covered, [FlowNext]_fvars, raised' = {}, ~NegativeQuantity'
  PROVE  raised = {} /\ Covered'
<1>1. FInv /\ RInv
  BY DEF KInv, PInv
<1>2. CASE NoEffect /\ raised' = raised
  <2>1. raised = {} /\ Covered /\ orders' = orders
    BY <1>2 DEF NoEffect
  <2>2. ASSUME NEW id \in DOMAIN orders, NEW F \in SUBSET UnsettledOf(id)', IsFiniteSet(F)
        PROVE  orders'[id].filled + SumOver(Quantity, F) + Left(id)' <= orders'[id].quantity
    BY <2>1, <2>2, CoveredSame
  <2> QED BY <2>1, <2>2 DEF Covered, Quantity, Fill
<1>3. ASSUME NEW t \in Slots, AccountsStep(t), Effect(t)
      PROVE  raised = {} /\ Covered'
  <2>1. raised = {} /\ Excess(t) = {} /\ Covered
    BY <1>3 DEF AccountsStep
  <2>2. CASE PlaceEffect(t)
    BY <1>3, <2>1, <2>2, PlaceCovered
  <2>3. CASE CancelEffect(t)
    BY <1>3, <2>1, <2>3, CancelCovered
  <2>4. CASE SettleEffect(t)
    BY <1>3, <2>1, <2>4, SettleCovered
  <2>5. CASE NoEffect
    <3>1. orders' = orders
      BY <2>5 DEF NoEffect
    <3>2. ASSUME NEW id \in DOMAIN orders, NEW F \in SUBSET UnsettledOf(id)', IsFiniteSet(F)
          PROVE  orders'[id].filled + SumOver(Quantity, F) + Left(id)' <= orders'[id].quantity
      BY <2>1, <3>1, <3>2, CoveredSame
    <3> QED BY <2>1, <3>1, <3>2 DEF Covered, Quantity, Fill
  <2> QED BY <1>3, <2>2, <2>3, <2>4, <2>5 DEF Effect
<1> QED BY <1>1, <1>2, <1>3, FlowEffect

-----------------------------------------------------------------------------
(* What an order is worth to its owner, by what it locks, has filled and    *)
(* gave back; all orders together account for what users have beyond what   *)
(* was paid in.                                                             *)

\* Rounding is never off by more than a half.
LEMMA RoundBounds ==
  ASSUME NEW n \in Int, NEW d \in Nat \ {0}
  PROVE  /\ RoundHalfEven(n, d) \in Int
         /\ 2 * n <= 2 * (d * RoundHalfEven(n, d)) + d
         /\ 2 * (d * RoundHalfEven(n, d)) <= 2 * n + d
<1>1. PICK f \in Int, r \in Int : f = n \div d /\ r = n % d
  OBVIOUS
<1>2. n = d * f + r /\ 0 <= r /\ r < d
  BY <1>1
<1>3. PICK m \in Int : m = d * f
  OBVIOUS
<1>4. d * (f + 1) = m + d
  BY <1>3
<1>5. CASE RoundHalfEven(n, d) = f /\ 2 * r <= d
  BY <1>2, <1>3, <1>5
<1>6. CASE RoundHalfEven(n, d) = f + 1 /\ 2 * r >= d
  BY <1>2, <1>3, <1>4, <1>6
<1> QED BY <1>1, <1>2, <1>5, <1>6 DEF RoundHalfEven

\* What a cancelled order gave back of its lock.
Released(o) == IF o.status = "cancelled" THEN Unlocked(o, o.filled) ELSE 0

\* What an order has brought its owner: an ask locks the base asset, and a bid twice Scale
\* times as many cents, of which it owes no more than price and quantity say.
BaseOf(o) == IF o.side = "bid" THEN 0 ELSE o.filled + Released(o) - o.quantity

QuoteOf(o) ==
  IF o.side = "ask" THEN 0
  ELSE 2 * (o.price * o.filled) + 2 * (Scale * (Released(o) - LockAmount(o)))

LEMMA WorthFacts ==
  ASSUME NEW o \in Order
  PROVE  /\ Released(o) \in Nat /\ BaseOf(o) \in Int /\ QuoteOf(o) \in Int
         /\ o.side \in {"bid", "ask"}
         /\ o.side = "bid" => o.price \in Prices /\ o.price \in Int
<1>1. o.quantity \in Int /\ o.filled \in Int /\ LockAmount(o) \in Int
  BY OrderFacts
<1>2. o.side \in {"bid", "ask"} /\ (o.side = "bid" => o.price \in Prices /\ o.price \in Int)
  BY PricesAssumption DEF Order
<1>3. PICK e \in Nat : e = Released(o)
  BY <1>1, UnlockFacts DEF Released, Unlocked
<1>4. BaseOf(o) \in Int
  BY <1>1, <1>3 DEF BaseOf
<1>5. CASE o.side = "bid"
  <2>1. o.price * o.filled \in Int
    BY <1>1, <1>2, <1>5
  <2>2. PICK l \in Int : l = e - LockAmount(o)
    BY <1>1, <1>3
  <2>3. Scale * l \in Int
    BY <2>2, NumbersAssumption
  <2> QED BY <1>2, <1>3, <1>4, <2>1, <2>2, <2>3 DEF QuoteOf
<1>6. CASE o.side = "ask"
  BY <1>2, <1>3, <1>4, <1>6 DEF QuoteOf
<1> QED BY <1>2, <1>5, <1>6

\* A factor can be cancelled.
LEMMA CancelFactor ==
  ASSUME NEW d \in Nat \ {0}, NEW a \in Int, NEW b \in Int, d * a <= d * b
  PROVE  a <= b
<1> SUFFICES ASSUME b + 1 <= a PROVE FALSE
  OBVIOUS
<1>1. d * (a - b) = d * a - d * b
  OBVIOUS
<1>2. \A m, n \in Nat \ {0} : m * n > 0
  OBVIOUS
<1>3. d * (a - b) > 0
  BY <1>2
<1>4. PICK u \in Int, v \in Int : u = d * a /\ v = d * b
  OBVIOUS
<1> QED BY <1>1, <1>3, <1>4

\* Rounding keeps the sign, and does not go beyond a whole number.
LEMMA RoundSign ==
  ASSUME NEW n \in Int, NEW d \in Nat \ {0}
  PROVE  /\ n >= 0 => RoundHalfEven(n, d) >= 0
         /\ n <= 0 => RoundHalfEven(n, d) <= 0
         /\ \A m \in Int : n <= d * m => RoundHalfEven(n, d) <= m
<1>1. PICK x \in Int : x = RoundHalfEven(n, d) /\ 2 * n <= 2 * (d * x) + d /\ 2 * (d * x) <= 2 * n + d
  BY RoundBounds
<1>2. ASSUME NEW m \in Int, n <= d * m PROVE x <= m
  <2>1. d * (2 * x) = 2 * (d * x) /\ d * (2 * m + 1) = 2 * (d * m) + d
    OBVIOUS
  <2>2. PICK y \in Int, z \in Int : y = d * x /\ z = d * m
    OBVIOUS
  <2>3. d * (2 * x) <= d * (2 * m + 1)
    BY <1>1, <1>2, <2>1, <2>2
  <2>4. 2 * x <= 2 * m + 1
    BY <2>3, CancelFactor
  <2> QED BY <2>4
<1>3. ASSUME n >= 0 PROVE x >= 0
  <2>1. d * (-1) = -d /\ d * (2 * x) = 2 * (d * x)
    OBVIOUS
  <2>2. PICK y \in Int : y = d * x
    OBVIOUS
  <2>3. d * (-1) <= d * (2 * x)
    BY <1>1, <1>3, <2>1, <2>2
  <2>4. -1 <= 2 * x
    BY <2>3, CancelFactor
  <2> QED BY <2>4
<1>4. n <= 0 => x <= 0
  <2>1. d * 0 = 0
    OBVIOUS
  <2> QED BY <1>2, <2>1
<1> QED BY <1>1, <1>2, <1>3, <1>4

\* An order that has filled no more than its quantity has brought its owner nothing of the
\* base asset, and of the quote asset no more than the half cents of its lock and its unlock
\* and what it was credited with in place of a lock.
LEMMA BaseBound ==
  ASSUME NEW o \in Order, 0 <= o.filled, o.filled <= o.quantity
  PROVE  BaseOf(o) <= 0
<1>1. PICK q \in Nat, f \in Nat : q = o.quantity /\ f = o.filled /\ f <= q
  BY OrderFacts
<1>2. CASE o.side = "ask" /\ o.status = "cancelled" /\ q > 0
  <2>1. PICK r \in Nat : r = q - f
    BY <1>1, <1>2
  <2>2. PICK n \in Nat : n = q * r
    BY <1>1, <2>1
  <2>3. UnlockAmount(o, f) = RoundHalfEven(n, q)
    <3>1. LockAmount(o) = q /\ o.quantity - f = r /\ o.quantity = q
      BY <1>1, <1>2, <2>1 DEF LockAmount
    <3>2. UnlockAmount(o, f) = RoundHalfEven(LockAmount(o) * (o.quantity - f), o.quantity)
      BY <1>1, <1>2 DEF UnlockAmount
    <3> QED BY <2>2, <3>1, <3>2
  <2>4. PICK e \in Int : e = RoundHalfEven(n, q) /\ e <= r
    <3>1. q \in Nat \ {0} /\ n \in Int
      BY <1>2
    <3>2. RoundHalfEven(n, q) \in Int
      BY <3>1, RoundBounds
    <3>3. \A m \in Int : n <= q * m => RoundHalfEven(n, q) <= m
      BY <3>1, RoundSign
    <3>4. n <= q * r /\ r \in Int
      BY <2>2
    <3>5. RoundHalfEven(n, q) <= r
      BY <3>3, <3>4
    <3> QED BY <3>2, <3>5
  <2>5. Released(o) <= r
    BY <1>1, <1>2, <2>1, <2>3, <2>4 DEF Released, Unlocked
  <2>6. PICK x \in Nat : x = Released(o)
    BY WorthFacts
  <2>7. BaseOf(o) = f + x - q
    BY <1>1, <1>2, <2>6 DEF BaseOf
  <2> QED BY <1>1, <2>1, <2>5, <2>6, <2>7
<1>3. CASE o.side = "ask" /\ ~(o.status = "cancelled" /\ q > 0)
  <2>1. Released(o) = 0
    BY <1>1, <1>3 DEF Released, Unlocked, UnlockAmount
  <2>2. BaseOf(o) = f + 0 - q
    BY <1>1, <1>3, <2>1 DEF BaseOf
  <2> QED BY <1>1, <2>2
<1>4. CASE o.side = "bid"
  BY <1>4 DEF BaseOf
<1> QED BY <1>2, <1>3, <1>4, WorthFacts

\* First a bid at a price that is not negative.
LEMMA LockedBound ==
  ASSUME NEW o \in Order, 0 <= o.filled, o.filled <= o.quantity, 0 < o.quantity,
         o.side = "bid", 0 <= o.price
  PROVE  QuoteOf(o) <= 2 * Scale
<1>1. PICK q \in Nat \ {0}, f \in Nat, s \in Nat \ {0}, l \in Int :
        q = o.quantity /\ f = o.filled /\ s = Scale /\ l = LockAmount(o) /\ f <= q
  BY OrderFacts, NumbersAssumption
<1>3. CASE o.side = "bid"
  <2>1. PICK p \in Nat : p = o.price
    BY <1>3, WorthFacts
  <2>2. l = RoundHalfEven(p * q, s) /\ p * q \in Nat
    BY <1>1, <1>3, <2>1 DEF LockAmount, QuoteAmount
  <2>3. 2 * (p * q) <= 2 * (s * l) + s /\ l >= 0
    <3>1. PICK n \in Nat : n = p * q
      BY <2>2
    <3>2. l = RoundHalfEven(n, s) /\ n \in Int /\ n >= 0
      BY <2>2, <3>1
    <3>3. l >= 0
      BY <1>1, <3>2, RoundSign
    <3>4. 2 * n <= 2 * (s * l) + s
      BY <1>1, <3>2, RoundBounds
    <3> QED BY <3>1, <3>3, <3>4
  <2>4. PICK e \in Nat : e = Released(o)
    BY WorthFacts
  <2>5. QuoteOf(o) = 2 * (p * f) + 2 * (s * (e - l))
    BY <1>1, <1>3, <2>1, <2>4 DEF QuoteOf
  <2>6. s * (e - l) = s * e - s * l
    BY <1>1, <2>4
  <2>7. p * f <= p * q
    <3>1. p * (q - f) = p * q - p * f
      OBVIOUS
    <3>2. p * (q - f) \in Nat
      BY <1>1, <2>1
    <3> QED BY <1>1, <2>1, <3>1, <3>2
  <2>8. CASE e = 0
    <3>1. PICK a \in Int, b \in Int, c \in Int : a = p * f /\ b = p * q /\ c = s * l
      BY <1>1, <2>1
    <3>2. s * e = 0
      BY <1>1, <2>8
    <3> QED BY <1>1, <2>3, <2>5, <2>6, <2>7, <3>1, <3>2
  <2>9. CASE e # 0
    <3>1. PICK r \in Nat : r = q - f
      BY <1>1
    <3>2. e = RoundHalfEven(l * r, q)
      BY <1>1, <2>4, <2>9, <3>1 DEF Released, Unlocked, UnlockAmount
    <3>3. 2 * (q * e) <= 2 * (l * r) + q
      <4>1. l * r \in Int
        BY <1>1, <3>1
      <4> QED BY <1>1, <3>2, <4>1, RoundBounds
    <3>4. PICK x \in Int : x = 2 * (p * f) + 2 * (s * (e - l))
      BY <1>1, <2>1, <2>4
    <3>5. q * x <= q * (2 * s)
      <4>1. PICK qe \in Int, lr \in Int : qe = q * e /\ lr = l * r
        BY <1>1, <2>4, <3>1
      <4>2. s * (2 * qe) <= s * (2 * lr + q)
        <5>1. \A u, v \in Int : u <= v => s * (v - u) \in Nat /\ s * (v - u) = s * v - s * u
          BY <1>1
        <5>2. 2 * qe <= 2 * lr + q
          BY <3>3, <4>1
        <5>3. \A u, v \in Int : s * u \in Int /\ s * v \in Int
          BY <1>1
        <5>4. PICK u \in Int, v \in Int : u = 2 * qe /\ v = 2 * lr + q
          BY <4>1
        <5> QED BY <5>1, <5>2, <5>3, <5>4
      <4>3. f * (2 * (p * q)) <= f * (2 * (s * l) + s)
        <5>1. \A u, v \in Int : u <= v => f * (v - u) \in Nat /\ f * (v - u) = f * v - f * u
          BY <1>1
        <5>2. \A u \in Int : f * u \in Int
          BY <1>1
        <5>3. PICK u \in Int, v \in Int : u = 2 * (p * q) /\ v = 2 * (s * l) + s
          BY <1>1, <2>1
        <5> QED BY <2>3, <5>1, <5>2, <5>3
      <4>4. s * f <= s * q
        <5>1. s * (q - f) = s * q - s * f /\ s * (q - f) \in Nat
          BY <1>1
        <5>2. s * q \in Int /\ s * f \in Int
          BY <1>1
        <5> QED BY <5>1, <5>2
      <4>5. PICK A \in Int, B \in Int, C \in Int, D \in Int, E \in Int, G \in Int :
              /\ A = s * (q * e) /\ B = s * (l * q) /\ C = s * (l * f) /\ D = s * q
              /\ E = (p * q) * f /\ G = s * f
        <5>1. \A u, v, w \in Int : u * (v * w) \in Int /\ (u * v) * w \in Int /\ u * v \in Int
          OBVIOUS
        <5>2. s \in Int /\ q \in Int /\ e \in Int /\ l \in Int /\ f \in Int /\ p \in Int
          BY <1>1, <2>1, <2>4
        <5> QED BY <5>1, <5>2
      <4>6. s * (2 * qe) = 2 * A
        BY <1>1, <2>4, <4>1, <4>5
      <4>7. s * (2 * lr + q) = 2 * (B - C) + D
        <5>1. lr = l * q - l * f
          BY <1>1, <3>1, <4>1
        <5>2. \A u, w \in Int : s * (2 * (u - w) + q) = 2 * (s * u - s * w) + s * q
          BY <1>1
        <5>3. PICK u \in Int, w \in Int : u = l * q /\ w = l * f
          BY <1>1
        <5>4. s * (2 * (u - w) + q) = 2 * (s * u - s * w) + s * q
          BY <5>2
        <5>5. s * u = B /\ s * w = C /\ s * q = D /\ lr = u - w
          BY <4>5, <5>1, <5>3
        <5> QED BY <5>4, <5>5
      <4>8. f * (2 * (p * q)) = 2 * E /\ f * (2 * (s * l) + s) = 2 * C + G
        BY <1>1, <2>1, <4>5
      <4>9. q * x = 2 * E + 2 * A - 2 * B
        BY <1>1, <2>1, <2>4, <3>4, <4>5
      <4>10. q * (2 * s) = 2 * D
        BY <1>1, <4>5
      <4> QED BY <4>2, <4>3, <4>4, <4>5, <4>6, <4>7, <4>8, <4>9, <4>10
    <3>6. x <= 2 * s
      <4>1. 2 * s \in Int
        BY <1>1
      <4> QED BY <1>1, <3>4, <3>5, <4>1, CancelFactor
    <3> QED BY <1>1, <2>5, <3>4, <3>6
  <2> QED BY <2>8, <2>9
<1> QED BY <1>3

LEMMA QuoteBound ==
  ASSUME NEW o \in Order, 0 <= o.filled, o.filled <= o.quantity
  PROVE  QuoteOf(o) <= 2 * Scale + (2 * Scale) * Credit(o) /\ Credit(o) \in Nat
<1>1. PICK q \in Nat, f \in Nat, s \in Nat \ {0}, l \in Int, c \in Nat :
        /\ q = o.quantity /\ f = o.filled /\ s = Scale /\ l = LockAmount(o) /\ f <= q
        /\ c = Credit(o) /\ (l < 0 => c = -l) /\ (l >= 0 => c = 0)
  BY OrderFacts, NumbersAssumption DEF Credit
<1>2. (2 * s) * c >= 0
  BY <1>1
<1>3. CASE o.side = "ask"
  BY <1>1, <1>2, <1>3 DEF QuoteOf
<1>4. CASE o.side = "bid"
  <2>1. PICK p \in Int : p = o.price
    BY <1>4, WorthFacts
  <2>2. l = RoundHalfEven(p * q, s) /\ p * q \in Int
    BY <1>1, <1>4, <2>1 DEF LockAmount, QuoteAmount
  <2>3. PICK e \in Nat : e = Released(o)
    BY WorthFacts
  <2>4. QuoteOf(o) = 2 * (p * f) + 2 * (s * (e - l))
    BY <1>1, <1>4, <2>1, <2>3 DEF QuoteOf
  <2>5. CASE p >= 0 /\ q > 0
    <3>1. QuoteOf(o) <= 2 * s
      BY <1>1, <1>4, <2>1, <2>5, LockedBound
    <3>2. PICK x \in Int, d \in Int : x = QuoteOf(o) /\ d = (2 * s) * c
      BY <1>1, WorthFacts
    <3>3. x <= 2 * s + d
      BY <1>1, <1>2, <3>1, <3>2
    <3> QED BY <1>1, <3>2, <3>3
  <2>6. CASE q = 0
    <3>1. p * q = 0 /\ p * f = 0 /\ s * 0 = 0
      BY <1>1, <2>6
    <3>2. l >= 0 /\ l <= 0
      BY <1>1, <2>2, <3>1, RoundSign
    <3>3. e = 0
      BY <1>1, <2>3, <2>6 DEF Released, Unlocked, UnlockAmount
    <3>4. e - l = 0 /\ s * (e - l) = 0
      BY <1>1, <3>1, <3>2, <3>3
    <3>5. QuoteOf(o) = 0
      BY <2>4, <3>1, <3>4
    <3>6. PICK d \in Int : d = (2 * s) * c
      BY <1>1
    <3>7. 0 <= 2 * s + d
      BY <1>1, <1>2, <3>6
    <3> QED BY <1>1, <3>5, <3>6, <3>7
  <2>7. CASE p < 0 /\ q > 0
    <3>1. p * f <= 0 /\ p * q <= 0 /\ p * f \in Int
      <4>1. \A m, n \in Nat : m * n \in Nat
        OBVIOUS
      <4>2. (-p) * f \in Nat /\ (-p) * q \in Nat
        BY <1>1, <2>7, <4>1
      <4>3. (-p) * f = -(p * f) /\ (-p) * q = -(p * q)
        OBVIOUS
      <4>4. p * f \in Int /\ p * q \in Int
        OBVIOUS
      <4> QED BY <4>2, <4>3, <4>4
    <3>2. l <= 0
      BY <1>1, <2>2, <3>1, RoundSign
    <3>3. e = 0
      <4>1. PICK r \in Nat : r = q - f
        BY <1>1
      <4>2. l * r <= 0 /\ l * r \in Int
        <5>1. \A m, n \in Nat : m * n \in Nat
          OBVIOUS
        <5>2. (-l) * r \in Nat
          BY <1>1, <3>2, <4>1, <5>1
        <5>3. (-l) * r = -(l * r) /\ l * r \in Int
          OBVIOUS
        <5> QED BY <5>2, <5>3
      <4>3. RoundHalfEven(l * r, q) <= 0
        BY <1>1, <2>7, <4>2, RoundSign
      <4>4. UnlockAmount(o, f) = RoundHalfEven(l * r, q)
        BY <1>1, <2>7, <4>1 DEF UnlockAmount
      <4>5. RoundHalfEven(l * r, q) \in Int
        BY <1>1, <2>7, <4>2, RoundBounds
      <4> QED BY <1>1, <2>3, <4>3, <4>4, <4>5 DEF Released, Unlocked
    <3>4. c = -l /\ e - l = c
      BY <1>1, <3>2, <3>3
    <3>5. 2 * (s * c) = (2 * s) * c /\ s * c \in Int
      BY <1>1
    <3>6. QuoteOf(o) = 2 * (p * f) + (2 * s) * c
      BY <2>4, <3>4, <3>5
    <3>7. PICK x \in Int, y \in Int : x = p * f /\ y = (2 * s) * c
      BY <1>1, <3>1
    <3>8. 2 * x + y <= 2 * s + y
      BY <1>1, <3>1, <3>7
    <3> QED BY <1>1, <3>6, <3>7, <3>8
  <2> QED BY <1>1, <2>5, <2>6, <2>7
<1> QED BY <1>1, <1>3, <1>4, WorthFacts

-----------------------------------------------------------------------------
(* All orders together account for what users have beyond what was paid in. *)

BaseSum == SumOver([id \in DOMAIN orders |-> BaseOf(orders[id])], DOMAIN orders)

QuoteSum == SumOver([id \in DOMAIN orders |-> QuoteOf(orders[id])], DOMAIN orders)

FillCount == SumOver(applied, DOMAIN applied)

\* The orders account for the surplus: exactly for the base asset, and for the quote asset
\* but for half a cent per fill.
MoneyOK ==
  /\ SurplusOf("base") = BaseSum
  /\ 2 * (Scale * SurplusOf("quote")) <= QuoteSum + Scale * FillCount

OrdersFinite == IsFiniteSet(DOMAIN orders)

LEMMA OrdersAreFinite ==
  ASSUME PInv
  PROVE  OrdersFinite /\ DOMAIN orders \subseteq OrderIds
<1>1. IsFiniteSet(1 .. MaxOrders)
  BY FS_Interval, NumbersAssumption
<1>2. DOMAIN orders \subseteq OrderIds
  BY DEF PInv, FInv, IInv, TablesOK, Function
<1> QED BY <1>1, <1>2, FS_Subset DEF OrdersFinite, OrderIds

\* One balance changes, and the surplus with it.
LEMMA SurplusGrows ==
  ASSUME balances \in [Keys -> Int], balances' \in [Keys -> Int],
         NEW a \in Assets, NEW u \in Users, NEW d \in Int,
         balances'[<<u, a>>] = balances[<<u, a>>] + d,
         \A v \in Users \ {u} : balances'[<<v, a>>] = balances[<<v, a>>]
  PROVE  SurplusOf(a)' = SurplusOf(a) + d /\ SurplusOf(a) \in Int
<1>1. PICK f, g : /\ f = [v \in Users |-> balances[<<v, a>>]]
                  /\ g = [v \in Users |-> balances'[<<v, a>>]]
  OBVIOUS
<1>2. \A v \in Users : <<v, a>> \in Keys
  BY DEF Keys
<1>3. \A v \in Users : f[v] \in Int /\ g[v] \in Int
  BY <1>1, <1>2
<1>4. \A v \in Users \ {u} : f[v] = g[v]
  BY <1>1
<1>5. SumOver(g, Users) = SumOver(f, Users) + g[u] - f[u]
  BY ONLY ZenonT(60), u \in Users, <1>3, <1>4, UsersAssumption, SumChange
<1>6. SumOver(f, Users) \in Int
  BY <1>3, UsersAssumption, SumType
<1>7. g[u] = f[u] + d
  BY <1>1
<1>8. Deposit * Cardinality(Users) \in Int
  <2>1. Cardinality(Users) \in Nat
    BY UsersAssumption, FS_CardinalityType
  <2> QED BY <2>1, NumbersAssumption
<1>9. PICK m \in Int, n \in Int, c \in Int :
        m = SumOver(f, Users) /\ n = f[u] /\ c = Deposit * Cardinality(Users)
  BY <1>3, <1>6, <1>8
<1>10. SumOf(a) = m /\ SumOf(a)' = m + d
  BY <1>1, <1>5, <1>7, <1>9 DEF SumOf
<1> QED BY <1>9, <1>10 DEF SurplusOf

\* One order is added or changes what it is worth.
LEMMA BaseSumGrows ==
  ASSUME PInv, NEW id, NEW d \in Int, DOMAIN orders' = DOMAIN orders \cup {id},
         \A j \in DOMAIN orders \ {id} : BaseOf(orders'[j]) = BaseOf(orders[j]),
         BaseOf(orders'[id]) = (IF id \in DOMAIN orders THEN BaseOf(orders[id]) ELSE 0) + d
  PROVE  BaseSum' = BaseSum + d /\ BaseSum \in Int
<1>1. PICK S, f, g : /\ S = DOMAIN orders
                     /\ f = [j \in DOMAIN orders |-> BaseOf(orders[j])]
                     /\ g = [j \in DOMAIN orders' |-> BaseOf(orders'[j])]
  OBVIOUS
<1>2. IsFiniteSet(S) /\ \A y \in S : f[y] \in Int
  BY <1>1, OrdersAreFinite, WorthFacts DEF OrdersFinite, PInv, FInv, IInv, TablesOK, Function
<1>3. \A y \in S \ {id} : g[y] = f[y]
  BY <1>1
<1>4. g[id] = (IF id \in S THEN f[id] ELSE 0) + d
  BY <1>1
<1>5. SumOver(g, S \cup {id}) = SumOver(f, S) + d
  BY ONLY d \in Int, <1>2, <1>3, <1>4, SumPut
<1>6. SumOver(f, S) \in Int
  BY <1>2, SumType
<1>7. BaseSum = SumOver(f, S)
  BY <1>1 DEF BaseSum
<1>8. BaseSum' = SumOver(g, S \cup {id})
  BY <1>1 DEF BaseSum
<1> QED BY <1>5, <1>6, <1>7, <1>8

LEMMA QuoteSumGrows ==
  ASSUME PInv, NEW id, NEW d \in Int, DOMAIN orders' = DOMAIN orders \cup {id},
         \A j \in DOMAIN orders \ {id} : QuoteOf(orders'[j]) = QuoteOf(orders[j]),
         QuoteOf(orders'[id]) = (IF id \in DOMAIN orders THEN QuoteOf(orders[id]) ELSE 0) + d
  PROVE  QuoteSum' = QuoteSum + d /\ QuoteSum \in Int
<1>1. PICK S, f, g : /\ S = DOMAIN orders
                     /\ f = [j \in DOMAIN orders |-> QuoteOf(orders[j])]
                     /\ g = [j \in DOMAIN orders' |-> QuoteOf(orders'[j])]
  OBVIOUS
<1>2. IsFiniteSet(S) /\ \A y \in S : f[y] \in Int
  BY <1>1, OrdersAreFinite, WorthFacts DEF OrdersFinite, PInv, FInv, IInv, TablesOK, Function
<1>3. \A y \in S \ {id} : g[y] = f[y]
  BY <1>1
<1>4. g[id] = (IF id \in S THEN f[id] ELSE 0) + d
  BY <1>1
<1>5. SumOver(g, S \cup {id}) = SumOver(f, S) + d
  BY ONLY d \in Int, <1>2, <1>3, <1>4, SumPut
<1>6. SumOver(f, S) \in Int
  BY <1>2, SumType
<1>7. QuoteSum = SumOver(f, S)
  BY <1>1 DEF QuoteSum
<1>8. QuoteSum' = SumOver(g, S \cup {id})
  BY <1>1 DEF QuoteSum
<1> QED BY <1>5, <1>6, <1>7, <1>8

\* A settlement counts once more.
LEMMA FillCountGrows ==
  ASSUME AppliedFinite, Function(applied, Fill, Nat), NEW f,
         applied' = Put(applied, f, (IF f \in DOMAIN applied THEN applied[f] ELSE 0) + 1)
  PROVE  FillCount' = FillCount + 1 /\ FillCount \in Int
<1>1. PICK g, h, S : g = applied /\ h = applied' /\ S = DOMAIN applied
  OBVIOUS
<1>2. IsFiniteSet(S) /\ \A y \in S : g[y] \in Int
  BY <1>1 DEF AppliedFinite, Function
<1>3. DOMAIN applied' = S \cup {f} /\ (\A y \in S \ {f} : h[y] = g[y])
      /\ h[f] = (IF f \in S THEN g[f] ELSE 0) + 1
  BY <1>1 DEF Put
<1>4. SumOver(h, S \cup {f}) = SumOver(g, S) + 1
  BY <1>2, <1>3, SumPut
<1>5. SumOver(g, S) \in Int
  BY <1>2, SumType
<1> QED BY <1>1, <1>3, <1>4, <1>5 DEF FillCount

\* How far the surplus and what the orders account for go together in a step: the quote asset
\* by d cents, the bids by at least as much as 2 * Scale * d but for Scale per fill.
LEMMA MoneyMoves ==
  ASSUME MoneyOK, NEW b \in Int, NEW d \in Int, NEW w \in Int, NEW n \in Int,
         SurplusOf("base") \in Int, SurplusOf("quote") \in Int, BaseSum \in Int, QuoteSum \in Int,
         FillCount \in Int,
         SurplusOf("base")' = SurplusOf("base") + b, BaseSum' = BaseSum + b,
         SurplusOf("quote")' = SurplusOf("quote") + d, QuoteSum' = QuoteSum + w,
         FillCount' = FillCount + n, 2 * (Scale * d) <= w + Scale * n
  PROVE  MoneyOK'
<1>1. PICK s \in Int, x \in Int, y \in Int, c \in Int :
        s = Scale /\ x = SurplusOf("quote") /\ y = QuoteSum /\ c = FillCount
  BY NumbersAssumption
<1>2. 2 * (s * x) <= y + s * c /\ 2 * (s * d) <= w + s * n
  BY <1>1 DEF MoneyOK
<1>3. s * (x + d) = s * x + s * d /\ s * (c + n) = s * c + s * n
  OBVIOUS
<1>4. PICK sx \in Int, sd \in Int, sc \in Int, sn \in Int :
        sx = s * x /\ sd = s * d /\ sc = s * c /\ sn = s * n
  OBVIOUS
<1>5. 2 * (s * (x + d)) <= (y + w) + s * (c + n)
  BY <1>2, <1>3, <1>4
<1>6. SurplusOf("base")' = BaseSum'
  BY DEF MoneyOK
<1>7. SurplusOf("quote")' = x + d /\ QuoteSum' = y + w /\ FillCount' = c + n
  BY <1>1
<1> QED BY <1>1, <1>5, <1>6, <1>7 DEF MoneyOK

LEMMA FillCountType ==
  ASSUME PInv
  PROVE  FillCount \in Int
<1>1. PICK g, S : g = applied /\ S = DOMAIN applied
  OBVIOUS
<1>2. IsFiniteSet(S) /\ \A y \in S : g[y] \in Int
  BY <1>1 DEF PInv, FInv, IInv, TablesOK, AppliedFinite, Function
<1>3. SumOver(g, S) \in Int
  BY <1>2, SumType
<1> QED BY <1>1, <1>3 DEF FillCount

\* A placement takes from its user what the new order locks.
LEMMA PlaceMoney ==
  ASSUME PInv, PInv', MoneyOK, NEW t \in Slots, PlaceEffect(t)
  PROVE  MoneyOK'
<1>1. PICK x, o, id : x = tx[t] /\ o = x.order /\ id = x.id
  OBVIOUS
<1>2. /\ o \in Order /\ o.filled = 0 /\ o.status = "pending"
      /\ id \notin DOMAIN orders /\ orders' = Put(orders, id, o)
      /\ balances' = [k \in Keys |-> IF k = LockKey(o) THEN balances[k] - LockAmount(o)
                                                       ELSE balances[k]]
      /\ applied' = applied
  BY <1>1 DEF PlaceEffect, NewOrder
<1>3. balances \in [Keys -> Int] /\ balances' \in [Keys -> Int]
  BY DEF PInv, FInv, IInv, TablesOK
<1>4. PICK u \in Users, l \in Int, q \in Int : u = o.user /\ l = LockAmount(o) /\ q = o.quantity
  BY <1>2, OrderFacts
<1>5. PICK b \in Int, d \in Int : /\ b = (IF o.side = "bid" THEN 0 ELSE -l)
                                  /\ d = (IF o.side = "bid" THEN -l ELSE 0)
  OBVIOUS
<1>6. o.side \in {"bid", "ask"} /\ Released(o) = 0
  BY <1>2, WorthFacts DEF Released
<1>7. /\ DOMAIN orders' = DOMAIN orders \cup {id} /\ orders'[id] = o
      /\ \A j \in DOMAIN orders \ {id} : orders'[j] = orders[j]
  BY <1>2 DEF Put
<1>8. SurplusOf("base")' = SurplusOf("base") + b /\ SurplusOf("base") \in Int
  <2>1. /\ balances'[<<u, "base">>] = balances[<<u, "base">>] + b
        /\ \A v \in Users \ {u} : balances'[<<v, "base">>] = balances[<<v, "base">>]
    BY <1>2, <1>3, <1>4, <1>5, <1>6 DEF LockKey, Keys, Assets
  <2> QED BY <1>3, <2>1, SurplusGrows DEF Assets
<1>9. SurplusOf("quote")' = SurplusOf("quote") + d /\ SurplusOf("quote") \in Int
  <2>1. /\ balances'[<<u, "quote">>] = balances[<<u, "quote">>] + d
        /\ \A v \in Users \ {u} : balances'[<<v, "quote">>] = balances[<<v, "quote">>]
    BY <1>2, <1>3, <1>4, <1>5, <1>6 DEF LockKey, Keys, Assets
  <2> QED BY <1>3, <2>1, SurplusGrows DEF Assets
<1>10. BaseSum' = BaseSum + b /\ BaseSum \in Int
  <2>1. BaseOf(o) = b
    BY <1>2, <1>4, <1>5, <1>6 DEF BaseOf, LockAmount
  <2> QED BY <1>2, <1>7, <2>1, BaseSumGrows
<1>11. PICK w \in Int : w = 2 * (Scale * d)
  BY NumbersAssumption
<1>12. QuoteSum' = QuoteSum + w /\ QuoteSum \in Int
  <2>1. QuoteOf(o) = w
    <3>1. CASE o.side = "bid"
      <4>1. o.price \in Int
        BY <1>2, <3>1, WorthFacts
      <4>2. o.price * 0 = 0 /\ 0 - l = -l
        BY <4>1
      <4> QED BY <1>2, <1>4, <1>5, <1>6, <1>11, <3>1, <4>2 DEF QuoteOf
    <3>2. CASE o.side = "ask"
      <4>1. Scale * 0 = 0
        BY NumbersAssumption
      <4> QED BY <1>5, <1>11, <3>2, <4>1 DEF QuoteOf
    <3> QED BY <1>6, <3>1, <3>2
  <2> QED BY <1>2, <1>7, <1>11, <2>1, QuoteSumGrows
<1>13. FillCount' = FillCount + 0 /\ FillCount \in Int /\ Scale * 0 = 0
  BY <1>2, FillCountType, NumbersAssumption DEF FillCount
<1>14. 2 * (Scale * d) <= w + Scale * 0
  BY <1>11, <1>13
<1> QED BY <1>8, <1>9, <1>10, <1>11, <1>12, <1>13, <1>14, MoneyMoves

\* A cancellation gives back the part of the lock that the order has not used.
LEMMA CancelMoney ==
  ASSUME PInv, PInv', MoneyOK, NEW t \in Slots, CancelEffect(t), "misreported" \notin Excess(t)
  PROVE  MoneyOK'
<1>1. PICK id, o, p : id = tx[t].id /\ o = orders[id] /\ p = orders'[id]
  OBVIOUS
<1>2. /\ id \in DOMAIN orders /\ o \in Order /\ o.status # "cancelled"
      /\ DOMAIN orders' = DOMAIN orders
      /\ \A j \in DOMAIN orders \ {id} : orders'[j] = orders[j]
      /\ p = [o EXCEPT !.status = "cancelled"] /\ tx[t].filled = o.filled
  BY <1>1, CancelFilled
<1>3. /\ balances' = [k \in Keys |-> IF k = LockKey(o) THEN balances[k] + Unlocked(o, o.filled)
                                                       ELSE balances[k]]
      /\ applied' = applied
  BY <1>1, <1>2 DEF CancelEffect
<1>4. balances \in [Keys -> Int] /\ balances' \in [Keys -> Int]
  BY DEF PInv, FInv, IInv, TablesOK
<1>5. PICK u \in Users, q \in Int, f \in Int, l \in Int, e \in Nat :
        /\ u = o.user /\ q = o.quantity /\ f = o.filled /\ l = LockAmount(o)
        /\ e = Unlocked(o, o.filled)
  <2>1. UnlockAmount(o, o.filled) \in Int
    BY <1>2, OrderFacts, UnlockFacts
  <2>2. Unlocked(o, o.filled) \in Nat
    BY <2>1 DEF Unlocked
  <2> QED BY <1>2, <2>2, OrderFacts
<1>6. o.side \in {"bid", "ask"} /\ Released(o) = 0
  BY <1>2, WorthFacts DEF Released
<1>7. /\ p.side = o.side /\ p.quantity = q /\ p.filled = f /\ p.price = o.price
      /\ LockAmount(p) = l /\ Released(p) = e
  <2>1. p.status = "cancelled" /\ p.filled = f /\ p.price = o.price /\ SameLock(p, o)
    BY <1>2, <1>5 DEF Order, SameLock
  <2>2. Unlocked(p, f) = e
    BY <1>5, <2>1, SameLockFacts DEF Unlocked
  <2> QED BY <1>5, <2>1, <2>2 DEF SameLock, LockAmount, Released
<1>8. PICK b \in Int, d \in Int : /\ b = (IF o.side = "bid" THEN 0 ELSE e)
                                  /\ d = (IF o.side = "bid" THEN e ELSE 0)
  OBVIOUS
<1>9. SurplusOf("base")' = SurplusOf("base") + b /\ SurplusOf("base") \in Int
  <2>1. /\ balances'[<<u, "base">>] = balances[<<u, "base">>] + b
        /\ \A v \in Users \ {u} : balances'[<<v, "base">>] = balances[<<v, "base">>]
    BY <1>3, <1>4, <1>5, <1>6, <1>8 DEF LockKey, Keys, Assets
  <2> QED BY <1>4, <2>1, SurplusGrows DEF Assets
<1>10. SurplusOf("quote")' = SurplusOf("quote") + d /\ SurplusOf("quote") \in Int
  <2>1. /\ balances'[<<u, "quote">>] = balances[<<u, "quote">>] + d
        /\ \A v \in Users \ {u} : balances'[<<v, "quote">>] = balances[<<v, "quote">>]
    BY <1>3, <1>4, <1>5, <1>6, <1>8 DEF LockKey, Keys, Assets
  <2> QED BY <1>4, <2>1, SurplusGrows DEF Assets
<1>11. DOMAIN orders' = DOMAIN orders \cup {id}
  BY <1>2
<1>12. BaseSum' = BaseSum + b /\ BaseSum \in Int
  <2>1. BaseOf(p) = BaseOf(o) + b
    BY <1>5, <1>6, <1>7, <1>8 DEF BaseOf
  <2>2. BaseOf(orders'[id]) = (IF id \in DOMAIN orders THEN BaseOf(orders[id]) ELSE 0) + b
    BY <1>1, <1>2, <2>1
  <2>3. \A j \in DOMAIN orders \ {id} : BaseOf(orders'[j]) = BaseOf(orders[j])
    BY <1>2
  <2> QED BY <1>11, <2>2, <2>3, BaseSumGrows
<1>13. PICK w \in Int : w = 2 * (Scale * d)
  BY NumbersAssumption
<1>14. QuoteSum' = QuoteSum + w /\ QuoteSum \in Int
  <2>1. QuoteOf(p) = QuoteOf(o) + w
    <3>1. CASE o.side = "bid"
      <4>1. PICK c \in Int : c = o.price * f
        BY <1>2, <3>1, WorthFacts
      <4>2. PICK s \in Int : s = Scale
        BY NumbersAssumption
      <4>3. s * (e - l) = s * (0 - l) + s * e
        OBVIOUS
      <4>4. PICK y \in Int, z \in Int : y = s * (0 - l) /\ z = s * e
        OBVIOUS
      <4>5. QuoteOf(p) = 2 * c + 2 * (y + z)
        BY <1>5, <1>7, <3>1, <4>1, <4>2, <4>3, <4>4 DEF QuoteOf
      <4>6. QuoteOf(o) = 2 * c + 2 * y
        BY <1>5, <1>6, <3>1, <4>1, <4>2, <4>4 DEF QuoteOf
      <4>7. w = 2 * z
        BY <1>8, <1>13, <3>1, <4>2, <4>4
      <4> QED BY <4>5, <4>6, <4>7
    <3>2. CASE o.side = "ask"
      <4>1. Scale * 0 = 0
        BY NumbersAssumption
      <4> QED BY <1>7, <1>8, <1>13, <3>2, <4>1 DEF QuoteOf
    <3> QED BY <1>6, <3>1, <3>2
  <2>2. QuoteOf(orders'[id]) = (IF id \in DOMAIN orders THEN QuoteOf(orders[id]) ELSE 0) + w
    BY <1>1, <1>2, <2>1
  <2>3. \A j \in DOMAIN orders \ {id} : QuoteOf(orders'[j]) = QuoteOf(orders[j])
    BY <1>2
  <2> QED BY <1>11, <2>2, <2>3, QuoteSumGrows
<1>15. FillCount' = FillCount + 0 /\ FillCount \in Int /\ Scale * 0 = 0
  BY <1>3, FillCountType, NumbersAssumption DEF FillCount
<1>16. 2 * (Scale * d) <= w + Scale * 0
  BY <1>13, <1>15
<1> QED BY <1>9, <1>10, <1>12, <1>13, <1>14, <1>15, <1>16, MoneyMoves

\* A settlement pays the seller what the bid owes, and the buyer gets what the ask gave.
LEMMA SettleMoney ==
  ASSUME PInv, PInv', MoneyOK, NEW t \in Slots, SettleEffect(t), tx[t].fill.quantity >= 0,
         "late" \notin Excess(t), "slippage" \notin Excess(t)
  PROVE  MoneyOK'
<1>1. PICK x, f : x = tx[t] /\ f = x.fill
  OBVIOUS
<1>2. /\ f \in Fill /\ Sided(f) /\ x.op = "settle" /\ x.at = "commit"
      /\ DOMAIN orders' = DOMAIN orders /\ x.known = Names(f)
  BY <1>1, SettleMarks DEF SettleEffect, PInv, FillsOK
<1>3. PICK i, j : i = f.buy /\ j = f.sell
  OBVIOUS
<1>4. i \in DOMAIN orders /\ j \in DOMAIN orders /\ i # j
      /\ orders[i].side = "bid" /\ orders[j].side = "ask"
  BY <1>2, <1>3 DEF Sided, Names
<1>5. Marked(x) = {i, j} /\ DOMAIN x.rows = {i, j}
  <2>1. Marked(x) = {i, j}
    BY <1>1, <1>2, <1>3 DEF Marked, Names
  <2> QED BY <1>1, <2>1 DEF SettleEffect
<1>6. PICK q \in Nat, c \in Int : q = f.quantity /\ c = QuoteAmount(f.price, q)
  BY <1>1, <1>2, FillFacts
<1>7. Part(x, i) = q /\ Part(x, j) = q
  BY <1>1, <1>2, <1>3, <1>4, <1>6 DEF Part
<1>8. ASSUME NEW k \in {i, j}
      PROVE  /\ orders[k].status # "cancelled" /\ orders'[k].status # "cancelled"
             /\ orders'[k].filled = orders[k].filled + q
             /\ orders'[k] \in Order /\ SameLock(orders'[k], orders[k])
             /\ orders'[k] = x.rows[k]
  <2>1. /\ orders'[k] = x.rows[k] /\ MarkedBy(orders[k], orders'[k], q)
        /\ orders'[k] \in Order /\ SameLock(orders'[k], orders[k])
    BY <1>1, <1>4, <1>5, <1>7, <1>8 DEF SettleEffect
  <2>2. x.rows[k].status # "cancelled"
    BY <1>1, <1>2, <1>5, <1>8 DEF Excess
  <2> QED BY <2>1, <2>2 DEF MarkedBy
<1>9. \A k \in DOMAIN orders : k \notin {i, j} => orders'[k] = orders[k]
  BY <1>1, <1>5 DEF SettleEffect
<1>10. balances' = [k \in Keys |-> balances[k] + Entries(x)[k]] /\ balances \in [Keys -> Int]
       /\ balances' \in [Keys -> Int]
  BY <1>1 DEF SettleEffect, PInv, FInv, IInv, TablesOK
<1>11. orders[i] \in Order /\ orders[j] \in Order
  BY <1>4 DEF PInv, FInv, IInv, TablesOK, Function
<1>12. PICK u \in Users, v \in Users : u = orders[i].user /\ v = orders[j].user
  BY <1>11, OrderFacts
<1>13. \A k \in Keys : Entries(x)[k] = (IF k = <<u, "base">> THEN q ELSE 0)
                                         + (IF k = <<v, "quote">> THEN c ELSE 0)
  BY <1>1, <1>2, <1>3, <1>6, <1>12 DEF Entries, Names
<1>14. SurplusOf("base")' = SurplusOf("base") + q /\ SurplusOf("base") \in Int
  <2>1. /\ balances'[<<u, "base">>] = balances[<<u, "base">>] + q
        /\ \A z \in Users \ {u} : balances'[<<z, "base">>] = balances[<<z, "base">>]
    BY <1>10, <1>13 DEF Keys, Assets
  <2> QED BY <1>10, <2>1, SurplusGrows DEF Assets
<1>15. SurplusOf("quote")' = SurplusOf("quote") + c /\ SurplusOf("quote") \in Int
  <2>1. /\ balances'[<<v, "quote">>] = balances[<<v, "quote">>] + c
        /\ \A z \in Users \ {v} : balances'[<<z, "quote">>] = balances[<<z, "quote">>]
    BY SMTT(30), <1>10, <1>13 DEF Keys, Assets
  <2> QED BY <1>10, <2>1, SurplusGrows DEF Assets
<1>16. DOMAIN orders' = DOMAIN orders \cup {i} /\ DOMAIN orders' = DOMAIN orders \cup {j}
  BY <1>2, <1>4
<1>17. BaseSum' = BaseSum + q /\ BaseSum \in Int
  <2>1. BaseOf(orders'[i]) = BaseOf(orders[i])
    BY <1>4, <1>8 DEF BaseOf, SameLock
  <2>2. BaseOf(orders'[j]) = BaseOf(orders[j]) + q
    <3>1. PICK m \in Int, n \in Int : m = orders[j].filled /\ n = orders[j].quantity
      BY <1>11, OrderFacts
    <3>2. BaseOf(orders[j]) = m + 0 - n
      BY <1>4, <1>8, <3>1 DEF BaseOf, Released
    <3>3. BaseOf(orders'[j]) = (m + q) + 0 - n
      BY <1>4, <1>8, <3>1 DEF BaseOf, Released, SameLock
    <3> QED BY <3>2, <3>3
  <2>3. \A k \in DOMAIN orders \ {j} : BaseOf(orders'[k]) = BaseOf(orders[k])
    BY <1>9, <2>1
  <2> QED BY <1>4, <1>16, <2>2, <2>3, BaseSumGrows
<1>18. PICK P \in Int, m \in Int, e \in Nat \ {0} : P = orders[i].price /\ m = f.price /\ e = Scale
  BY <1>2, <1>4, <1>11, WorthFacts, PricesAssumption, NumbersAssumption DEF Fill
<1>19. m <= P
  <2>1. ~(x.rows[i].price < f.price)
    BY <1>1, <1>2, <1>3, <1>5 DEF Excess
  <2>2. x.rows[i].price = P
    BY <1>8, <1>18 DEF SameLock
  <2> QED BY <1>18, <2>1, <2>2
<1>20. PICK w \in Int : w = 2 * (P * q)
  OBVIOUS
<1>21. QuoteSum' = QuoteSum + w /\ QuoteSum \in Int
  <2>1. QuoteOf(orders'[j]) = QuoteOf(orders[j])
    BY <1>4, <1>8 DEF QuoteOf, SameLock
  <2>2. QuoteOf(orders'[i]) = QuoteOf(orders[i]) + w
    <3>1. PICK g \in Int, l \in Int : g = orders[i].filled /\ l = LockAmount(orders[i])
      BY <1>11, OrderFacts
    <3>2. LockAmount(orders'[i]) = l
      BY <1>8, <3>1 DEF SameLock, LockAmount
    <3>3. PICK y \in Int : y = 2 * (e * (0 - l))
      OBVIOUS
    <3>4. QuoteOf(orders[i]) = 2 * (P * g) + y
      BY <1>4, <1>8, <1>18, <3>1, <3>3 DEF QuoteOf, Released
    <3>5. QuoteOf(orders'[i]) = 2 * (P * (g + q)) + y
      BY <1>4, <1>8, <1>18, <3>1, <3>2, <3>3 DEF QuoteOf, Released, SameLock
    <3>6. P * (g + q) = P * g + P * q
      OBVIOUS
    <3>7. PICK r \in Int, z \in Int : r = P * g /\ z = P * q
      OBVIOUS
    <3> QED BY <1>20, <3>4, <3>5, <3>6, <3>7
  <2>3. \A k \in DOMAIN orders \ {i} : QuoteOf(orders'[k]) = QuoteOf(orders[k])
    BY <1>9, <2>1
  <2> QED BY <1>4, <1>16, <2>2, <2>3, QuoteSumGrows
<1>22. FillCount' = FillCount + 1 /\ FillCount \in Int
  BY <1>1, FillCountGrows DEF SettleEffect, PInv, FInv, IInv, TablesOK
<1>23. 2 * (Scale * c) <= w + Scale * 1
  <2>1. c = RoundHalfEven(m * q, e) /\ m * q \in Int
    BY <1>6, <1>18 DEF QuoteAmount
  <2>2. 2 * (e * c) <= 2 * (m * q) + e
    BY <2>1, RoundBounds
  <2>3. m * q <= P * q
    <3>1. (P - m) * q = P * q - m * q /\ (P - m) * q \in Nat
      <4>1. \A y, z \in Nat : y * z \in Nat
        OBVIOUS
      <4>2. P - m \in Nat
        BY <1>19
      <4> QED BY <4>1, <4>2
    <3>2. P * q \in Int /\ m * q \in Int
      OBVIOUS
    <3> QED BY <3>1, <3>2
  <2>4. PICK y \in Int, z \in Int, r \in Int : y = m * q /\ z = P * q /\ r = e * c
    OBVIOUS
  <2> QED BY <1>18, <1>20, <2>2, <2>3, <2>4
<1> QED BY <1>14, <1>15, <1>17, <1>21, <1>22, <1>23, MoneyMoves

\* The inductive invariant of the money.
MInv ==
  /\ PInv
  /\ ~NegativeQuantity => Natural
  /\ raised = {} /\ ~NegativeQuantity => FilledOK /\ Covered /\ MoneyOK

LEMMA InitMInv == FlowInit => MInv
<1> SUFFICES ASSUME FlowInit PROVE MInv
  OBVIOUS
<1>1. PInv /\ Init
  BY InitPInv DEF FlowInit
<1>2. DOMAIN orders = {} /\ DOMAIN applied = {}
  BY <1>1 DEF Init
<1>3. Covered /\ FilledOK
  BY <1>2 DEF Covered, FilledOK
<1>4. \A a \in Assets : SurplusOf(a) = 0
  <2> TAKE a \in Assets
  <2>1. PICK g : g = [u \in Users |-> balances[<<u, a>>]]
    OBVIOUS
  <2>2. Deposit \in Int /\ \A u \in Users : g[u] = Deposit
    BY <1>1, <2>1, NumbersAssumption DEF Init, Keys
  <2>3. SumOver(g, Users) = Deposit * Cardinality(Users)
    BY <2>2, UsersAssumption, SumConstant
  <2>4. PICK c \in Int : c = Deposit * Cardinality(Users)
    <3>1. Cardinality(Users) \in Nat
      BY UsersAssumption, FS_CardinalityType
    <3> QED BY <3>1, NumbersAssumption
  <2> QED BY <2>1, <2>3, <2>4 DEF SurplusOf, SumOf
<1>5. BaseSum = 0 /\ QuoteSum = 0 /\ FillCount = 0
  BY <1>2, SumEmpty DEF BaseSum, QuoteSum, FillCount
<1>6. MoneyOK
  <2>1. 2 * (Scale * 0) <= 0 + Scale * 0
    BY NumbersAssumption
  <2> QED BY <1>4, <1>5, <2>1 DEF MoneyOK, Assets
<1>7. Natural
  <2>1. book = << >> /\ taker = None /\ call = None /\ \A t \in Slots : tx[t].op = "idle"
    BY <1>1, BlankShape DEF FlowInit, Init
  <2>2. None \notin SettleCall
    BY NoneAssumption DEF SettleCall, Calls
  <2>3. Unsettled = {}
    BY <2>1, <2>2 DEF Unsettled
  <2> QED BY <2>1, <2>3 DEF Natural
<1> QED BY <1>1, <1>3, <1>6, <1>7 DEF MInv

LEMMA NextMInv == MInv /\ [FlowNext]_fvars => MInv'
<1> SUFFICES ASSUME MInv, [FlowNext]_fvars PROVE MInv'
  OBVIOUS
<1>1. PInv /\ PInv' /\ FInv /\ RInv
  BY NextPInv DEF MInv, PInv
<1> SUFFICES ASSUME ~NegativeQuantity'
             PROVE  Natural' /\ (raised' = {} => FilledOK' /\ Covered' /\ MoneyOK')
  BY <1>1 DEF MInv
<1>2. KInv
  BY <1>1, SignKept DEF MInv, KInv
<1> SUFFICES ASSUME raised' = {} PROVE FilledOK' /\ Covered' /\ MoneyOK'
  BY <1>2, NextNatural
<1>3. raised = {} /\ Covered'
  BY <1>2, CoveredKept DEF MInv, KInv
<1>4. FilledOK /\ MoneyOK
  BY <1>2, <1>3 DEF MInv, KInv
<1>5. ASSUME NoEffect PROVE FilledOK' /\ MoneyOK'
  <2>1. balances' = balances /\ orders' = orders /\ applied' = applied
    BY <1>5 DEF NoEffect
  <2>2. BaseSum' = BaseSum /\ QuoteSum' = QuoteSum /\ FillCount' = FillCount
    BY <2>1 DEF BaseSum, QuoteSum, FillCount
  <2>3. SurplusOf("base")' = SurplusOf("base") /\ SurplusOf("quote")' = SurplusOf("quote")
    BY <2>1 DEF SurplusOf, SumOf
  <2>4. MoneyOK'
    BY <1>4, <2>2, <2>3 DEF MoneyOK
  <2> QED BY <1>4, <2>1, <2>4 DEF FilledOK
<1>6. ASSUME NEW t \in Slots, AccountsStep(t), Effect(t)
      PROVE  FilledOK' /\ MoneyOK'
  <2>1. Excess(t) = {}
    BY <1>6 DEF AccountsStep
  <2>2. PlaceEffect(t) => MoneyOK'
    BY <1>1, <1>4, PlaceMoney
  <2>3. CancelEffect(t) => MoneyOK'
    BY <1>1, <1>4, <2>1, CancelMoney
  <2>4. ASSUME SettleEffect(t) PROVE MoneyOK'
    BY <1>1, <1>2, <1>4, <2>1, <2>4, SettleMoney, SettledFill
  <2>5. MoneyOK'
    BY <1>5, <1>6, <2>2, <2>3, <2>4 DEF Effect
  <2> QED BY <1>2, <1>4, <1>6, <2>1, <2>5, FilledKept
<1> QED BY <1>1, <1>3, <1>5, <1>6, FlowEffect

\* What the orders account for is never more than nothing but for the rounding and for what
\* they were credited with.
LEMMA MoneyBounds == MInv => NoMoneyCreated
<1> SUFFICES ASSUME MInv, raised = {}, ~NegativeQuantity
             PROVE  SurplusOf("base") <= 0 /\ 2 * SurplusOf("quote") <= Rounding + 2 * Credited
  BY DEF NoMoneyCreated
<1>1. PInv /\ KInv /\ FilledOK /\ Covered /\ MoneyOK
  BY DEF MInv, KInv
<1>2. PICK S, v, w : /\ S = DOMAIN orders
                     /\ v = [id \in DOMAIN orders |-> BaseOf(orders[id])]
                     /\ w = [id \in DOMAIN orders |-> QuoteOf(orders[id])]
  OBVIOUS
<1>3. IsFiniteSet(S)
  BY <1>1, <1>2, OrdersAreFinite DEF OrdersFinite
<1>4. ASSUME NEW id \in S
      PROVE  /\ orders[id] \in Order
             /\ 0 <= orders[id].filled /\ orders[id].filled <= orders[id].quantity
  <2>1. orders[id] \in Order
    BY <1>1, <1>2 DEF PInv, FInv, IInv, TablesOK, Function
  <2>2. PICK f \in Int, q \in Int, l \in Nat :
          f = orders[id].filled /\ q = orders[id].quantity /\ l = Left(id)
    BY <1>1, <1>2, <2>1, OrderFacts, LeftFacts
  <2>3. SumOver(Quantity, {}) = 0 /\ IsFiniteSet({}) /\ {} \in SUBSET UnsettledOf(id)
    BY SumEmpty, FS_EmptySet
  <2>4. orders[id].filled + SumOver(Quantity, {}) + Left(id) <= orders[id].quantity
    BY <1>1, <1>2, <2>3 DEF Covered
  <2>5. f + 0 + l <= q
    BY <2>2, <2>3, <2>4
  <2>6. f <= q
    BY <2>5
  <2> QED BY <1>1, <1>2, <2>1, <2>2, <2>6 DEF FilledOK
<1>5. PICK s \in Nat \ {0} : s = Scale
  BY NumbersAssumption
<1>6. PICK cr : cr = [id \in S |-> Credit(orders[id])]
  OBVIOUS
<1>7. \A id \in S : /\ v[id] \in Int /\ v[id] <= 0 /\ w[id] \in Int
                    /\ cr[id] \in Nat /\ w[id] <= 2 * s + (2 * s) * cr[id]
  BY <1>2, <1>4, <1>5, <1>6, WorthFacts, BaseBound, QuoteBound
<1>8. PICK n \in Nat, a \in Int, b \in Int, r \in Int :
        n = Cardinality(S) /\ a = SumOver(v, S) /\ b = SumOver(w, S) /\ r = SumOver(cr, S)
  <2>1. \A id \in S : cr[id] \in Int
    BY <1>7
  <2> QED BY <1>3, <1>7, <2>1, SumType, FS_CardinalityType
<1>9. a <= 0
  <2>1. PICK g : g = [id \in S |-> 0]
    OBVIOUS
  <2>2. SumOver(g, S) = 0
    BY ONLY <1>3, <2>1, SumZero
  <2>3. \A id \in S : v[id] \in Int /\ g[id] \in Int /\ v[id] <= g[id]
    BY <1>7, <2>1
  <2>4. SumOver(v, S) <= SumOver(g, S)
    BY ONLY <1>3, <2>3, SumMonotone
  <2> QED BY <1>8, <2>2, <2>4
<1>10. b <= (2 * s) * n + (2 * s) * r
  <2>1. PICK d \in Int : d = 2 * s
    OBVIOUS
  <2>2. PICK f, g, h : /\ f = [id \in S |-> d] /\ g = [id \in S |-> d * cr[id]]
                       /\ h = [id \in S |-> d + d * cr[id]]
    OBVIOUS
  <2>3. \A id \in S : cr[id] \in Int /\ f[id] \in Int /\ g[id] \in Int
    <3> TAKE id \in S
    <3>1. PICK e \in Int : e = cr[id]
      BY <1>7
    <3>2. d * e \in Int
      OBVIOUS
    <3> QED BY <2>2, <3>1, <3>2
  <2>4. SumOver(f, S) = d * n
    <3>1. \A id \in S : f[id] = d
      BY <2>2
    <3>2. SumOver(f, S) = d * Cardinality(S)
      BY ONLY d \in Int, <1>3, <3>1, SumConstant
    <3> QED BY <1>8, <3>2
  <2>5. SumOver(g, S) = d * r
    <3>1. \A id \in S : cr[id] \in Int /\ g[id] = d * cr[id]
      BY <2>2, <2>3
    <3>2. SumOver(g, S) = d * SumOver(cr, S)
      BY ONLY d \in Int, <1>3, <3>1, SumScale
    <3> QED BY <1>8, <3>2
  <2>6. SumOver(h, S) = SumOver(f, S) + SumOver(g, S)
    <3>1. \A id \in S : f[id] \in Int /\ g[id] \in Int /\ h[id] = f[id] + g[id]
      BY <2>2, <2>3
    <3> QED BY ONLY <1>3, <3>1, SumPlus
  <2>7. \A id \in S : w[id] \in Int /\ h[id] \in Int /\ w[id] <= h[id]
    <3> TAKE id \in S
    <3>1. h[id] = f[id] + g[id]
      BY <2>2
    <3>2. w[id] <= h[id]
      BY <1>7, <2>1, <2>2
    <3> QED BY <1>7, <2>3, <3>1, <3>2
  <2>8. SumOver(w, S) <= SumOver(h, S)
    BY ONLY <1>3, <2>7, SumMonotone
  <2> QED BY <1>8, <2>1, <2>4, <2>5, <2>6, <2>8
<1>11. BaseSum = a /\ QuoteSum = b /\ Credited = r
  BY <1>2, <1>6, <1>8 DEF BaseSum, QuoteSum, Credited
<1>12. PICK k \in Int : k = FillCount
  BY <1>1, FillCountType
<1>13. SurplusOf("quote") \in Int
  <2>1. balances \in [Keys -> Int]
    BY <1>1 DEF PInv, FInv, IInv, TablesOK
  <2>2. PICK y : y = [u \in Users |-> balances[<<u, "quote">>]]
    OBVIOUS
  <2>3. \A u \in Users : y[u] \in Int
    BY <2>1, <2>2 DEF Keys, Assets
  <2>4. SumOver(y, Users) \in Int
    BY <2>3, UsersAssumption, SumType
  <2>5. Deposit * Cardinality(Users) \in Int
    <3>1. Cardinality(Users) \in Nat
      BY UsersAssumption, FS_CardinalityType
    <3> QED BY <3>1, NumbersAssumption
  <2> QED BY <2>2, <2>4, <2>5 DEF SurplusOf, SumOf
<1>14. PICK x \in Int : x = SurplusOf("quote")
  BY <1>13
<1>15. 2 * x <= k + 2 * n + 2 * r
  <2>1. 2 * (s * x) <= b + s * k
    BY <1>1, <1>5, <1>11, <1>12, <1>14 DEF MoneyOK
  <2>2. /\ s * (2 * x) = 2 * (s * x)
        /\ s * (k + 2 * n + 2 * r) = s * k + (2 * s) * n + (2 * s) * r
    OBVIOUS
  <2>3. PICK sx \in Int, sk \in Int, sn \in Int, sr \in Int :
          sx = s * x /\ sk = s * k /\ sn = (2 * s) * n /\ sr = (2 * s) * r
    OBVIOUS
  <2>4. s * (2 * x) <= s * (k + 2 * n + 2 * r)
    BY <1>10, <2>1, <2>2, <2>3
  <2> QED BY <2>4, CancelFactor
<1> QED BY <1>1, <1>2, <1>8, <1>9, <1>11, <1>12, <1>14, <1>15 DEF MoneyOK, Rounding, FillCount

\* All balances together never exceed what was paid in but for the rounding and the credits
\* of bids at a negative price, unless one of the four ways to go beyond a lock was taken or
\* an order of a negative quantity was placed (settlement.rs, ledger.rs, order.rs).  No price
\* or quantity is assumed to be positive: neither gateway nor accounts looks.
THEOREM FlowCreatesNoMoney == FlowSpec => []NoMoneyCreated
<1>1. FlowSpec => []MInv
  BY InitMInv, NextMInv, PTL DEF FlowSpec
<1> QED BY <1>1, MoneyBounds, PTL

\* What an order has filled, the fills still to be settled for it and what the engine has left
\* of it fit into its quantity, as long as no lock was exceeded and no order of a negative
\* quantity is in the table: neither retries nor requests left behind fill an order twice
\* (add_fill, order.rs; settle_fill, settlement.rs).
THEOREM FlowNeverOverfills == FlowSpec => [](raised = {} /\ ~NegativeQuantity => Covered)
<1>1. FlowSpec => []MInv
  BY InitMInv, NextMInv, PTL DEF FlowSpec
<1>2. MInv => (raised = {} /\ ~NegativeQuantity => Covered)
  BY DEF MInv
<1> QED BY <1>1, <1>2, PTL
=============================================================================
