------------------------------ MODULE OrderFlow ------------------------------
(***************************************************************************)
(* An order's way through the exchange: the gateway places it in accounts  *)
(* and passes it on in a datagram (gateway/src/websocket.rs), the engine   *)
(* service matches one command at a time and settles every fill in         *)
(* accounts over HTTP with a timeout and retries before it tells anybody   *)
(* (matching_engine_service/src/{main,settlement}.rs), and a cancellation  *)
(* goes to accounts first and to the engine second.  Datagrams are lost,   *)
(* but never overtake each other, since the receiver drops what comes late *)
(* (UdpStream); a request whose caller timed out may go on running.        *)
(*                                                                         *)
(* The book is the resting orders only: what OrderBook does inside one     *)
(* call is the choice of the best-priced maker here.  The engine settles   *)
(* a fill as it is made; nobody sees the book in between.                  *)
(***************************************************************************)
EXTENDS Accounts

CONSTANTS
  Offers,       \* the orders users may submit
  MaxAttempts,  \* MAX_RETRIES of the settlement client
  MaxCancels,   \* bound: cancellations by users in one behaviour
  None          \* no order being matched, no call in flight

ASSUME OffersAssumption == Offers \subseteq NewOrder
ASSUME AttemptsAssumption == MaxAttempts \in Nat \ {0} /\ MaxCancels \in Nat

\* The HTTP calls of the settlement client: a fill's settlement, or a cancellation.
Calls == [op : {"settle", "cancel"}, fill : Fill \cup {<< >>}, slot : Slots \cup {NoSlot},
          attempts : Nat]

\* The orders process_order_command works on.
Taken ==
  {o \in [id : OrderIds, side : {"bid", "ask"}, kind : {"limit", "market"},
          price : Prices \cup {NoPrice}, quantity : Int, left : Int, settled : Int,
          closed : BOOLEAN] :
     o.kind = "limit" => o.price \in Prices}

ASSUME NoneAssumption == None \notin Calls /\ None \notin Taken

VARIABLES
  inbox,        \* commands on their way to the engine, which loses those it skips
  book,         \* resting orders: id -> [side, price, left]
  taker,        \* the order process_order_command works on, or None
  call,         \* the HTTP call the engine waits for, or None
  gone,         \* completed_orders of the current command
  told,         \* orders named in an OrderFilled event
  cancels,      \* cancellations by users so far
  raised        \* ghost: the ways a settlement or cancellation went beyond a lock

fvars == <<vars, inbox, book, taker, call, gone, told, cancels, raised>>

engine == <<book, taker, call, gone, told>>

FlowInit ==
  /\ Init
  /\ inbox = << >>
  /\ book = << >>
  /\ taker = None
  /\ call = None
  /\ gone = {}
  /\ told = {}
  /\ cancels = 0
  /\ raised = {}

-----------------------------------------------------------------------------
Idle == {t \in Slots : tx[t].op = "idle"}

\* Which connection serves a request makes no difference.
Fresh(t) == t \in Idle /\ \A s \in Idle : t <= s

\* The loop of a client's connection serves one message at a time; one client per user.
Waits(u) ==
  \E s \in Slots :
     \/ tx[s].op = "place" /\ tx[s].order.user = u
     \/ tx[s].op = "cancel" /\ orders[tx[s].id].user = u

\* Bound: every offer is accepted once.
Placed(o) ==
  \E id \in DOMAIN orders : [orders[id] EXCEPT !.filled = 0, !.status = "pending"] = o

\* private/place_order: accounts first.
Place(t) ==
  /\ Fresh(t)
  /\ \E o \in Offers : ~Waits(o.user) /\ ~Placed(o) /\ RequestPlace(t, o)
  /\ UNCHANGED <<inbox, engine, cancels, raised>>

\* private/cancel_order, or the HTTP route, by the owner of the order.
Cancel(t) ==
  /\ Fresh(t)
  /\ cancels < MaxCancels
  /\ cancels' = cancels + 1
  /\ \E id \in DOMAIN orders : ~Waits(orders[id].user) /\ RequestCancel(t, id)
  /\ UNCHANGED <<inbox, engine, raised>>

\* The gateway has an answer; after a success the command goes to the engine.  (The HTTP
\* route for cancellations sends none: as if the datagram were lost.)
GatewayReply(t) ==
  /\ tx[t].op \in {"place", "cancel"}
  /\ Collect(t)
  /\ inbox' = IF tx[t].ok THEN Append(inbox, [op |-> tx[t].op, id |-> tx[t].id]) ELSE inbox
  /\ UNCHANGED <<engine, cancels, raised>>

-----------------------------------------------------------------------------
Ready == taker = None /\ call = None

\* process_order_command takes the next command.
TakeOrder ==
  /\ Ready
  /\ \E i \in DOMAIN inbox :
       /\ inbox[i].op = "place"
       /\ LET id == inbox[i].id
              o  == orders[id]
          IN taker' = [id |-> id, side |-> o.side, kind |-> o.kind, price |-> o.price,
                       quantity |-> o.quantity, left |-> o.quantity, settled |-> 0, closed |-> FALSE]
       /\ inbox' = SubSeq(inbox, i + 1, Len(inbox))
  /\ gone' = {}
  /\ UNCHANGED <<vars, book, call, told, cancels, raised>>

TakeCancel ==
  /\ Ready
  /\ \E i \in DOMAIN inbox :
       /\ inbox[i].op = "cancel"
       /\ book' = [id \in DOMAIN book \ {inbox[i].id} |-> book[id]]
       /\ inbox' = SubSeq(inbox, i + 1, Len(inbox))
  /\ UNCHANGED <<vars, taker, call, gone, told, cancels, raised>>

Acceptable(id) ==
  /\ book[id].side # taker.side
  /\ taker.kind = "limit" => IF taker.side = "bid" THEN book[id].price <= taker.price
                                                   ELSE book[id].price >= taker.price

Best(id) ==
  /\ Acceptable(id)
  /\ \A other \in DOMAIN book : Acceptable(other) =>
       IF taker.side = "bid" THEN book[id].price <= book[other].price
                             ELSE book[id].price >= book[other].price

\* One fill of the match, and the first attempt to settle it.
Match(t) ==
  /\ taker # None /\ call = None
  /\ taker.left # 0
  /\ Fresh(t)
  /\ \E id \in DOMAIN book :
       LET maker == book[id]
           q     == IF taker.left <= maker.left THEN taker.left ELSE maker.left
           f     == [buy  |-> IF taker.side = "bid" THEN taker.id ELSE id,
                     sell |-> IF taker.side = "bid" THEN id ELSE taker.id,
                     price |-> maker.price, quantity |-> q]
       IN /\ Best(id)
          /\ taker' = [taker EXCEPT !.left = @ - q]
          /\ IF maker.left = q
               THEN /\ book' = [x \in DOMAIN book \ {id} |-> book[x]]
                    /\ gone' = gone \cup {id}
               ELSE /\ book' = [book EXCEPT ![id].left = @ - q]
                    /\ gone' = gone
          /\ call' = [op |-> "settle", fill |-> f, slot |-> t, attempts |-> 1]
          /\ RequestSettle(t, f)
  /\ UNCHANGED <<inbox, told, cancels, raised>>

\* settle_fill or cancel_order returns: only settled fills count as filled.
EngineReply ==
  /\ call # None
  /\ call.slot # NoSlot
  /\ Collect(call.slot)
  /\ call' = None
  /\ taker' = IF call.op = "settle" /\ tx[call.slot].ok
                THEN [taker EXCEPT !.settled = @ + call.fill.quantity] ELSE taker
  /\ UNCHANGED <<inbox, book, gone, told, cancels, raised>>

\* Seeded mistake: the attempts are not counted.
SameAttempt(n) == n

NextAttempt(n) == n + 1

MayRetry == call.op = "settle" /\ call.attempts < MaxAttempts

\* No answer in time, or a broken connection: a settlement is sent again, with the same
\* fill and timestamp, until the attempts are used up.  The request left behind has no
\* caller any more.
EngineTimeout ==
  /\ call # None
  /\ call.slot # NoSlot
  /\ call' = IF MayRetry THEN [call EXCEPT !.slot = NoSlot] ELSE None
  /\ UNCHANGED <<vars, inbox, book, taker, gone, told, cancels, raised>>

Retry(t) ==
  /\ call # None
  /\ call.slot = NoSlot
  /\ Fresh(t)
  /\ RequestSettle(t, call.fill)
  /\ call' = [call EXCEPT !.slot = t, !.attempts = NextAttempt(@)]
  /\ UNCHANGED <<inbox, book, taker, gone, told, cancels, raised>>

MatchOver == taker.left = 0 \/ \A id \in DOMAIN book : ~Acceptable(id)

Unfilled ==
  taker.kind = "market" /\ taker.settled < taker.quantity /\ ~taker.closed

\* The rest of a market order is cancelled in accounts, with what was settled of it.
CancelRest(t) ==
  /\ taker # None /\ call = None /\ MatchOver
  /\ Unfilled
  /\ Fresh(t)
  /\ RequestCancelInternal(t, taker.id, taker.settled)
  /\ call' = [op |-> "cancel", fill |-> << >>, slot |-> t, attempts |-> 1]
  /\ taker' = [taker EXCEPT !.closed = TRUE]
  /\ UNCHANGED <<inbox, book, gone, told, cancels, raised>>

\* The command is done: the rest of a limit order rests, and OrderFilled goes out for
\* every order the match exhausted.
Finish ==
  /\ taker # None /\ call = None /\ MatchOver
  /\ ~Unfilled
  /\ book' = IF taker.kind = "limit" /\ taker.left # 0
               THEN Put(book, taker.id,
                        [side |-> taker.side, price |-> taker.price, left |-> taker.left])
               ELSE book
  /\ told' = told \cup gone \cup (IF taker.left = 0 THEN {taker.id} ELSE {})
  /\ taker' = None
  /\ gone' = {}
  /\ UNCHANGED <<vars, inbox, call, cancels, raised>>

-----------------------------------------------------------------------------
\* How this step, if it commits, moves money beyond what the order locked.
Excess(t) ==
  LET x == tx[t]
      settles == x.op = "settle" /\ x.at = "commit"
  IN {w \in {"late", "twice", "slippage", "misreported"} :
        CASE w = "late" ->
               settles /\ \E id \in DOMAIN x.rows : x.rows[id].status = "cancelled"
          [] w = "twice" -> settles /\ x.fill \in trades
          [] w = "slippage" ->
               settles /\ x.fill.buy \in DOMAIN x.rows
                       /\ x.rows[x.fill.buy].price < x.fill.price
          [] w = "misreported" ->
               x.op = "cancel_internal" /\ x.at = "apply"
                                        /\ x.filled # orders[x.id].filled}

Attached(t) == call # None /\ call.slot = t

AccountsStep(t) ==
  /\ Statement(t)
  /\ raised' = raised \cup Excess(t)
  /\ UNCHANGED <<inbox, engine, cancels>>

\* A request of the engine without a caller is dropped, or runs on and answers nobody.
Orphan(t) ==
  /\ tx[t].op \in {"settle", "cancel_internal"} /\ ~Attached(t)
  /\ Drop(t) \/ Collect(t)
  /\ UNCHANGED <<inbox, engine, cancels, raised>>

EngineStep ==
  \/ EngineReply \/ Finish
  \/ \E t \in Slots : Match(t) \/ Retry(t) \/ CancelRest(t)

FlowNext ==
  \/ \E t \in Slots :
       \/ Place(t) \/ Cancel(t) \/ GatewayReply(t) \/ AccountsStep(t) \/ Orphan(t)
  \/ TakeOrder \/ TakeCancel \/ EngineStep \/ EngineTimeout

FlowSpec == FlowInit /\ [][FlowNext]_fvars

\* What runs by itself once it can: statements, answers, and the engine's task.
Progress ==
  \/ EngineStep
  \/ \E t \in Slots : AccountsStep(t) \/ GatewayReply(t) \/ Orphan(t)

\* Nothing is assumed of users, of datagrams, or of timeouts.
FlowFairSpec == FlowSpec /\ WF_fvars(Progress)

-----------------------------------------------------------------------------
SumOf(a) == SumOver([u \in Users |-> balances[<<u, a>>]], Users)

\* What users have beyond what was paid in.
SurplusOf(a) == SumOf(a) - Deposit * Cardinality(Users)

\* Twice the most that rounding can amount to: half a cent per fill, lock and unlock.
Rounding == SumOver(applied, DOMAIN applied) + 2 * Cardinality(DOMAIN orders)

\* What the lock entry of an order credits its user with, instead of taking it: price *
\* quantity of a bid whose price is negative.  No cancellation takes it back.
Credit(o) == IF LockAmount(o) < 0 THEN -LockAmount(o) ELSE 0

Credited == SumOver([id \in DOMAIN orders |-> Credit(orders[id])], DOMAIN orders)

NegativeQuantity == \E id \in DOMAIN orders : orders[id].quantity < 0

\* Whatever the interleaving of placements, cancellations, settlements, retries and aborted
\* transactions, the balances of all users together never exceed what was paid in - but for
\* half a cent of rounding per fill, lock and unlock, and for the credits that bids of a
\* negative price get in place of a lock - unless one of five things happened: a fill was
\* settled after its order had been cancelled, a fill was settled twice, a market order was
\* matched above the price its lock was computed with, the engine cancelled the rest of an
\* order with another filled quantity than accounts had, or an order of a negative quantity
\* was placed, which nothing between the client and the orders table refuses.
NoMoneyCreated ==
  raised = {} /\ ~NegativeQuantity =>
     /\ SurplusOf("base") <= 0
     /\ 2 * SurplusOf("quote") <= Rounding + 2 * Credited

\* The engine takes the next command eventually: neither retries nor accounts' locks can
\* hold up its only task for ever.
EngineReturns == taker # None ~> taker = None

-----------------------------------------------------------------------------
\* What the code says of itself and does not keep.

\* "The actual guarantee comes from the unique constraint inside the transaction"
\* (accounts/src/models/trade.rs:97): a fill moves money once, however often it is sent.
SettledOnce == \A f \in DOMAIN applied : applied[f] <= 1

\* "Acquire locks in deterministic order to prevent deadlocks"
\* (accounts/src/models/trade.rs:132): no transactions ever wait for each other in a circle.
DeadlockFree == \A t \in Slots : ~Deadlocked(t)
=============================================================================
