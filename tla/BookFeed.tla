------------------------------- MODULE BookFeed -------------------------------
(***************************************************************************)
(* The market data feed: the engine's publisher sends the best levels of   *)
(* its book, in full or as changes against what it sent before             *)
(* (OrderBookPublisher), its command loop sends the settled trades, the    *)
(* gateway's broadcaster keeps a replica of both (OrderBookState) and      *)
(* passes every change on to the clients of a channel, and each client     *)
(* (marketDataWorker.ts, a ticker display) keeps a view of its own.        *)
(*                                                                         *)
(* The UDP stream in between is what UdpStream shows it to be: in order,   *)
(* each message at most once, some never.  A client's queue and socket are *)
(* in order and lose nothing before they end the connection, so a view is  *)
(* what the client shows once it has read what was sent to it.             *)
(***************************************************************************)
EXTENDS Integers, Sequences, FiniteSets, FiniteSetsExt, SequencesExt, Sums

CONSTANTS
  Prices,           \* the prices of the symbol
  MaxQuantity,      \* bound: the quantity of a level
  MaxLevels,        \* MAX_LEVELS, 10 in the code
  SnapshotInterval, \* SNAPSHOT_INTERVAL, 10 in the code
  Day,              \* TWENTY_FOUR_HOURS_MS
  TradesKept,       \* last_trades of the gateway, 100 in the code
  TradesShown,      \* TRADES_LIMIT of the browser, 50 in the code
  QueueCapacity,    \* of the engine's event queue; here of all that is under way
  BusCapacity,      \* of the gateway's broadcast channel, 10000 in the code
  BookClients,      \* clients that subscribe to book.*
  TickerClients,    \* clients that subscribe to ticker.* or lwt.*
  MaxChanges,       \* bound: changes of the book
  MaxTrades,        \* bound: fills
  MaxFaults,        \* bound: losses, restarts and falling behind
  MaxTime,          \* bound: the clock
  MaxSubscriptions  \* bound: of all clients together

ASSUME FeedAssumption ==
  /\ Prices \subseteq Int
  /\ {MaxLevels, SnapshotInterval, QueueCapacity, BusCapacity} \subseteq Nat \ {0}
  /\ {TradesKept, TradesShown} \subseteq Nat \ {0}
  /\ {MaxQuantity, Day, MaxChanges, MaxTrades, MaxFaults, MaxTime, MaxSubscriptions} \subseteq Nat
  /\ BookClients \cap TickerClients = {} /\ IsFiniteSet(BookClients \cup TickerClients)

Clients == BookClients \cup TickerClients

Level == {"Bid", "Ask"} \X Prices

\* Quantity zero stands for a level the book does not have.
Book == [Level -> 0 .. MaxQuantity]

EmptyBook == [l \in Level |-> 0]

Present(b) == {l \in Level : b[l] > 0}

Trade == [num : 1 .. MaxTrades, time : 0 .. MaxTime]

VARIABLES
  clock,         \* the time of the last settlement
  book,          \* the engine's OrderBook, by level
  changes,       \* bound: changes of the book so far
  fills,         \* fills of the command in progress that are not settled yet
  outbox,        \* its settled fills that are not sent yet
  trades,        \* fills so far
  ready,         \* the engine has resolved the gateway's address (ensure_sender)
  prev, since,   \* of the publisher: prev_bids with prev_asks, and updates_since_snapshot
  wire,          \* events under way: from the engine's queue to the gateway's broadcast channel
  faults,        \* bound: losses, restarts and falling behind, so far
  ended,         \* the broadcaster's loop has ended
  replica,       \* OrderBookState of the symbol
  subscribed, reading, \* clients that are subscribed; that are between snapshot and subscription
  view,          \* client -> what it shows
  subscriptions, \* client -> how often it subscribed
  missed,        \* ghost: clients that missed a notification while subscribing
  hole,          \* ghost: a book event was lost behind the last event under way
  applied        \* ghost: the book of the last event in the replica, or << >> after a loss

engine == <<clock, book, changes, fills, outbox, trades, ready, prev, since>>

gateway == <<ended, replica, applied>>

clients == <<subscribed, reading, view, subscriptions, missed>>

link == <<wire, hole, faults>>

vars == <<engine, link, gateway, clients>>

NewReplica == [known |-> FALSE, book |-> EmptyBook, trades |-> << >>, stats |-> << >>, last |-> 0]

NewView == [book |-> EmptyBook, trades |-> << >>, ticker |-> << <<0, 0, 0>>, << >> >>]

Init ==
  /\ clock = 0
  /\ book = EmptyBook /\ changes = 0
  /\ fills = 0 /\ outbox = << >> /\ trades = 0
  /\ ready \in BOOLEAN
  /\ prev = EmptyBook /\ since = SnapshotInterval
  /\ wire = << >> /\ hole = FALSE /\ faults = 0
  /\ ended = FALSE
  /\ replica = NewReplica /\ applied = << >>
  /\ subscribed = {} /\ reading = {} /\ missed = {}
  /\ view = [c \in Clients |-> NewView]
  /\ subscriptions = [c \in Clients |-> 0]

-----------------------------------------------------------------------------
(* The engine's book, and its command loop. *)

Better(l, m) == l[1] = m[1] /\ IF l[1] = "Bid" THEN l[2] > m[2] ELSE l[2] < m[2]

Uncrossed(b) ==
  \A l, m \in Present(b) : l[1] = "Bid" /\ m[1] = "Ask" => l[2] < m[2]

\* get_bids and get_asks: the best MaxLevels of each side.
Top(b) ==
  [l \in Level |->
     IF Cardinality({m \in Present(b) : Better(m, l)}) < MaxLevels THEN b[l] ELSE 0]

\* An order is added to a level, or cancelled from it.
Change ==
  /\ changes < MaxChanges /\ fills = 0 /\ outbox = << >>
  /\ changes' = changes + 1
  /\ \E l \in Level, q \in 0 .. MaxQuantity :
       /\ book' = [book EXCEPT ![l] = q]
       /\ book' # book /\ Uncrossed(book')
  /\ UNCHANGED <<clock, fills, outbox, trades, ready, prev, since, link,
                 gateway, clients>>

\* An order is matched against the best level: the book shows it before it is settled.
\* The unit of quantity is coarse enough for one to hold several orders.
Match ==
  /\ changes < MaxChanges /\ fills = 0 /\ outbox = << >>
  /\ changes' = changes + 1
  /\ \E l \in Present(book) :
       /\ ~ \E m \in Present(book) : Better(m, l)
       /\ \E n \in 1 .. book[l] :
            /\ book' = [book EXCEPT ![l] = @ - n]
            /\ fills' \in 1 .. MaxTrades - trades
  /\ UNCHANGED <<clock, outbox, trades, ready, prev, since, link, gateway, clients>>

\* settle_fill of the next fill; only one that succeeds, or is skipped, becomes an event.
Settle ==
  /\ fills > 0
  /\ fills' = fills - 1
  /\ trades' = trades + 1
  /\ clock' \in clock .. MaxTime
  /\ \E ok \in BOOLEAN :
       outbox' = IF ok THEN Append(outbox, [num |-> trades + 1, time |-> clock']) ELSE outbox
  /\ UNCHANGED <<book, changes, ready, prev, since, link, gateway, clients>>

CanSend == ready /\ Len(wire) < QueueCapacity

\* send_event of the settled fills; the first that fails leaves the function.
SendFill ==
  /\ fills = 0 /\ outbox # << >>
  /\ IF CanSend
       THEN /\ wire' = Append(wire, [kind |-> "fill", trade |-> Head(outbox), hole |-> hole])
            /\ hole' = FALSE
            /\ outbox' = Tail(outbox)
       ELSE /\ outbox' = << >>
            /\ UNCHANGED <<wire, hole>>
  /\ UNCHANGED <<clock, book, changes, fills, trades, ready, prev, since, faults,
                 gateway, clients>>

\* The gateway's name can be resolved, and the next send creates the sender.
Resolve ==
  /\ ~ready
  /\ ready' = TRUE
  /\ UNCHANGED <<clock, book, changes, fills, outbox, trades, prev, since, link,
                 gateway, clients>>

-----------------------------------------------------------------------------
(* OrderBookPublisher. *)

\* compute_deltas: a level that is new or has changed, with its quantity, or zero to remove it.
Deltas(old, new) == [l \in {m \in Level : old[m] # new[m]} |-> new[l]]

\* The levels a delta names, over those the book has.
Over(delta, b) == [l \in Level |-> IF l \in DOMAIN delta THEN delta[l] ELSE b[l]]

\* Seeded mistake: the snapshot comes one round late.
SnapshotDueLate == since > SnapshotInterval

\* should_send_snapshot.
SnapshotDue == since >= SnapshotInterval

SendBook(kind, delta) ==
  /\ CanSend
  /\ wire' = Append(wire, [kind |-> kind, delta |-> delta, top |-> Top(book), hole |-> hole])
  /\ hole' = FALSE

\* Seeded mistake: a round whose event cannot be sent counts as published all the same.
TickAnyway ==
  /\ prev' = Top(book)
  /\ since' = IF SnapshotDue THEN 1 ELSE since + 1
  /\ IF SnapshotDue \/ Deltas(prev, Top(book)) # << >>
       THEN IF CanSend
              THEN SendBook(IF SnapshotDue THEN "snapshot" ELSE "delta",
                            IF SnapshotDue THEN Top(book) ELSE Deltas(prev, Top(book)))
              ELSE UNCHANGED <<hole, wire>>
       ELSE UNCHANGED <<hole, wire>>
  /\ UNCHANGED <<clock, book, changes, fills, outbox, trades, ready, faults, gateway, clients>>

\* One round of the publisher, every 100 ms; when the event cannot be sent, nothing changes.
Tick ==
  /\ IF SnapshotDue
       THEN /\ SendBook("snapshot", Top(book))
            /\ since' = 1
       ELSE /\ IF Deltas(prev, Top(book)) # << >>
                 THEN SendBook("delta", Deltas(prev, Top(book)))
                 ELSE UNCHANGED <<hole, wire>>
            /\ since' = since + 1
  /\ prev' = Top(book)
  /\ UNCHANGED <<clock, book, changes, fills, outbox, trades, ready, faults, gateway, clients>>

-----------------------------------------------------------------------------
(* The way to the gateway, and its broadcaster. *)

\* A datagram is lost, or the gateway cannot decode the event in it.
Lose ==
  /\ faults < MaxFaults
  /\ faults' = faults + 1
  /\ \E i \in DOMAIN wire :
       LET counts == wire[i].hole \/ wire[i].kind # "fill"
           rest == RemoveAt(wire, i)
       IN  IF i \in DOMAIN rest
             THEN /\ wire' = [rest EXCEPT ![i].hole = @ \/ counts]
                  /\ UNCHANGED hole
             ELSE /\ wire' = rest
                  /\ hole' = (hole \/ counts)
  /\ UNCHANGED <<engine, gateway, clients>>

\* while let Ok(event) = recv(): the broadcast channel overwrites its oldest event for a reader
\* that is BusCapacity behind, and the error ends the broadcaster's loop for good.
FallBehind ==
  /\ Len(wire) >= BusCapacity /\ ~ended
  /\ faults < MaxFaults
  /\ faults' = faults + 1
  /\ ended' = TRUE
  /\ UNCHANGED <<engine, wire, hole, replica, applied, clients>>

\* Without a broadcaster, an event goes nowhere.
Ignore ==
  /\ wire # << >> /\ ended
  /\ wire' = Tail(wire)
  /\ UNCHANGED <<engine, hole, faults, gateway, clients>>

\* Seeded mistake: the day is counted back from the trade before.
ExpiredByPrevious(stats, now) ==
  LET recent == {i \in DOMAIN stats : stats[i].time >= stats[Max({1, Len(stats) - 1})].time - Day}
  IN  SubSeq(stats, Min(recent \cup {Len(stats) + 1}), Len(stats))

\* expire_old_trades: from the oldest on, while they are older than a day.
Expired(stats, now) ==
  LET recent == {i \in DOMAIN stats : stats[i].time >= now - Day}
  IN  SubSeq(stats, Min(recent \cup {Len(stats) + 1}), Len(stats))

\* The last n trades.
Latest(ts, n) == SubSeq(ts, Max({1, Len(ts) - n + 1}), Len(ts))

Kept(ts) == Latest(ts, TradesKept)

\* Seeded mistake: a snapshot is added to the levels the replica has.
AppliedInto(r, e) ==
  IF e.kind = "snapshot"
    THEN [r EXCEPT !.known = TRUE, !.book = [l \in Level |-> IF e.delta[l] > 0 THEN e.delta[l] ELSE @[l]]]
  ELSE IF e.kind = "delta" THEN [r EXCEPT !.known = TRUE, !.book = Over(e.delta, @)]
  ELSE [r EXCEPT !.known = TRUE,
                 !.trades = Kept(Append(@, e.trade)),
                 !.stats = Expired(Append(@, e.trade), e.trade.time),
                 !.last = e.trade.num]

\* apply_orderbook_update.
Applied(r, e) ==
  IF e.kind = "snapshot" THEN [r EXCEPT !.known = TRUE, !.book = e.delta]
  ELSE IF e.kind = "delta" THEN [r EXCEPT !.known = TRUE, !.book = Over(e.delta, @)]
  ELSE [r EXCEPT !.known = TRUE,
                 !.trades = Kept(Append(@, e.trade)),
                 !.stats = Expired(Append(@, e.trade), e.trade.time),
                 !.last = e.trade.num]

\* Seeded mistake: a snapshot is taken over in silence, even one that brings news.
PassedOnChangesOnly(r, e) == e.kind # "snapshot"

\* A snapshot that says what the replica has is not passed on; the rest is.
PassedOn(r, e) == e.kind # "snapshot" \/ e.delta # r.book

\* get_lwt_notification and get_ticker_notification: the best levels and the last price; the
\* ticker has the day besides.  A client of either channel is shown what the ticker shows.
BestBid(b) == Max({0} \cup {l[2] : l \in {m \in Present(b) : m[1] = "Bid"}})

BestAsk(b) == LET asks == {l[2] : l \in {m \in Present(b) : m[1] = "Ask"}}
              IN  IF asks = {} THEN 0 ELSE Min(asks)

LwtOf(r) == <<BestBid(r.book), BestAsk(r.book), r.last>>

\* get_stats_24h: nothing, or the first price of the day and the trades of it.
StatsOf(r) == IF r.stats = << >> THEN << >> ELSE <<Head(r.stats).num, Range(r.stats)>>

TickerOf(r) == <<LwtOf(r), StatsOf(r)>>

\* processChannelNotification: a snapshot clears the book, never the trades, of which the
\* last ones are kept.
Shown(c, e, r) ==
  IF c \in TickerClients THEN [view[c] EXCEPT !.ticker = TickerOf(r)]
  ELSE IF e.kind = "fill"
    THEN [view[c] EXCEPT !.trades = Latest(Append(@, e.trade.num), TradesShown)]
  ELSE [view[c] EXCEPT !.book = Over(e.delta, IF e.kind = "snapshot" THEN EmptyBook ELSE @)]

\* start_event_broadcaster: the replica takes the event, and the subscribers are told of it,
\* under the lock of the replicas.
Broadcast ==
  /\ wire # << >> /\ ~ended
  /\ wire' = Tail(wire)
  /\ LET e == Head(wire)
         r == Applied(replica, e)
     IN  /\ replica' = r
         /\ IF PassedOn(replica, e)
              THEN /\ view' = [c \in Clients |-> IF c \in subscribed THEN Shown(c, e, r) ELSE view[c]]
                   /\ missed' = missed \cup (reading \ subscribed)
              ELSE UNCHANGED <<view, missed>>
         /\ applied' = IF e.kind = "snapshot" THEN e.top
                        ELSE IF e.hole \/ applied = << >> THEN << >>
                        ELSE IF e.kind = "delta" THEN e.top ELSE applied
  /\ UNCHANGED <<engine, hole, faults, ended, subscribed, reading, subscriptions>>

-----------------------------------------------------------------------------
(* Subscriptions: the handler of public/subscribe reads and then registers, under two locks. *)

\* get_orderbook_snapshot: the client clears its book for it, and adds its trades to those it
\* shows, up to its limit.
WithSnapshot(v, r) ==
  [v EXCEPT !.book = r.book,
            !.trades = Latest(@ \o [i \in DOMAIN r.trades |-> r.trades[i].num], TradesShown)]

\* bound
MaySubscribe == SumOver(subscriptions, Clients) < MaxSubscriptions

\* The snapshot of the channel, when the symbol is known; the trades in it join those shown.
SubscribeRead(c) ==
  /\ c \notin reading
  /\ MaySubscribe
  /\ subscriptions' = [subscriptions EXCEPT ![c] = @ + 1]
  /\ reading' = reading \cup {c}
  /\ missed' = missed \ {c}
  /\ view' = IF ~replica.known THEN view
             ELSE IF c \in TickerClients
               THEN [view EXCEPT ![c].ticker = TickerOf(replica)]
               ELSE [view EXCEPT ![c] = WithSnapshot(@, replica)]
  /\ UNCHANGED <<engine, link, gateway, subscribed>>

\* Seeded mistake: the client is registered before its snapshot is sent to it.
RegisterFirst(c) ==
  /\ c \in reading \/ MaySubscribe
  /\ subscribed' = subscribed \cup {c}
  /\ UNCHANGED <<engine, link, gateway, reading, view, subscriptions, missed>>

SubscribeRegister(c) ==
  /\ c \in reading
  /\ reading' = reading \ {c}
  /\ subscribed' = subscribed \cup {c}
  /\ UNCHANGED <<engine, link, gateway, view, subscriptions, missed>>

Unsubscribe(c) ==
  /\ c \in subscribed /\ c \notin reading
  /\ subscribed' = subscribed \ {c}
  /\ UNCHANGED <<engine, link, gateway, reading, view, subscriptions, missed>>

-----------------------------------------------------------------------------
(* Restarts.  Neither service keeps anything of the feed; a client connects again, with a   *)
(* new view.                                                                                *)

EngineRestarts ==
  /\ faults < MaxFaults
  /\ faults' = faults + 1
  /\ book' = EmptyBook
  /\ fills' = 0 /\ outbox' = << >>
  /\ ready' \in BOOLEAN
  /\ prev' = EmptyBook /\ since' = SnapshotInterval
  /\ \E n \in 0 .. Len(wire) : wire' = SubSeq(wire, 1, n)
  /\ hole' = FALSE
  /\ UNCHANGED <<clock, changes, trades, gateway, clients>>

GatewayRestarts ==
  /\ faults < MaxFaults
  /\ faults' = faults + 1
  /\ \E n \in 0 .. Len(wire) : wire' = SubSeq(wire, n + 1, Len(wire))
  /\ UNCHANGED hole
  /\ ended' = FALSE
  /\ replica' = NewReplica /\ applied' = << >>
  /\ subscribed' = {} /\ reading' = {} /\ missed' = {}
  /\ view' = [c \in Clients |-> NewView]
  /\ UNCHANGED <<engine, subscriptions>>

-----------------------------------------------------------------------------
Next ==
  \/ Change \/ Match \/ Settle \/ SendFill \/ Resolve
  \/ Tick
  \/ Lose \/ FallBehind \/ Ignore \/ Broadcast
  \/ \E c \in Clients : SubscribeRead(c) \/ SubscribeRegister(c) \/ Unsubscribe(c)
  \/ EngineRestarts \/ GatewayRestarts

Spec == Init /\ [][Next]_vars

\* The publisher's interval, the threads and tasks that forward events, the command loop and
\* a subscription's second step run on; the gateway's name is resolved in the end.
FairSpec ==
  /\ Spec
  /\ WF_vars(Tick) /\ WF_vars(Resolve)
  /\ WF_vars(Settle \/ SendFill)
  /\ WF_vars(Ignore \/ Broadcast)
  /\ \A c \in Clients : WF_vars(SubscribeRegister(c))

-----------------------------------------------------------------------------
BookEvent ==
  [kind : {"snapshot", "delta"}, hole : BOOLEAN, delta : UNION {[ls -> 0 .. MaxQuantity] : ls \in SUBSET Level},
   top : Book]

FillEvent == [kind : {"fill"}, trade : Trade, hole : BOOLEAN]

\* The types of the variables.
TypeOK ==
  /\ clock \in 0 .. MaxTime
  /\ book \in Book /\ changes \in 0 .. MaxChanges
  /\ fills \in 0 .. MaxTrades /\ outbox \in Seq(Trade) /\ trades \in 0 .. MaxTrades
  /\ ready \in BOOLEAN
  /\ prev \in Book /\ since \in 1 .. SnapshotInterval
  /\ wire \in Seq(BookEvent \cup FillEvent)
  /\ faults \in 0 .. MaxFaults
  /\ ended \in BOOLEAN
  /\ replica.known \in BOOLEAN /\ replica.book \in Book /\ replica.last \in 0 .. MaxTrades
  /\ replica.trades \in Seq(Trade) /\ Len(replica.trades) <= TradesKept
  /\ replica.stats \in Seq(Trade)
  /\ subscribed \subseteq Clients /\ reading \subseteq Clients /\ missed \subseteq Clients
  /\ \A c \in Clients : /\ view[c].book \in Book
                         /\ view[c].trades \in Seq(1 .. MaxTrades) /\ Len(view[c].trades) <= TradesShown
  /\ subscriptions \in [Clients -> 0 .. MaxSubscriptions]

\* compute_deltas against prev_bids and prev_asks: as long as no event was lost since the last
\* snapshot, the gateway's replica is the book the publisher took its last event from, whatever
\* was changed, matched or not sent meanwhile.
ReplicaFollows == applied # << >> => replica.book = applied

\* The latest trades ts of the gateway are the latest in shown, in the same order.
EndsWith(shown, ts) ==
  \A i \in 0 .. TradesShown - 1 : i < Len(ts) =>
    i < Len(shown) /\ shown[Len(shown) - i] = ts[Len(ts) - i].num

\* start_event_broadcaster and the subscription handler share two locks, not one: a client that
\* was sent its snapshot and missed nothing before it was registered shows what the gateway
\* has: its day, or its book and its latest trades, as many as the browser shows.
ViewsFollow ==
  \A c \in subscribed \ missed :
    IF c \in TickerClients
      THEN view[c].ticker = TickerOf(replica)
      ELSE /\ view[c].book = replica.book
           /\ EndsWith(view[c].trades, replica.trades)

\* A snapshot brings the last trades, and a view keeps those it shows: a client shows no trade
\* more often than it subscribed.
TradesShownOnce ==
  \A c \in BookClients, t \in 1 .. MaxTrades :
    Cardinality({i \in DOMAIN view[c].trades : view[c].trades[i] = t}) <= subscriptions[c]

\* The 24h statistics are those of the trades within a day of the last one, all of them.
StatsAreTheLastDay ==
  replica.trades # << >> =>
    LET recent == {t \in Range(replica.trades) : t.time >= Last(replica.trades).time - Day}
    IN  /\ recent \subseteq Range(replica.stats)
        /\ \A t \in Range(replica.stats) : t.time >= Last(replica.trades).time - Day

\* SNAPSHOT_INTERVAL: whatever was lost, the gateway's replica becomes the engine's book again,
\* unless the broadcaster's loop has ended.
FeedSettles == <>[](ended \/ replica.book = Top(book))

\* ARCHITECTURE_GUIDE.md:731 and :846: the recurring snapshots repair the browser as well.
BrowserSettles ==
  <>[](ended \/ \A c \in subscribed \cap BookClients : view[c].book = Top(book))
=============================================================================
