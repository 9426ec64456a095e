# mExchange in TLA+

TLA+ models of the exchange in this repository, TLC configurations that check
them on small instances, and TLAPS proofs about them for every instance. All
paths below are relative to `src/`. The models follow the code; where a comment
or a document says something else, a run shows the difference ("What the code
does not keep").

    tlc -config OrderBook.cfg MCOrderBook.tla        # a run; PROJECT.json lists them all
    tlapm OrderBookProofs.tla                        # the proofs, and those of
                                                     # AccountsProofs, OrderFlowProofs,
                                                     # UdpStreamProofs, BookFeedProofs,
                                                     # GatewaySessionProofs,
                                                     # BackOfficeProofs, SumsProofs

## 1. The system

```
 browser / bot --ws--> gateway --http--> accounts (PostgreSQL)
                          |  ^              ^
               udp orders |  | udp events   | http settle / cancel
                          v  |              |
                   matching engine service -+
                          |
                     order book (library)
```

An order is placed through the gateway, which asks accounts to lock the funds
and then sends the order to the engine in a datagram. The engine matches it
against the book, settles every fill in accounts over HTTP, and publishes
fills, filled orders and book updates as datagrams, which the gateway passes on
to its websocket clients. A cancellation is made in accounts first and sent to
the engine second.

| Component | State | Operations | What is hard, and what makes it correct |
|---|---|---|---|
| Order book, `matching_engine/src/lib.rs` | two price maps of FIFO levels with totals, index of orders | add limit/market, match, cancel, restore | two copies of every resting order, levels taken apart while they are scanned. Copies, totals and fills agree; strict price-time priority; never crossed |
| Engine service, `matching_engine_service/src/{main,settlement}.rs` | the book under a lock, one command at a time | place, cancel, settle with timeout and 3 attempts, cancel the rest of a market order, events | late answers of attempts given up on; accounts and engine disagree after a failure. Comes back for the next command; tells of nothing that is not settled |
| Accounts: orders, ledger, settlement, `accounts/src/models/{order,ledger,trade}.rs`, `routes/internal.rs` | tables of balances, ledger entries, orders, trades; advisory and row locks | place, cancel, cancel_internal, settle | concurrent READ COMMITTED transactions with two kinds of locks, roll-backs, retries. Balance = sum of entries, no overdraft, no money out of nothing, fills add up |
| Gateway orders, `gateway/src/websocket.rs` | none of its own | private/place_order, private/cancel_order | two services to tell, one after the other, the second by datagram |
| UDP transport, `udp_proto/src/{sender,receiver,protocol}.rs` | sender: queue, open batch, two counters; receiver: expected numbers, gaps, stream state, channel | try_send, batch, flush, heartbeat, shutdown; receive, clear_gaps | loss, delay, duplication, restart of one side. In order, at most once, loss is counted |
| Book feed, `matching_engine_service/src/main.rs` (OrderBookPublisher), `gateway/src/{channel_updates,server}.rs`, `frontend/src/workers/marketDataWorker.ts` | last published book; the gateway's replica with trades and statistics; each client's view | publish snapshot or delta, apply, pass on, snapshot to a new subscriber | lost events, events that cannot be sent, subscribing while an update passes. The replica follows the book and recovers from a loss; a client shows what the gateway has |
| Gateway sessions, `gateway/src/{websocket,state,server}.rs` | clients, their users, subscriptions, owners of orders, the bot | connect, authenticate, subscribe, order, cancel, disconnect | three tasks per connection that abort each other; users who sign in elsewhere. One connection per user, events to the owner, no channel, sender or sign-in left behind, no order forgotten |
| Accounts: public order routes, `accounts/src/routes/orders.rs` | the tables of accounts | place (also for an amount of money), cancel | three roundings. Locks add up |
| Accounts: balances, faucet, `routes/{balances,faucet}.rs` | the same tables, last claim | deposit, withdraw, claim | check-then-act in separate transactions. Ledger and balances agree; claims keep their distance |
| Accounts: sign-in, `routes/auth.rs`, `models/{otp,token,user}.rs` | one-time codes, users, refresh tokens | request, verify, sign up, refresh, log out | a token read and revoked in two statements. Good once |
| Candles, `market_data/src`, `accounts/src/models/ohlcv.rs` | candle per interval | upsert per trade, from two services | six upserts outside the transaction, two writers. Candles add up |
| Clean-up scheduler, `accounts/src/scheduler.rs` | the ledger's trigger | delete old rows | disables a trigger outside a transaction, and fails behind it |
| Trading bot, `trading_bot/src` | open orders, inventory | quote, track, cancel | bookkeeping driven by events |
| Frontend, `frontend/src` | replica of the book | apply snapshot and delta | as the book feed |
| Gateway HTTP proxy, UDP bridges, message encodings, mail, database pool, Python model, benches | - | - | forwarding, I/O, or not deployed |

`PROJECT.json` lists each component with its status, and under `hazards` each
place where the code is hard to test, with the properties that watch it.

## 2. Modules

| Module | Models |
|---|---|
| `PriorityBook` | abstract: strict price-time priority on a set of orders, no levels, no index |
| `OrderBook` | the book as it is coded, one step per iteration of the matching loop |
| `OrderBookPriority` | `OrderBook` with a history variable, and the mapping that makes it implement `PriorityBook` |
| `OrderBookProofs` | proofs about `OrderBook` |
| `MCOrderBook` | instance for TLC |
| `Accounts` | concurrent transactions over balances, ledger, orders and trades |
| `AccountsProofs` | proofs about `Accounts` |
| `OrderFlow` | extends `Accounts` with gateway, datagrams and engine service |
| `OrderFlowProofs` | proof that `OrderFlow` implements `Accounts`, and what holds of the whole way of an order |
| `MCOrderFlow` | instances for TLC |
| `LossyStream` | abstract: of each run of the sender, in order, at most once, some never |
| `UdpStream` | sender thread, network, receiver thread |
| `UdpStreamProofs` | proofs about `UdpStream`, and that it implements `LossyStream` |
| `BookFeed` | publisher, event queue, gateway's replica and broadcaster, clients' views |
| `BookFeedProofs` | proofs about `BookFeed` |
| `GatewaySession` | ChannelManager and the tasks of every websocket connection |
| `GatewaySessionProofs` | proofs about `GatewaySession` |
| `SignIn` | one-time codes, users, refresh tokens |
| `Wallet` | ledger and balances, deposits, withdrawals, mints, faucet, clean-up job |
| `PublicOrders` | extends `Wallet` with the public order routes |
| `Candles` | the table of candles and its two writers |
| `BackOffice` | extends `SignIn`, `PublicOrders` and `Candles` |
| `MCBackOffice` | instance for TLC |
| `BackOfficeProofs` | proofs about `BackOffice` |
| `Sums` | a function summed over a finite set, for the properties that add up |
| `SumsProofs` | what a sum is of a larger set, of a changed function, of two functions |

### OrderBook

`levels`, `orders` are the two BTreeMaps and the index; `taker`, `todo`, `cur`,
`emptied`, `fills`, `completed` are the local variables of `match_order`.
`AddLimitOrder`, `AddMarketOrder`, `CancelOrder`, `RestoreOrder` are the calls;
`EnterLevel`, `MatchFront`, `LeaveLevel`, `FinishMatch` the iterations of the
outer loop, of the inner loop, its end, and everything after the loops (removal
of emptied levels, the rest of a limit order into the book). The service holds
a write lock around a call, so no other call starts while `taker # NoOrder`.
Ids are given out in submission order and never again; decimals are exact
numbers. Prices are any integers. Quantities are zero or more, which is an
assumption of the model: the library would take one below zero (`is_filled` asks
for zero only), and no property of the book is stated for that; what such a
quantity does to the money is in `OrderFlow`. `restore_order` is allowed where the order does not cross the book:
it does not match, and nobody calls it but a unit test. The ghost `open` is what
an order came with less the fills that name it.

### Accounts and OrderFlow

A slot of `tx` is one HTTP request in accounts: the operation, the statement it
is at, the locks it has yet to ask for, and what its transaction has written.
Writes become visible at `Commit` only. Locks are held to the end of the
transaction: advisory locks per user and asset (`AdvisoryLock`, one step each,
in the code's order), row locks by `SELECT ... FOR UPDATE` and by `UPDATE`. A
statement that waits is a step that is not enabled. `place` and `cancel` finish
with the statement that needs no further lock; `settle` is cut into its check
(outside the transaction), the locks, the buyer's and the seller's statements,
and the commit. An entry that would overdraw ends the transaction, as
`append_in_tx` and the CHECK constraint do. `DeadlockAbort` is PostgreSQL's
deadlock detector; `Drop` is the handler future dropped when the caller is
gone.

`OrderFlow` is the callers. The gateway's `Place` and `Cancel` take a slot, and
`GatewayReply` sends the datagram after a success. `TakeOrder`/`TakeCancel` take
any later command from `inbox` and so lose those before it, but never reorder
them, since the receiver drops late packets (`UdpStream`). `Match` is one fill
with the first attempt to settle it, `EngineTimeout` and `Retry` the next
attempts, and the attempt given up on keeps its slot: it may be dropped, or run
on and commit (`Orphan`). `CancelRest` is cancel_internal for a market order,
with what the engine believes was settled, and `Finish` rests the rest and sends
OrderFilled. `raised` is a ghost: it names the ways in which a commit moved
money beyond a lock (a fill settled late, twice, above the slippage price, or a
cancellation told the wrong filled quantity).

Quantities and prices are any integers here, also below zero, because nothing on
the engine's route looks at their sign: neither `private/place_order`
(`gateway/src/websocket.rs:739`) nor `place_order_internal`
(`accounts/src/routes/internal.rs:304`), `Order::place` and
`calculate_lock_amount` (`accounts/src/models/order.rs:135-206`), or the tables.
The lock entry of a negative quantity or price credits the user. An order of
quantity zero is placed and matched like any other, and its cancellation, which
divides by the quantity, panics: `CancelLookup` ends the transaction.

Compared with the code: the maker is the choice of a best-priced order
(`OrderBook` has the rest); the engine settles a fill as it is made, and the
code settles all fills after the match, which nobody can tell apart because the
engine works on one command only; one websocket client per user, whose requests
come one after another; every offer is placed once; the HTTP route for
cancellations is a `Cancel` whose datagram is lost, because the route sends
none; failing event sends are left out; a quotient of two decimals is exact; and the
`quote_amount` form of orders, deposits and withdrawals are in `PublicOrders` and
`Wallet`. A fill of two bots (neither
order in the table) is kept as the branch of the code it is.

### UdpStream

`Collect`, `Flush`, `Heartbeat` and `Shutdown` are the branches of the sender's
loop, `Submit` is try_send. A batch is numbered when it is begun, a heartbeat
when it is sent. The network is a set that packets are never removed from: one
that is never received is lost, one that is received late was delayed, one
received again was duplicated. `ReceivePacket` is process_packet up to the loop
over the messages, `Hand` one message of that loop, `Silence` the stream
timeout, `ClearGaps` and `ClearState` the two locks of clear_gaps. `Restart`
is a new sender that counts from zero, after a shutdown or after a crash that
took queue and batch. The receiver is not restarted: nothing it keeps would
outlive it. Failing sends are losses. Only the receiver's subtraction wraps: in
a release build it does at 2^64, a debug build would panic there.

### BookFeed

`Change`, `Match`, `Settle` and `SendFill` are the command loop as far as the
feed sees it: the book changes under its lock at once, its fills are settled one
after the other and then sent. `Tick` is a round of OrderBookPublisher every
100 ms: the best `MaxLevels` levels in full after `SNAPSHOT_INTERVAL` rounds, or
the differences to `prev`; a round whose event cannot be sent (no address yet, or
a full queue) changes nothing, because the `?` leaves the function first. `wire`
is everything between the queue and the gateway's broadcast channel; `UdpStream`
is why it loses but never reorders. `Broadcast` is the gateway's loop: apply to
the replica, notify subscribers unless the snapshot brings no news, recompute
ticker and last trade. `FallBehind` is the Lagged error that ends the loop.
`SubscribeRead` and `SubscribeRegister` are the two locks of a subscription;
what is notified in between is missed. The gateway keeps the last `TradesKept`
trades (100 in `channel_updates.rs:220`), a client shows the last `TradesShown` (50
in `marketDataWorker.ts:179`), of which a snapshot may push out the older ones: a
client therefore shows the latest of the gateway's trades, not all of them.
`EngineRestarts` and `GatewayRestarts`
lose what the process kept. The ghosts `hole` and `applied` say whether a book
event was lost and what the last event was taken from.

The sequence numbers of events are not in the model, since nothing reads them.
Quantities of a level are zero or more, as in `OrderBook`.

### GatewaySession

A client is its number, as in `ChannelManager`, whose fields are variables of the
same names. Its receive task (`receiver`) takes a request, asks accounts where it
must, and replies into the client's bounded channel (`backlog`, a tokio
broadcast channel: the oldest message is overwritten and the reader gets an
error); the send task (`sender`) writes to the socket; the event task
(`listener`) reads the gateway's event channel. `CleanUp` is the end of the
receive task with remove_client, `Abort` the other branch of the select!, where
the receive task is aborted at whatever it awaits. The event task is aborted by
nobody and ends only when the channel overtakes it. Between `AccountsCreate`
and `Submit` the connection may change its user, be overtaken or be aborted.
All public channels are one, since a client is treated alike in each. What
messages say is left out.

`authenticated_users` and `user_to_client` are not inverse to each other. When a
connection changes its user, `authenticate_client` (`websocket.rs:344-352`) leaves the
entry of the user before, and `remove_client` (402-403) removes the entry of the
last one only: a connection that signed in as one user and then as another still
has the first one's entry pointing at it after it was left in order.
`OneConnectionPerUser` and `LeavesNothing` say how far this goes: an entry points
to a connection its user signed in on, and when he was the only one to do so, it is
right while the connection lasts and gone afterwards. The ghost `identities` is who
signed in on a connection.

### SignIn, Wallet, PublicOrders, Candles

These are the handlers of accounts that no order flow depends on, as sequences of
the statements they send to PostgreSQL, which other handlers, failures and
restarts may come between. `SignIn`: `Verify` is one UPDATE that finds a code and
uses it up; a refresh is `Refresh` (find_valid), `Revoke`, `CreateToken`.
`Wallet`: LedgerEntry::append is one step, since `Accounts` models its lock; a
claim is `CheckClaim`, `CreditClaim`, `RecordClaim`; the clean-up job is
`StartCleanup`, which disables the trigger, and `CleanTrades`, which fails,
because `trades` has no column `created_at` (migrations/004_create_orders_trades.sql:35
has `settled_at`), and returns before the trigger is enabled again.
`RestartAccounts` runs the migrations, which create the trigger anew. `Mint` is
mint_internal: any amount, of any sign, that has no more decimals than its asset.
`PublicOrders` has place_order with its early returns. It works in whole
1/`UnitsPerBase` of the base asset and in tenths of a cent, so that the roundings
(quantity to 8 decimals, lock to cents, both half to even) are those of the
code. An order that was to spend an amount therefore locks that amount but for
half a cent and half of what the smallest quantity costs, which is what
`LocksAddUp` allows. Quantities and prices in a request are whole numbers of these
units: one with more decimals, which the database rounds when the order is stored
while the lock was computed from the number as it came, is not modelled. With a quantity given, nobody looks at the sign of
`max_slippage_price` (`routes/orders.rs:259`): the lock entry of a negative one is a
credit, and `cancel` (`models/order.rs:291`), which unlocks positive amounts only,
takes nothing back. The lock entries of an account are therefore what its pending
orders hold less all such credits. `UnitsPerBase` is 10^8 there and 10^6 in the run, because
TLC's integers end at 2^31. Orders placed this way are never sent to the engine,
by the code, so nothing fills them. `Candles`: the six upserts of update_from_trade are a step
each, and `UpdateFails` leaves the rest out. The market_data service subscribes
with `{"type", "channel"}`, which is no `ClientRequest` (`id`, `method`): the
gateway drops the message, so that the service never hears of a trade (`Hears`).
`README.md:42` says it aggregates the gateway's events; it does not, and that is
what keeps the two writers of the table from counting every trade twice.

## 3. Runs

| Run | Question | Bounds |
|---|---|---|
| `order_book` | index, levels and totals agree between any two iterations; conservation; not crossed; completed orders exact; implements `PriorityBook`; the loop ends | 4 orders, 2 prices, one below zero, quantities 0, 1, 2, one cancellation |
| `order_flow` | balances are the ledger's sums and never negative; fills add up; a cancelled order is final; no money out of nothing but in five named ways and as the credit of a bid at a negative price | 2 users, 10 offers of which 2 are placed, 3 requests at once, 2 attempts, one cancellation |
| `order_flow_live` | every request ends; the engine comes back for the next command | fewer offers, fair steps |
| `udp_stream` | packets carry true numbers; loss is counted once; a gap is a loss for good; implements `LossyStream`; what was submitted is sent | batches of 2, queue and channel of 1, 3 messages per run, one heartbeat, 2 runs |
| `book_feed` | the replica is the book of the last event until one is lost, and becomes the book again; views follow the replica; trades are shown once; statistics are the last day's | 2 prices, quantity 0 or 1, one level per side published, snapshots every 2 rounds, 2 changes, 3 trades, which the gateway keeps and of which a client shows 2, one event under way at a time, one fault, one client of the book and one of the ticker, 1 subscription |
| `gateway_session` | one connection per user; the end of an order goes to its owner and does reach him; a connection left in order is in no channel and has no sender, no sign-in and no entry of a user who alone signed in there; no order is forgotten | 2 connections, 2 users, 1 order, 3 requests, channels of 1 |
| `back_office` | codes and tokens are good once; ledger and balances agree; faucet claims keep their distance; order locks add up; candles add up | 2 e-mails, 2 codes and 2 tokens issued, 3 calls of which 2 at once; 1 owner, 3 ledger entries, 2 claims at once, 4 times of which 2 make a day; 2 orders; 3 settlements of which 2 at once, intervals of 1 and 2 |
| `settled_twice`, `lock_circle`, `false_gap`, `browser_drift`, `cleanup_skipped` | one statement of the repository each, which the code does not keep | as the runs above (`false_gap` with two heartbeats) |

Why the bounds are enough to be of use:

- `order_book`: with two prices a match takes a whole level and goes on to the
  next, or stops before it; with quantities 1 and 2 fills are exact or partial
  on either side; with four orders a level has a queue of two when a fourth
  order comes and a third one is cancelled. Zero is a quantity the internal
  route accepts.
- `order_flow`: three slots hold an attempt given up on, its retry and a
  cancellation side by side, which is what all races found need; `Scale = 2`
  makes half cents, so that both directions of rounding half to even occur;
  `Deposit = 3` makes some locks fail. MAX_RETRIES is 3 in the code; the second
  attempt already overlaps the first. Offers include a market bid that locks
  less than it has to pay, one user on both sides, a bid and an ask at a negative
  price, and quantities of zero and below.
- `udp_stream`: three messages are a full batch and a partial one, or three
  packets of which the first or the middle one is lost; a heartbeat and a loss
  make two gaps, one more than is remembered; the second run reuses all numbers. `Modulus = 8` is
  larger than anything a run counts to, and a difference across a restart does
  go below zero.

- `book_feed`: with two prices and one published level a level leaves the
  published book without leaving the book; a snapshot falls between deltas; the
  loss, restart or lag hits any event. A book of one unit per level is enough to
  tell a wrong level from a right one. Three trades are one more than a client
  shows, at times a day apart or not. With room for one event the publisher often
  finds the queue full, but two events are never under way together: the theorems
  of `BookFeedProofs` cover that for the safety properties, and `browser_drift`
  runs with two.
- `gateway_session`: two connections and two users are all that taking over a
  sign-in needs; channels of one are overtaken by the second message; three
  requests are, for example, sign in, order, sign in elsewhere.
- `back_office`: each behaviour is one of a single part, because the parts share
  no table that the properties read; `Wallet` and `PublicOrders` are explored
  together but for time, faucet and clean-up, which no order depends on. Slippage
  prices, minted amounts and prices of fills include one below zero. Amounts
  of 0.5 and 201.5 cents are rounded both ways; at 0.30 EUR the second buys a
  quantity that is not whole. Three settlements of one long interval fall into
  one or two short ones.

Deadlock checking is off in all runs: each bound is reached in the end, and a
system without requests may stand still. Waiting for each other is a property of
its own (`DeadlockFree`, `RequestsEnd`).

Each property of a passing run has a mutant in `PROJECT.json`: a definition and
a plausible mistake in it (`Seeded mistake` in the modules) with which TLC finds
the property violated under the same configuration.

### Fairness

- `OrderBookPriority!HFairSpec`: weak fairness of the matching steps. A call
  runs to its end; callers are not assumed to do anything.
- `OrderFlow!FlowFairSpec`: weak fairness of "some step that runs by itself":
  statements of transactions, PostgreSQL's deadlock detector, answers and the
  engine's task. One condition for all together is weaker than one for each.
  Nothing is assumed of users, datagrams or timeouts.
- `UdpStream!FairSpec`: weak fairness of `Collect` and of `Flush`: the sender's
  thread runs, and max_batch_delay passes. Nothing is assumed of network,
  receiver or consumer.

- `BookFeed!FairSpec`: weak fairness of the publisher's rounds, of the threads
  and tasks that forward events, of settling and sending, of the second step of
  a subscription, and of resolving the gateway's name, which the sender retries.
  Nothing is assumed of the book, of losses or of clients.
- `GatewaySession!FairSpec`: weak fairness of each connection's three tasks, where
  the receive task is one condition: it goes on, ends when its client has gone,
  or is aborted. Clients and the engine may do nothing.

### What the code does not keep

| Run | The repository says | The code |
|---|---|---|
| `settled_twice` | the unique constraint guarantees that a fill is settled once (`accounts/src/models/trade.rs:97`) | the insert is ON CONFLICT DO UPDATE, so that a retry overlapping its predecessor commits its entries as well |
| `lock_circle` | locks are taken in an order that prevents deadlocks (`trade.rs:132`) | settle takes the advisory locks and then the row, cancel the row and then the advisory lock |
| `false_gap` | Degraded means a gap was detected (`udp_proto/src/receiver.rs:67`) | a heartbeat's number makes a gap of nothing, and no product code clears it |
| `browser_drift` | a snapshot repairs gateway and browser (`yyin/docs/ARCHITECTURE_GUIDE.md:846`, `:731`) | a snapshot that equals the gateway's replica is not passed on; a client that missed an update while subscribing shows the old level until it changes again |
| `cleanup_skipped` | a client's channels are unsubscribed when it disconnects (`gateway/WEBSOCKET_PROTOCOL.md:93`) | not when its send task ends first: the receive task is aborted before remove_client |

Known beside these, without a run of their own. Five ways to get or keep money that
no lock stands for, which are the exceptions of `NoMoneyCreated`: a fill settled
after its order was cancelled pays out a lock that was returned already; a fill is
settled twice; a market bid is matched above the price its lock was computed with
(`models/order.rs:151`); the engine cancels the rest of a market order with another
filled quantity than accounts had, which is overwritten
(`matching_engine_service/src/main.rs:324`); an order of a negative quantity gets
its lock as a credit. A bid at a negative price does, too, on the engine's route and
on the public one: its credit is in the bound of `NoMoneyCreated` and in
`LocksAddUp`. Also: OrderFilled goes out although the settlement failed
(`matching_engine_service/src/main.rs:288` and `:350`, against
`yyin/docs/ARCHITECTURE_GUIDE.md:822`); after a price improvement the difference
between lock and payment stays locked (`accounts/src/models/trade.rs:162`); two
refreshes that overlap both get a new token, and faucet claims that overlap are
all paid (both are the exceptions `SpentIsSpent` and `FaucetIsRationed` allow); after
a restart of the sender the receiver drops all packets until their numbers reach
what it expects, and a full channel drops a message without counting it
(`InOrderAtMostOnce` allows any loss, and `LossIsMeasured` is about the time before
a restart and counts what the receiver took, handed on or not); an order of quantity
zero can never be cancelled; the entry of a user stays after a connection changed
him for another; an
error between the six upserts leaves the longer candles without a trade
(`CandlesAddUp` excludes those intervals); a settlement request that is repeated
after it came through counts a second time in the candles.

## 4. Proofs

Each theorem is a statement about every instance: any sets of users, prices and
quantities, any number of orders, concurrent requests, attempts and
cancellations, any capacities of queues and channels. What is assumed of the
constants is named in the module that declares them and evaluated by TLC in
every run: prices and quantities are integers, of any sign but for the quantities of
`OrderBook` and of the levels in `BookFeed`, which are natural numbers; "none" values
are none of the others, users are ordered as numbers are and finitely many (as
are the clients of `BookFeed` and the settlements of `Candles`), every candle
interval is a multiple of the shortest one, and the units of quantity make up a
multiple of ten. The theorems are about `Spec` without fairness, which every
`FairSpec` of the runs implies.

| Module | Theorem | Statement |
|---|---|---|
| `OrderBookProofs` | `TypeCorrect` | `Spec => []TypeOK` |
| | `IndexCorrect` | `Spec => []IndexMatchesLevels` |
| | `LevelsAreBacked` | `Spec => []NoEmptyLevel` |
| | `BookNeverCrossed` | `Spec => []NotCrossed` |
| | `QuantityIsConserved` | `Spec => []QuantityConserved` |
| | `TotalsAlwaysMatch` | `Spec => []TotalsMatch` |
| | `AlwaysCompletedExactly` | `Spec => []CompletedExactly` |
| | `BookImplementsPriority` | `HSpec => PriceTimePriority`, that is `PriorityBook!Spec` of what the book shows |
| `AccountsProofs` | `AccountsTypeCorrect` | `Spec => []TypeOK` |
| | `BalancesAreTheLedger` | `Spec => []LedgerMatchesBalances` |
| | `NobodyOverdraws` | `Spec => []NoOverdraft` |
| | `RowsAreHeld` | `Spec => [](IInv /\ RInv)`: a row that was locked for update is unchanged until the commit |
| | `CancelledStaysCancelled` | `Spec => CancelledIsFinal` |
| `OrderFlowProofs` | `FlowImplementsAccounts` | `FlowSpec => Spec` |
| | `FlowTypeCorrect`, `FlowBalancesAreTheLedger`, `FlowNobodyOverdraws`, `FlowCancelledStaysCancelled` | those above, of `FlowSpec` |
| | `FlowKeepsInStep` | `FlowSpec => []PInv`: an order is on its way to the engine, being matched, or resting; fills name a bid and an ask that accounts has |
| | `FlowFillsAddUp` | `FlowSpec => []FillsAddUp` |
| | `FlowNeverOverfills` | `FlowSpec => [](raised = {} /\ ~NegativeQuantity => Covered)` |
| | `FlowCreatesNoMoney` | `FlowSpec => []NoMoneyCreated` |
| `UdpStreamProofs` | `StreamTypeCorrect` | `Spec => []TypeOK` |
| | `NumbersAreTrue` | `Spec => []PacketsInOrder` |
| | `StreamIsLossy` | `Spec => InOrderAtMostOnce`, that is `LossyStream!Spec` |
| | `LossAlwaysMeasured` | `Spec => []LossIsMeasured` |
| `BookFeedProofs` | `FeedTypeCorrect` | `Spec => []TypeOK` |
| | `FeedReplicaFollows` | `Spec => []ReplicaFollows` |
| | `FeedStatsAreTheLastDay` | `Spec => []StatsAreTheLastDay` |
| | `FeedViewsFollow` | `Spec => []ViewsFollow` |
| | `FeedTradesShownOnce` | `Spec => []TradesShownOnce` |
| `GatewaySessionProofs` | `AlwaysTypeOK` | `Spec => []TypeOK` |
| | `AlwaysOneConnectionPerUser` | `Spec => []OneConnectionPerUser` |
| | `AlwaysOnlyToOwner` | `Spec => []OnlyToOwner` |
| | `AlwaysLeavesNothing` | `Spec => []LeavesNothing` |
| | `AlwaysNothingForgotten` | `Spec => []NothingForgotten` |
| `BackOfficeProofs` | `BackOfficeTypeCorrect` | `Spec => []TypeOK` |
| | `SpentStaysSpent` | `Spec => SpentIsSpent` |
| | `LedgerReconciles` | `Spec => []Reconciles` |
| | `FaucetRationed` | `Spec => []FaucetIsRationed` |
| | `LocksAlwaysAddUp` | `Spec => []LocksAddUp` |
| | `CandlesAlwaysAddUp` | `Spec => []CandlesAddUp` |

### OrderBook

None of the first five is inductive alone. `IInv` conjoins them with two more parts:

- `ScanInv`: what the loop still has to visit (`todo`), the level it is in
  (`cur`) and those it emptied are levels of the opposite side; every acceptable
  level is one of these. This is what turns "the loop has ended" into "no
  acceptable level is left", so that the rest of a limit order does not cross
  the book, and what says that only the current or an emptied level can have an
  empty queue.
- `IdsInv`: the ids in the book, the taker's and the withdrawn copy's are
  different and at most the number submitted, so that a new order cannot meet
  its own id in the index.

The invariant holds initially (`InitIInv`) and each action has a lemma of its
own (`AddStep`, `EnterLevelStep`, `MatchFrontStep`, ..., `RestoreOrderStep`),
combined in `NextStep`. The lemmas before them say what the helpers do to a
book: `RemoveAtFacts`, `LevelWithoutFacts`, `AddOrderToBookFacts`, and
`RestKeepsMatch`, used wherever an order comes to rest.

Two more properties rest on `IInv` and a part each:

- `TotalsAlwaysMatch`: a level's `total_quantity` is the sum of what is left of
  its orders, taken over the places of its queue. An order that is cancelled moves
  all behind it forward by one place; `SumReindex` says that this changes nothing
  but the order's own part of the sum.
- `AlwaysCompletedExactly`: `CompletedSoFar` says of a match still going on what the
  property says of one that is over: the orders completed until now are those
  that its fills name and of which nothing is left, the taker apart, whose turn
  comes when the match is finished.

The refinement of `PriorityBook` (`BookImplementsPriority`) is of `HSpec`, the book
with the history variable that numbers the orders as they come to rest. Its
invariant `PriorityInv` says what the code relies on without ever checking it:

- `RankInv`: in every queue the ranks rise. Each action only takes orders out of a
  queue (`Thinned`: fills at the front, cancellations anywhere; `RanksStay`) or
  appends one with the next rank (`RanksGrow`).
- `BestInv`: the level being consumed is acceptable and strictly better than all
  the scan has yet to visit. With `ScanInv` this makes the order at the front of it
  the first of the whole side (`FrontIsFirst`), and what is left when the scan
  is over not acceptable (`ScanLeavesNothing`).
- `SizeInv`: nothing has more left than it came with, so that a restored order is
  one that `PriorityBook` would take back.

Then a fill is `Trade`, the end of a match is `Close`, a cancellation `Withdraw`, a
restore `PutBack`, and to enter or leave a level is a stutter, each a lemma.

### Accounts

`Spec` leaves open who sends which request, so that the proof does not depend on
what gateway or engine do. That a balance is the sum of its entries after a
commit is true because nobody else has written that balance since the
transaction read it. `IInv` says how the locks see to that:

- `Written` of a slot: a balance its transaction has written is one whose
  advisory lock it holds; its copy is the committed balance plus the sum of its
  own entries, and not negative.
- a statement still to come writes balances whose lock the slot holds or has yet
  to ask for (`want`), so that it is there when the statement runs;
- an order never changes its owner, side, price and quantity
  (`SameLock`), so that the lock `CancelLookup` asked for is the one that
  `CancelApply` needs;
- two placements never have the same id (`IdsDiffer`), so that a commit cannot
  overwrite an order.

The lemmas are: what rounding and amounts are (`RoundFacts`, `OrderFacts`,
`UnlockFacts`), what `Post` does to a copy (`PostFacts`, `PostWritten`), what a
statement that touches only its own slot, an abort and a commit preserve
(`LocalStep`, `AbortStep`, `CommitStep`), then one lemma per action, combined in
`NextIInv`. The row locks play no part in this: double settlements and
settlements after a cancellation keep the ledger consistent - which is why
reconciling does not find them.

The row locks are what `RInv` is about (`RowsAreHeld`): a transaction past its
SELECT ... FOR UPDATE holds the lock of every row it has copied, its copy differs
from the committed row by its own writes alone, and what it moves of quantity
and money is what the fill says. So a commit writes of an order what it has read
plus its own part, which makes every commit one of three effects (`Effect`:
place, cancel, settle), and no effect leaves a cancelled order anything but
cancelled.

### Sums

A sum is the fold of the community modules over a finite set. The library's
induction theorems take an operator as a parameter, which none of the provers
can instantiate; so the lemmas of `SumsProofs` argue by a smallest
counterexample: of the subsets for which the statement fails, take one of least
cardinality (`SmallestSet`, from the well-foundedness of the numbers), remove an
element, and the rest does not fail. That is how a sum is shown to exist
(`SumExists`), not to depend on the order (`SumRemove`), and to follow a change
of the set or of the function (`SumAdd`, `SumPut`, `SumChange`, `SumMonotone`,
`SumPlus`), or a new numbering of what is summed (`SumReindex`).

### OrderFlow

A step of gateway or engine is a step of `Accounts` or leaves its variables
alone (`FlowIsAccounts`), provided the requests are of the form `Accounts`
allows: fills name orders and prices that exist, and quantities are numbers, of any
sign. `FInv` adds that to `IInv`: commands in
the inbox name orders of the table, because accounts answered before the gateway
sent them (`DoneOK`); the book, the order being matched and the call in flight have
their fields (`EngineOK`).

`PInv` adds the bookkeeping between the parts: an order waits in the inbox or is
the taker or rests, and never two of these (`WaitingOK`, `BookOK`); a fill has a
bid for a buyer and an ask for a seller (`FillsOK`). With it each settlement that
commits adds its quantity once to both orders, which is `FillsAddUp`.

That no money is created needs to know how far an order's lock reaches.
`Covered` says it in quantities: what the order has filled, the fills that may
still be settled for it, and what the engine has left of it are at most its
quantity. Until an order of a negative quantity is placed (`NegativeQuantity`), the
engine has none such at work either (`Natural`), which this needs. A fill given up on and settled later, or a cancellation told the wrong
quantity, breaks it, and `raised` is not empty from then on. While it holds, every
settlement pays out of what the order still locks. `MoneyOK` balances the books:
the surplus over what was paid in is the sum of what each order has brought its
owner (`BaseOf`, `QuoteOf`: filled, plus given back, less locked), exactly for the
base asset and but for half a cent per fill for the quote asset; the three ways
to commit keep it (`PlaceMoney`, `CancelMoney`, `SettleMoney`). An order that is
covered brings nothing but the roundings of its lock and unlock, and the credit it
got if it is a bid at a negative price (`BaseBound`, `QuoteBound`), and
`MoneyBounds` adds them up.

### UdpStream

`IInv` follows the messages from one end to the other:

- `SenderInv`: the batch is numbered with what was sent before it, its messages
  and the queue continue those numbers without a hole, up to `submitted`. The
  packet number of the batch may be older than the sender's (heartbeats), but
  not newer.
- `WireInv`: a packet of the current run lies before the batch in both numbers;
  this is what makes `PacketsInOrder` survive `SendBatch` (`SendStep`).
- `HeldInv`: of what the receiver still holds - channel, packet in work, last
  message taken - nothing comes after the first message of a packet that it may
  still let in. This is the reason for order and for at-most-once: a packet
  of another run is let in or not by a number that has nothing to do with it,
  and still comes after what was let in of its own run before.
- `OrderInv`: numbers of one run rise from the last message taken through the
  channel to the packet in work, whatever a full channel drops in between.

The refinement (`StreamIsLossy`) then has two steps that are not stutters,
`Submit` and `Consume`.

`LossIsMeasured` is about the time before the sender's first restart, and takes two
more parts. `NumberingInv`: packets of neighbouring numbers have neighbouring messages,
and as long as there were no heartbeats, packets that lie further apart have a message
between them - so a hole in the packet numbers is a hole of at least one message.
`LossInv` follows the receiver: what it expects is what comes after a packet that was
sent; from its first message on, missing and processed add up to what it expects
(`CountedFrom`); and no recorded gap reaches beyond what it expects, so that what
arrives later cannot be of a gap. A difference of numbers modulo `Modulus` is the
true one, because the numbers do not exceed `MaxMessages`, which is smaller.

### BookFeed

`TInv` is the types, and each property has its own invariant beside it.

- `Linked` is about everything on the wire at once: a delta with no hole before it
  takes the book of the last book event before it to the book it was made from
  (`DeltasFit`), and the last of them is what the publisher compares with next
  (`EndFits`). Losing an event marks the next one, so that nothing is said of what
  follows a hole until the next snapshot. `ReplicaFollows` is then the case of an
  empty prefix.
- `Ordered`: the trades on the wire and in the engine come in order and after all
  those the gateway or a client has seen. It gives `StatsAreTheLastDay`, whose
  window is cut from the front, and `TradesShownOnce`, where a new trade is one
  that nobody shows yet, and only a snapshot, one per subscription, shows the old
  ones again (`Counted`).
- `Following`: a client between its two locks (`reading`) already shows the replica
  if it missed nothing. `ViewsFollow` only speaks of subscribers, and that is
  not inductive.

### GatewaySession

`IInv` conjoins the four with what they lean on:

- `OneConnectionPerUser`, of which the second part says that a user is found
  (`user_to_client`) only at a client he signed in at. An event is handed on where
  the owner is found, at a moment when nobody looks at the sign-in itself; this is
  why it is his.
- `Owners`: the owner the gateway has written down is the one accounts has, and
  it is written down before the order goes out, so it is known of every event.
- `TaskOK`: a receive task that waits for accounts remembers who asked, and of
  which order.

The types lean on them as well: that the event channel stays within its bound
(`EventBound`) is because each event is the end of one more order or counts as a
request, and of both there are no more than the bounds allow.

`OneConnectionPerUser` is needed for itself: a client that leaves takes back the
entry of its user only, and that entry points to no other client. Actions that
only touch channels, that only move a receive task on, and that only bring an
event share a lemma each (`QuietStep`, `TaskStep`, `EventStep`); the other six
have their own (`ConnectStep`, `ListenStep`, `CleanUpStep`, `AuthAnswerStep`,
`AccountsCreateStep`, `SubmitStep`).

### BackOffice

Each part has its invariant, and a step of one part leaves the others alone
(`BackInv`).

- Sign-in (`SInv`): the rows a handler goes by exist, and a handler that opens a
  session has an account. Codes and tokens are looked up in one step with the
  check that they are good; that the check may be old when the handler goes on is
  why `SpentIsSpent` is about new handlers only.
- Balances, faucet and orders (`WalletInv`): ids are below the number of rows, so
  that an entry is a new row and adds its amount once. The clean-up job could
  break this, were its DELETE of the ledger ever reached. Claims are in the order
  of their times, a handler was checked against the claims there were then
  (`HandlersOK`), and so its claim is a cooldown after every claim of the user it
  could see. The lock entries of an account and the locks of its pending orders
  cancel each other (`LocksHeld`); an order that was to spend an amount goes
  through two roundings, each off by half a unit at most (`SpentAmount`).
- Candles (`CandlesInv`): a settlement updates the shortest interval first, and so
  its parts have a trade before a longer interval has it. Until then the interval
  is behind its parts by exactly the settlements that are between the two
  (`SumsMatch`), and as high as all parts but those (`PeaksMatch`, also used, with
  prices negated, for the lowest price). An interval whose update was cut short is
  left out. That an interval with a time in it has the short interval of that time
  in it whole is arithmetic of multiples (`Aligned`).

### Only model-checked

Liveness (`MatchTerminates`, `RequestsEnd`, `EngineReturns`, `MessagesLeave`,
`FeedSettles`, `EventReachesOwner`), which the prover cannot do. Every other
property of a passing run is stated by a theorem.

## 5. Not modelled, and the plan

Done, in this order: `OrderBook` (with its abstract specification and proofs),
`Accounts` and `OrderFlow`, `UdpStream`, `BookFeed`, `GatewaySession`, the modules
of `BackOffice`, and proofs about each of them. Next: the engine's whole command
loop in one module, with failing event sends between settlement and the
cancellation of the rest (`matching_engine_service/src/main.rs:308`); and of the
liveness properties the half that is safety: that a step of the loop is always
possible (`MatchTerminates`) and a measure it decreases.

Left out for good: message encodings and generated code, the HTTP proxy and the
mail service (I/O without state of their own), the strategies of the trading bot
(numeric heuristics), the frontend but for its replica of the book, the Python
model, the benchmarks and the end-to-end tests.
