------------------------------- MODULE Candles -------------------------------
(***************************************************************************)
(* The table ohlcv: accounts updates the candle of every interval after a  *)
(* settlement came through (models/ohlcv.rs), one upsert after the other   *)
(* outside the transaction of the settlement, and the market_data service  *)
(* means to do the same for every trade the gateway notifies it of         *)
(* (market_data/src/main.rs, ohlcv.rs).                                    *)
(***************************************************************************)
EXTENDS Integers, FiniteSets, Sums

CONSTANTS
  Lengths,        \* lengths of the intervals, each a multiple of the first; 1m .. 1d in the code
  Costs, Sizes,   \* prices and quantities of trades, of which nobody looks at the sign
  Times,          \* times of trades
  Settlements,    \* settlement requests that can run at a time
  MaxSettlements  \* bound: settlement requests

ASSUME CandlesAssumption ==
  /\ Lengths \subseteq Nat \ {0} /\ \E first \in Lengths : \A l \in Lengths : first <= l /\ l % first = 0
  /\ Costs \cup Sizes \subseteq Int /\ Times \subseteq Nat
  /\ IsFiniteSet(Settlements) /\ MaxSettlements \in Nat

VARIABLES
  ohlcv,          \* table: <<length, open_time>> -> candle
  settling,       \* settlement request -> the trade, and the intervals still to update
  settlements,    \* bound: so far
  torn,           \* ghost: times of trades whose update was cut short
  notices,        \* notifications of trades that the gateway is to send
  consumer        \* market_data's connection to the gateway: "closed" or "open"

candleVars == <<ohlcv, settling, settlements, torn, notices, consumer>>

Idle == [price |-> 0, quantity |-> 0, time |-> 0, left |-> {}]

CandlesInit ==
  /\ ohlcv = << >>
  /\ settling = [s \in Settlements |-> Idle]
  /\ settlements = 0 /\ torn = {} /\ notices = {}
  /\ consumer = "closed"

\* Seeded mistake: the quotient, not the time the interval opens at.
OpenTimeQuotient(time, length) == time \div length

OpenTime(time, length) == (time \div length) * length

\* INSERT .. ON CONFLICT DO UPDATE.
Upserted(table, key, price, quantity) ==
  LET was == table[key]
      candle == IF key \notin DOMAIN table
                THEN [open |-> price, high |-> price, low |-> price, close |-> price,
                      volume |-> quantity, trade_count |-> 1]
                ELSE [open |-> was.open, high |-> Max({was.high, price}), low |-> Min({was.low, price}),
                      close |-> price, volume |-> was.volume + quantity,
                      trade_count |-> was.trade_count + 1]
  IN  [k \in DOMAIN table \cup {key} |-> IF k = key THEN candle ELSE table[k]]

\* settle_fill: Trade::settle came through, for a new trade or for one it had settled before.
SettleFill(s, price, quantity, time) ==
  /\ settling[s] = Idle /\ settlements < MaxSettlements
  /\ settlements' = settlements + 1
  /\ settling' = [settling EXCEPT ![s] = [price |-> price, quantity |-> quantity, time |-> time,
                                          left |-> Lengths]]
  /\ notices' = notices \cup {[price |-> price, quantity |-> quantity, time |-> time]}
  /\ UNCHANGED <<ohlcv, torn, consumer>>

\* update_from_trade: the next interval, the shortest first.
UpdateFromTrade(s) ==
  /\ settling[s].left # {}
  /\ LET r == settling[s]
         length == Min(r.left)
     IN  /\ ohlcv' = Upserted(ohlcv, <<length, OpenTime(r.time, length)>>, r.price, r.quantity)
         /\ settling' = [settling EXCEPT ![s] = IF r.left = {length} THEN Idle
                                                ELSE [r EXCEPT !.left = @ \ {length}]]
  /\ UNCHANGED <<settlements, torn, notices, consumer>>

\* An error: the intervals that are left are not updated, and the settlement stands.
UpdateFails(s) ==
  /\ settling[s].left # {}
  /\ torn' = torn \cup {settling[s].time}
  /\ settling' = [settling EXCEPT ![s] = Idle]
  /\ UNCHANGED <<ohlcv, settlements, notices, consumer>>

\* start_websocket_consumer connects, loses the connection and connects again.
ConsumerConnects ==
  /\ consumer = "closed" /\ consumer' = "open"
  /\ UNCHANGED <<ohlcv, settling, settlements, torn, notices>>

ConsumerLoses ==
  /\ consumer = "open" /\ consumer' = "closed"
  /\ UNCHANGED <<ohlcv, settling, settlements, torn, notices>>

\* The fields of the message market_data subscribes with, and those a request needs.
SubscribeMessage == {"type", "channel"}

ClientRequest == {"id", "method"}

\* Seeded mistake: whoever is connected gets the trades.
HearsWhenOpen == consumer = "open"

\* The gateway drops the message, which is no request, without an answer.
Hears == consumer = "open" /\ ClientRequest \subseteq SubscribeMessage

\* The gateway notifies its subscribers of a trade; process_trade then upserts the candle of
\* every interval, whichever of them fail.
TradeNotified(trade) ==
  /\ trade \in notices
  /\ notices' = notices \ {trade}
  /\ \E done \in SUBSET Lengths :
       LET keys == {<<l, OpenTime(trade.time, l)>> : l \in done}
           Row(k) == IF k \in keys THEN Upserted(ohlcv, k, trade.price, trade.quantity)[k] ELSE ohlcv[k]
       IN  ohlcv' = IF Hears THEN [k \in DOMAIN ohlcv \cup keys |-> Row(k)] ELSE ohlcv
  /\ UNCHANGED <<settling, settlements, torn, consumer>>

CandlesNext ==
  \/ ConsumerConnects \/ ConsumerLoses
  \/ \E trade \in notices : TradeNotified(trade)
  \/ \E s \in Settlements :
       \/ \E p \in Costs, q \in Sizes, t \in Times : SettleFill(s, p, q, t)
       \/ UpdateFromTrade(s) \/ UpdateFails(s)

-----------------------------------------------------------------------------
Candle == [open : Costs, high : Costs, low : Costs, close : Costs, volume : Int, trade_count : Nat]

CandlesTypeOK ==
  /\ \A k \in DOMAIN ohlcv : k[1] \in Lengths /\ k[2] % k[1] = 0 /\ ohlcv[k] \in Candle
  /\ settling \in [Settlements -> [price : Costs \cup {0}, quantity : Sizes \cup {0},
                                   time : Times \cup {0}, left : SUBSET Lengths]]
  /\ settlements \in 0 .. MaxSettlements
  /\ torn \subseteq Times
  /\ notices \subseteq [price : Costs, quantity : Sizes, time : Times]
  /\ consumer \in {"open", "closed"}

Within(t, k) == k[2] <= t /\ t < k[2] + k[1]

Volumes == [k \in DOMAIN ohlcv |-> ohlcv[k].volume]

TradeCounts == [k \in DOMAIN ohlcv |-> ohlcv[k].trade_count]

Parts(k) == {j \in DOMAIN ohlcv : j[1] = Min(Lengths) /\ Within(j[2], k)}

\* Every trade of the interval is in its candles: no update is under way, and none failed.
Whole(k) ==
  /\ \A s \in Settlements : settling[s].left # {} => ~Within(settling[s].time, k)
  /\ \A t \in torn : ~Within(t, k)

\* A long candle is what the shortest ones within it add up to, whichever settlements updated
\* them at the same time, once no update is under way and when none failed.  (Which trade came
\* first and which last, open and close, the intervals may see differently.)  And although two
\* services write the table, no interval counts more trades than settlements came through: the
\* market_data service never gets to hear of any.
CandlesAddUp ==
  /\ \A k \in DOMAIN ohlcv :
       Whole(k) =>
         /\ Parts(k) # {}
         /\ ohlcv[k].volume = SumOver(Volumes, Parts(k))
         /\ ohlcv[k].trade_count = SumOver(TradeCounts, Parts(k))
         /\ ohlcv[k].high = Max({ohlcv[j].high : j \in Parts(k)})
         /\ ohlcv[k].low = Min({ohlcv[j].low : j \in Parts(k)})
  /\ \A l \in Lengths : SumOver(TradeCounts, {k \in DOMAIN ohlcv : k[1] = l}) <= settlements

=============================================================================
