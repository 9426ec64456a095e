------------------------- MODULE OrderBookPriority --------------------------
(***************************************************************************)
(* The order book implements PriorityBook.  A history variable hands every *)
(* order that comes to rest the next rank, in either of the two ways the   *)
(* code has to put one into a level; nothing in the code keeps such a      *)
(* number, price-time priority has to follow from the level queues.        *)
(***************************************************************************)
EXTENDS OrderBook

VARIABLES
  ranks,        \* ranks handed out
  rankOf        \* resting order id -> its rank

hvars == <<vars, ranks, rankOf>>

HInit == Init /\ ranks = 0 /\ rankOf = << >>

Rank ==
  LET new == DOMAIN orders' \ DOMAIN orders
  IN /\ ranks' = IF new = {} THEN ranks ELSE ranks + 1
     /\ rankOf' = [id \in DOMAIN orders' |-> IF id \in new THEN ranks + 1 ELSE rankOf[id]]

HNext == Next /\ Rank

HSpec == HInit /\ [][HNext]_hvars

HFairSpec == HSpec /\ WF_hvars(MatchStep /\ Rank)

Resting ==
  [id \in DOMAIN orders |->
     [side |-> orders[id].side, price |-> orders[id].price,
      remaining |-> orders[id].remaining, rank |-> rankOf[id]]]

\* NoOrder is no incoming order either.
ASSUME IncomingAssumption ==
  NoOrder \notin [id : Ids, side : Sides, kind : {"limit", "market"},
                  price : Prices \cup {NoPrice}, remaining : Nat]

Incoming ==
  IF taker = NoOrder THEN NoOrder
  ELSE [id |-> taker.id, side |-> taker.side, kind |-> taker.kind,
        price |-> taker.price, remaining |-> taker.remaining]

Abstract == INSTANCE PriorityBook WITH
  resting  <- Resting,
  incoming <- Incoming,
  tape     <- fills,
  rank     <- ranks,
  ids      <- submitted

\* Every call of the engine behaves as strict price-time priority matching: each fill is
\* with the best-priced order that has rested longest, at its price and for as much as both
\* have, no acceptable order is left when the call ends, the rest of a limit order queues
\* behind its price, and the rest of a market order disappears.
PriceTimePriority == Abstract!Spec
=============================================================================
