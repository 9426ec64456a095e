---------------------------- MODULE PriorityBook ----------------------------
(***************************************************************************)
(* What the matching engine promises, without levels, indexes or loops: a  *)
(* set of resting orders and at most one incoming order, which trades with *)
(* the best resting order of the other side - best price first, and at one *)
(* price the order that has rested longest - until it is filled or nothing *)
(* left on the other side satisfies it.  What is left of a limit order     *)
(* rests; what is left of a market order is dropped.                       *)
(***************************************************************************)
EXTENDS Naturals, Sequences

CONSTANTS
  Prices,       \* prices an order may carry
  Quantities,   \* quantities an order may carry
  NoOrder,      \* no incoming order
  NoPrice       \* the price of a market order

VARIABLES
  resting,      \* order id -> [side, price, remaining, rank]
  incoming,     \* the order being matched, or NoOrder
  tape,         \* the trades of the current or last incoming order
  rank,         \* ranks handed out so far: a lower rank rested earlier
  ids           \* order ids handed out so far

pbvars == <<resting, incoming, tape, rank, ids>>

Opposite(s) == IF s = "bid" THEN "ask" ELSE "bid"

\* Is resting price p acceptable to the incoming order o?
Accepts(o, p) ==
  o.kind = "limit" => IF o.side = "bid" THEN p <= o.price ELSE p >= o.price

\* Price a is strictly better than price b for the incoming side s.
Better(s, a, b) == IF s = "bid" THEN a < b ELSE a > b

Candidates == {r \in DOMAIN resting : resting[r].side = Opposite(incoming.side)}

\* r precedes every other candidate in price, then time.
First(r) ==
  /\ r \in Candidates
  /\ \A c \in Candidates \ {r} :
        \/ Better(incoming.side, resting[r].price, resting[c].price)
        \/ resting[r].price = resting[c].price /\ resting[r].rank < resting[c].rank

Smaller(a, b) == IF a <= b THEN a ELSE b

Without(f, k) == [x \in DOMAIN f \ {k} |-> f[x]]

-----------------------------------------------------------------------------
Init ==
  /\ resting = << >>
  /\ incoming = NoOrder
  /\ tape = << >>
  /\ rank = 0
  /\ ids = 0

Submit(side, kind, price, quantity) ==
  /\ incoming = NoOrder
  /\ ids' = ids + 1
  /\ incoming' = [id |-> ids + 1, side |-> side, kind |-> kind,
                  price |-> price, remaining |-> quantity]
  /\ tape' = << >>
  /\ UNCHANGED <<resting, rank>>

Trade ==
  /\ incoming # NoOrder
  /\ incoming.remaining > 0
  /\ \E r \in DOMAIN resting :
       LET q == Smaller(incoming.remaining, resting[r].remaining)
       IN /\ First(r)
          /\ Accepts(incoming, resting[r].price)
          /\ incoming' = [incoming EXCEPT !.remaining = @ - q]
          /\ resting' = IF q = resting[r].remaining
                          THEN Without(resting, r)
                          ELSE [resting EXCEPT ![r].remaining = @ - q]
          /\ tape' = Append(tape,
                       [buy   |-> IF incoming.side = "bid" THEN incoming.id ELSE r,
                        sell  |-> IF incoming.side = "bid" THEN r ELSE incoming.id,
                        price |-> resting[r].price, quantity |-> q])
  /\ UNCHANGED <<rank, ids>>

Satisfied ==
  \/ incoming.remaining = 0
  \/ \A r \in Candidates : ~Accepts(incoming, resting[r].price)

Close ==
  /\ incoming # NoOrder
  /\ Satisfied
  /\ incoming' = NoOrder
  /\ IF incoming.kind = "limit" /\ incoming.remaining > 0
       THEN /\ rank' = rank + 1
            /\ resting' = [x \in DOMAIN resting \cup {incoming.id} |->
                             IF x = incoming.id
                               THEN [side |-> incoming.side, price |-> incoming.price,
                                     remaining |-> incoming.remaining, rank |-> rank + 1]
                               ELSE resting[x]]
       ELSE UNCHANGED <<resting, rank>>
  /\ UNCHANGED <<tape, ids>>

Withdraw ==
  /\ incoming = NoOrder
  /\ \E r \in DOMAIN resting : resting' = Without(resting, r)
  /\ UNCHANGED <<incoming, tape, rank, ids>>

\* A withdrawn order may come back, behind everything that rests at its price.
PutBack(id, o) ==
  /\ incoming = NoOrder
  /\ id \in 1 .. ids /\ id \notin DOMAIN resting
  /\ rank' = rank + 1
  /\ resting' = [x \in DOMAIN resting \cup {id} |->
                   IF x = id THEN [o EXCEPT !.rank = rank + 1] ELSE resting[x]]
  /\ UNCHANGED <<incoming, tape, ids>>

Next ==
  \/ \E side \in {"bid", "ask"}, quantity \in Quantities :
       \/ Submit(side, "market", NoPrice, quantity)
       \/ \E price \in Prices : Submit(side, "limit", price, quantity)
  \/ Trade
  \/ Close
  \/ Withdraw
  \/ \E id \in 1 .. ids :
       \E s \in {"bid", "ask"}, p \in Prices, q \in UNION {1 .. n : n \in Quantities} :
          PutBack(id, [side |-> s, price |-> p, remaining |-> q, rank |-> 0])

Spec == Init /\ [][Next]_pbvars
=============================================================================
