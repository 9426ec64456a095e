----------------------------- MODULE MCOrderFlow -----------------------------
(***************************************************************************)
(* Two users, a few offers each, quantities that are filled at once or in  *)
(* part, and prices and a scale at which half a cent has to be rounded.    *)
(***************************************************************************)
EXTENDS OrderFlow

MCUsers == 1 .. 2

MCPrices == {-3, 1, 3}

MCQuantities == {-2, 0, 1, 2}

\* An attempt, the retry that overtakes it, and a cancellation.
MCSlots == 1 .. 3

MCTwoSlots == 1 .. 2

Offer(u, side, kind, price, quantity) ==
  [user |-> u, side |-> side, kind |-> kind, price |-> price, quantity |-> quantity,
   filled |-> 0, status |-> "pending"]

MCFewOffers == {Offer(1, "bid", "limit", 3, 2), Offer(2, "ask", "limit", 1, 1),
                Offer(2, "ask", "market", NoPrice, 2)}

\* Also: a market bid that locks too little for the ask at 3, one user on both sides, a price
\* below zero on both sides, and quantities of zero and below.
MCOffers == MCFewOffers \cup
  {Offer(1, "bid", "market", 1, 1), Offer(2, "ask", "limit", 3, 2),
   Offer(1, "ask", "limit", 1, 2), Offer(1, "bid", "limit", -3, 1),
   Offer(2, "ask", "limit", -3, 2), Offer(2, "ask", "limit", 1, -2),
   Offer(1, "bid", "limit", 1, 0)}
=============================================================================
