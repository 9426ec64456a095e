----------------------------- MODULE MCOrderBook -----------------------------
(***************************************************************************)
(* A small book for TLC: two prices, one of them below zero, so that a match *)
(* can consume one level and go on to the next or stop before it, and      *)
(* quantities that fill exactly, in part, or (0) not at all.               *)
(***************************************************************************)
EXTENDS OrderBookPriority

MCPrices == {-1, 1}

MCQuantities == {0, 1, 2}
=============================================================================
