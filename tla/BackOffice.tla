----------------------------- MODULE BackOffice -----------------------------
(***************************************************************************)
(* The parts of accounts beside the orders of the exchange: SignIn,        *)
(* Wallet, PublicOrders (which share the ledger and the balances), and     *)
(* Candles.  Orders do not depend on the time nor the clean-up job on      *)
(* orders, and the others share no table, so that each part is checked     *)
(* with what it does not depend on at rest: a behaviour is one of a single *)
(* part.                                                                   *)
(***************************************************************************)
EXTENDS SignIn, PublicOrders, Candles

VARIABLE part

Init ==
  /\ part \in {"sign-in", "wallet", "orders", "candles"}
  /\ SignInInit /\ PublicOrdersInit /\ CandlesInit

Next ==
  /\ UNCHANGED part
  /\ \/ part = "sign-in" /\ SignInNext /\ UNCHANGED <<orderVars, candleVars>>
     \/ part = "wallet" /\ WalletNext /\ UNCHANGED <<orders, signInVars, candleVars>>
     \/ part = "orders" /\ PublicOrdersNext /\ UNCHANGED <<signInVars, candleVars>>
     \/ part = "candles" /\ CandlesNext /\ UNCHANGED <<signInVars, orderVars>>

Spec == Init /\ [][Next]_<<part, signInVars, orderVars, candleVars>>

\* The types of every part.
TypeOK == SignInTypeOK /\ PublicOrdersTypeOK /\ CandlesTypeOK

=============================================================================
