----------------------------- MODULE PublicOrders -----------------------------
(***************************************************************************)
(* The public order routes of accounts (routes/orders.rs): what a request  *)
(* must say to become an order, the quantity that is derived from an       *)
(* amount of money, the funds the order locks, and its cancellation.       *)
(* Neither route tells the engine, so the order stays pending here until   *)
(* it is cancelled.  Accounts models the transactions of place and cancel  *)
(* statement by statement; here each is one step on the tables of Wallet.  *)
(*                                                                         *)
(* What a request may leave out is a set with at most one member.  Prices  *)
(* are in cents; amounts of money, which may be fractions of a cent, in    *)
(* tenths of one, as in Wallet.  A quantity or a price with more decimals  *)
(* than the database stores, which it rounds, is left out.                 *)
(***************************************************************************)
EXTENDS Wallet

CONSTANTS
  LimitPrices, SlippagePrices,  \* what requests may give, in cents
  Quantities,                   \* in 1 / UnitsPerBase
  MaxOrders                     \* bound: rows of orders

ASSUME PublicOrdersAssumption ==
  /\ LimitPrices \cup Quantities \cup SlippagePrices \subseteq Int
  /\ MaxOrders \in Nat
  /\ UnitsPerBase % 10 = 0

VARIABLE orders   \* table: sequence of orders, in the order of created_at

orderVars == <<walletVars, orders>>

Given(values) == {{}} \cup {{v} : v \in values}

PlaceOrderHttpRequest ==
  [side : {"bid", "ask"}, order_type : {"limit", "market"}, price : Given(LimitPrices),
   quantity : Given(Quantities), quote_amount : Given(Amounts),
   max_slippage_price : Given(SlippagePrices)]

\* 1000 EUR, in cents.
FallbackPrice == 100000

SlippagePrice(req) ==
  IF req.max_slippage_price = {} THEN FallbackPrice
  ELSE CHOOSE p \in req.max_slippage_price : TRUE

\* Spend an amount of money: the quantity is left out, or zero.
Spends(req) == req.quote_amount # {} /\ req.quantity \subseteq {0}

\* The early returns of place_order.  The slippage price has to be positive only where an
\* amount is divided by it.
Acceptable(req) ==
  /\ IF Spends(req)
     THEN /\ req.order_type = "market" /\ req.side = "bid"
          /\ \A a \in req.quote_amount : a > 0
          /\ SlippagePrice(req) > 0
     ELSE req.quantity # {} /\ \A q \in req.quantity : q > 0
  /\ req.order_type = "limit" => req.price # {} /\ \A p \in req.price : p > 0

\* Seeded mistake: rounded as money is, not as quantities are.
BoughtAsMoney(amount, price) ==
  RoundDp(amount * 100, 10 * price) * (UnitsPerBase \div 100)

\* The quantity an amount of money buys at a price: amount / price to the precision of KCN.
Bought(amount, price) == RoundDp(amount * (UnitsPerBase \div 10), price)

Quantity(req) ==
  IF Spends(req) THEN Bought(CHOOSE a \in req.quote_amount : TRUE, SlippagePrice(req))
  ELSE CHOOSE q \in req.quantity : TRUE

\* The price the order is stored with; a market ask has none.
StoredPrice(req) ==
  CASE req.order_type = "limit" -> CHOOSE p \in req.price : TRUE
    [] req.order_type = "market" /\ req.side = "bid" -> SlippagePrice(req)
    [] OTHER -> 0

\* calculate_lock_amount, and the account it is taken from.
LockAccount(o) == <<o.user, IF o.side = "bid" THEN "EUR" ELSE "KCN">>

LockAmount(o) == IF o.side = "bid" THEN RoundDp(o.price * o.quantity, UnitsPerBase) ELSE o.quantity

\* place_order and Order::place.
PlaceOrder(u, req) ==
  /\ Acceptable(req) /\ Len(orders) < MaxOrders
  /\ LET o == [user |-> u, side |-> req.side, price |-> StoredPrice(req), quantity |-> Quantity(req),
               status |-> "pending", spends |-> IF Spends(req) THEN req.quote_amount ELSE {}]
     IN  /\ AppendEntry(LockAccount(o), -LockAmount(o), "lock")
         /\ orders' = Append(orders, o)
  /\ UNCHANGED <<time, faucet_claims, claim, job>>

\* cancel_order and Order::cancel; nothing of these orders is ever filled.  An order for so
\* little money that it buys nothing cannot be cancelled: its quantity is divided by.  What a
\* negative price was credited with stays where it is.
CancelOrder(u, i) ==
  /\ i \in DOMAIN orders /\ orders[i].user = u /\ orders[i].status = "pending"
  /\ orders[i].quantity > 0
  /\ orders' = [orders EXCEPT ![i].status = "cancelled"]
  /\ IF LockAmount(orders[i]) > 0
     THEN AppendEntry(LockAccount(orders[i]), LockAmount(orders[i]), "unlock")
     ELSE UNCHANGED <<ledger, balances>>
  /\ UNCHANGED <<time, faucet_claims, claim, job>>

PublicOrdersInit == WalletInit /\ orders = << >>

PublicOrdersNext ==
  \/ WalletRequests /\ UNCHANGED orders
  \/ \E u \in Owners :
       \/ \E req \in PlaceOrderHttpRequest : PlaceOrder(u, req)
       \/ \E i \in 1 .. MaxOrders : CancelOrder(u, i)

-----------------------------------------------------------------------------
PublicOrdersTypeOK ==
  /\ WalletTypeOK
  /\ orders \in Seq([user : Owners, side : {"bid", "ask"}, price : Int, quantity : Nat,
                     status : {"pending", "cancelled"}, spends : Given(Amounts)])

\* A pending order holds what it locked.  The lock of a negative price is a credit, which no
\* cancellation takes back.
Holds(o) == o.status = "pending" \/ LockAmount(o) < 0

\* What the lock and unlock entries of an account took from it is what its pending orders
\* hold, less what orders of a negative price were credited with, cancelled or not; and an
\* order that was to spend an amount holds that amount but for what rounding its quantity and
\* its lock made of it: half a cent, and half the price of the smallest quantity.
LocksAddUp ==
  /\ \A a \in Holdings :
       Booked(a, {"lock", "unlock"}) + SumOver([i \in DOMAIN orders |-> LockAmount(orders[i])],
         {i \in DOMAIN orders : Holds(orders[i]) /\ LockAccount(orders[i]) = a}) = 0
  /\ \A i \in DOMAIN orders : \A amount \in orders[i].spends :
       LET roundings == UnitsPerBase + orders[i].price
       IN  2 * (10 * LockAmount(orders[i]) - amount) * (UnitsPerBase \div 10) \in -roundings .. roundings

=============================================================================
