SPECIFICATION Spec
CONSTANTS
  Emails = {e1, e2}
  Codes = {k1}
  Calls = {c1, c2}
  MaxOtps = 2
  MaxTokens = 2
  MaxCalls = 3
  Owners = {u1}
  Amounts = {0, 5, 2015}
  Minted <- MCMinted
  UnitsPerBase = 1000000
  Claims = {f1, f2}
  Day = 2
  Last = 3
  MaxEntries = 3
  LimitPrices = {0, 1000}
  SlippagePrices <- MCSlippagePrices
  Quantities = {0, 1500}
  MaxOrders = 2
  Lengths = {1, 2}
  Costs <- MCCosts
  Sizes = {1}
  Times = {2, 3, 4}
  Settlements = {s1, s2}
  MaxSettlements = 3
INVARIANTS
  TypeOK
  Reconciles
  FaucetIsRationed
  LocksAddUp
  CandlesAddUp
PROPERTY
  SpentIsSpent
CHECK_DEADLOCK FALSE
