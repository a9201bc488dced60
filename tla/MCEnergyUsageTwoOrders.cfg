SPECIFICATION FairSpec
CONSTANTS
  customer = customer
  oldPool = oldPool
  newPool = newPool
  A = A
  B = B
  k1 = k1
  k2 = k2
  p1 = p1
  Users = {customer}
  Purchases = {p1}
  BuyerOf <- MCBuyerOf
  CountOf <- MCCountOf
  Orders <- TwoOrders
  SpenderOf <- MCSpenderOf
  CostOf <- MCCostOf
  MayBeBlocked = {customer}
  Providers = {oldPool, newPool}
  NoProvider = NoProvider
  Processes = {B}
  CurrentOf <- MCCurrentOf
  KnownBy <- MCKnownBy
  Callers = {k2}
  ProcessOf <- MCProcessOf
  PageSize = 1
  MaxFaults = 1
INVARIANTS
  BalancesMatchLedger
PROPERTIES
  HeldCountIsSettled
CHECK_DEADLOCK FALSE
