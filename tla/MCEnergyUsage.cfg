SPECIFICATION FairSpec
CONSTANTS
  customer = customer
  oldPool = oldPool
  newPool = newPool
  A = A
  B = B
  k1 = k1
  k2 = k2
  p1 = p1
  Users = {customer}
  Purchases = {p1}
  BuyerOf <- MCBuyerOf
  CountOf <- MCCountOf
  Orders <- OneOrder
  SpenderOf <- MCSpenderOf
  CostOf <- MCCostOf
  MayBeBlocked = {}
  Providers = {oldPool, newPool}
  NoProvider = NoProvider
  Processes = {A, B}
  CurrentOf <- MCCurrentOf
  KnownBy <- MCKnownBy
  Callers = {k1}
  ProcessOf <- MCProcessOf
  PageSize = 1
  MaxFaults = 2
INVARIANTS
  TypeOK
  LedgerMatchesOrders
  OneProviderPerOrder
  CountFollowsDelivery
  AnswersAreApplicable
PROPERTIES
  DeliveryNeverRegresses
  ImplementsCountAccount
  HeldCountIsSettled
CHECK_DEADLOCK FALSE
