SPECIFICATION Spec
CONSTANTS
  u1 = u1
  o1 = o1
  o2 = o2
  o3 = o3
  t1 = t1
  t2 = t2
  x1 = x1
  x2 = x2
  w1 = w1
  w2 = w2
  Users = {u1}
  Orders = {o1}
  Transfers = {t1, t2}
  Txids = {x1, x2}
  OwnerOf <- MCOneOwnerOf
  CountOf <- MCOneCountOf
  TxidOf <- MCTxidOf
  PaysFor <- MCOnePaysFor
  NoOrder = NoOrder
  NoPayment = NoPayment
  NoTransfer = NoTransfer
  RequiredConfirmations = 2
  MaxDepth = 2
  Workers = {w1, w2}
  MaxOrdersPerRun = 2
  MaxFaults = 1
SYMMETRY WorkersAndPaymentsAreAlike
INVARIANTS
  ReadingsStayTrue
  PromptPaymentsAreKept
  WorkersNeverHaltEachOther
PROPERTIES
  ImplementsSettlement
CHECK_DEADLOCK FALSE
