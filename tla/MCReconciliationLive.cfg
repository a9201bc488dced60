SPECIFICATION FairSpec
CONSTANTS
  u1 = u1
  o1 = o1
  o2 = o2
  o3 = o3
  t1 = t1
  t2 = t2
  x1 = x1
  x2 = x2
  w1 = w1
  w2 = w2
  Users = {u1}
  Orders = {o1, o2, o3}
  Transfers = {t1, t2}
  Txids = {x1}
  OwnerOf <- MCOwnerOf
  CountOf <- MCCountOf
  TxidOf <- MCSharedTxidOf
  PaysFor <- MCPaysFor
  NoOrder = NoOrder
  NoPayment = NoPayment
  NoTransfer = NoTransfer
  RequiredConfirmations = 1
  MaxDepth = 1
  Workers = {w1}
  MaxOrdersPerRun = 2
  MaxFaults = 1
PROPERTIES
  DetectedIsCredited
  OverdueIsDecided
CHECK_DEADLOCK FALSE
