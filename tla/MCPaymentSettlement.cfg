SPECIFICATION Spec
CONSTANTS
  u1 = u1
  o1 = o1
  o2 = o2
  t1 = t1
  t2 = t2
  t3 = t3
  t4 = t4
  x1 = x1
  x2 = x2
  Users = {u1}
  Orders = {o1, o2}
  Transfers = {t1, t2, t3, t4}
  Txids = {x1, x2}
  OwnerOf <- MCOwnerOf
  CountOf <- MCCountOf
  TxidOf <- MCTxidOf
  PaysFor <- MCPaysFor
  NoOrder = NoOrder
  NoPayment = NoPayment
  RequiredConfirmations = 2
  MaxDepth = 3
INVARIANTS
  TypeOK
  OrderMatchesEvidence
  CreditsAreSound
  PersistenceNeverRefuses
PROPERTIES
  NothingIsTakenBack
  ImplementsCountAccount
CHECK_DEADLOCK FALSE
