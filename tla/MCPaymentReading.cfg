SPECIFICATION FairSpec
CONSTANTS
  o1 = o1
  x1 = x1
  x2 = x2
  Orders = {o1}
  NoOrder = NoOrder
  Opens <- MCOpens
  Expires <- MCExpires
  Txids = {x1, x2}
  NumTransfers = 4
  TxidOf <- MCTxidOf
  PaysFor <- MCPaysFor
  Ours <- MCOurs
  PageSize = 1
  MaxPages = 2
  RequiredConfirmations = 2
  MaxLag = 1
  LastPayment = 3
  MaxHeight = 5
  MaxFaults = 1
INVARIANTS
  TypeOK
  PromptPaymentsAreKept
PROPERTIES
  ImplementsFeed
  ShownPaymentsAreConfirmed
CHECK_DEADLOCK FALSE
