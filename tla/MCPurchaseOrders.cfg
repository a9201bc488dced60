SPECIFICATION FairSpec
CONSTANTS
  c1 = c1
  c2 = c2
  c3 = c3
  c4 = c4
  k1 = k1
  k2 = k2
  k3 = k3
  cheap = cheap
  other = other
  dear = dear
  Calls = {c1, c2, c3, c4}
  Keys = {k1, k2, k3}
  Payloads = {cheap, other, dear}
  KeyOf <- MCKeyOf
  PayloadOf <- MCPayloadOf
  PriceOf <- MCPriceOf
  AssetOf <- MCAssetOf
  MaxOffset = 1
  NoRow = NoRow
  NoOrder = NoOrder
  MaxAborts = 1
INVARIANTS
  TypeOK
  AnswersHold
PROPERTIES
  ImplementsOrderBook
  EveryCallEnds
