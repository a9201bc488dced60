--------------------------- MODULE MCPurchaseOrders ---------------------------
(* c1 and c2 are copies of one confirmation, c3 is for a dearer package and  *)
(* c4 for another one at the price of the first; the ranges of the packages  *)
(* overlap and hold fewer amounts than there are orders.                     *)
EXTENDS PurchaseOrders, TLC

CONSTANTS c1, c2, c3, c4, k1, k2, k3, cheap, other, dear

MCKeyOf == c1 :> k1 @@ c2 :> k1 @@ c3 :> k2 @@ c4 :> k3
MCPayloadOf == c1 :> cheap @@ c2 :> cheap @@ c3 :> dear @@ c4 :> other
MCPriceOf == cheap :> 1 @@ other :> 1 @@ dear :> 2
MCAssetOf == [p \in Payloads |-> "USDT"]
=============================================================================
