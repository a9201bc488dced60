--------------------------- MODULE MCPaymentReading ---------------------------
(* One transaction pays the order and carries a transfer of the same amount  *)
(* to somebody else; the other one is twice in the history of the shop and   *)
(* pays no order.                                                            *)
EXTENDS PaymentReading, TLC

CONSTANTS o1, x1, x2

MCTxidOf == 1 :> x1 @@ 2 :> x1 @@ 3 :> x2 @@ 4 :> x2
MCPaysFor == 1 :> o1 @@ 2 :> o1 @@ 3 :> NoOrder @@ 4 :> NoOrder
MCOurs == {1, 3, 4}
MCOpens == o1 :> 1
MCExpires == o1 :> 2
=============================================================================
