------------------------- MODULE MCPaymentSettlement -------------------------
(***************************************************************************)
(* Two orders of one customer; a transfer for each order, a second transfer *)
(* for o1, and one that matches nothing.  Transaction x2 carries transfers  *)
(* for both orders.                                                         *)
(***************************************************************************)
EXTENDS PaymentSettlement, TLC

CONSTANTS u1, o1, o2, t1, t2, t3, t4, x1, x2

MCOwnerOf == o1 :> u1 @@ o2 :> u1
MCCountOf == o1 :> 1 @@ o2 :> 2
MCTxidOf  == t1 :> x1 @@ t2 :> x2 @@ t3 :> x2 @@ t4 :> x1
MCPaysFor == t1 :> o1 @@ t2 :> o1 @@ t3 :> o2 @@ t4 :> NoOrder
=============================================================================
