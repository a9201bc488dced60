--------------------------- MODULE MCEnergyUsage ---------------------------
(***************************************************************************)
(* During a deployment process A still has only oldPool, while B already    *)
(* dispatches to newPool and can resume both.  One customer has count for   *)
(* one of two orders.                                                       *)
(***************************************************************************)
EXTENDS EnergyUsage, TLC

CONSTANTS customer, oldPool, newPool, A, B, k1, k2, p1

OneOrder == 1..1
TwoOrders == 1..2
MCBuyerOf == p1 :> customer
MCCountOf == p1 :> 2
MCSpenderOf == [o \in Orders |-> customer]
MCCostOf == [o \in Orders |-> IF o = 1 THEN 1 ELSE 2]
MCCurrentOf == [p \in Processes |-> IF p = A THEN oldPool ELSE newPool]
MCKnownBy == [p \in Processes |-> IF p = A THEN {oldPool} ELSE {oldPool, newPool}]
MCProcessOf == [c \in Callers |-> IF c = k1 THEN A ELSE B]
=============================================================================
