-------------------------- MODULE MCReconciliation --------------------------
(***************************************************************************)
(* MCReconciliation: two processes and one order that is paid twice, so    *)
(* that two transactions race for it.  MCReconciliationLive: one process,  *)
(* three orders, two of which are paid in one transaction, and room for two*)
(* open orders, so that both fatal errors happen.                          *)
(***************************************************************************)
EXTENDS Reconciliation, TLC

CONSTANTS u1, o1, o2, o3, t1, t2, x1, x2, w1, w2

(* The two processes are interchangeable, and so are the two payments of     *)
(* MCReconciliation, each with its transaction.                              *)
PaymentsSwapped == t1 :> t2 @@ t2 :> t1 @@ x1 :> x2 @@ x2 :> x1
PaymentsKept == t1 :> t1 @@ t2 :> t2 @@ x1 :> x1 @@ x2 :> x2
WorkersAndPaymentsAreAlike ==
  {workers @@ payments : workers \in Permutations(Workers),
                         payments \in {PaymentsKept, PaymentsSwapped}}

MCOwnerOf == o1 :> u1 @@ o2 :> u1 @@ o3 :> u1
MCCountOf == o1 :> 1 @@ o2 :> 2 @@ o3 :> 1
MCPaysFor == t1 :> o1 @@ t2 :> o2
MCTxidOf  == t1 :> x1 @@ t2 :> x2
MCSharedTxidOf == t1 :> x1 @@ t2 :> x1

MCOneOwnerOf == o1 :> u1
MCOneCountOf == o1 :> 1
MCOnePaysFor == t1 :> o1 @@ t2 :> o1
=============================================================================
