----------------------- MODULE PaymentSettlementProofs -----------------------
(***************************************************************************)
(* The settlement invariants, for any set of customers, orders, transfers  *)
(* and chain transactions, any confirmation demand and any assignment of   *)
(* transfers to transactions.                                              *)
(*                                                                         *)
(* The properties are not inductive one by one: that an order is credited  *)
(* once rests on its having one confirmed payment, which rests on an open  *)
(* order having none, which rests on how the planner moves an order and    *)
(* its row together.  Settled is the conjunction that is inductive.        *)
(***************************************************************************)
EXTENDS PaymentSettlement, PaymentEvidenceProofs

(* Every row is backed by what the chain holds: its transfer is one of the   *)
(* row's transaction and of exactly the order's amount, and a confirmed row  *)
(* names a deep enough success.                                              *)
RowsAreBacked ==
  \A x \in Txids : payment[x] # NoPayment =>
    /\ TxidOf[payment[x].transfer] = x
    /\ PaysFor[payment[x].transfer] = payment[x].order
    /\ payment[x].status = "confirmed" =>
         chain[x].state = "success" /\ chain[x].depth >= RequiredConfirmations

(* An order has at most one confirmed payment.                               *)
OneConfirmedPayment ==
  \A o \in Orders : \A x, y \in ConfirmedPayments(o) : x = y

(* A row with the given status belongs to the order.                         *)
Owns(o, status) ==
  \E x \in Txids :
    payment[x] # NoPayment /\ payment[x].order = o /\ payment[x].status = status

(* OrderMatchesEvidence without sets of statuses.                            *)
EvidenceFor(o) ==
  /\ orderStatus[o] \in {"absent", "waiting_payment", "expired"}
       => \A s \in TransactionStates : ~Owns(o, s)
  /\ orderStatus[o] = "payment_detected"
       => Owns(o, "detected") /\ \A s \in TransactionStates : Owns(o, s) => s = "detected"
  /\ orderStatus[o] = "confirming"
       => Owns(o, "confirming") /\ ~Owns(o, "confirmed") /\ ~Owns(o, "rejected")
  /\ orderStatus[o] = "failed" => Owns(o, "rejected") /\ ~Owns(o, "confirmed")
  /\ orderStatus[o] \in {"paid", "credited"}
       => Owns(o, "confirmed") /\ ~Owns(o, "rejected")

OrdersMatchRows == \A o \in Orders : EvidenceFor(o)

Settled ==
  /\ TypeOK
  /\ RowsAreBacked
  /\ OneConfirmedPayment
  /\ OrdersMatchRows
  /\ CreditedExactlyOnce

-----------------------------------------------------------------------------
(* The two statements of how orders and rows agree are the same.             *)
LEMMA EvidenceAsSets ==
  ASSUME TypeOK, OrdersMatchRows
  PROVE  OrderMatchesEvidence
<1> SUFFICES ASSUME NEW o \in Orders
    PROVE LET statuses == {payment[x].status : x \in PaymentsOf(o)}
          IN  /\ orderStatus[o] \in {"absent", "waiting_payment", "expired"}
                   => statuses = {}
              /\ orderStatus[o] = "payment_detected" => statuses = {"detected"}
              /\ orderStatus[o] = "confirming"
                   => "confirming" \in statuses /\ statuses \subseteq {"detected", "confirming"}
              /\ orderStatus[o] = "failed"
                   => "rejected" \in statuses /\ "confirmed" \notin statuses
              /\ orderStatus[o] \in {"paid", "credited"}
                   => "confirmed" \in statuses /\ "rejected" \notin statuses
  BY DEF OrderMatchesEvidence
<1> DEFINE statuses == {payment[x].status : x \in PaymentsOf(o)}
<1>1. \A s : s \in statuses <=> Owns(o, s)
  BY DEF PaymentsOf, Owns
<1>2. statuses \subseteq TransactionStates
  BY DEF PaymentsOf, TypeOK, PaymentRow
<1> HIDE DEF statuses
<1>3. EvidenceFor(o) BY DEF OrdersMatchRows
<1>4. orderStatus[o] \in {"absent", "waiting_payment", "expired"} => statuses = {}
  BY <1>1, <1>2, <1>3 DEF EvidenceFor
<1>5. orderStatus[o] = "payment_detected" => statuses = {"detected"}
  BY <1>1, <1>2, <1>3 DEF EvidenceFor
<1>6. orderStatus[o] = "confirming"
        => "confirming" \in statuses /\ statuses \subseteq {"detected", "confirming"}
  BY <1>1, <1>2, <1>3 DEF EvidenceFor, TransactionStates
<1>7. orderStatus[o] = "failed" => "rejected" \in statuses /\ "confirmed" \notin statuses
  BY <1>1, <1>3 DEF EvidenceFor
<1>8. orderStatus[o] \in {"paid", "credited"}
        => "confirmed" \in statuses /\ "rejected" \notin statuses
  BY <1>1, <1>3 DEF EvidenceFor
<1> QED BY <1>4, <1>5, <1>6, <1>7, <1>8 DEF statuses

-----------------------------------------------------------------------------
(* Everything the other proofs need of one applyObservation that commits:    *)
(* the order was open, its transaction had no row or a row of the same order *)
(* and event, and the row and the order move to matching statuses.           *)
LEMMA AppliedObservation ==
  ASSUME TypeOK,
         NEW o \in Orders, NEW t \in Transfers,
         NEW obs \in ObservationsOf(TxidOf[t]),
         ApplyResult(o, t, obs) = "applied"
  PROVE  LET x == TxidOf[t]
             row == MergedRow(o, t, obs)
             after == OrderAfter(orderStatus[o], PlanFor(o, t, obs).path)
         IN  /\ x \in Txids
             /\ orderStatus[o] \in OpenStates
             /\ payment[x] # NoPayment =>
                  payment[x].order = o /\ payment[x].transfer = t
             /\ PaysFor[t] = o
             /\ row \in PaymentRow
             /\ row.order = o /\ row.transfer = t
             /\ row.status = PlanFor(o, t, obs).status
             /\ payment[x] # NoPayment =>
                  /\ row.confirmations >= payment[x].confirmations
                  /\ payment[x].status = "confirming" => row.status # "detected"
                  /\ payment[x].status \in {"confirmed", "rejected"} =>
                       row.status = payment[x].status
             /\ row.status = "confirmed" =>
                  \/ payment[x] # NoPayment /\ payment[x].status = "confirmed"
                  \/ /\ chain[x].state = "success"
                     /\ chain[x].depth >= RequiredConfirmations
             /\ row.status = "detected" =>
                  after = (IF orderStatus[o] = "waiting_payment" THEN "payment_detected"
                                                                 ELSE orderStatus[o])
             /\ row.status = "confirming" => after = "confirming"
             /\ row.status = "confirmed" => after = "paid"
             /\ row.status = "rejected" => after = "failed"
<1> DEFINE x == TxidOf[t]
           evaluation == EvaluatePaymentObservation(PaysFor[t] = o, RequiredConfirmations, obs)
           plan == PlanPaymentEvidenceLifecycle(evaluation, orderStatus[o], StatusOf(x))
           row == MergedRow(o, t, obs)
<1>1. /\ orderStatus[o] # "absent"
      /\ ~ExistingConflict(o, t)
      /\ plan.kind = "apply"
      /\ plan = PlanFor(o, t, obs)
  BY DEF ApplyResult, PlanFor
<1>2. x \in Txids
  BY TransfersHaveTxids
<1>3. evaluation \in Evaluations
  BY DEF EvaluatePaymentObservation, Evaluations
<1>4. payment[x] # NoPayment => payment[x] \in PaymentRow
  BY <1>2 DEF TypeOK
<1>5. StatusOf(x) \in RecordedStates
  BY <1>4 DEF StatusOf, RecordedStates, PaymentRow
<1>6. orderStatus[o] \in (PurchaseStates \ {"created"}) \cup {"absent"}
  BY DEF TypeOK
<1> HIDE DEF x, evaluation
<1>7. LET after == OrderAfter(orderStatus[o], plan.path)
      IN  /\ evaluation # "mismatch"
          /\ orderStatus[o] \in OpenStates
          /\ plan.status \in TransactionStates
          /\ plan.status = MergeTransactionStatus(StatusOf(x), TargetForEvaluation(evaluation))
          /\ plan.status = "detected" =>
               after = (IF orderStatus[o] = "waiting_payment" THEN "payment_detected"
                                                              ELSE orderStatus[o])
          /\ plan.status = "confirming" => after = "confirming"
          /\ plan.status = "confirmed" => after = "paid"
          /\ plan.status = "rejected" => after = "failed"
  BY <1>1, <1>3, <1>5, <1>6, AppliedPlan
<1> HIDE DEF plan
<1>8. obs.confirmations \in Nat /\
      (evaluation = "confirmed" =>
         chain[x].state = "success" /\ chain[x].depth >= RequiredConfirmations)
  <2>1. chain[x] \in [state : ChainStates, depth : Nat]
    BY <1>2 DEF TypeOK
  <2>2. obs \in ObservationsOf(x) BY DEF x
  <2>3. CASE obs = CandidateObservation
    BY <2>3 DEF CandidateObservation, EvaluatePaymentObservation, evaluation
  <2>4. CASE obs \in FinalObservations(x)
    <3>1. PICK d \in 1..chain[x].depth :
            obs = [solidified |-> TRUE, source |-> "solidified_node",
                   execution |-> chain[x].state, confirmations |-> d]
      BY <2>4 DEF FinalObservations
    <3>2. obs.confirmations = d /\ obs.execution = chain[x].state /\ d \in Nat
      BY <3>1, <2>1
    <3>3. chain[x].state \in ChainStates /\ chain[x].depth \in Nat BY <2>1
    <3>4. chain[x].state \notin {"unseen", "head"}
      BY <2>2, <2>4 DEF ObservationsOf, FinalObservations, CandidateObservation
    <3>5. evaluation = "confirmed" =>
            obs.execution \notin {"failed", "unknown"}
              /\ ~(obs.confirmations < RequiredConfirmations)
      BY DEF EvaluatePaymentObservation, evaluation
    <3> QED BY <3>2, <3>3, <3>4, <3>5, ConfirmationsArePositive DEF ChainStates
  <2> QED BY <2>2, <2>3, <2>4 DEF ObservationsOf
<1>9. payment[x] # NoPayment => payment[x].order = o /\ payment[x].transfer = t
  BY <1>1 DEF ExistingConflict, x
<1>10. PaysFor[t] = o
  BY <1>7 DEF EvaluatePaymentObservation, evaluation
<1>11. row = [order |-> o, transfer |-> t,
              confirmations |-> IF payment[x] = NoPayment THEN obs.confirmations
                                ELSE MaxOf(payment[x].confirmations, obs.confirmations),
              status |-> plan.status]
  BY <1>1 DEF MergedRow, x
<1> HIDE DEF row
<1>12. payment[x] # NoPayment => payment[x].confirmations \in Nat
  BY <1>4 DEF PaymentRow
<1>13. /\ row.confirmations \in Nat
       /\ payment[x] # NoPayment => row.confirmations >= payment[x].confirmations
  BY <1>8, <1>11, <1>12 DEF MaxOf
<1>14. /\ row.order = o /\ row.transfer = t /\ row.status = plan.status
       /\ row \in PaymentRow
  BY <1>7, <1>11, <1>13 DEF PaymentRow
<1>15. evaluation # "mismatch" => TargetForEvaluation(evaluation) \in TransactionStates
  BY <1>3 DEF TargetForEvaluation, Evaluations, TransactionStates
<1>16. payment[x] # NoPayment =>
         /\ payment[x].status = "confirming" => plan.status # "detected"
         /\ payment[x].status \in {"confirmed", "rejected"} => plan.status = payment[x].status
  <2> SUFFICES ASSUME payment[x] # NoPayment
      PROVE /\ payment[x].status = "confirming" => plan.status # "detected"
            /\ payment[x].status \in {"confirmed", "rejected"} => plan.status = payment[x].status
    OBVIOUS
  <2>1. payment[x].status \in TransactionStates /\ StatusOf(x) = payment[x].status
    BY <1>4 DEF PaymentRow, StatusOf
  <2>2. plan.status # "conflict" BY <1>7 DEF TransactionStates
  <2> QED BY <2>1, <2>2, <1>7, <1>15, MergeStrengthens
<1>17. plan.status = "confirmed" =>
         \/ payment[x] # NoPayment /\ payment[x].status = "confirmed"
         \/ chain[x].state = "success" /\ chain[x].depth >= RequiredConfirmations
  <2> SUFFICES ASSUME plan.status = "confirmed", evaluation # "confirmed"
      PROVE payment[x] # NoPayment /\ payment[x].status = "confirmed"
    BY <1>8
  <2>1. TargetForEvaluation(evaluation) # "confirmed"
    BY <1>3, <1>7 DEF TargetForEvaluation, Evaluations
  <2>2. StatusOf(x) = "confirmed"
    BY <2>1, <1>7, <1>5 DEF MergeTransactionStatus, RecordedStates, TransactionStates
  <2> QED BY <2>2 DEF StatusOf
<1> QED BY <1>1, <1>2, <1>7, <1>9, <1>10, <1>13, <1>14, <1>16, <1>17 DEF x, row
-----------------------------------------------------------------------------
(* One lemma per kind of step.                                               *)

LEMMA InitSettled == Init => Settled
<1> SUFFICES ASSUME Init PROVE Settled
  OBVIOUS
<1>1. TypeOK
  BY DEF Init, TypeOK, ChainStates
<1>2. RowsAreBacked BY DEF Init, RowsAreBacked
<1>3. OneConfirmedPayment
  BY DEF Init, OneConfirmedPayment, ConfirmedPayments
<1>4. OrdersMatchRows
  BY DEF Init, OrdersMatchRows, EvidenceFor, Owns
<1>5. CreditedExactlyOnce
  BY DEF Init, CreditedExactlyOnce
<1> QED BY <1>1, <1>2, <1>3, <1>4, <1>5 DEF Settled

(* Creating, expiring and letting time pass change no row and no ledger      *)
(* entry, and take an order only from and to states without evidence.        *)
LEMMA OrderStepsSettled ==
  ASSUME Settled, NEW o \in Orders,
         CreateOrder(o) \/ PassDeadline(o) \/ ExpireWaitingOrder(o)
  PROVE  Settled'
<1>1. /\ UNCHANGED <<payment, ledger, available, chain>>
      /\ \/ orderStatus' = orderStatus
         \/ /\ orderStatus[o] \in {"absent", "waiting_payment"}
            /\ \E s \in {"waiting_payment", "expired"} :
                 orderStatus' = [orderStatus EXCEPT ![o] = s]
  BY DEF CreateOrder, PassDeadline, ExpireWaitingOrder
<1>2. TypeOK'
  <2>1. overdue' \subseteq Orders
    BY DEF Settled, TypeOK, CreateOrder, PassDeadline, ExpireWaitingOrder
  <2>2. orderStatus' \in [Orders -> (PurchaseStates \ {"created"}) \cup {"absent"}]
    BY <1>1 DEF Settled, TypeOK, PurchaseStates
  <2> QED BY <1>1, <2>1, <2>2 DEF Settled, TypeOK
<1>3. RowsAreBacked'
  BY <1>1 DEF Settled, RowsAreBacked
<1>4. OneConfirmedPayment'
  BY <1>1 DEF Settled, OneConfirmedPayment, ConfirmedPayments
<1>5. \A p \in Orders : \A s : Owns(p, s)' = Owns(p, s)
  BY <1>1 DEF Owns
<1>6. OrdersMatchRows'
  <2> SUFFICES ASSUME NEW p \in Orders PROVE EvidenceFor(p)'
    BY DEF OrdersMatchRows
  <2>1. EvidenceFor(p) BY DEF Settled, OrdersMatchRows
  <2>2. \/ orderStatus'[p] = orderStatus[p]
        \/ /\ orderStatus[p] \in {"absent", "waiting_payment"}
           /\ orderStatus'[p] \in {"waiting_payment", "expired"}
    BY <1>1 DEF Settled, TypeOK
  <2> QED BY <1>5, <2>1, <2>2 DEF EvidenceFor
<1>7. CreditedExactlyOnce'
  <2>1. \A p \in Orders : orderStatus'[p] = "credited" <=> orderStatus[p] = "credited"
    BY <1>1 DEF Settled, TypeOK
  <2>2. \A p : ConfirmedPayments(p)' = ConfirmedPayments(p)
    BY <1>1 DEF ConfirmedPayments
  <2>3. \A row \in ledger : row.order \in Orders
    BY DEF Settled, TypeOK, LedgerRow
  <2> QED BY <1>1, <2>1, <2>2, <2>3 DEF Settled, CreditedExactlyOnce, CreditRow
<1> QED BY <1>2, <1>3, <1>4, <1>6, <1>7 DEF Settled

(* The chain only grows: what backed a row still backs it.                   *)
LEMMA ChainStepsSettled ==
  ASSUME Settled, NEW x \in Txids,
         \/ TransactionAppears(x) \/ BlockIsAdded(x)
         \/ \E e \in {"success", "failed"} : TransactionSolidifies(x, e)
  PROVE  Settled'
<1>1. UNCHANGED <<orderStatus, overdue, payment, ledger, available>>
  BY DEF TransactionAppears, BlockIsAdded, TransactionSolidifies
<1>2. /\ chain' \in [Txids -> [state : ChainStates, depth : Nat]]
      /\ \A y \in Txids : chain[y].state = "success" =>
           chain'[y].state = "success" /\ chain'[y].depth >= chain[y].depth
  <2>1. chain \in [Txids -> [state : ChainStates, depth : Nat]]
    BY DEF Settled, TypeOK
  <2>2. CASE TransactionAppears(x)
    BY <2>1, <2>2 DEF TransactionAppears, ChainStates
  <2>3. CASE BlockIsAdded(x)
    BY <2>1, <2>3 DEF BlockIsAdded, ChainStates
  <2>4. CASE \E e \in {"success", "failed"} : TransactionSolidifies(x, e)
    BY <2>1, <2>4 DEF TransactionSolidifies, ChainStates
  <2> QED BY <2>2, <2>3, <2>4
<1>3. TypeOK'
  BY <1>1, <1>2 DEF Settled, TypeOK
<1>4. RowsAreBacked'
  <2>1. \A y \in Txids : chain[y].depth \in Nat /\ chain'[y].depth \in Nat
    BY <1>2 DEF Settled, TypeOK
  <2> QED BY <1>1, <1>2, <2>1, ConfirmationsArePositive DEF Settled, RowsAreBacked
<1>5. OneConfirmedPayment'
  BY <1>1 DEF Settled, OneConfirmedPayment, ConfirmedPayments
<1>6. OrdersMatchRows'
  BY <1>1 DEF Settled, OrdersMatchRows, EvidenceFor, Owns
<1>7. CreditedExactlyOnce'
  BY <1>1 DEF Settled, CreditedExactlyOnce, CreditRow, ConfirmedPayments
<1> QED BY <1>3, <1>4, <1>5, <1>6, <1>7 DEF Settled

(* An observation touches the rows and the status of one open order.         *)
LEMMA ApplySettled ==
  ASSUME Settled,
         NEW o \in Orders, NEW t \in Transfers, NEW obs \in ObservationsOf(TxidOf[t]),
         ApplyObservation(o, t, obs)
  PROVE  Settled'
<1> DEFINE x == TxidOf[t]
           row == MergedRow(o, t, obs)
           after == OrderAfter(orderStatus[o], PlanFor(o, t, obs).path)
<1>1. /\ TypeOK /\ RowsAreBacked /\ OneConfirmedPayment /\ CreditedExactlyOnce
      /\ EvidenceFor(o)
      /\ ApplyResult(o, t, obs) = "applied"
  BY DEF Settled, OrdersMatchRows, ApplyObservation
<1>2. /\ x \in Txids
      /\ orderStatus[o] \in OpenStates
      /\ payment[x] # NoPayment => payment[x].order = o /\ payment[x].transfer = t
      /\ PaysFor[t] = o
      /\ row \in PaymentRow
      /\ row.order = o /\ row.transfer = t
      /\ row.status = PlanFor(o, t, obs).status
      /\ payment[x] # NoPayment =>
           /\ row.confirmations >= payment[x].confirmations
           /\ payment[x].status = "confirming" => row.status # "detected"
           /\ payment[x].status \in {"confirmed", "rejected"} =>
                row.status = payment[x].status
      /\ row.status = "confirmed" =>
           \/ payment[x] # NoPayment /\ payment[x].status = "confirmed"
           \/ chain[x].state = "success" /\ chain[x].depth >= RequiredConfirmations
      /\ row.status = "detected" =>
           after = (IF orderStatus[o] = "waiting_payment" THEN "payment_detected"
                                                          ELSE orderStatus[o])
      /\ row.status = "confirming" => after = "confirming"
      /\ row.status = "confirmed" => after = "paid"
      /\ row.status = "rejected" => after = "failed"
  BY <1>1, AppliedObservation
<1>3. /\ payment' = [payment EXCEPT ![x] = row]
      /\ orderStatus' = [orderStatus EXCEPT ![o] = after]
      /\ UNCHANGED <<overdue, ledger, available, chain>>
      /\ row.status = "confirmed" => ConfirmedPayments(o) \subseteq {x}
  BY <1>2 DEF ApplyObservation, UniqueConfirmedPayment
<1> HIDE DEF x, row, after
<1>4. row.status \in TransactionStates /\ row # NoPayment
  BY <1>2, NoPaymentIsNoRow DEF PaymentRow
<1>5. after \in PurchaseStates \ {"created"} /\ after # "credited"
  BY <1>2, <1>4 DEF TransactionStates, OpenStates, PurchaseStates
<1>6. /\ payment'[x] = row
      /\ \A y \in Txids : y # x => payment'[y] = payment[y]
      /\ orderStatus'[o] = after
      /\ \A p \in Orders : p # o => orderStatus'[p] = orderStatus[p]
  BY <1>1, <1>2, <1>3 DEF TypeOK
<1>7. TypeOK'
  BY <1>1, <1>2, <1>3, <1>5 DEF TypeOK
<1>8. RowsAreBacked'
  <2> SUFFICES ASSUME NEW y \in Txids, payment'[y] # NoPayment
      PROVE /\ TxidOf[payment'[y].transfer] = y
            /\ PaysFor[payment'[y].transfer] = payment'[y].order
            /\ payment'[y].status = "confirmed" =>
                 chain'[y].state = "success" /\ chain'[y].depth >= RequiredConfirmations
    BY DEF RowsAreBacked
  <2>1. CASE y = x
    BY <2>1, <1>1, <1>2, <1>3, <1>6 DEF RowsAreBacked, x
  <2>2. CASE y # x
    BY <2>2, <1>1, <1>3, <1>6 DEF RowsAreBacked
  <2> QED BY <2>1, <2>2
<1>9. \A p \in Orders : p # o => ConfirmedPayments(p)' = ConfirmedPayments(p)
  <2> SUFFICES ASSUME NEW p \in Orders, p # o, NEW y \in Txids
      PROVE (payment'[y] # NoPayment /\ payment'[y].order = p /\ payment'[y].status = "confirmed")
        <=> (payment[y] # NoPayment /\ payment[y].order = p /\ payment[y].status = "confirmed")
    BY DEF ConfirmedPayments
  <2> QED BY <1>2, <1>6
<1>10. OneConfirmedPayment'
  <2> SUFFICES ASSUME NEW p \in Orders, NEW y \in ConfirmedPayments(p)',
                      NEW z \in ConfirmedPayments(p)'
      PROVE y = z
    BY DEF OneConfirmedPayment
  <2>1. CASE p # o
    BY <2>1, <1>1, <1>9 DEF OneConfirmedPayment
  <2>2. CASE p = o /\ row.status = "confirmed"
    <3>1. \A w \in ConfirmedPayments(o)' : w = x
      BY <2>2, <1>3, <1>6 DEF ConfirmedPayments
    <3> QED BY <2>2, <3>1
  <2>3. CASE p = o /\ row.status # "confirmed"
    <3>1. \A w \in ConfirmedPayments(o)' : w \in ConfirmedPayments(o)
      BY <2>3, <1>6 DEF ConfirmedPayments
    <3> QED BY <2>3, <3>1, <1>1 DEF OneConfirmedPayment
  <2> QED BY <2>1, <2>2, <2>3
<1>11. OrdersMatchRows'
  <2>1. \A p \in Orders : \A s : p # o => Owns(p, s)' = Owns(p, s)
    <3> SUFFICES ASSUME NEW p \in Orders, p # o, NEW s, NEW y \in Txids
        PROVE (payment'[y] # NoPayment /\ payment'[y].order = p /\ payment'[y].status = s)
          <=> (payment[y] # NoPayment /\ payment[y].order = p /\ payment[y].status = s)
      BY DEF Owns
    <3> QED BY <1>2, <1>6
  <2>2. \A s : s = row.status => Owns(o, s)'
    BY <1>2, <1>4, <1>6 DEF Owns
  <2>3. \A s : Owns(o, s)' => s = row.status \/ Owns(o, s)
    BY <1>6 DEF Owns
  <2>4. \A s : Owns(o, s) =>
          \/ Owns(o, s)'
          \/ payment[x] # NoPayment /\ payment[x].order = o /\ payment[x].status = s
    BY <1>6 DEF Owns
  <2>5. Owns(o, "confirming") => Owns(o, "confirming")' \/ row.status # "detected"
    BY <2>4, <1>2
  <2>6. EvidenceFor(o)'
    <3>1. /\ Owns(o, "detected")' => row.status = "detected" \/ Owns(o, "detected")
          /\ Owns(o, "confirming")' => row.status = "confirming" \/ Owns(o, "confirming")
          /\ Owns(o, "confirmed")' => row.status = "confirmed" \/ Owns(o, "confirmed")
          /\ Owns(o, "rejected")' => row.status = "rejected" \/ Owns(o, "rejected")
      BY <2>3
    <3>2. /\ ~Owns(o, "confirmed") /\ ~Owns(o, "rejected")
          /\ orderStatus[o] = "waiting_payment" => ~Owns(o, "detected") /\ ~Owns(o, "confirming")
          /\ orderStatus[o] = "payment_detected" => ~Owns(o, "confirming")
          /\ orderStatus[o] = "confirming" => Owns(o, "confirming")
      BY <1>1, <1>2 DEF EvidenceFor, OpenStates, TransactionStates
    <3>3. orderStatus'[o] = after BY <1>6
    <3>4. CASE row.status = "detected"
      <4>1. Owns(o, "detected")' /\ ~Owns(o, "confirmed")' /\ ~Owns(o, "rejected")'
        BY <3>1, <3>2, <3>4, <2>2
      <4>2. CASE after = "payment_detected"
        <5>1. orderStatus[o] # "confirming" BY <1>2, <3>4, <4>2
        <5>2. ~Owns(o, "confirming")' BY <5>1, <1>2, <3>1, <3>2, <3>4 DEF OpenStates
        <5> QED BY <4>1, <4>2, <5>2, <3>3 DEF EvidenceFor, TransactionStates
      <4>3. CASE after # "payment_detected"
        <5>1. orderStatus[o] = "confirming" /\ after = "confirming"
          BY <1>2, <3>4, <4>3 DEF OpenStates
        <5>2. Owns(o, "confirming")' BY <5>1, <3>2, <3>4, <2>5
        <5> QED BY <4>1, <5>1, <5>2, <3>3 DEF EvidenceFor
      <4> QED BY <4>2, <4>3
    <3>5. CASE row.status = "confirming"
      <4>1. Owns(o, "confirming")' /\ ~Owns(o, "confirmed")' /\ ~Owns(o, "rejected")'
        BY <3>1, <3>2, <3>5, <2>2
      <4> QED BY <4>1, <3>3, <3>5, <1>2 DEF EvidenceFor
    <3>6. CASE row.status = "confirmed"
      <4>1. Owns(o, "confirmed")' /\ ~Owns(o, "rejected")'
        BY <3>1, <3>2, <3>6, <2>2
      <4> QED BY <4>1, <3>3, <3>6, <1>2 DEF EvidenceFor
    <3>7. CASE row.status = "rejected"
      <4>1. Owns(o, "rejected")' /\ ~Owns(o, "confirmed")'
        BY <3>1, <3>2, <3>7, <2>2
      <4> QED BY <4>1, <3>3, <3>7, <1>2 DEF EvidenceFor
    <3> QED BY <3>4, <3>5, <3>6, <3>7, <1>4 DEF TransactionStates
  <2>7. \A p \in Orders : p # o => EvidenceFor(p)'
    BY <2>1, <1>6 DEF EvidenceFor, Settled, OrdersMatchRows
  <2> QED BY <2>6, <2>7 DEF OrdersMatchRows
<1>12. CreditedExactlyOnce'
  <2>1. \A r \in ledger : r.order \in Orders /\ r.order # o
    BY <1>1, <1>2 DEF CreditedExactlyOnce, TypeOK, LedgerRow, OpenStates
  <2>2. \A p \in Orders : orderStatus'[p] = "credited" <=> orderStatus[p] = "credited"
    BY <1>2, <1>5, <1>6 DEF OpenStates
  <2> QED BY <2>1, <2>2, <1>1, <1>3, <1>9 DEF CreditedExactlyOnce, CreditRow
<1> QED BY <1>7, <1>8, <1>10, <1>11, <1>12 DEF Settled

(* Crediting turns one paid order with one confirmed payment into one new    *)
(* ledger row; that no row of the order or of the transaction exists is what *)
(* creditPaidOrder looked up under the order lock.                           *)
LEMMA CreditFacts ==
  ASSUME TypeOK, OneConfirmedPayment, NEW o \in Orders, CreditPaidOrder(o)
  PROVE  \E x \in Txids :
           /\ orderStatus[o] = "paid"
           /\ ConfirmedPayments(o) = {x}
           /\ ExistingCredits(o, x) = {}
           /\ ledger' = ledger \cup {CreditRow(o, x)}
<1> DEFINE c == CHOOSE y \in ConfirmedPayments(o) : TRUE
<1>1. /\ orderStatus[o] \in {"paid", "credited"}
      /\ ConfirmedPayments(o) # {}
      /\ ExistingCredits(o, c) = {}
      /\ orderStatus[o] # "credited"
  BY DEF CreditPaidOrder, CreditResult
<1>2. c \in ConfirmedPayments(o)
  BY <1>1
<1>3. ConfirmedPayments(o) = {c}
  BY <1>2 DEF OneConfirmedPayment
<1>4. c \in Txids BY <1>2 DEF ConfirmedPayments
<1> HIDE DEF c
<1>5. ledger' = ledger \cup {CreditRow(o, c)}
  BY <1>3 DEF CreditPaidOrder
<1> QED BY <1>1, <1>3, <1>4, <1>5

LEMMA CreditSettled ==
  ASSUME Settled, NEW o \in Orders, CreditPaidOrder(o)
  PROVE  Settled'
<1>1. /\ TypeOK /\ RowsAreBacked /\ OneConfirmedPayment /\ OrdersMatchRows
      /\ CreditedExactlyOnce
  BY DEF Settled
<1>2. PICK x \in Txids :
        /\ orderStatus[o] = "paid"
        /\ ConfirmedPayments(o) = {x}
        /\ ExistingCredits(o, x) = {}
        /\ ledger' = ledger \cup {CreditRow(o, x)}
  BY <1>1, CreditFacts
<1>3. /\ available' = [available EXCEPT ![OwnerOf[o]] = @ + CountOf[o]]
      /\ orderStatus' = [orderStatus EXCEPT ![o] = "credited"]
      /\ UNCHANGED <<overdue, payment, chain>>
  BY DEF CreditPaidOrder
<1>4. /\ orderStatus'[o] = "credited"
      /\ \A p \in Orders : p # o => orderStatus'[p] = orderStatus[p]
  BY <1>1, <1>3 DEF TypeOK
<1>5. CreditRow(o, x) \in LedgerRow
  BY <1>2, OwnersAreUsers, CountsArePositive DEF CreditRow, LedgerRow
<1>6. TypeOK'
  <2>1. available' \in [Users -> Nat]
    <3>1. available \in [Users -> Nat] /\ OwnerOf[o] \in Users /\ CountOf[o] \in Nat
      BY <1>1, OwnersAreUsers, CountsArePositive DEF TypeOK
    <3>2. available[OwnerOf[o]] + CountOf[o] \in Nat
      BY <3>1
    <3> QED BY <1>3, <3>1, <3>2
  <2>2. orderStatus' \in [Orders -> (PurchaseStates \ {"created"}) \cup {"absent"}]
    BY <1>1, <1>3 DEF TypeOK, PurchaseStates
  <2> QED BY <1>1, <1>2, <1>3, <1>5, <2>1, <2>2 DEF TypeOK
<1>7. RowsAreBacked'
  BY <1>1, <1>3 DEF RowsAreBacked
<1>8. \A p : ConfirmedPayments(p)' = ConfirmedPayments(p)
  BY <1>3 DEF ConfirmedPayments
<1>9. OneConfirmedPayment'
  BY <1>1, <1>8 DEF OneConfirmedPayment
<1>10. OrdersMatchRows'
  <2> SUFFICES ASSUME NEW p \in Orders PROVE EvidenceFor(p)'
    BY DEF OrdersMatchRows
  <2>1. \A s : Owns(p, s)' = Owns(p, s)
    BY <1>3 DEF Owns
  <2>2. EvidenceFor(p) BY <1>1 DEF OrdersMatchRows
  <2> QED BY <2>1, <2>2, <1>2, <1>4 DEF EvidenceFor
<1>11. CreditedExactlyOnce'
  <2>1. /\ CreditRow(o, x).order = o /\ CreditRow(o, x).txid = x
        /\ CreditRow(o, x)' = CreditRow(o, x)
    BY DEF CreditRow
  <2>2. \A r \in ledger : r.order # o /\ r.txid # x /\ r.order \in Orders
    BY <1>1, <1>2 DEF ExistingCredits, TypeOK, LedgerRow
  <2>3. \A r \in ledger' :
          /\ orderStatus'[r.order] = "credited"
          /\ ConfirmedPayments(r.order)' = {r.txid}
          /\ r = CreditRow(r.order, r.txid)'
    <3> SUFFICES ASSUME NEW r \in ledger'
        PROVE /\ orderStatus'[r.order] = "credited"
              /\ ConfirmedPayments(r.order)' = {r.txid}
              /\ r = CreditRow(r.order, r.txid)'
      OBVIOUS
    <3>1. CASE r \in ledger
      BY <3>1, <1>1, <1>4, <1>8, <2>2 DEF CreditedExactlyOnce, CreditRow
    <3>2. CASE r = CreditRow(o, x)
      BY <3>2, <1>2, <1>4, <1>8, <2>1
    <3> QED BY <3>1, <3>2, <1>2
  <2>4. \A r1, r2 \in ledger' : r1.order = r2.order \/ r1.txid = r2.txid => r1 = r2
    BY <1>1, <1>2, <2>1, <2>2 DEF CreditedExactlyOnce
  <2>5. \A p \in Orders : orderStatus'[p] = "credited" => \E r \in ledger' : r.order = p
    BY <1>1, <1>2, <1>4, <2>1 DEF CreditedExactlyOnce
  <2> QED BY <2>3, <2>4, <2>5 DEF CreditedExactlyOnce
<1> QED BY <1>6, <1>7, <1>9, <1>10, <1>11 DEF Settled

-----------------------------------------------------------------------------
LEMMA NextSettled == Settled /\ [Next]_vars => Settled'
<1> SUFFICES ASSUME Settled, [Next]_vars PROVE Settled'
  OBVIOUS
<1>1. CASE UNCHANGED vars
  <2>1. TypeOK' /\ RowsAreBacked'
    BY <1>1 DEF Settled, vars, TypeOK, RowsAreBacked
  <2>2. \A p : ConfirmedPayments(p)' = ConfirmedPayments(p)
    BY <1>1 DEF vars, ConfirmedPayments
  <2>3. OneConfirmedPayment' BY <2>2 DEF Settled, OneConfirmedPayment
  <2>4. OrdersMatchRows'
    BY <1>1 DEF Settled, vars, OrdersMatchRows, EvidenceFor, Owns
  <2>5. CreditedExactlyOnce'
    BY <1>1, <2>2 DEF Settled, vars, CreditedExactlyOnce, CreditRow
  <2> QED BY <2>1, <2>3, <2>4, <2>5 DEF Settled
<1>2. ASSUME NEW o \in Orders,
             CreateOrder(o) \/ PassDeadline(o) \/ ExpireWaitingOrder(o)
      PROVE Settled'
  BY <1>2, OrderStepsSettled
<1>3. ASSUME NEW o \in Orders, CreditPaidOrder(o) PROVE Settled'
  BY <1>3, CreditSettled
<1>4. ASSUME NEW x \in Txids,
             \/ TransactionAppears(x) \/ BlockIsAdded(x)
             \/ \E e \in {"success", "failed"} : TransactionSolidifies(x, e)
      PROVE Settled'
  BY <1>4, ChainStepsSettled
<1>5. ASSUME NEW o \in Orders, NEW t \in Transfers,
             NEW obs \in ObservationsOf(TxidOf[t]), ApplyObservation(o, t, obs)
      PROVE Settled'
  BY <1>5, ApplySettled
<1> QED BY <1>1, <1>2, <1>3, <1>4, <1>5 DEF Next

LEMMA SpecSettled == Spec => []Settled
  BY InitSettled, NextSettled, PTL DEF Spec

(* Every reachable state has the declared types.                             *)
THEOREM SettlementTypeOK == Spec => []TypeOK
<1>1. Settled => TypeOK BY DEF Settled
<1> QED BY <1>1, SpecSettled, PTL

(* However observations of several transactions interleave, an order and its *)
(* payment rows agree at every commit.                                       *)
THEOREM OrdersAgreeWithEvidence == Spec => []OrderMatchesEvidence
<1>1. Settled => OrderMatchesEvidence BY EvidenceAsSets DEF Settled
<1> QED BY <1>1, SpecSettled, PTL

(* No number of overlapping workers credits an order or a chain transaction  *)
(* twice, or credits an order without its ledger row.                        *)
THEOREM CreditingIsExactlyOnce == Spec => []CreditedExactlyOnce
<1>1. Settled => CreditedExactlyOnce BY DEF Settled
<1> QED BY <1>1, SpecSettled, PTL

(* Count is credited only for a deep enough, successful transaction with a   *)
(* transfer of exactly the order's amount.                                   *)
THEOREM CreditsAreForFinalMoney == Spec => []OnlyFinalMoneyIsCredited
<1>1. Settled => OnlyFinalMoneyIsCredited
  <2> SUFFICES ASSUME Settled, NEW row \in ledger
      PROVE /\ chain[row.txid].state = "success"
            /\ chain[row.txid].depth >= RequiredConfirmations
            /\ PaysFor[payment[row.txid].transfer] = row.order
    BY DEF OnlyFinalMoneyIsCredited
  <2>1. ConfirmedPayments(row.order) = {row.txid}
    BY DEF Settled, CreditedExactlyOnce
  <2>2. /\ row.txid \in Txids /\ payment[row.txid] # NoPayment
        /\ payment[row.txid].order = row.order /\ payment[row.txid].status = "confirmed"
    BY <2>1 DEF ConfirmedPayments
  <2> QED BY <2>2 DEF Settled, RowsAreBacked
<1> QED BY <1>1, SpecSettled, PTL

(* Both together.                                                            *)
THEOREM CreditingIsSound == Spec => []CreditsAreSound
BY CreditingIsExactlyOnce, CreditsAreForFinalMoney, PTL DEF CreditsAreSound

(* The unique index on confirmed payments never rejects an observation that  *)
(* is applied, and crediting never meets contradictory rows.  That applying  *)
(* answers conflict for a transaction of another order is not excluded.      *)
THEOREM PersistenceAccepts == Spec => []PersistenceNeverRefuses
<1>1. Settled => PersistenceNeverRefuses
  <2> SUFFICES ASSUME Settled PROVE PersistenceNeverRefuses
    OBVIOUS
  <2>1. ASSUME NEW o \in Orders, NEW t \in Transfers,
               NEW obs \in ObservationsOf(TxidOf[t]), ApplyResult(o, t, obs) = "applied"
        PROVE UniqueConfirmedPayment(o, t, PlanFor(o, t, obs).status)
    <3>1. orderStatus[o] \in OpenStates
      BY <2>1, AppliedObservation DEF Settled
    <3>2. ~Owns(o, "confirmed")
      BY <3>1 DEF Settled, OrdersMatchRows, EvidenceFor, OpenStates, TransactionStates
    <3>3. ConfirmedPayments(o) = {}
      BY <3>2 DEF ConfirmedPayments, Owns
    <3> QED BY <3>3 DEF UniqueConfirmedPayment
  <2>2. ASSUME NEW o \in Orders
        PROVE CreditResult(o) \in {"order_not_found", "not_ready", "credited", "replay"}
    <3> DEFINE c == CHOOSE y \in ConfirmedPayments(o) : TRUE
    <3> SUFFICES ASSUME orderStatus[o] \in {"paid", "credited"}
        PROVE CreditResult(o) \in {"credited", "replay"}
      BY DEF CreditResult
    <3>1. Owns(o, "confirmed")
      BY DEF Settled, OrdersMatchRows, EvidenceFor
    <3>2. ConfirmedPayments(o) # {}
      BY <3>1 DEF Owns, ConfirmedPayments
    <3>3. \A x, y \in ConfirmedPayments(o) : x = y
      BY DEF Settled, OneConfirmedPayment
    <3>4. ConfirmedPayments(o) = {c} /\ payment[c].order = o
      BY <3>2, <3>3 DEF ConfirmedPayments
    <3>5. \A row \in ledger : row.txid = c => row.order = o
      <4> SUFFICES ASSUME NEW row \in ledger, row.txid = c PROVE row.order = o
        OBVIOUS
      <4>1. ConfirmedPayments(row.order) = {c}
        BY DEF Settled, CreditedExactlyOnce
      <4> QED BY <4>1, <3>4 DEF ConfirmedPayments
    <3> HIDE DEF c
    <3>6. CASE orderStatus[o] = "paid"
      <4>1. ExistingCredits(o, c) = {}
        BY <3>5, <3>6 DEF Settled, CreditedExactlyOnce, ExistingCredits
      <4> QED BY <4>1, <3>2, <3>3, <3>6 DEF CreditResult, c
    <3>7. CASE orderStatus[o] = "credited"
      <4>1. PICK row \in ledger : row.order = o
        BY <3>7 DEF Settled, CreditedExactlyOnce
      <4>2. row.txid = c
        BY <4>1, <3>4 DEF Settled, CreditedExactlyOnce
      <4>3. row = CreditRow(o, c)
        BY <4>1, <4>2 DEF Settled, CreditedExactlyOnce
      <4>4. ExistingCredits(o, c) = {CreditRow(o, c)}
        BY <4>1, <4>3, <3>5 DEF ExistingCredits, Settled, CreditedExactlyOnce
      <4> QED BY <4>4, <3>2, <3>3, <3>7 DEF CreditResult, c
    <3> QED BY <3>6, <3>7
  <2> QED BY <2>1, <2>2 DEF PersistenceNeverRefuses
<1> QED BY <1>1, SpecSettled, PTL

-----------------------------------------------------------------------------
(* Steps.                                                                    *)

(* A payment row keeps its order and event, and only gains evidence.         *)
THEOREM EvidenceOnlyStrengthens == Spec => EvidenceNeverRegresses
<1> DEFINE Kept(x) ==
      payment[x] # NoPayment =>
        /\ payment'[x] # NoPayment
        /\ payment'[x].order = payment[x].order
        /\ payment'[x].transfer = payment[x].transfer
        /\ payment'[x].confirmations >= payment[x].confirmations
        /\ \/ payment'[x].status = payment[x].status
           \/ StatusRank[payment'[x].status] > StatusRank[payment[x].status]
<1>1. Settled /\ [Next]_vars => [\A x \in Txids : Kept(x)]_vars
  <2> SUFFICES ASSUME Settled, Next, NEW x \in Txids PROVE Kept(x)
    BY DEF Next
  <2>1. TypeOK BY DEF Settled
  <2>2. payment[x] # NoPayment => payment[x] \in PaymentRow
    BY <2>1 DEF TypeOK
  <2>3. CASE payment' = payment
    BY <2>2, <2>3 DEF PaymentRow
  <2>4. ASSUME NEW o \in Orders, NEW t \in Transfers,
               NEW obs \in ObservationsOf(TxidOf[t]), ApplyObservation(o, t, obs)
        PROVE Kept(x)
    <3>1. payment' = [payment EXCEPT ![TxidOf[t]] = MergedRow(o, t, obs)]
      BY <2>4 DEF ApplyObservation
    <3>2. CASE x # TxidOf[t]
      <4>1. payment'[x] = payment[x] BY <3>1, <3>2, <2>1 DEF TypeOK
      <4> QED BY <4>1, <2>2 DEF PaymentRow
    <3>3. CASE x = TxidOf[t]
      <4> DEFINE row == MergedRow(o, t, obs)
      <4>1. payment'[x] = row BY <3>1, <3>3, <2>1 DEF TypeOK
      <4>2. /\ row \in PaymentRow /\ row.order = o /\ row.transfer = t
            /\ payment[x] # NoPayment =>
                 /\ payment[x].order = o /\ payment[x].transfer = t
                 /\ row.confirmations >= payment[x].confirmations
                 /\ payment[x].status = "confirming" => row.status # "detected"
                 /\ payment[x].status \in {"confirmed", "rejected"} =>
                      row.status = payment[x].status
        BY <2>1, <2>4, <3>3, AppliedObservation DEF ApplyObservation
      <4> HIDE DEF row
      <4>3. row # NoPayment BY <4>2, NoPaymentIsNoRow
      <4>4. ASSUME payment[x] # NoPayment, row.status # payment[x].status
            PROVE StatusRank[row.status] > StatusRank[payment[x].status]
        <5>1. /\ payment[x].status \in {"detected", "confirming"}
              /\ row.status \in TransactionStates
              /\ payment[x].status = "confirming" => row.status \in {"confirmed", "rejected"}
          BY <4>2, <4>4, <2>2 DEF PaymentRow, TransactionStates
        <5>2. /\ StatusRank["detected"] = 0 /\ StatusRank["confirming"] = 1
              /\ StatusRank["confirmed"] = 2 /\ StatusRank["rejected"] = 2
          BY DEF StatusRank, TransactionStates
        <5> QED BY <5>1, <5>2, <4>4 DEF TransactionStates
      <4> QED BY <4>1, <4>2, <4>3, <4>4
    <3> QED BY <3>2, <3>3
  <2> QED BY <2>3, <2>4 DEF Next, CreateOrder, PassDeadline, CreditPaidOrder,
       ExpireWaitingOrder, TransactionAppears, BlockIsAdded, TransactionSolidifies
<1> QED BY <1>1, SpecSettled, PTL DEF Spec, EvidenceNeverRegresses

(* Expired, failed and credited orders never change, paid ones are only      *)
(* credited.                                                                 *)
THEOREM DecisionsAreFinal == Spec => DecidedOrdersStayDecided
<1> DEFINE Final(o) ==
      /\ orderStatus[o] \in {"expired", "failed", "credited"}
           => orderStatus'[o] = orderStatus[o]
      /\ orderStatus[o] = "paid" => orderStatus'[o] \in {"paid", "credited"}
<1>1. Settled /\ [Next]_vars => [\A o \in Orders : Final(o)]_vars
  <2> SUFFICES ASSUME Settled, Next, NEW o \in Orders PROVE Final(o)
    BY DEF Next
  <2>1. TypeOK BY DEF Settled
  <2>2. CASE orderStatus' = orderStatus
    BY <2>2
  <2>3. ASSUME NEW p \in Orders, CreateOrder(p) \/ ExpireWaitingOrder(p)
        PROVE Final(o)
    BY <2>1, <2>3 DEF TypeOK, CreateOrder, ExpireWaitingOrder
  <2>4. ASSUME NEW p \in Orders, CreditPaidOrder(p) PROVE Final(o)
    <3>1. orderStatus[p] = "paid" BY <2>1, <2>4, CreditFacts DEF Settled
    <3> QED BY <3>1, <2>1, <2>4 DEF TypeOK, CreditPaidOrder
  <2>5. ASSUME NEW p \in Orders, NEW t \in Transfers,
               NEW obs \in ObservationsOf(TxidOf[t]), ApplyObservation(p, t, obs)
        PROVE Final(o)
    <3>1. orderStatus[p] \in OpenStates
      BY <2>1, <2>5, AppliedObservation DEF ApplyObservation
    <3>2. p # o => orderStatus'[o] = orderStatus[o]
      BY <2>1, <2>5 DEF TypeOK, ApplyObservation
    <3> QED BY <3>1, <3>2 DEF OpenStates
  <2> QED BY <2>2, <2>3, <2>4, <2>5 DEF Next, PassDeadline, TransactionAppears,
       BlockIsAdded, TransactionSolidifies
<1> QED BY <1>1, SpecSettled, PTL DEF Spec, DecidedOrdersStayDecided

(* Neither evidence nor a decision is taken back.                            *)
THEOREM RecordsAreKept == Spec => NothingIsTakenBack
BY EvidenceOnlyStrengthens, DecisionsAreFinal DEF NothingIsTakenBack

(* Settlement implements the customer account: every step either leaves the  *)
(* account alone or adds the count of one purchase for the first time.       *)
THEOREM SettlementImplementsAccount == Spec => ImplementsCountAccount
<1>1. Init => Account!Init
  BY DEF Init, Account!Init
<1>2. Settled /\ [Next]_vars => [Account!Next]_(Account!vars)
  <2> SUFFICES ASSUME Settled, [Next]_vars PROVE [Account!Next]_(Account!vars)
    OBVIOUS
  <2>1. TypeOK BY DEF Settled
  <2>2. ASSUME available' = available,
               \A o \in Orders : orderStatus'[o] = "credited" <=> orderStatus[o] = "credited"
        PROVE UNCHANGED Account!vars
    BY <2>2 DEF Account!vars
  <2>3. CASE UNCHANGED vars
    BY <2>2, <2>3 DEF vars
  <2>4. ASSUME NEW p \in Orders, CreateOrder(p) \/ PassDeadline(p) \/ ExpireWaitingOrder(p)
        PROVE UNCHANGED Account!vars
    BY <2>1, <2>2, <2>4 DEF TypeOK, CreateOrder, PassDeadline, ExpireWaitingOrder
  <2>5. ASSUME NEW x \in Txids,
               \/ TransactionAppears(x) \/ BlockIsAdded(x)
               \/ \E e \in {"success", "failed"} : TransactionSolidifies(x, e)
        PROVE UNCHANGED Account!vars
    BY <2>2, <2>5 DEF TransactionAppears, BlockIsAdded, TransactionSolidifies
  <2>6. ASSUME NEW p \in Orders, NEW t \in Transfers,
               NEW obs \in ObservationsOf(TxidOf[t]), ApplyObservation(p, t, obs)
        PROVE UNCHANGED Account!vars
    <3> DEFINE after == OrderAfter(orderStatus[p], PlanFor(p, t, obs).path)
    <3>1. /\ orderStatus[p] \in OpenStates
          /\ MergedRow(p, t, obs).status \in TransactionStates
          /\ MergedRow(p, t, obs).status = "detected" =>
               after = (IF orderStatus[p] = "waiting_payment" THEN "payment_detected"
                                                              ELSE orderStatus[p])
          /\ MergedRow(p, t, obs).status = "confirming" => after = "confirming"
          /\ MergedRow(p, t, obs).status = "confirmed" => after = "paid"
          /\ MergedRow(p, t, obs).status = "rejected" => after = "failed"
      BY <2>1, <2>6, AppliedObservation DEF ApplyObservation, PaymentRow
    <3>2. orderStatus' = [orderStatus EXCEPT ![p] = after] /\ available' = available
      BY <2>6 DEF ApplyObservation
    <3> HIDE DEF after
    <3>3. orderStatus[p] # "credited" /\ after # "credited"
      BY <3>1 DEF OpenStates, TransactionStates
    <3> QED BY <2>1, <2>2, <3>2, <3>3 DEF TypeOK
  <2>7. ASSUME NEW p \in Orders, CreditPaidOrder(p) PROVE Account!Next
    <3>1. /\ orderStatus[p] = "paid"
          /\ orderStatus' = [orderStatus EXCEPT ![p] = "credited"]
          /\ available' = [available EXCEPT ![OwnerOf[p]] = @ + CountOf[p]]
      BY <2>1, <2>7, CreditFacts DEF Settled, CreditPaidOrder
    <3>2. {o \in Orders : orderStatus'[o] = "credited"}
            = {o \in Orders : orderStatus[o] = "credited"} \cup {p}
      BY <3>1, <2>1 DEF TypeOK
    <3>3. Account!Credit(p)
      BY <3>1, <3>2 DEF Account!Credit
    <3> QED BY <3>3 DEF Account!Next
  <2> QED BY <2>3, <2>4, <2>5, <2>6, <2>7 DEF Next
<1> QED BY <1>1, <1>2, SpecSettled, PTL
      DEF Spec, ImplementsCountAccount, Account!Spec
=============================================================================
