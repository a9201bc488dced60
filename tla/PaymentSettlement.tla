-------------------------- MODULE PaymentSettlement --------------------------
(***************************************************************************)
(* The payment side of the database: purchase orders, payment rows, the    *)
(* purchase-credit ledger and the available counts, changed only by the    *)
(* three repository transactions that settle an order                      *)
(*   applyObservation   (PostgresPaymentLifecycleRepository),              *)
(*   creditPaidOrder    (PostgresPackageCreditRepository),                 *)
(*   expireWaitingUsdtOrder (PostgresUsdtReconciliationOrderRepository).   *)
(* Each runs in one PostgreSQL transaction that first locks the order row, *)
(* so each is one step here; who calls them, in which order and with how   *)
(* old an observation is left open, because several bot processes may      *)
(* overlap during a deployment.                                            *)
(***************************************************************************)
EXTENDS PaymentEvidence, FiniteSets, FiniteSetsExt

CONSTANTS
  Users,                  \* customers
  Orders,                 \* purchase orders
  Transfers,              \* transfers to the shop seen on the chain
  Txids,                  \* chain transactions; one may carry several transfers
  OwnerOf,                \* customer of each order
  CountOf,                \* count_snapshot of each order
  TxidOf,                 \* chain transaction of each transfer
  PaysFor,                \* order whose frozen expectation the transfer matches
  NoOrder,                \* ... or none
  NoPayment,              \* a transaction without a payment row
  RequiredConfirmations,  \* required_confirmations_snapshot
  MaxDepth                \* bound: the deepest confirmation count observed

ASSUME OwnersAreUsers == OwnerOf \in [Orders -> Users]
ASSUME CountsArePositive == CountOf \in [Orders -> Nat \ {0}]
ASSUME TransfersHaveTxids == TxidOf \in [Transfers -> Txids]
ASSUME TransfersPayOrders == PaysFor \in [Transfers -> Orders \cup {NoOrder}]
ASSUME NoOrderIsNoOrder == NoOrder \notin Orders
ASSUME ConfirmationsArePositive ==
  RequiredConfirmations \in Nat \ {0} /\ MaxDepth \in Nat

VARIABLES
  orderStatus,  \* package_purchase_orders.status; "absent" before creation
  overdue,      \* orders whose quote_expires_at has passed
  payment,      \* payment_transactions row of each txid
  ledger,       \* purchase_credit rows of balance_ledger
  available,    \* package_balances.available_count
  chain         \* what the chain holds of each txid: state and solid depth

vars == <<orderStatus, overdue, payment, ledger, available, chain>>

PaymentRow ==
  [order : Orders, transfer : Transfers, confirmations : Nat,
   status : TransactionStates]

ASSUME NoPaymentIsNoRow == NoPayment \notin PaymentRow

LedgerRow ==
  [user : Users, order : Orders, txid : Txids, availableDelta : Nat]

ChainStates == {"unseen", "head", "success", "failed"}

Init ==
  /\ orderStatus = [o \in Orders |-> "absent"]
  /\ overdue = {}
  /\ payment = [x \in Txids |-> NoPayment]
  /\ ledger = {}
  /\ available = [u \in Users |-> 0]
  /\ chain = [x \in Txids |-> [state |-> "unseen", depth |-> 0]]

-----------------------------------------------------------------------------
(* The surroundings: the chain, the clock, and order creation, which inserts *)
(* "created" and moves to "waiting_payment" inside one transaction.          *)

(* Mutant: the transaction forgets to open the order.                        *)
CreateOrderUnopened(o) ==
  /\ orderStatus[o] = "absent"
  /\ orderStatus' = [orderStatus EXCEPT ![o] = "created"]
  /\ UNCHANGED <<overdue, payment, ledger, available, chain>>

CreateOrder(o) ==
  /\ orderStatus[o] = "absent"
  /\ orderStatus' = [orderStatus EXCEPT ![o] = "waiting_payment"]
  /\ UNCHANGED <<overdue, payment, ledger, available, chain>>

PassDeadline(o) ==
  /\ orderStatus[o] # "absent"
  /\ o \notin overdue
  /\ overdue' = overdue \cup {o}
  /\ UNCHANGED <<orderStatus, payment, ledger, available, chain>>

TransactionAppears(x) ==
  /\ chain[x].state = "unseen"
  /\ chain' = [chain EXCEPT ![x].state = "head"]
  /\ UNCHANGED <<orderStatus, overdue, payment, ledger, available>>

TransactionSolidifies(x, execution) ==
  /\ chain[x].state = "head"
  /\ chain' = [chain EXCEPT ![x] = [state |-> execution, depth |-> 1]]
  /\ UNCHANGED <<orderStatus, overdue, payment, ledger, available>>

BlockIsAdded(x) ==
  /\ chain[x].state \in {"success", "failed"}
  /\ chain[x].depth < MaxDepth
  /\ chain' = [chain EXCEPT ![x].depth = @ + 1]
  /\ UNCHANGED <<orderStatus, overdue, payment, ledger, available>>

-----------------------------------------------------------------------------
(* Observations.  The detector's candidate carries no finality; the finality *)
(* verifier's observation says how the solidified transaction executed and   *)
(* how deep it is.  An observation stays usable after it was made, so every  *)
(* observation that was true at some time so far may be applied.             *)

CandidateObservation ==
  [solidified |-> FALSE, source |-> "indexer",
   execution |-> "unknown", confirmations |-> 0]

FinalObservations(x) ==
  {[solidified |-> TRUE, source |-> "solidified_node",
    execution |-> chain[x].state, confirmations |-> d] : d \in 1..chain[x].depth}

ObservationsOf(x) ==
  CASE chain[x].state = "unseen" -> {}
    [] chain[x].state = "head" -> {CandidateObservation}
    [] OTHER -> {CandidateObservation} \cup FinalObservations(x)

-----------------------------------------------------------------------------
(* applyObservation.                                                         *)

(* validateExisting: the row of a txid belongs to one order and one event.   *)
ExistingConflict(o, t) ==
  LET row == payment[TxidOf[t]]
  IN  row # NoPayment /\ (row.order # o \/ row.transfer # t)

StatusOf(x) == IF payment[x] = NoPayment THEN "absent" ELSE payment[x].status

PlanFor(o, t, obs) ==
  PlanPaymentEvidenceLifecycle(
    EvaluatePaymentObservation(PaysFor[t] = o, RequiredConfirmations, obs),
    orderStatus[o], StatusOf(TxidOf[t]))

(* What the transaction returns: applied, ignored, terminal_noop or one of   *)
(* the conflicts.                                                            *)
ApplyResult(o, t, obs) ==
  IF orderStatus[o] = "absent" THEN "order_not_found"
  ELSE IF ExistingConflict(o, t) THEN "conflict"
  ELSE CASE PlanFor(o, t, obs).kind = "apply" -> "applied"
         [] PlanFor(o, t, obs).kind = "ignore" -> "ignored"
         [] PlanFor(o, t, obs).kind = "terminal_noop" -> "terminal_noop"
         [] OTHER -> "conflict"

MaxOf(a, b) == IF a >= b THEN a ELSE b

(* applyLockedPlan on the row that was found or has just been inserted.      *)
MergedRow(o, t, obs) ==
  LET row == payment[TxidOf[t]]
  IN  [order |-> o, transfer |-> t,
       confirmations |-> IF row = NoPayment THEN obs.confirmations
                         ELSE MaxOf(row.confirmations, obs.confirmations),
       status |-> PlanFor(o, t, obs).status]

(* The database refuses a second confirmed payment of one order, and with it *)
(* the whole transaction.                                                    *)
ConfirmedPayments(o) ==
  {x \in Txids : payment[x] # NoPayment
                   /\ payment[x].order = o /\ payment[x].status = "confirmed"}

UniqueConfirmedPayment(o, t, status) ==
  status = "confirmed" => ConfirmedPayments(o) \subseteq {TxidOf[t]}

(* Mutant: the order follows only the first observation of a transaction.    *)
ApplyObservationInsertOnly(o, t, obs) ==
  /\ ApplyResult(o, t, obs) = "applied"
  /\ UniqueConfirmedPayment(o, t, PlanFor(o, t, obs).status)
  /\ payment' = [payment EXCEPT ![TxidOf[t]] = MergedRow(o, t, obs)]
  /\ IF payment[TxidOf[t]] = NoPayment
       THEN orderStatus' = [orderStatus EXCEPT
                              ![o] = OrderAfter(@, PlanFor(o, t, obs).path)]
       ELSE UNCHANGED orderStatus
  /\ UNCHANGED <<overdue, ledger, available, chain>>

ApplyObservation(o, t, obs) ==
  /\ ApplyResult(o, t, obs) = "applied"
  /\ UniqueConfirmedPayment(o, t, PlanFor(o, t, obs).status)
  /\ payment' = [payment EXCEPT ![TxidOf[t]] = MergedRow(o, t, obs)]
  /\ orderStatus' = [orderStatus EXCEPT
                       ![o] = OrderAfter(@, PlanFor(o, t, obs).path)]
  /\ UNCHANGED <<overdue, ledger, available, chain>>

-----------------------------------------------------------------------------
(* creditPaidOrder.                                                          *)

ExistingCredits(o, x) == {row \in ledger : row.order = o \/ row.txid = x}

CreditRow(o, x) ==
  [user |-> OwnerOf[o], order |-> o, txid |-> x, availableDelta |-> CountOf[o]]

(* Mutant: the ledger is not asked whether the order was credited.           *)
CreditResultIgnoringLedger(o) ==
  IF orderStatus[o] \notin {"paid", "credited"} THEN "not_ready"
  ELSE IF ConfirmedPayments(o) = {} THEN "confirmed_payment_missing"
  ELSE "credited"

CreditResult(o) ==
  IF orderStatus[o] = "absent" THEN "order_not_found"
  ELSE IF orderStatus[o] \notin {"paid", "credited"} THEN "not_ready"
  ELSE IF ConfirmedPayments(o) = {} THEN "confirmed_payment_missing"
  ELSE IF \E x, y \in ConfirmedPayments(o) : x # y THEN "confirmed_payment_mismatch"
  ELSE LET x == CHOOSE y \in ConfirmedPayments(o) : TRUE
       IN  IF ExistingCredits(o, x) = {}
             THEN IF orderStatus[o] = "credited" THEN "credited_without_ledger"
                                                 ELSE "credited"
           ELSE IF ExistingCredits(o, x) = {CreditRow(o, x)}
                     /\ orderStatus[o] = "credited"
             THEN "replay"
             ELSE "ledger_conflict"

CreditPaidOrder(o) ==
  /\ CreditResult(o) = "credited"
  /\ \E x \in ConfirmedPayments(o) : ledger' = ledger \cup {CreditRow(o, x)}
  /\ available' = [available EXCEPT ![OwnerOf[o]] = @ + CountOf[o]]
  /\ orderStatus' = [orderStatus EXCEPT ![o] = "credited"]
  /\ UNCHANGED <<overdue, payment, chain>>

-----------------------------------------------------------------------------
(* expireWaitingUsdtOrder: the order is rechecked under its lock.            *)
ExpireWaitingOrder(o) ==
  /\ orderStatus[o] = "waiting_payment"
  /\ o \in overdue
  /\ orderStatus' = [orderStatus EXCEPT ![o] = "expired"]
  /\ UNCHANGED <<overdue, payment, ledger, available, chain>>

-----------------------------------------------------------------------------
Next ==
  \/ \E o \in Orders :
       CreateOrder(o) \/ PassDeadline(o) \/ CreditPaidOrder(o) \/ ExpireWaitingOrder(o)
  \/ \E x \in Txids :
       TransactionAppears(x) \/ BlockIsAdded(x)
         \/ \E e \in {"success", "failed"} : TransactionSolidifies(x, e)
  \/ \E o \in Orders, t \in Transfers :
       \E obs \in ObservationsOf(TxidOf[t]) : ApplyObservation(o, t, obs)

Spec == Init /\ [][Next]_vars

-----------------------------------------------------------------------------
(* Properties.                                                               *)

TypeOK ==
  /\ orderStatus \in [Orders -> (PurchaseStates \ {"created"}) \cup {"absent"}]
  /\ overdue \subseteq Orders
  /\ payment \in [Txids -> PaymentRow \cup {NoPayment}]
  /\ ledger \subseteq LedgerRow
  /\ available \in [Users -> Nat]
  /\ chain \in [Txids -> [state : ChainStates, depth : Nat]]

PaymentsOf(o) == {x \in Txids : payment[x] # NoPayment /\ payment[x].order = o}

(* The order row and the payment rows are written in one transaction but     *)
(* planned from a single observation.  Whatever the order of observations of *)
(* several transactions for one order: an order nobody paid for or that      *)
(* expired owns no payment row, a decided order owns the row that decided it *)
(* and none that contradicts it.                                             *)
OrderMatchesEvidence ==
  \A o \in Orders :
    LET statuses == {payment[x].status : x \in PaymentsOf(o)}
    IN  /\ orderStatus[o] \in {"absent", "waiting_payment", "expired"}
             => statuses = {}
        /\ orderStatus[o] = "payment_detected" => statuses = {"detected"}
        /\ orderStatus[o] = "confirming"
             => "confirming" \in statuses /\ statuses \subseteq {"detected", "confirming"}
        /\ orderStatus[o] = "failed"
             => "rejected" \in statuses /\ "confirmed" \notin statuses
        /\ orderStatus[o] \in {"paid", "credited"}
             => "confirmed" \in statuses /\ "rejected" \notin statuses

(* Crediting is exactly once: an order is credited iff the ledger holds its  *)
(* row, that row names the one confirmed payment of the order and the        *)
(* order's own count and customer, and neither an order nor a chain          *)
(* transaction appears in two rows.                                          *)
CreditedExactlyOnce ==
  /\ \A row \in ledger :
       /\ orderStatus[row.order] = "credited"
       /\ ConfirmedPayments(row.order) = {row.txid}
       /\ row = CreditRow(row.order, row.txid)
  /\ \A r1, r2 \in ledger : r1.order = r2.order \/ r1.txid = r2.txid => r1 = r2
  /\ \A o \in Orders :
       orderStatus[o] = "credited" => \E row \in ledger : row.order = o

(* Count is handed out only for money that is final: the credited chain      *)
(* transaction executed successfully, is solidified at least as deep as the  *)
(* order demands, and carries a transfer of exactly that order's amount.     *)
OnlyFinalMoneyIsCredited ==
  \A row \in ledger :
    /\ chain[row.txid].state = "success"
    /\ chain[row.txid].depth >= RequiredConfirmations
    /\ PaysFor[payment[row.txid].transfer] = row.order

(* A ledger row stands for one order, paid for with final money.             *)
CreditsAreSound == CreditedExactlyOnce /\ OnlyFinalMoneyIsCredited

(* However many transfers pay an order, and whatever late and repeated        *)
(* observations of them were applied, one that is applied never meets the    *)
(* unique index on confirmed payments, and crediting never finds rows that   *)
(* contradict each other.  It does not say that nothing is refused: a second *)
(* order that one transaction pays is a conflict (ExistingConflict).         *)
PersistenceNeverRefuses ==
  /\ \A o \in Orders, t \in Transfers : \A obs \in ObservationsOf(TxidOf[t]) :
       ApplyResult(o, t, obs) = "applied"
         => UniqueConfirmedPayment(o, t, PlanFor(o, t, obs).status)
  /\ \A o \in Orders :
       CreditResult(o) \in {"order_not_found", "not_ready", "credited", "replay"}

(* A payment row never changes hands, and neither its status nor its         *)
(* confirmations weaken when an older observation is applied after a newer.  *)
StatusRank ==
  [s \in TransactionStates |->
     CASE s = "detected" -> 0 [] s = "confirming" -> 1 [] OTHER -> 2]

EvidenceNeverRegresses ==
  [][\A x \in Txids : payment[x] # NoPayment =>
       /\ payment'[x] # NoPayment
       /\ payment'[x].order = payment[x].order
       /\ payment'[x].transfer = payment[x].transfer
       /\ payment'[x].confirmations >= payment[x].confirmations
       /\ \/ payment'[x].status = payment[x].status
          \/ StatusRank[payment'[x].status] > StatusRank[payment[x].status]]_vars

(* Late or stale work never reopens a decided order: expired, failed and     *)
(* credited are final and a paid order can only be credited, although expiry *)
(* and evidence are decided by workers that read the order earlier.          *)
DecidedOrdersStayDecided ==
  [][\A o \in Orders :
       /\ orderStatus[o] \in {"expired", "failed", "credited"}
            => orderStatus'[o] = orderStatus[o]
       /\ orderStatus[o] = "paid" => orderStatus'[o] \in {"paid", "credited"}]_vars

(* Neither evidence nor a decision is ever taken back.                       *)
NothingIsTakenBack == EvidenceNeverRegresses /\ DecidedOrdersStayDecided

(* Seen from the customer's account, settlement only ever adds the count of  *)
(* a purchase, once.                                                         *)
Account == INSTANCE CountAccount WITH
  Purchases <- Orders, BuyerOf <- OwnerOf,
  Uses <- {}, SpenderOf <- [x \in {} |-> NoOrder], Costs <- {},
  credited <- {o \in Orders : orderStatus[o] = "credited"},
  hold <- [x \in {} |-> "none"], cost <- [x \in {} |-> 0]

ImplementsCountAccount == Account!Spec
=============================================================================
