------------------------- MODULE ReconciliationProofs -------------------------
(***************************************************************************)
(* The reconciliation workers, for any number of processes, customers,     *)
(* orders, transfers and chain transactions.                               *)
(*                                                                         *)
(* What a worker writes rests on what it read earlier, so the invariant    *)
(* says of each local variable what is still true of it: a listed overdue  *)
(* order stays overdue, the transfers a scan may look at include every     *)
(* prompt one, a candidate and a depth once seen stay true of the chain.   *)
(* That the workers never halt each other needs more, and is the second    *)
(* part: what the database holds of every order is what the next           *)
(* transaction on it, whoever makes it and however late, asks for.         *)
(***************************************************************************)
EXTENDS Reconciliation, PaymentEvidenceProofs

(* A prompt transfer was mined and indexed while its order was within its    *)
(* window; what is indexed is a success for good; only overdue orders expire.*)
RecordsAreTrue ==
  /\ \A t \in timely : PaysFor[t] \in Orders
  /\ prompt \subseteq timely \cap indexed
  /\ \A t \in indexed : chain[TxidOf[t]].state = "success"
  /\ \A o \in Orders : orderStatus[o] = "expired" => o \in overdue

(* What a worker with local state r read is still so.                        *)
ReadingsStand(r) ==
  /\ r.toExpire \subseteq overdue
  /\ r.single # NoOrder => r.single \in overdue
  /\ \A t \in prompt : PaysFor[t] \in r.toExpire => t \in r.mined
  /\ \A t \in prompt : PaysFor[t] = r.single => t \in r.candidates \/ r.matched
  /\ r.candidates \subseteq indexed
  /\ \A t \in r.candidates : PaysFor[t] \in Orders
  /\ r.pc \in {"inspect", "apply_final", "credit_found"} =>
       r.transfer \in indexed /\ PaysFor[r.transfer] \in Orders
  /\ r.pc = "apply_final" => r.depth \in 1..chain[TxidOf[r.transfer]].depth

(* The inductive invariant.                                                  *)
Reconciled ==
  /\ TypeOK
  /\ RecordsAreTrue
  /\ PromptPaymentsAreKept
  /\ \A w \in Workers : ReadingsStand(run[w])

RunRecord ==
  [pc : {"resting", "next", "scan", "inspect", "apply_final", "credit_found"}
          \cup HaltReasons,
   toCredit : SUBSET Orders, toExpire : SUBSET Orders, active : SUBSET Orders,
   mined : SUBSET Transfers, single : Orders \cup {NoOrder},
   candidates : SUBSET Transfers, matched : BOOLEAN,
   transfer : Transfers \cup {NoTransfer}, depth : 0..MaxDepth]

-----------------------------------------------------------------------------
(* The settlement transactions the workers call.                             *)

(* The rules a settlement transaction plans by are those of PaymentEvidence. *)
LEMMA PlansByEvidence ==
  ASSUME NEW o, NEW t, NEW obs
  PROVE  /\ Settlement!PlanFor(o, t, obs) =
              PlanPaymentEvidenceLifecycle(
                EvaluatePaymentObservation(PaysFor[t] = o, RequiredConfirmations, obs),
                orderStatus[o], Settlement!StatusOf(TxidOf[t]))
         /\ \A s, path : Settlement!OrderAfter(s, path) = OrderAfter(s, path)
<1>1. \A m, r, e : Settlement!EvaluatePaymentObservation(m, r, e)
                     = EvaluatePaymentObservation(m, r, e)
  BY DEF Settlement!EvaluatePaymentObservation, EvaluatePaymentObservation,
         Settlement!AuthoritativeSources, AuthoritativeSources
<1>2. \A e : Settlement!TargetForEvaluation(e) = TargetForEvaluation(e)
  BY DEF Settlement!TargetForEvaluation, TargetForEvaluation
<1>3. \A c, r : Settlement!MergeTransactionStatus(c, r) = MergeTransactionStatus(c, r)
  BY DEF Settlement!MergeTransactionStatus, MergeTransactionStatus
<1>4. \A s : Settlement!OrderTargetForTransaction(s) = OrderTargetForTransaction(s)
  BY DEF Settlement!OrderTargetForTransaction, OrderTargetForTransaction
<1>5. \A c, s : Settlement!HappyPathTransitions(c, s) = HappyPathTransitions(c, s)
  BY DEF Settlement!HappyPathTransitions, HappyPathTransitions, Settlement!HappyPath, HappyPath,
         Settlement!HappyPathIndex, HappyPathIndex
<1>6. \A c : Settlement!RejectedTransitions(c) = RejectedTransitions(c)
  BY DEF Settlement!RejectedTransitions, RejectedTransitions
<1>7. \A c, path : Settlement!LegalPath(c, path) = LegalPath(c, path)
  BY DEF Settlement!LegalPath, LegalPath, Settlement!CanTransitionPurchaseOrder,
         CanTransitionPurchaseOrder, Settlement!PurchaseTransitions, PurchaseTransitions
<1>8. \A c, s : Settlement!TerminalOrderPlan(c, s) = TerminalOrderPlan(c, s)
  BY DEF Settlement!TerminalOrderPlan, TerminalOrderPlan
<1>9. \A e, s, c : Settlement!PlanPaymentEvidenceLifecycle(e, s, c)
                     = PlanPaymentEvidenceLifecycle(e, s, c)
  BY <1>2, <1>3, <1>4, <1>5, <1>6, <1>7, <1>8
     DEF Settlement!PlanPaymentEvidenceLifecycle, PlanPaymentEvidenceLifecycle
<1>10. \A s, path : Settlement!OrderAfter(s, path) = OrderAfter(s, path)
  BY DEF Settlement!OrderAfter, OrderAfter
<1> QED BY <1>1, <1>9, <1>10 DEF Settlement!PlanFor

(* Applied evidence moves one open order to a status it did not expire to.   *)
LEMMA ApplyKeepsTypes ==
  ASSUME Settlement!TypeOK,
         NEW o \in Orders, NEW t \in Transfers, NEW obs, obs.confirmations \in Nat,
         Settlement!ApplyObservation(o, t, obs)
  PROVE  /\ Settlement!TypeOK'
         /\ payment'[TxidOf[t]] \in Settlement!PaymentRow
         /\ \A p \in Orders : orderStatus'[p] = "expired" => orderStatus[p] = "expired"
<1> DEFINE x == TxidOf[t]
           evaluation == EvaluatePaymentObservation(PaysFor[t] = o, RequiredConfirmations, obs)
           plan == PlanPaymentEvidenceLifecycle(evaluation, orderStatus[o], Settlement!StatusOf(x))
           after == OrderAfter(orderStatus[o], plan.path)
           row == Settlement!MergedRow(o, t, obs)
<1>1. /\ orderStatus[o] # "absent"
      /\ plan.kind = "apply"
      /\ payment' = [payment EXCEPT ![x] = row]
      /\ orderStatus' = [orderStatus EXCEPT ![o] = after]
      /\ UNCHANGED <<overdue, ledger, available, chain>>
  <2>1. Settlement!PlanFor(o, t, obs) = plan
    BY PlansByEvidence
  <2>2. Settlement!OrderAfter(orderStatus[o], plan.path) = after
    BY PlansByEvidence
  <2> HIDE DEF plan, after, row
  <2>3. /\ Settlement!ApplyResult(o, t, obs) = "applied"
        /\ payment' = [payment EXCEPT ![x] = row]
        /\ orderStatus' = [orderStatus EXCEPT ![o] = after]
        /\ UNCHANGED <<overdue, ledger, available, chain>>
    BY <2>1, <2>2 DEF Settlement!ApplyObservation, row
  <2>4. orderStatus[o] # "absent" /\ plan.kind = "apply"
    BY <2>1, <2>3 DEF Settlement!ApplyResult
  <2> QED BY <2>3, <2>4
<1>2. x \in Txids
  BY TransfersHaveTxids
<1>3. evaluation \in Evaluations
  BY DEF EvaluatePaymentObservation, Evaluations
<1>4. payment[x] # NoPayment => payment[x] \in Settlement!PaymentRow
  BY <1>2 DEF Settlement!TypeOK
<1>5. Settlement!StatusOf(x) \in RecordedStates
  BY <1>4 DEF Settlement!StatusOf, RecordedStates, Settlement!PaymentRow,
              Settlement!TransactionStates, TransactionStates
<1>6. orderStatus[o] \in (PurchaseStates \ {"created"}) \cup {"absent"}
  BY DEF Settlement!TypeOK, Settlement!PurchaseStates, PurchaseStates
<1> HIDE DEF x, evaluation
<1>7. /\ plan.status \in TransactionStates
      /\ after \in {"payment_detected", "confirming", "paid", "failed"}
  BY <1>1, <1>3, <1>5, <1>6, AppliedPlan DEF TransactionStates, OpenStates
<1>8. row = [order |-> o, transfer |-> t,
             confirmations |-> IF payment[x] = NoPayment THEN obs.confirmations
                               ELSE Settlement!MaxOf(payment[x].confirmations, obs.confirmations),
             status |-> plan.status]
  BY PlansByEvidence DEF Settlement!MergedRow, x, evaluation
<1> HIDE DEF plan, after, row
<1>9. row \in Settlement!PaymentRow
  <2>1. payment[x] # NoPayment => payment[x].confirmations \in Nat
    BY <1>4 DEF Settlement!PaymentRow
  <2> QED
    BY <1>7, <1>8, <2>1 DEF Settlement!PaymentRow, Settlement!MaxOf,
       Settlement!TransactionStates, TransactionStates
<1>10. orderStatus' \in [Orders -> (Settlement!PurchaseStates \ {"created"}) \cup {"absent"}]
  BY <1>1, <1>7 DEF Settlement!TypeOK, Settlement!PurchaseStates
<1>11. payment' \in [Txids -> Settlement!PaymentRow \cup {NoPayment}]
  BY <1>1, <1>2, <1>9 DEF Settlement!TypeOK
<1>12. Settlement!TypeOK'
  BY <1>1, <1>10, <1>11 DEF Settlement!TypeOK
<1>13. payment'[x] \in Settlement!PaymentRow
  BY <1>1, <1>2, <1>9 DEF Settlement!TypeOK
<1> QED BY <1>1, <1>7, <1>12, <1>13 DEF Settlement!TypeOK, x

(* A credit is of a listed order and expires none.                           *)
LEMMA CreditKeepsTypes ==
  ASSUME Settlement!TypeOK, NEW o \in Orders, Settlement!CreditPaidOrder(o)
  PROVE  /\ Settlement!TypeOK'
         /\ \A p \in Orders : orderStatus'[p] = "expired" => orderStatus[p] = "expired"
<1>1. /\ orderStatus' = [orderStatus EXCEPT ![o] = "credited"]
      /\ available' = [available EXCEPT ![OwnerOf[o]] = @ + CountOf[o]]
      /\ UNCHANGED <<overdue, payment, chain>>
  BY DEF Settlement!CreditPaidOrder
<1>2. PICK x \in Txids : ledger' = ledger \cup {Settlement!CreditRow(o, x)}
  BY DEF Settlement!CreditPaidOrder, Settlement!ConfirmedPayments
<1>3. Settlement!CreditRow(o, x) \in Settlement!LedgerRow
  BY OwnersAreUsers, CountsArePositive DEF Settlement!CreditRow, Settlement!LedgerRow
<1>4. available' \in [Users -> Nat]
  <2>1. available \in [Users -> Nat] /\ OwnerOf[o] \in Users /\ CountOf[o] \in Nat
    BY OwnersAreUsers, CountsArePositive DEF Settlement!TypeOK
  <2>2. available[OwnerOf[o]] + CountOf[o] \in Nat
    BY <2>1
  <2> QED BY <1>1, <2>1, <2>2
<1>5. orderStatus' \in [Orders -> (Settlement!PurchaseStates \ {"created"}) \cup {"absent"}]
  BY <1>1 DEF Settlement!TypeOK, Settlement!PurchaseStates
<1>6. Settlement!TypeOK'
  BY <1>1, <1>2, <1>3, <1>4, <1>5 DEF Settlement!TypeOK
<1> QED BY <1>1, <1>6 DEF Settlement!TypeOK

(* What the workers write through creditOrThrow and applyOrThrow leaves what *)
(* they read alone, and is a settlement step or nothing.                     *)
Writes ==
  /\ Settlement!TypeOK'
  /\ UNCHANGED <<overdue, chain>>
  /\ \A p \in Orders : orderStatus'[p] = "expired" => orderStatus[p] = "expired"
  /\ [Settlement!Next]_settlementVars

LEMMA CreditsWrite ==
  ASSUME Settlement!TypeOK, NEW o \in Orders, Credits(o)
  PROVE  Writes
<1>1. CASE Settlement!CreditPaidOrder(o)
  <2>1. UNCHANGED <<overdue, chain>> BY <1>1 DEF Settlement!CreditPaidOrder
  <2>2. Settlement!Next BY <1>1 DEF Settlement!Next
  <2> QED BY <1>1, <2>1, <2>2, CreditKeepsTypes DEF Writes
<1>2. CASE UNCHANGED settlementVars
  BY <1>2 DEF Writes, settlementVars, Settlement!TypeOK
<1> QED BY <1>1, <1>2 DEF Credits

LEMMA ObservationsWrite ==
  ASSUME Settlement!TypeOK, NEW t \in Transfers, PaysFor[t] \in Orders,
         NEW obs \in Settlement!ObservationsOf(TxidOf[t]), obs.confirmations \in Nat,
         Applies(t, obs)
  PROVE  Writes
<1>1. CASE Settlement!ApplyObservation(PaysFor[t], t, obs)
  <2>1. UNCHANGED <<overdue, chain>> BY <1>1 DEF Settlement!ApplyObservation
  <2>2. Settlement!Next BY <1>1 DEF Settlement!Next
  <2> QED BY <1>1, <2>1, <2>2, ApplyKeepsTypes DEF Writes
<1>2. CASE UNCHANGED settlementVars
  BY <1>2 DEF Writes, settlementVars, Settlement!TypeOK
<1> QED BY <1>1, <1>2 DEF Applies

(* What a worker says of an indexed transfer is true of the chain.           *)
LEMMA ObservationsAreTrue ==
  ASSUME Settlement!TypeOK, NEW t \in Transfers, chain[TxidOf[t]].state = "success"
  PROVE  /\ Settlement!CandidateObservation \in Settlement!ObservationsOf(TxidOf[t])
         /\ Settlement!CandidateObservation.confirmations = 0
         /\ \A w \in Workers :
              run[w].depth \in 1..chain[TxidOf[t]].depth =>
                /\ FinalObservation(w) \in Settlement!ObservationsOf(TxidOf[t])
                /\ FinalObservation(w).confirmations \in Nat
<1> DEFINE x == TxidOf[t]
<1>1. Settlement!ObservationsOf(x) =
        {Settlement!CandidateObservation} \cup Settlement!FinalObservations(x)
  BY DEF Settlement!ObservationsOf
<1>2. ASSUME NEW w \in Workers, run[w].depth \in 1..chain[x].depth
      PROVE  /\ FinalObservation(w) \in Settlement!FinalObservations(x)
             /\ FinalObservation(w).confirmations \in Nat
  <2>1. FinalObservation(w) =
          [solidified |-> TRUE, source |-> "solidified_node",
           execution |-> chain[x].state, confirmations |-> run[w].depth]
    BY DEF FinalObservation
  <2>2. FinalObservation(w) \in Settlement!FinalObservations(x)
    BY <1>2, <2>1 DEF Settlement!FinalObservations
  <2>3. chain[x] \in [state : Settlement!ChainStates, depth : Nat]
    BY TransfersHaveTxids DEF Settlement!TypeOK
  <2>4. run[w].depth \in Nat
    BY <1>2, <2>3
  <2> QED BY <2>1, <2>2, <2>4
<1> QED BY <1>1, <1>2 DEF Settlement!CandidateObservation

-----------------------------------------------------------------------------
(* The initial state and the surroundings.                                   *)

(* A worker without a list claims nothing.                                   *)
LEMMA IdleRecords ==
  ASSUME RecordsAreTrue, NEW r \in {Resting} \cup {Halted(reason) : reason \in HaltReasons}
  PROVE  r \in RunRecord /\ ReadingsStand(r)
<1>1. /\ r.toCredit = {} /\ r.toExpire = {} /\ r.active = {} /\ r.mined = {}
      /\ r.single = NoOrder /\ r.candidates = {} /\ r.matched = FALSE
      /\ r.pc \in {"resting"} \cup HaltReasons
  BY DEF Resting, Halted
<1>2. r \in RunRecord
  <2>1. 0 \in 0..MaxDepth
    BY BoundsAreNatural
  <2>2. Resting \in RunRecord
    BY <2>1 DEF Resting, RunRecord
  <2> QED BY <2>2 DEF Halted, RunRecord
<1>3. \A t \in prompt : PaysFor[t] # NoOrder
  BY TransfersPayOrders DEF RecordsAreTrue
<1> QED BY <1>1, <1>2, <1>3 DEF ReadingsStand, HaltReasons

LEMMA InitReconciled == Init => Reconciled
<1> SUFFICES ASSUME Init PROVE Reconciled
  OBVIOUS
<1>1. Settlement!TypeOK
  BY DEF Init, Settlement!Init, Settlement!TypeOK, Settlement!ChainStates
<1>2. RecordsAreTrue /\ PromptPaymentsAreKept
  BY DEF Init, Settlement!Init, RecordsAreTrue, PromptPaymentsAreKept
<1>3. TypeOK
  BY <1>1, <1>2, IdleRecords, BoundsAreNatural DEF Init, TypeOK, RunRecord
<1>4. \A w \in Workers : ReadingsStand(run[w])
  BY <1>2, IdleRecords DEF Init
<1> QED BY <1>2, <1>3, <1>4 DEF Reconciled

(* What stands for a worker survives whatever happens around it: orders      *)
(* become overdue, transfers are mined and shown, blocks are added.          *)
LEMMA ReadingsSurvive ==
  ASSUME NEW r \in RunRecord, ReadingsStand(r),
         overdue \subseteq overdue', indexed \subseteq indexed',
         \A t \in prompt' : t \in prompt \/ PaysFor[t] \in Orders \ overdue,
         \A t \in indexed : /\ chain[TxidOf[t]].depth \in Nat
                            /\ chain'[TxidOf[t]].depth \in Nat
                            /\ chain[TxidOf[t]].depth <= chain'[TxidOf[t]].depth
  PROVE  ReadingsStand(r)'
<1>1. r.toExpire \subseteq overdue' /\ (r.single # NoOrder => r.single \in overdue')
  BY DEF ReadingsStand
<1>2. \A t \in prompt' : t \notin prompt => PaysFor[t] \notin r.toExpire /\ PaysFor[t] # r.single
  BY TransfersPayOrders DEF ReadingsStand
<1>3. r.pc = "apply_final" => r.depth \in 1..chain'[TxidOf[r.transfer]].depth
  BY DEF ReadingsStand
<1> QED BY <1>1, <1>2, <1>3 DEF ReadingsStand

LEMMA SurroundingsReconciled ==
  ASSUME Reconciled,
         \/ \E o \in Orders : OrderArrives(o) \/ DeadlinePasses(o)
         \/ \E x \in Txids : Mine(x) \/ Solidify(x) \/ Deepen(x)
         \/ \E t \in Transfers : IndexShows(t)
  PROVE  Reconciled' /\ [Settlement!Next]_settlementVars
<1> DEFINE ChainOK(c) == c \in [Txids -> [state : Settlement!ChainStates, depth : Nat]]
<1>1. /\ Settlement!TypeOK /\ ChainOK(chain)
      /\ timely \subseteq Transfers /\ indexed \subseteq Transfers /\ prompt \subseteq indexed
      /\ faults \in 0..MaxFaults /\ run \in [Workers -> RunRecord]
  BY DEF Reconciled, TypeOK, RunRecord, Settlement!TypeOK
<1>2. UNCHANGED <<run, faults, payment, ledger, available>>
  BY DEF OrderArrives, DeadlinePasses, Mine, Solidify, Deepen, IndexShows, settlementVars,
     Settlement!CreateOrder, Settlement!PassDeadline, Settlement!TransactionAppears,
     Settlement!TransactionSolidifies, Settlement!BlockIsAdded
<1>3. Settlement!TypeOK' /\ ChainOK(chain)'
  <2>1. overdue' \subseteq Orders
    BY <1>1 DEF Settlement!TypeOK, OrderArrives, DeadlinePasses, Mine, Solidify, Deepen,
       IndexShows, settlementVars, Settlement!CreateOrder, Settlement!PassDeadline,
       Settlement!TransactionAppears, Settlement!TransactionSolidifies, Settlement!BlockIsAdded
  <2>2. orderStatus' \in [Orders -> (Settlement!PurchaseStates \ {"created"}) \cup {"absent"}]
    BY <1>1 DEF Settlement!TypeOK, Settlement!PurchaseStates, OrderArrives, DeadlinePasses, Mine,
       Solidify, Deepen, IndexShows, settlementVars, Settlement!CreateOrder,
       Settlement!PassDeadline, Settlement!TransactionAppears,
       Settlement!TransactionSolidifies, Settlement!BlockIsAdded
  <2>3. ChainOK(chain')
    <3>1. ASSUME NEW x \in Txids, Mine(x) PROVE ChainOK(chain')
      BY <1>1, <3>1 DEF Mine, Settlement!TransactionAppears, Settlement!ChainStates
    <3>2. ASSUME NEW x \in Txids, Solidify(x) PROVE ChainOK(chain')
      BY <1>1, <3>2 DEF Solidify, Settlement!TransactionSolidifies, Settlement!ChainStates
    <3>3. ASSUME NEW x \in Txids, Deepen(x) PROVE ChainOK(chain')
      BY <1>1, <3>3 DEF Deepen, Settlement!BlockIsAdded, Settlement!ChainStates
    <3>4. (\/ \E o \in Orders : OrderArrives(o) \/ DeadlinePasses(o)
           \/ \E t \in Transfers : IndexShows(t)) => chain' = chain
      BY DEF OrderArrives, DeadlinePasses, IndexShows, settlementVars,
         Settlement!CreateOrder, Settlement!PassDeadline
    <3> QED BY <1>1, <3>1, <3>2, <3>3, <3>4
  <2> QED BY <1>1, <1>2, <2>1, <2>2, <2>3 DEF Settlement!TypeOK
<1>4. [Settlement!Next]_settlementVars
  BY DEF OrderArrives, DeadlinePasses, Mine, Solidify, Deepen, IndexShows, Settlement!Next
<1>5. /\ overdue \subseteq overdue' /\ indexed \subseteq indexed' /\ prompt \subseteq prompt'
      /\ timely \subseteq timely'
      /\ indexed' \subseteq Transfers /\ timely' \subseteq Transfers
  BY <1>1 DEF OrderArrives, DeadlinePasses, Mine, Solidify, Deepen, IndexShows, settlementVars,
     Settlement!CreateOrder, Settlement!PassDeadline, Settlement!TransactionAppears,
     Settlement!TransactionSolidifies, Settlement!BlockIsAdded
<1>6. /\ \A t \in timely' : PaysFor[t] \in Orders
      /\ \A t \in prompt' : t \in timely' \cap indexed'
      /\ \A t \in prompt' : t \in prompt \/ PaysFor[t] \in Orders \ overdue
  BY <1>1, TransfersPayOrders DEF Reconciled, RecordsAreTrue, OrderArrives, DeadlinePasses, Mine,
     CandidateWithinOrderWindow, Solidify, Deepen, IndexShows, settlementVars
<1>7. \A x \in Txids : chain[x].state = "success" =>
         /\ chain'[x].state = "success"
         /\ chain[x].depth <= chain'[x].depth
  <2>1. ASSUME NEW y \in Txids, Mine(y) \/ Solidify(y) \/ Deepen(y)
        PROVE \A x \in Txids : chain[x].state = "success" =>
                chain'[x].state = "success" /\ chain[x].depth <= chain'[x].depth
    BY <1>1, <2>1 DEF Mine, Solidify, Deepen, Settlement!TransactionAppears,
       Settlement!TransactionSolidifies, Settlement!BlockIsAdded
  <2>2. (\/ \E o \in Orders : OrderArrives(o) \/ DeadlinePasses(o)
         \/ \E t \in Transfers : IndexShows(t)) => chain' = chain
    BY DEF OrderArrives, DeadlinePasses, IndexShows, settlementVars,
       Settlement!CreateOrder, Settlement!PassDeadline
  <2>3. \A x \in Txids : chain[x].depth \in Nat BY <1>1
  <2> QED BY <2>1, <2>2, <2>3
<1>8. \A t \in indexed' : chain'[TxidOf[t]].state = "success"
  <2>1. \A t \in indexed' : chain[TxidOf[t]].state = "success"
    BY DEF Reconciled, RecordsAreTrue, OrderArrives, DeadlinePasses, Mine, Solidify, Deepen,
       IndexShows
  <2> QED BY <1>5, <1>7, <2>1, TransfersHaveTxids
<1>9. \A o \in Orders : orderStatus'[o] = "expired" => orderStatus[o] = "expired"
  BY <1>1 DEF Settlement!TypeOK, OrderArrives, DeadlinePasses, Mine, Solidify, Deepen,
     IndexShows, settlementVars, Settlement!CreateOrder, Settlement!PassDeadline,
     Settlement!TransactionAppears, Settlement!TransactionSolidifies, Settlement!BlockIsAdded
<1>10. RecordsAreTrue'
  BY <1>5, <1>6, <1>8, <1>9 DEF Reconciled, RecordsAreTrue
<1>11. PromptPaymentsAreKept'
  BY <1>6, <1>9 DEF Reconciled, RecordsAreTrue, PromptPaymentsAreKept
<1>12. \A w \in Workers : ReadingsStand(run[w])'
  <2>1. \A t \in indexed : /\ chain[TxidOf[t]].depth \in Nat
                           /\ chain'[TxidOf[t]].depth \in Nat
                           /\ chain[TxidOf[t]].depth <= chain'[TxidOf[t]].depth
    BY <1>1, <1>3, <1>7, TransfersHaveTxids DEF Reconciled, RecordsAreTrue
  <2>2. ASSUME NEW w \in Workers PROVE ReadingsStand(run[w])'
    <3>1. run[w] \in RunRecord /\ ReadingsStand(run[w])
      BY <1>1 DEF Reconciled
    <3>2. \A r \in RunRecord : ReadingsStand(r) => ReadingsStand(r)'
      BY <1>5, <1>6, <2>1, ReadingsSurvive
    <3> QED BY <1>2, <3>1, <3>2 DEF ReadingsStand
  <2> QED BY <2>2
<1>13. TypeOK'
  BY <1>1, <1>2, <1>3, <1>5, <1>6 DEF TypeOK, RunRecord
<1> QED BY <1>4, <1>10, <1>11, <1>12, <1>13 DEF Reconciled

-----------------------------------------------------------------------------
(* The steps of a run.                                                       *)

(* A step of a worker that writes nothing, or through one of the settlement  *)
(* transactions that expire no order, keeps the invariant when its new local *)
(* state is typed and stands.                                                *)
LEMMA WorkerStep ==
  ASSUME Reconciled, Writes, NEW w \in Workers, NEW r \in RunRecord, ReadingsStand(r),
         run' = [run EXCEPT ![w] = r],
         UNCHANGED <<timely, indexed, prompt>>, faults' \in 0..MaxFaults
  PROVE  Reconciled'
<1>1. run \in [Workers -> RunRecord]
  BY DEF Reconciled, TypeOK, RunRecord
<1>2. TypeOK'
  BY <1>1 DEF Reconciled, TypeOK, RunRecord, Writes
<1>3. RecordsAreTrue'
  BY DEF Reconciled, RecordsAreTrue, Writes
<1>4. PromptPaymentsAreKept'
  BY DEF Reconciled, RecordsAreTrue, PromptPaymentsAreKept, Writes
<1>5. ASSUME NEW v \in Workers PROVE ReadingsStand(run[v])'
  <2>1. run'[v] \in {run[v], r} BY <1>1
  <2>2. ReadingsStand(run'[v]) BY <2>1 DEF Reconciled
  <2> QED BY <2>2 DEF ReadingsStand, Writes
<1> QED BY <1>2, <1>3, <1>4, <1>5 DEF Reconciled

LEMMA NothingIsWritten ==
  ASSUME Reconciled, UNCHANGED settlementVars
  PROVE  Writes
  BY DEF Reconciled, TypeOK, Writes, settlementVars, Settlement!TypeOK

(* What every step of a worker starts from.                                  *)
LEMMA RunIsTyped ==
  ASSUME Reconciled, NEW w \in Workers
  PROVE  /\ run \in [Workers -> RunRecord]
         /\ run[w] \in RunRecord
         /\ ReadingsStand(run[w])
         /\ faults \in 0..MaxFaults
         /\ indexed \subseteq Transfers /\ timely \subseteq Transfers
         /\ Settlement!TypeOK /\ RecordsAreTrue
  BY DEF Reconciled, TypeOK, RunRecord

LEMMA ListOrdersReconciled ==
  ASSUME Reconciled, NEW w \in Workers, ListOrders(w)
  PROVE  Reconciled' /\ Writes
<1> DEFINE paid == {o \in OpenOrders : orderStatus[o] = "paid"}
           late == {o \in overdue : orderStatus[o] = "waiting_payment"}
           listed == [Resting EXCEPT !.pc = "next", !.toCredit = paid, !.toExpire = late,
                                     !.active = OpenOrders \ (paid \cup late),
                                     !.mined = timely]
<1>1. /\ UNCHANGED <<settlementVars, timely, indexed, prompt, faults>>
      /\ \E r \in {Halted("capacity_exceeded"), listed} : run' = [run EXCEPT ![w] = r]
  BY DEF ListOrders
<1>2. /\ indexed \subseteq Transfers /\ timely \subseteq Transfers /\ overdue \subseteq Orders
      /\ faults \in 0..MaxFaults /\ RecordsAreTrue
  BY RunIsTyped DEF Settlement!TypeOK
<1>3. listed \in RunRecord /\ ReadingsStand(listed)
  <2>1. paid \subseteq Orders /\ late \subseteq overdue /\ OpenOrders \subseteq Orders
    BY DEF OpenOrders
  <2> HIDE DEF paid, late
  <2>2. listed \in RunRecord
    <3>1. Resting \in RunRecord BY <1>2, IdleRecords
    <3> QED BY <1>2, <2>1, <3>1 DEF RunRecord
  <2>3. \A t \in prompt : t \in timely /\ PaysFor[t] # NoOrder
    BY <1>2, TransfersPayOrders DEF RecordsAreTrue
  <2> QED BY <2>1, <2>2, <2>3 DEF Resting, ReadingsStand
<1>4. Halted("capacity_exceeded") \in RunRecord /\ ReadingsStand(Halted("capacity_exceeded"))
  BY <1>2, IdleRecords DEF HaltReasons
<1> HIDE DEF listed
<1>5. Writes BY <1>1, NothingIsWritten
<1> QED BY <1>1, <1>2, <1>3, <1>4, <1>5, WorkerStep

(* Resting, halting and restarting leave nothing to stand for.               *)
LEMMA IdlingReconciled ==
  ASSUME Reconciled, NEW w \in Workers,
         \/ FinishRun(w) \/ MeetConflict(w) \/ PageCapacityExceeded(w) \/ ReadFails(w)
         \/ DatabaseFails(w) \/ Restart(w)
  PROVE  Reconciled' /\ Writes
<1>1. /\ UNCHANGED <<settlementVars, timely, indexed, prompt>>
      /\ faults' = faults \/ (faults < MaxFaults /\ faults' = faults + 1)
      /\ \E r \in {Resting} \cup {Halted(reason) : reason \in HaltReasons} :
           run' = [run EXCEPT ![w] = r]
  BY DEF FinishRun, MeetConflict, PageCapacityExceeded, ReadFails, DatabaseFails, Restart,
     HaltReasons
<1>2. faults' \in 0..MaxFaults
  <2>1. faults \in 0..MaxFaults BY RunIsTyped
  <2> QED BY <1>1, <2>1, BoundsAreNatural
<1>3. RecordsAreTrue /\ Writes
  BY <1>1, RunIsTyped, NothingIsWritten
<1> QED BY <1>1, <1>2, <1>3, IdleRecords, WorkerStep

LEMMA ScanReconciled ==
  ASSUME Reconciled, NEW w \in Workers,
         ScanActive(w) \/ \E o \in Orders : ScanOverdue(w, o)
  PROVE  Reconciled' /\ Writes
<1> DEFINE scan(o, group) ==
      [run[w] EXCEPT !.pc = "scan", !.single = o, !.candidates = CandidatesFor(w, group)]
<1>1. /\ run \in [Workers -> RunRecord] /\ run[w] \in RunRecord /\ ReadingsStand(run[w])
      /\ faults \in 0..MaxFaults /\ indexed \subseteq Transfers /\ RecordsAreTrue
  BY RunIsTyped
<1>2. UNCHANGED <<settlementVars, timely, indexed, prompt, faults>>
  BY DEF ScanActive, ScanOverdue
<1>3. Writes BY <1>2, NothingIsWritten
<1>4. \A t \in prompt : t \in indexed /\ PaysFor[t] \in Orders /\ PaysFor[t] # NoOrder
  BY <1>1, TransfersPayOrders DEF RecordsAreTrue
<1>5. \A group \in SUBSET Orders :
        /\ CandidatesFor(w, group) \subseteq indexed
        /\ \A t \in CandidatesFor(w, group) : PaysFor[t] \in Orders
  BY DEF CandidatesFor
<1>6. CASE ScanActive(w)
  <2> DEFINE r == [run[w] EXCEPT !.pc = "scan", !.single = NoOrder, !.active = {},
                                 !.candidates = CandidatesFor(w, run[w].active)]
  <2>1. run' = [run EXCEPT ![w] = r]
    BY <1>1, <1>6 DEF ScanActive
  <2>2. run[w].active \in SUBSET Orders
    BY <1>1 DEF RunRecord
  <2>3. r \in RunRecord
    BY <1>1, <1>5, <2>2 DEF RunRecord
  <2>4. ReadingsStand(r)
    BY <1>1, <1>4, <1>5, <2>2 DEF ReadingsStand, RunRecord
  <2> HIDE DEF r
  <2> QED BY <1>1, <1>2, <1>3, <2>1, <2>3, <2>4, WorkerStep
<1>7. ASSUME NEW o \in Orders, ScanOverdue(w, o) PROVE Reconciled'
  <2> DEFINE r == [run[w] EXCEPT !.pc = "scan", !.single = o, !.matched = FALSE,
                                 !.toExpire = @ \ {o}, !.candidates = CandidatesFor(w, {o})]
  <2>1. run' = [run EXCEPT ![w] = r] /\ o \in run[w].toExpire
    BY <1>1, <1>7 DEF ScanOverdue
  <2>2. {o} \in SUBSET Orders
    OBVIOUS
  <2>3. r \in RunRecord
    BY <1>1, <1>5, <2>2 DEF RunRecord
  <2>4. \A t \in prompt : PaysFor[t] = o => t \in CandidatesFor(w, {o})
    BY <1>1, <1>4, <2>1 DEF ReadingsStand, CandidatesFor
  <2>5. ReadingsStand(r)
    BY <1>1, <1>5, <2>1, <2>2, <2>4 DEF ReadingsStand, RunRecord
  <2> HIDE DEF r
  <2> QED BY <1>1, <1>2, <1>3, <2>1, <2>3, <2>5, WorkerStep
<1> QED BY <1>3, <1>6, <1>7

LEMMA CreditReconciled ==
  ASSUME Reconciled, NEW w \in Workers,
         CreditFound(w) \/ \E o \in Orders : CreditListed(w, o)
  PROVE  Reconciled' /\ Writes
<1>1. /\ run \in [Workers -> RunRecord] /\ run[w] \in RunRecord /\ ReadingsStand(run[w])
      /\ faults \in 0..MaxFaults /\ Settlement!TypeOK /\ RecordsAreTrue
  BY RunIsTyped
<1>2. UNCHANGED <<timely, indexed, prompt, faults>>
  BY DEF CreditFound, CreditListed
<1>3. CASE CreditFound(w)
  <2> DEFINE r == [run[w] EXCEPT !.pc = "scan", !.transfer = NoTransfer]
  <2>1. run' = [run EXCEPT ![w] = r]
    BY <1>1, <1>3 DEF CreditFound
  <2>2. Writes
    <3>1. PaysFor[run[w].transfer] \in Orders
      BY <1>1, <1>3 DEF CreditFound, ReadingsStand
    <3> QED BY <1>1, <1>3, <3>1, CreditsWrite DEF CreditFound
  <2>3. r \in RunRecord /\ ReadingsStand(r)
    BY <1>1 DEF RunRecord, ReadingsStand
  <2> HIDE DEF r
  <2> QED BY <1>1, <1>2, <2>1, <2>2, <2>3, WorkerStep
<1>4. ASSUME NEW o \in Orders, CreditListed(w, o) PROVE Reconciled' /\ Writes
  <2> DEFINE r == [run[w] EXCEPT !.toCredit = @ \ {o}]
  <2>1. run' = [run EXCEPT ![w] = r]
    BY <1>1, <1>4 DEF CreditListed
  <2>2. Writes
    BY <1>1, <1>4, CreditsWrite DEF CreditListed
  <2>3. r \in RunRecord /\ ReadingsStand(r)
    BY <1>1 DEF RunRecord, ReadingsStand
  <2> HIDE DEF r
  <2> QED BY <1>1, <1>2, <2>1, <2>2, <2>3, WorkerStep
<1> QED BY <1>3, <1>4

LEMMA EvidenceReconciled ==
  ASSUME Reconciled, NEW w \in Workers,
         \/ ApplyFinal(w) \/ InspectNotFound(w)
         \/ \E t \in Transfers : DetectCandidate(w, t)
         \/ \E depth \in 1..MaxDepth : InspectFinds(w, depth)
  PROVE  Reconciled' /\ Writes
<1>1. /\ run \in [Workers -> RunRecord] /\ run[w] \in RunRecord /\ ReadingsStand(run[w])
      /\ faults \in 0..MaxFaults /\ Settlement!TypeOK /\ RecordsAreTrue
      /\ indexed \subseteq Transfers
  BY RunIsTyped
<1>2. UNCHANGED <<timely, indexed, prompt, faults>>
  BY DEF ApplyFinal, InspectNotFound, DetectCandidate, InspectFinds
<1>3. \A t \in indexed : t \in Transfers /\ chain[TxidOf[t]].state = "success"
  BY <1>1 DEF RecordsAreTrue
<1>4. CASE ApplyFinal(w)
  <2>1. PICK r \in {[run[w] EXCEPT !.pc = "credit_found", !.depth = 0],
                    [run[w] EXCEPT !.pc = "scan", !.depth = 0, !.transfer = NoTransfer]} :
          run' = [run EXCEPT ![w] = r]
    BY <1>1, <1>4 DEF ApplyFinal
  <2>2. /\ run[w].pc = "apply_final" /\ run[w].transfer \in indexed
        /\ PaysFor[run[w].transfer] \in Orders
        /\ run[w].depth \in 1..chain[TxidOf[run[w].transfer]].depth
    BY <1>1, <1>4 DEF ApplyFinal, ReadingsStand
  <2>3. /\ FinalObservation(w) \in Settlement!ObservationsOf(TxidOf[run[w].transfer])
        /\ FinalObservation(w).confirmations \in Nat
    BY <1>1, <1>3, <2>2, ObservationsAreTrue
  <2>4. Applies(run[w].transfer, FinalObservation(w))
    BY <1>4 DEF ApplyFinal
  <2>5. Writes
    BY <1>1, <1>3, <2>2, <2>3, <2>4, ObservationsWrite
  <2>6. 0 \in 0..MaxDepth
    BY BoundsAreNatural
  <2>7. r \in RunRecord
    BY <1>1, <2>1, <2>6 DEF RunRecord
  <2>8. ReadingsStand(r)
    BY <1>1, <2>1, <2>2 DEF RunRecord, ReadingsStand
  <2> QED BY <1>1, <1>2, <2>1, <2>5, <2>7, <2>8, WorkerStep
<1>5. CASE InspectNotFound(w)
  <2> DEFINE r == [run[w] EXCEPT !.pc = "scan", !.transfer = NoTransfer]
  <2>1. run' = [run EXCEPT ![w] = r] /\ UNCHANGED settlementVars
    BY <1>1, <1>5 DEF InspectNotFound
  <2>2. r \in RunRecord /\ ReadingsStand(r)
    BY <1>1 DEF RunRecord, ReadingsStand
  <2> HIDE DEF r
  <2> QED BY <1>1, <1>2, <2>1, <2>2, NothingIsWritten, WorkerStep
<1>6. ASSUME NEW t \in Transfers, DetectCandidate(w, t) PROVE Reconciled' /\ Writes
  <2>1. PICK pc \in {"credit_found", "scan", "inspect"} :
          run' = [run EXCEPT ![w].pc = pc, ![w].matched = TRUE, ![w].candidates = @ \ {t},
                             ![w].transfer = IF pc = "scan" THEN NoTransfer ELSE t]
    BY <1>6 DEF DetectCandidate
  <2> DEFINE r == [run[w] EXCEPT !.pc = pc, !.matched = TRUE, !.candidates = @ \ {t},
                                 !.transfer = IF pc = "scan" THEN NoTransfer ELSE t]
  <2>2. run' = [run EXCEPT ![w] = r]
    BY <1>1, <2>1
  <2>3. t \in indexed /\ PaysFor[t] \in Orders
    BY <1>1, <1>6 DEF DetectCandidate, ReadingsStand
  <2>4. Writes
    <3>1. /\ Settlement!CandidateObservation \in Settlement!ObservationsOf(TxidOf[t])
          /\ Settlement!CandidateObservation.confirmations \in Nat
      BY <1>1, <1>3, <2>3, ObservationsAreTrue
    <3> QED BY <1>1, <1>6, <2>3, <3>1, ObservationsWrite DEF DetectCandidate
  <2>5. r \in RunRecord /\ ReadingsStand(r)
    BY <1>1, <2>3 DEF RunRecord, ReadingsStand
  <2> HIDE DEF r
  <2> QED BY <1>1, <1>2, <2>2, <2>4, <2>5, WorkerStep
<1>7. ASSUME NEW depth \in 1..MaxDepth, InspectFinds(w, depth) PROVE Reconciled' /\ Writes
  <2> DEFINE r == [run[w] EXCEPT !.pc = "apply_final", !.depth = depth]
  <2>1. /\ run' = [run EXCEPT ![w] = r] /\ UNCHANGED settlementVars
        /\ run[w].pc = "inspect" /\ depth <= chain[TxidOf[run[w].transfer]].depth
    BY <1>1, <1>7 DEF InspectFinds
  <2>2. depth \in 0..MaxDepth /\ depth \in 1..chain[TxidOf[run[w].transfer]].depth
    <3>1. run[w].transfer \in Transfers
      BY <1>1, <1>3, <2>1 DEF ReadingsStand
    <3>2. chain[TxidOf[run[w].transfer]].depth \in Nat
      BY <1>1, <3>1, TransfersHaveTxids DEF Settlement!TypeOK
    <3> QED BY <2>1, <3>2, BoundsAreNatural
  <2>3. r \in RunRecord /\ ReadingsStand(r)
    BY <1>1, <2>1, <2>2 DEF RunRecord, ReadingsStand
  <2> HIDE DEF r
  <2> QED BY <1>1, <1>2, <2>1, <2>3, NothingIsWritten, WorkerStep
<1> QED BY <1>4, <1>5, <1>6, <1>7

(* The one step that expires an order: the order is overdue and no prompt    *)
(* transfer pays it, for the scan would have matched it.                     *)
LEMMA FinishScanReconciled ==
  ASSUME Reconciled, NEW w \in Workers, FinishScan(w)
  PROVE  Reconciled' /\ [Settlement!Next]_settlementVars
<1> DEFINE o == run[w].single
           r == [run[w] EXCEPT !.pc = "next", !.single = NoOrder, !.matched = FALSE]
<1>1. /\ run \in [Workers -> RunRecord] /\ run[w] \in RunRecord /\ ReadingsStand(run[w])
      /\ faults \in 0..MaxFaults /\ Settlement!TypeOK /\ RecordsAreTrue
  BY RunIsTyped
<1>2. /\ UNCHANGED <<timely, indexed, prompt, faults>>
      /\ run' = [run EXCEPT ![w] = r]
      /\ run[w].pc = "scan" /\ run[w].candidates = {}
  BY <1>1 DEF FinishScan
<1>3. \A t \in prompt : PaysFor[t] \in Orders /\ PaysFor[t] # NoOrder
  BY <1>1, TransfersPayOrders DEF RecordsAreTrue
<1>4. r \in RunRecord /\ ReadingsStand(r)
  BY <1>1, <1>2, <1>3 DEF RunRecord, ReadingsStand
<1>5. CASE UNCHANGED settlementVars
  <2> HIDE DEF r
  <2>1. Writes BY <1>5, NothingIsWritten
  <2> QED BY <1>1, <1>2, <1>4, <2>1, WorkerStep DEF Writes
<1>6. CASE o # NoOrder /\ ~run[w].matched /\ Settlement!ExpireWaitingOrder(o)
  <2>1. o \in Orders /\ o \in overdue
    BY <1>1, <1>6 DEF RunRecord, Settlement!ExpireWaitingOrder
  <2>2. /\ orderStatus' = [orderStatus EXCEPT ![o] = "expired"]
        /\ UNCHANGED <<overdue, payment, ledger, available, chain>>
    BY <1>6 DEF Settlement!ExpireWaitingOrder
  <2>3. \A t \in prompt : PaysFor[t] # o
    BY <1>1, <1>2, <1>6 DEF ReadingsStand
  <2> HIDE DEF r, o
  <2>4. Settlement!TypeOK'
    BY <1>1, <2>1, <2>2 DEF Settlement!TypeOK, Settlement!PurchaseStates
  <2>5. \A p \in Orders : orderStatus'[p] = "expired" => p = o \/ orderStatus[p] = "expired"
    BY <1>1, <2>2 DEF Settlement!TypeOK
  <2>6. TypeOK'
    BY <1>1, <1>2, <1>4, <2>4 DEF Reconciled, TypeOK, RunRecord
  <2>7. RecordsAreTrue'
    BY <1>2, <2>1, <2>2, <2>5 DEF Reconciled, RecordsAreTrue
  <2>8. PromptPaymentsAreKept'
    BY <1>2, <1>3, <2>3, <2>5 DEF Reconciled, PromptPaymentsAreKept
  <2>9. ASSUME NEW v \in Workers PROVE ReadingsStand(run[v])'
    <3>1. run'[v] \in {run[v], r} BY <1>1, <1>2
    <3>2. ReadingsStand(run'[v]) BY <1>4, <3>1 DEF Reconciled
    <3> QED BY <1>2, <2>2, <3>2 DEF ReadingsStand
  <2>10. Settlement!Next
    BY <1>6, <2>1 DEF Settlement!Next, o
  <2> QED BY <2>6, <2>7, <2>8, <2>9, <2>10 DEF Reconciled
<1> QED BY <1>5, <1>6 DEF FinishScan

-----------------------------------------------------------------------------
(* The theorems.                                                             *)

LEMMA NextReconciled ==
  ASSUME Reconciled, [Next]_vars
  PROVE  Reconciled' /\ [Settlement!Next]_settlementVars
<1>1. CASE \/ \E o \in Orders : OrderArrives(o) \/ DeadlinePasses(o)
           \/ \E x \in Txids : Mine(x) \/ Solidify(x) \/ Deepen(x)
           \/ \E t \in Transfers : IndexShows(t)
  BY <1>1, SurroundingsReconciled
<1>2. ASSUME NEW w \in Workers,
             Work(w) \/ ReadFails(w) \/ DatabaseFails(w) \/ PageCapacityExceeded(w) \/ Restart(w)
      PROVE  Reconciled' /\ [Settlement!Next]_settlementVars
  <2>1. CASE ListOrders(w)
    BY <2>1, ListOrdersReconciled DEF Writes
  <2>2. CASE ScanActive(w) \/ \E o \in Orders : ScanOverdue(w, o)
    BY <2>2, ScanReconciled DEF Writes
  <2>3. CASE CreditFound(w) \/ \E o \in Orders : CreditListed(w, o)
    BY <2>3, CreditReconciled DEF Writes
  <2>4. CASE \/ ApplyFinal(w) \/ InspectNotFound(w)
             \/ \E t \in Transfers : DetectCandidate(w, t)
             \/ \E depth \in 1..MaxDepth : InspectFinds(w, depth)
    BY <2>4, EvidenceReconciled DEF Writes
  <2>5. CASE FinishScan(w)
    BY <2>5, FinishScanReconciled
  <2>6. CASE \/ FinishRun(w) \/ MeetConflict(w) \/ PageCapacityExceeded(w) \/ ReadFails(w)
             \/ DatabaseFails(w) \/ Restart(w)
    BY <2>6, IdlingReconciled DEF Writes
  <2> QED BY <1>2, <2>1, <2>2, <2>3, <2>4, <2>5, <2>6 DEF Work
<1>3. CASE UNCHANGED vars
  BY <1>3 DEF vars, settlementVars, Reconciled, TypeOK, RecordsAreTrue, ReadingsStand,
     PromptPaymentsAreKept, Settlement!TypeOK
<1> QED BY <1>1, <1>2, <1>3 DEF Next

LEMMA SpecReconciled == Spec => []Reconciled
<1>1. Reconciled /\ [Next]_vars => Reconciled' BY NextReconciled
<1> QED BY InitReconciled, <1>1, PTL DEF Spec

(* Every local variable of every worker keeps its type, whatever restarts    *)
(* and errors there are.                                                     *)
THEOREM ReconciliationTypeOK == Spec => []TypeOK
<1>1. Reconciled => TypeOK BY DEF Reconciled
<1> QED BY <1>1, SpecReconciled, PTL

(* Whatever a worker has read is still true when it acts on it, for any      *)
(* number of workers, orders and transfers: the orders it may expire are     *)
(* overdue, no prompt payment of theirs can slip through its scans, and the  *)
(* candidates and the depth it holds are true of the chain.                  *)
THEOREM WhatWasReadStaysTrue == Spec => []ReadingsStayTrue
<1>1. ASSUME Reconciled PROVE ReadingsStayTrue
  <2> SUFFICES ASSUME NEW w \in Workers
               PROVE  LET r == run[w] IN
                 /\ r.toExpire \cup ({r.single} \ {NoOrder}) \subseteq overdue
                 /\ \A t \in prompt : /\ PaysFor[t] \in r.toExpire => t \in r.mined
                                      /\ PaysFor[t] = r.single => t \in r.candidates \/ r.matched
                 /\ \A t \in r.candidates : chain[TxidOf[t]].state = "success"
                 /\ r.pc \in {"inspect", "apply_final", "credit_found"} =>
                      chain[TxidOf[r.transfer]].state = "success"
                 /\ r.pc = "apply_final" => r.depth <= chain[TxidOf[r.transfer]].depth
    BY DEF ReadingsStayTrue
  <2> DEFINE r == run[w]
  <2>1. ReadingsStand(r) /\ RecordsAreTrue /\ TypeOK
    BY <1>1 DEF Reconciled
  <2>2. /\ r.toExpire \cup ({r.single} \ {NoOrder}) \subseteq overdue
        /\ \A t \in prompt : /\ PaysFor[t] \in r.toExpire => t \in r.mined
                             /\ PaysFor[t] = r.single => t \in r.candidates \/ r.matched
    BY <2>1 DEF ReadingsStand
  <2>3. /\ \A t \in r.candidates : chain[TxidOf[t]].state = "success"
        /\ r.pc \in {"inspect", "apply_final", "credit_found"} =>
             chain[TxidOf[r.transfer]].state = "success"
    BY <2>1 DEF ReadingsStand, RecordsAreTrue
  <2>4. r.pc = "apply_final" => r.depth <= chain[TxidOf[r.transfer]].depth
    <3>1. SUFFICES ASSUME r.pc = "apply_final"
                   PROVE  r.depth <= chain[TxidOf[r.transfer]].depth
      OBVIOUS
    <3>2. r.depth \in 1..chain[TxidOf[r.transfer]].depth /\ r.transfer \in indexed
      BY <2>1, <3>1 DEF ReadingsStand
    <3> QED BY <3>2
  <2> QED BY <2>2, <2>3, <2>4
<1> QED BY <1>1, SpecReconciled, PTL

(* However many runs overlap and however old their lists are, what they do   *)
(* to the database is a behaviour of PaymentSettlement: an observation a     *)
(* worker applies was true of the chain and still is, and an order it        *)
(* expires is overdue.  So what is proved of the settlement transactions     *)
(* holds of the running workers.                                             *)
THEOREM WorkersImplementSettlement == Spec => ImplementsSettlement
<1>1. Init => Settlement!Init BY DEF Init
<1>2. Reconciled /\ [Next]_vars => [Settlement!Next]_settlementVars BY NextReconciled
<1>3. Reconciled /\ [Next]_vars => [Settlement!Next]_Settlement!vars
  BY <1>2 DEF settlementVars, Settlement!vars
<1> QED BY <1>1, <1>3, SpecReconciled, PTL
        DEF Spec, ImplementsSettlement, Settlement!Spec

(* An order whose payment was mined and indexed in its window is never       *)
(* expired, however the runs of the processes overlap: the list a scan works *)
(* from was taken after the deadline, so the scan saw every prompt transfer. *)
THEOREM ExpiryNeverOvertakesPayment == Spec => []PromptPaymentsAreKept
<1>1. Reconciled => PromptPaymentsAreKept BY DEF Reconciled
<1> QED BY <1>1, SpecReconciled, PTL

-----------------------------------------------------------------------------
(* Why workers never stop each other.  The database always holds what the    *)
(* next transaction on an order needs, and a worker that comes late finds it *)
(* further on, never changed: what follows holds of the database ...         *)
Confirmed(o) == orderStatus[o] \in {"paid", "credited"}

RowsAreBacked ==
  \A x \in Txids : payment[x] # NoPayment =>
    /\ TxidOf[payment[x].transfer] = x
    /\ PaysFor[payment[x].transfer] = payment[x].order
    /\ payment[x].status # "rejected"

OrdersAreBacked ==
  \A o \in Orders :
    /\ orderStatus[o] # "failed"
    /\ IF Confirmed(o) THEN \E x \in Txids : Settlement!ConfirmedPayments(o) = {x}
                       ELSE Settlement!ConfirmedPayments(o) = {}

CreditsAreBacked ==
  /\ \A row \in ledger :
       /\ orderStatus[row.order] = "credited"
       /\ Settlement!ConfirmedPayments(row.order) = {row.txid}
       /\ row = Settlement!CreditRow(row.order, row.txid)
  /\ \A o \in Orders : orderStatus[o] = "credited" => \E row \in ledger : row.order = o

TimelyAreListed == \A t \in timely : orderStatus[PaysFor[t]] # "absent"

Backed == RowsAreBacked /\ OrdersAreBacked /\ CreditsAreBacked /\ TimelyAreListed

(* ... and of a worker with local state r.                                   *)
Welcome(r) ==
  /\ \A o \in r.toCredit : Confirmed(o)
  /\ r.mined \subseteq timely
  /\ r.candidates \subseteq timely
  /\ r.pc \in {"inspect", "apply_final", "credit_found"} => r.transfer \in timely
  /\ r.pc = "credit_found" => Confirmed(PaysFor[r.transfer])
  /\ r.pc = "conflict" => SharedTransaction

Undisturbed ==
  /\ Reconciled
  /\ Backed
  /\ \A w \in Workers : Welcome(run[w])

(* What no step takes back.                                                  *)
StaysConfirmed ==
  /\ \A o \in Orders : Confirmed(o) => Confirmed(o)'
  /\ timely \subseteq timely'

(* So what is welcome stays welcome, whoever makes the step.                 *)
LEMMA WelcomeSurvives ==
  ASSUME NEW r \in RunRecord, RecordsAreTrue, Welcome(r), StaysConfirmed
  PROVE  Welcome(r)'
<1>1. \A o \in r.toCredit : Confirmed(o)'
  BY DEF RunRecord, Welcome, StaysConfirmed
<1>2. r.pc = "credit_found" => Confirmed(PaysFor[r.transfer])'
  <2> SUFFICES ASSUME r.pc = "credit_found" PROVE Confirmed(PaysFor[r.transfer])'
    OBVIOUS
  <2>1. r.transfer \in timely /\ Confirmed(PaysFor[r.transfer])
    BY DEF Welcome
  <2>2. PaysFor[r.transfer] \in Orders
    BY <2>1 DEF RecordsAreTrue
  <2> QED BY <2>1, <2>2 DEF StaysConfirmed
<1> QED BY <1>1, <1>2 DEF Welcome, StaysConfirmed

-----------------------------------------------------------------------------
(* A credit of a confirmed order goes through, or was made before.           *)
LEMMA CreditsAreWelcome ==
  ASSUME Settlement!TypeOK, Backed, NEW o \in Orders, Confirmed(o)
  PROVE  ~CreditRefused(o)
<1>1. PICK x \in Txids : Settlement!ConfirmedPayments(o) = {x}
  BY DEF Backed, OrdersAreBacked
<1>2. (CHOOSE y \in Settlement!ConfirmedPayments(o) : TRUE) = x
  BY <1>1
<1>3. ~ \E y, z \in Settlement!ConfirmedPayments(o) : y # z
  BY <1>1
<1>4. \A row \in ledger : row.order = o \/ row.txid = x =>
        /\ row.order = o /\ orderStatus[o] = "credited"
        /\ row = Settlement!CreditRow(o, x)
  <2> SUFFICES ASSUME NEW row \in ledger, row.order = o \/ row.txid = x
      PROVE  /\ row.order = o /\ orderStatus[o] = "credited"
             /\ row = Settlement!CreditRow(o, x)
    OBVIOUS
  <2>1. /\ orderStatus[row.order] = "credited"
        /\ Settlement!ConfirmedPayments(row.order) = {row.txid}
        /\ row = Settlement!CreditRow(row.order, row.txid)
    BY DEF Backed, CreditsAreBacked
  <2>2. row.order = o
    <3>1. CASE row.txid = x
      <4>1. x \in Settlement!ConfirmedPayments(row.order) /\ x \in Settlement!ConfirmedPayments(o)
        BY <1>1, <2>1, <3>1
      <4> QED BY <4>1 DEF Settlement!ConfirmedPayments
    <3> QED BY <3>1
  <2>3. row.txid = x
    BY <1>1, <2>1, <2>2
  <2> QED BY <2>1, <2>2, <2>3
<1>5. CASE orderStatus[o] = "paid"
  <2>1. Settlement!ExistingCredits(o, x) = {}
    BY <1>4, <1>5 DEF Settlement!ExistingCredits
  <2>2. Settlement!CreditResult(o) = "credited"
    BY <1>1, <1>2, <1>3, <1>5, <2>1 DEF Settlement!CreditResult
  <2> QED BY <2>2 DEF CreditRefused
<1>6. CASE orderStatus[o] = "credited"
  <2>1. \E row \in ledger : row.order = o
    BY <1>6 DEF Backed, CreditsAreBacked
  <2>2. Settlement!ExistingCredits(o, x) = {Settlement!CreditRow(o, x)}
    BY <1>4, <2>1 DEF Settlement!ExistingCredits
  <2>3. Settlement!CreditResult(o) = "replay"
    BY <1>1, <1>2, <1>3, <1>6, <2>2 DEF Settlement!CreditResult
  <2> QED BY <2>3 DEF CreditRefused
<1> QED BY <1>5, <1>6 DEF Confirmed

(* A credit writes the one row the ledger needs of its order.                *)
LEMMA CreditsKeepBacked ==
  ASSUME Settlement!TypeOK, RecordsAreTrue, Backed, NEW o \in Orders, Credits(o),
         timely' = timely
  PROVE  Backed' /\ StaysConfirmed /\ (Confirmed(o) => Confirmed(o)')
<1>1. CASE UNCHANGED settlementVars
  BY <1>1 DEF settlementVars, Backed, RowsAreBacked, OrdersAreBacked, CreditsAreBacked,
     TimelyAreListed, StaysConfirmed, Confirmed, Settlement!ConfirmedPayments, Settlement!CreditRow
<1>2. CASE Settlement!CreditPaidOrder(o)
  <2>1. /\ Settlement!CreditResult(o) = "credited"
        /\ orderStatus' = [orderStatus EXCEPT ![o] = "credited"]
        /\ UNCHANGED <<payment, chain>>
    BY <1>2 DEF Settlement!CreditPaidOrder
  <2>2. PICK x \in Settlement!ConfirmedPayments(o) :
          ledger' = ledger \cup {Settlement!CreditRow(o, x)}
    BY <1>2 DEF Settlement!CreditPaidOrder
  <2>3. Confirmed(o)
    BY <2>1 DEF Settlement!CreditResult, Confirmed
  <2>4. Settlement!ConfirmedPayments(o) = {x}
    BY <2>2, <2>3 DEF Backed, OrdersAreBacked
  <2>5. \A p \in Orders : orderStatus'[p] = IF p = o THEN "credited" ELSE orderStatus[p]
    BY <2>1 DEF Settlement!TypeOK
  <2>6. \A p : Settlement!ConfirmedPayments(p)' = Settlement!ConfirmedPayments(p)
    BY <2>1 DEF Settlement!ConfirmedPayments
  <2>7. \A p \in Orders : Confirmed(p)' <=> Confirmed(p)
    BY <2>3, <2>5 DEF Confirmed
  <2>8. RowsAreBacked' /\ OrdersAreBacked'
    BY <2>1, <2>5, <2>6, <2>7 DEF Backed, RowsAreBacked, OrdersAreBacked
  <2>9. CreditsAreBacked'
    <3> DEFINE new == Settlement!CreditRow(o, x)
    <3>1. new.order = o /\ new.txid = x
      BY DEF Settlement!CreditRow
    <3>2. \A row \in ledger : row.order \in Orders
      BY DEF Settlement!TypeOK, Settlement!LedgerRow
    <3>3. \A p, y : Settlement!CreditRow(p, y)' = Settlement!CreditRow(p, y)
      BY DEF Settlement!CreditRow
    <3> HIDE DEF new
    <3>4. ASSUME NEW row \in ledger'
          PROVE  /\ orderStatus'[row.order] = "credited"
                 /\ Settlement!ConfirmedPayments(row.order)' = {row.txid}
                 /\ row = Settlement!CreditRow(row.order, row.txid)'
      <4>1. CASE row \in ledger
        BY <2>5, <2>6, <3>2, <3>3, <4>1 DEF Backed, CreditsAreBacked
      <4>2. CASE row = new
        BY <2>4, <2>5, <2>6, <3>1, <3>3, <4>2 DEF new
      <4> QED BY <2>2, <4>1, <4>2 DEF new
    <3>5. ASSUME NEW p \in Orders, orderStatus'[p] = "credited"
          PROVE  \E row \in ledger' : row.order = p
      <4>1. CASE p = o
        BY <2>2, <3>1, <4>1 DEF new
      <4>2. CASE p # o
        BY <2>2, <2>5, <3>5, <4>2 DEF Backed, CreditsAreBacked
      <4> QED BY <4>1, <4>2
    <3> QED BY <3>4, <3>5 DEF CreditsAreBacked
  <2>10. TimelyAreListed'
    BY <2>5 DEF Backed, TimelyAreListed, RecordsAreTrue
  <2> QED BY <2>7, <2>8, <2>9, <2>10 DEF Backed, StaysConfirmed
<1> QED BY <1>1, <1>2 DEF Credits

-----------------------------------------------------------------------------
(* What a worker says of a transfer: a candidate, or final.  It never saw    *)
(* one fail.                                                                 *)
Success(obs) == obs \in {Settlement!CandidateObservation} \cup {FinalObservation(w) : w \in Workers}

(* Evidence of a transfer that was mined in time is applied to an order that *)
(* is open, or comes too late to matter.                                     *)
LEMMA SuccessIsPlanned ==
  ASSUME Settlement!TypeOK, RecordsAreTrue, Backed, timely \subseteq Transfers,
         NEW t \in timely, NEW obs, Success(obs)
  PROVE  LET o == PaysFor[t]
             plan == Settlement!PlanFor(o, t, obs)
             after == Settlement!OrderAfter(orderStatus[o], plan.path)
         IN  /\ plan.kind \in {"apply", "terminal_noop"}
             /\ plan.kind = "apply" =>
                  /\ ~Confirmed(o)
                  /\ plan.status \in {"detected", "confirming", "confirmed"}
                  /\ after \in {"payment_detected", "confirming", "paid"}
                  /\ after = "paid" <=> plan.status = "confirmed"
<1> DEFINE o == PaysFor[t]
           x == TxidOf[t]
           evaluation == EvaluatePaymentObservation(PaysFor[t] = o, RequiredConfirmations, obs)
<1>1. o \in Orders /\ x \in Txids
  <2>1. t \in Transfers
    OBVIOUS
  <2> QED BY <2>1, TransfersHaveTxids DEF RecordsAreTrue
<1>2. evaluation \in Evaluations \ {"mismatch", "execution_failed"}
  BY DEF Success, EvaluatePaymentObservation, Evaluations, FinalObservation,
     Settlement!CandidateObservation
<1>3. orderStatus[o] \in PurchaseStates \ {"created", "failed"}
  <2>1. orderStatus[o] # "absent" /\ orderStatus[o] # "failed"
    BY <1>1 DEF Backed, TimelyAreListed, OrdersAreBacked
  <2> QED BY <1>1, <2>1 DEF Settlement!TypeOK, Settlement!PurchaseStates, PurchaseStates
<1>4. Settlement!StatusOf(x) \in RecordedStates \ {"rejected"}
  <2>1. CASE payment[x] = NoPayment
    BY <2>1 DEF Settlement!StatusOf, RecordedStates
  <2>2. CASE payment[x] # NoPayment
    <3>1. payment[x] \in Settlement!PaymentRow
      BY <1>1, <2>2 DEF Settlement!TypeOK
    <3>2. payment[x].status # "rejected"
      BY <1>1, <2>2 DEF Backed, RowsAreBacked
    <3> QED BY <2>2, <3>1, <3>2 DEF Settlement!StatusOf, RecordedStates, Settlement!PaymentRow,
               Settlement!TransactionStates, TransactionStates
  <2> QED BY <2>1, <2>2
<1> HIDE DEF evaluation
<1>5. /\ Settlement!PlanFor(o, t, obs) =
           PlanPaymentEvidenceLifecycle(evaluation, orderStatus[o], Settlement!StatusOf(x))
      /\ \A s, path : Settlement!OrderAfter(s, path) = OrderAfter(s, path)
  BY PlansByEvidence DEF evaluation
<1>6. orderStatus[o] \in OpenStates => ~Confirmed(o)
  BY DEF OpenStates, Confirmed
<1> HIDE DEF o, x
<1>7. LET plan == PlanPaymentEvidenceLifecycle(evaluation, orderStatus[o], Settlement!StatusOf(x))
          after == OrderAfter(orderStatus[o], plan.path)
      IN  /\ plan.kind \in {"apply", "terminal_noop"}
          /\ plan.kind = "apply" =>
               /\ orderStatus[o] \in OpenStates
               /\ plan.status \in {"detected", "confirming", "confirmed"}
               /\ after \in {"payment_detected", "confirming", "paid"}
               /\ after = "paid" <=> plan.status = "confirmed"
  BY <1>2, <1>3, <1>4, SuccessIsTaken
<1> QED BY <1>5, <1>6, <1>7 DEF o

(* What contradicts it is of another order, paid by the same transaction.    *)
LEMMA ObservationsAreWelcome ==
  ASSUME Settlement!TypeOK, RecordsAreTrue, Backed, timely \subseteq Transfers,
         NEW t \in timely, NEW obs, Success(obs), ApplyRefused(t, obs)
  PROVE  SharedTransaction
<1> DEFINE o == PaysFor[t]
           x == TxidOf[t]
           plan == Settlement!PlanFor(o, t, obs)
<1>1. /\ o \in Orders /\ orderStatus[o] # "absent" /\ t \in Transfers /\ x \in Txids
  BY TransfersHaveTxids DEF RecordsAreTrue, Backed, TimelyAreListed
<1>2. /\ plan.kind \in {"apply", "terminal_noop"}
      /\ plan.kind = "apply" => ~Confirmed(o)
  BY SuccessIsPlanned
<1>3. CASE Settlement!ExistingConflict(o, t)
  <2> DEFINE row == payment[x]
  <2>1. row # NoPayment /\ (row.order # o \/ row.transfer # t)
    BY <1>3 DEF Settlement!ExistingConflict
  <2>2. row \in Settlement!PaymentRow
    BY <1>1, <2>1 DEF Settlement!TypeOK
  <2>3. row.transfer \in Transfers /\ row.order \in Orders
    BY <2>2 DEF Settlement!PaymentRow
  <2>4. TxidOf[row.transfer] = x /\ PaysFor[row.transfer] = row.order
    BY <1>1, <2>1 DEF Backed, RowsAreBacked
  <2>5. row.transfer # t
    BY <2>1, <2>4
  <2> QED BY <1>1, <2>3, <2>4, <2>5 DEF SharedTransaction
<1>4. CASE ~Settlement!ExistingConflict(o, t)
  <2> HIDE DEF plan
  <2>1. Settlement!ApplyResult(o, t, obs) = IF plan.kind = "apply" THEN "applied" ELSE "terminal_noop"
    BY <1>1, <1>2, <1>4 DEF Settlement!ApplyResult, plan
  <2>2. plan.kind = "apply" => Settlement!UniqueConfirmedPayment(o, t, plan.status)
    BY <1>1, <1>2 DEF Settlement!UniqueConfirmedPayment, Backed, OrdersAreBacked
  <2> QED BY <2>1, <2>2 DEF ApplyRefused, plan
<1> QED BY <1>3, <1>4

(* Applied, it leaves each order with the one confirmed payment it needs.    *)
LEMMA AppliesKeepBacked ==
  ASSUME Settlement!TypeOK, RecordsAreTrue, Backed, timely \subseteq Transfers,
         NEW t \in timely, NEW obs, Success(obs), obs.confirmations \in Nat,
         Applies(t, obs), timely' = timely
  PROVE  Backed' /\ StaysConfirmed
<1> DEFINE o == PaysFor[t]
           x == TxidOf[t]
           plan == Settlement!PlanFor(o, t, obs)
           after == Settlement!OrderAfter(orderStatus[o], plan.path)
           row == Settlement!MergedRow(o, t, obs)
<1>1. CASE UNCHANGED settlementVars
  BY <1>1 DEF settlementVars, Backed, RowsAreBacked, OrdersAreBacked, CreditsAreBacked,
     TimelyAreListed, StaysConfirmed, Confirmed, Settlement!ConfirmedPayments, Settlement!CreditRow
<1>2. CASE Settlement!ApplyObservation(o, t, obs)
  <2>1. o \in Orders /\ t \in Transfers /\ x \in Txids
    BY TransfersHaveTxids DEF RecordsAreTrue
  <2>2. Settlement!ApplyResult(o, t, obs) = "applied"
    BY <1>2 DEF Settlement!ApplyObservation
  <2>3. ~Settlement!ExistingConflict(o, t) /\ plan.kind = "apply"
    <3> HIDE DEF plan
    <3> QED BY <2>2 DEF Settlement!ApplyResult, plan
  <2>4. /\ ~Confirmed(o)
        /\ plan.status \in {"detected", "confirming", "confirmed"}
        /\ after \in {"payment_detected", "confirming", "paid"}
        /\ after = "paid" <=> plan.status = "confirmed"
    BY <2>3, SuccessIsPlanned
  <2>5. row.order = o /\ row.transfer = t /\ row.status = plan.status
    BY DEF Settlement!MergedRow
  <2>6. /\ payment' = [payment EXCEPT ![x] = row]
        /\ orderStatus' = [orderStatus EXCEPT ![o] = after]
        /\ UNCHANGED <<overdue, ledger, available, chain>>
    BY <1>2 DEF Settlement!ApplyObservation
  <2>7. payment[x] # NoPayment => payment[x].order = o /\ payment[x].transfer = t
    BY <2>3 DEF Settlement!ExistingConflict
  <2>17. payment'[x] \in Settlement!PaymentRow
    BY <1>2, <2>1, ApplyKeepsTypes
  <2> HIDE DEF plan, after, row
  <2>8. /\ \A y \in Txids : payment'[y] = IF y = x THEN row ELSE payment[y]
        /\ \A p \in Orders : orderStatus'[p] = IF p = o THEN after ELSE orderStatus[p]
    BY <2>6 DEF Settlement!TypeOK
  <2>9. RowsAreBacked'
    BY <2>1, <2>4, <2>5, <2>8 DEF Backed, RowsAreBacked, o, x
  <2>10. ASSUME NEW p \in Orders, p # o
         PROVE  Settlement!ConfirmedPayments(p)' = Settlement!ConfirmedPayments(p)
    <3>1. \A y \in Txids : (payment'[y] # NoPayment /\ payment'[y].order = p)
                             => y # x
      BY <2>5, <2>8, <2>10
    <3>2. \A y \in Txids : (payment[y] # NoPayment /\ payment[y].order = p)
                             => y # x
      BY <2>7, <2>10
    <3> QED BY <2>8, <3>1, <3>2 DEF Settlement!ConfirmedPayments
  <2>11. Settlement!ConfirmedPayments(o) = {}
    BY <2>1, <2>4 DEF Backed, OrdersAreBacked
  <2>12. Settlement!ConfirmedPayments(o)' = IF after = "paid" THEN {x} ELSE {}
    <3>1. row # NoPayment
      BY <2>1, <2>8, <2>17, NoPaymentIsNoRow
    <3>2. \A y \in Txids \ {x} : ~(payment[y] # NoPayment /\ payment[y].order = o
                                    /\ payment[y].status = "confirmed")
      BY <2>11 DEF Settlement!ConfirmedPayments
    <3> QED BY <2>1, <2>4, <2>5, <2>8, <3>1, <3>2 DEF Settlement!ConfirmedPayments
  <2>13. \A p \in Orders : /\ p # o => (Confirmed(p)' <=> Confirmed(p))
                           /\ Confirmed(o)' <=> after = "paid"
    BY <2>1, <2>4, <2>8 DEF Confirmed
  <2>14. OrdersAreBacked'
    BY <2>1, <2>4, <2>8, <2>10, <2>12, <2>13 DEF Backed, OrdersAreBacked
  <2>15. CreditsAreBacked'
    <3>1. \A p, y : Settlement!CreditRow(p, y)' = Settlement!CreditRow(p, y)
      BY DEF Settlement!CreditRow
    <3>2. \A r \in ledger : r.order \in Orders /\ r.order # o
      BY <2>4 DEF Settlement!TypeOK, Settlement!LedgerRow, Backed, CreditsAreBacked, Confirmed
    <3>3. \A p \in Orders : orderStatus'[p] = "credited" => orderStatus[p] = "credited"
      BY <2>4, <2>8
    <3> QED BY <2>6, <2>8, <2>10, <3>1, <3>2, <3>3 DEF Backed, CreditsAreBacked
  <2>16. TimelyAreListed' /\ StaysConfirmed
    BY <2>4, <2>8, <2>13 DEF Backed, TimelyAreListed, RecordsAreTrue, StaysConfirmed
  <2> QED BY <2>9, <2>14, <2>15, <2>16 DEF Backed
<1> QED BY <1>1, <1>2 DEF Applies

-----------------------------------------------------------------------------
(* The steps.                                                                *)
LEMMA InitUndisturbed == Init => Undisturbed
<1> SUFFICES ASSUME Init PROVE Undisturbed
  OBVIOUS
<1>1. /\ \A o \in Orders : orderStatus[o] = "absent"
      /\ \A x \in Txids : payment[x] = NoPayment
      /\ ledger = {} /\ timely = {} /\ \A w \in Workers : run[w] = Resting
  BY DEF Init, Settlement!Init
<1>2. Backed
  BY <1>1 DEF Backed, RowsAreBacked, OrdersAreBacked, CreditsAreBacked, TimelyAreListed,
     Confirmed, Settlement!ConfirmedPayments
<1>3. Welcome(Resting)
  BY DEF Welcome, Resting
<1> QED BY <1>1, <1>2, <1>3, InitReconciled DEF Undisturbed

(* An order that is created or expires, and a transfer of a listed order     *)
(* that is mined, touch no evidence.                                         *)
LEMMA OrdersMoveOn ==
  ASSUME Settlement!TypeOK, Backed, RecordsAreTrue', UNCHANGED <<payment, ledger>>,
         \A o \in Orders :
           \/ orderStatus'[o] = orderStatus[o]
           \/ ~Confirmed(o) /\ orderStatus'[o] \in {"waiting_payment", "expired"},
         timely \subseteq timely',
         \A t \in timely' : t \in timely \/ orderStatus[PaysFor[t]] # "absent"
  PROVE  Backed' /\ StaysConfirmed
<1>1. \A o \in Orders : Confirmed(o)' <=> Confirmed(o)
  BY DEF Confirmed
<1>2. \A o : Settlement!ConfirmedPayments(o)' = Settlement!ConfirmedPayments(o)
  BY DEF Settlement!ConfirmedPayments
<1>3. RowsAreBacked'
  BY DEF Backed, RowsAreBacked
<1>4. OrdersAreBacked'
  BY <1>1, <1>2 DEF Backed, OrdersAreBacked
<1>5. CreditsAreBacked'
  <2>1. \A o, x : Settlement!CreditRow(o, x)' = Settlement!CreditRow(o, x)
    BY DEF Settlement!CreditRow
  <2>2. \A row \in ledger : row.order \in Orders
    BY DEF Settlement!TypeOK, Settlement!LedgerRow
  <2>3. \A o \in Orders : orderStatus'[o] = "credited" <=> orderStatus[o] = "credited"
    BY DEF Confirmed
  <2> QED BY <1>2, <2>1, <2>2, <2>3 DEF Backed, CreditsAreBacked
<1>6. TimelyAreListed'
  <2>1. \A t \in timely' : PaysFor[t] \in Orders /\ orderStatus[PaysFor[t]] # "absent"
    BY DEF Backed, TimelyAreListed, RecordsAreTrue
  <2> QED BY <2>1 DEF TimelyAreListed
<1> QED BY <1>1, <1>3, <1>4, <1>5, <1>6 DEF Backed, StaysConfirmed

(* A step of a worker whose new local state is welcome.                      *)
LEMMA WorkerUndisturbed ==
  ASSUME Undisturbed, Reconciled', Backed', StaysConfirmed,
         NEW w \in Workers, NEW r, Welcome(r)', run' = [run EXCEPT ![w] = r]
  PROVE  Undisturbed'
<1>1. ASSUME NEW v \in Workers PROVE Welcome(run[v])'
  <2>1. run \in [Workers -> RunRecord] /\ RecordsAreTrue /\ Welcome(run[v])
    BY DEF Undisturbed, Reconciled, TypeOK, RunRecord
  <2>2. CASE v = w
    <3>1. run'[v] = r BY <2>1, <2>2
    <3> QED BY <3>1 DEF Welcome
  <2>3. CASE v # w
    <3>1. run'[v] = run[v] /\ run[v] \in RunRecord BY <2>1, <2>3
    <3>2. \A q \in RunRecord : Welcome(q) => Welcome(q)'
      BY <2>1, WelcomeSurvives
    <3> QED BY <2>1, <3>1, <3>2 DEF Welcome
  <2> QED BY <2>2, <2>3
<1> QED BY <1>1 DEF Undisturbed

LEMMA SurroundingsUndisturbed ==
  ASSUME Undisturbed, Reconciled',
         \/ \E o \in Orders : OrderArrives(o) \/ DeadlinePasses(o)
         \/ \E x \in Txids : Mine(x) \/ Solidify(x) \/ Deepen(x)
         \/ \E t \in Transfers : IndexShows(t)
  PROVE  Undisturbed'
<1>1. /\ Settlement!TypeOK /\ Backed /\ RecordsAreTrue /\ RecordsAreTrue'
      /\ run \in [Workers -> RunRecord] /\ \A w \in Workers : Welcome(run[w])
  BY DEF Undisturbed, Reconciled, TypeOK, RunRecord
<1>2. UNCHANGED <<run, payment, ledger>>
  BY DEF OrderArrives, DeadlinePasses, Mine, Solidify, Deepen, IndexShows, settlementVars,
     Settlement!CreateOrder, Settlement!PassDeadline, Settlement!TransactionAppears,
     Settlement!TransactionSolidifies, Settlement!BlockIsAdded
<1>3. \A o \in Orders :
        \/ orderStatus'[o] = orderStatus[o]
        \/ ~Confirmed(o) /\ orderStatus'[o] \in {"waiting_payment", "expired"}
  BY <1>1 DEF OrderArrives, DeadlinePasses, Mine, Solidify, Deepen, IndexShows, settlementVars,
     Settlement!CreateOrder, Settlement!PassDeadline, Settlement!TransactionAppears,
     Settlement!TransactionSolidifies, Settlement!BlockIsAdded, Confirmed, Settlement!TypeOK
<1>4. /\ timely \subseteq timely'
      /\ \A t \in timely' : t \in timely \/ orderStatus[PaysFor[t]] # "absent"
  BY DEF OrderArrives, DeadlinePasses, Mine, CandidateWithinOrderWindow, Solidify, Deepen, IndexShows
<1>5. Backed' /\ StaysConfirmed
  BY <1>1, <1>2, <1>3, <1>4, OrdersMoveOn
<1>6. ASSUME NEW w \in Workers PROVE Welcome(run[w])'
  <2>1. \A q \in RunRecord : Welcome(q) => Welcome(q)'
    BY <1>1, <1>5, WelcomeSurvives
  <2> QED BY <1>1, <1>2, <2>1 DEF Welcome
<1> QED BY <1>5, <1>6 DEF Undisturbed

(* A conflict needs a chain transaction that pays two orders.                *)
LEMMA ConflictsAreShared ==
  ASSUME Undisturbed, NEW w \in Workers, MeetConflict(w)
  PROVE  SharedTransaction
<1>1. /\ Settlement!TypeOK /\ Backed /\ RecordsAreTrue /\ timely \subseteq Transfers
      /\ run[w] \in RunRecord /\ Welcome(run[w])
  BY DEF Undisturbed, Reconciled, TypeOK, RunRecord
<1>2. CASE run[w].pc = "next" /\ \E o \in run[w].toCredit : CreditRefused(o)
  BY <1>1, <1>2, CreditsAreWelcome DEF Welcome, RunRecord
<1>3. CASE run[w].pc = "credit_found" /\ CreditRefused(PaysFor[run[w].transfer])
  <2>1. PaysFor[run[w].transfer] \in Orders /\ Confirmed(PaysFor[run[w].transfer])
    BY <1>1, <1>3 DEF Welcome, RecordsAreTrue
  <2> QED BY <1>1, <1>3, <2>1, CreditsAreWelcome
<1>4. CASE /\ run[w].pc = "scan"
           /\ \E t \in run[w].candidates : ApplyRefused(t, Settlement!CandidateObservation)
  <2>1. PICK t \in timely : ApplyRefused(t, Settlement!CandidateObservation)
    BY <1>1, <1>4 DEF Welcome
  <2>2. Success(Settlement!CandidateObservation)
    BY DEF Success
  <2> QED BY <1>1, <2>1, <2>2, ObservationsAreWelcome
<1>5. CASE run[w].pc = "apply_final" /\ ApplyRefused(run[w].transfer, FinalObservation(w))
  <2>1. run[w].transfer \in timely
    BY <1>1, <1>5 DEF Welcome
  <2>2. Success(FinalObservation(w))
    BY DEF Success
  <2> QED BY <1>1, <1>5, <2>1, <2>2, ObservationsAreWelcome
<1> QED BY <1>2, <1>3, <1>4, <1>5 DEF MeetConflict

(* The steps that write nothing.                                             *)
LEMMA ReadingsUndisturbed ==
  ASSUME Undisturbed, Reconciled', NEW w \in Workers,
         \/ ListOrders(w) \/ ScanActive(w) \/ \E o \in Orders : ScanOverdue(w, o)
         \/ InspectNotFound(w) \/ \E depth \in 1..MaxDepth : InspectFinds(w, depth)
         \/ FinishRun(w) \/ MeetConflict(w) \/ PageCapacityExceeded(w) \/ ReadFails(w)
         \/ DatabaseFails(w) \/ Restart(w)
  PROVE  Undisturbed'
<1>1. /\ Settlement!TypeOK /\ Backed /\ RecordsAreTrue'
      /\ run \in [Workers -> RunRecord] /\ run[w] \in RunRecord /\ Welcome(run[w])
  BY DEF Undisturbed, Reconciled, TypeOK, RunRecord
<1>2. UNCHANGED <<orderStatus, payment, ledger, timely>>
  BY DEF ListOrders, ScanActive, ScanOverdue, InspectNotFound, InspectFinds, FinishRun,
     MeetConflict, PageCapacityExceeded, ReadFails, DatabaseFails, Restart, settlementVars
<1>3. Backed' /\ StaysConfirmed
  BY <1>1, <1>2, OrdersMoveOn
<1>4. SharedTransaction' <=> SharedTransaction
  BY DEF SharedTransaction
<1>5. ASSUME NEW r, run' = [run EXCEPT ![w] = r], Welcome(r) PROVE Undisturbed'
  <2>1. Welcome(r)'
    BY <1>2, <1>4, <1>5 DEF Welcome, Confirmed
  <2> QED BY <1>3, <1>5, <2>1, WorkerUndisturbed
<1>6. Welcome(Resting) /\ \A reason \in HaltReasons \ {"conflict"} : Welcome(Halted(reason))
  BY DEF Welcome, Resting, Halted, HaltReasons
<1>7. CASE \/ FinishRun(w) \/ PageCapacityExceeded(w) \/ ReadFails(w)
           \/ DatabaseFails(w) \/ Restart(w)
  BY <1>5, <1>6, <1>7 DEF FinishRun, PageCapacityExceeded, ReadFails, DatabaseFails, Restart,
     HaltReasons
<1>8. CASE MeetConflict(w)
  <2>1. SharedTransaction
    BY <1>8, ConflictsAreShared
  <2>2. Welcome(Halted("conflict"))
    BY <2>1 DEF Welcome, Resting, Halted
  <2> QED BY <1>5, <1>8, <2>2 DEF MeetConflict
<1>9. CASE ListOrders(w)
  <2> DEFINE paid == {o \in OpenOrders : orderStatus[o] = "paid"}
             late == {o \in overdue : orderStatus[o] = "waiting_payment"}
             r == [Resting EXCEPT !.pc = "next", !.toCredit = paid, !.toExpire = late,
                                  !.active = OpenOrders \ (paid \cup late), !.mined = timely]
  <2>1. \/ run' = [run EXCEPT ![w] = Halted("capacity_exceeded")]
        \/ run' = [run EXCEPT ![w] = r]
    BY <1>9 DEF ListOrders
  <2>2. \A o \in paid : Confirmed(o)
    BY DEF Confirmed
  <2> HIDE DEF paid, late
  <2>3. Welcome(r)
    BY <2>2 DEF Welcome, Resting
  <2> HIDE DEF r
  <2> QED BY <1>5, <1>6, <2>1, <2>3 DEF HaltReasons
<1>10. CASE ScanActive(w) \/ \E o \in Orders : ScanOverdue(w, o)
  <2>1. \A group : CandidatesFor(w, group) \subseteq timely
    BY <1>1 DEF CandidatesFor, Welcome
  <2>2. CASE ScanActive(w)
    <3> DEFINE r == [run[w] EXCEPT !.pc = "scan", !.single = NoOrder, !.active = {},
                                   !.candidates = CandidatesFor(w, run[w].active)]
    <3>1. run' = [run EXCEPT ![w] = r]
      BY <1>1, <2>2 DEF ScanActive
    <3>2. Welcome(r)
      BY <1>1, <2>1 DEF Welcome, RunRecord
    <3> HIDE DEF r
    <3> QED BY <1>5, <3>1, <3>2
  <2>3. ASSUME NEW o \in Orders, ScanOverdue(w, o) PROVE Undisturbed'
    <3> DEFINE r == [run[w] EXCEPT !.pc = "scan", !.single = o, !.matched = FALSE,
                                   !.toExpire = @ \ {o}, !.candidates = CandidatesFor(w, {o})]
    <3>1. run' = [run EXCEPT ![w] = r]
      BY <1>1, <2>3 DEF ScanOverdue
    <3>2. Welcome(r)
      BY <1>1, <2>1 DEF Welcome, RunRecord
    <3> HIDE DEF r
    <3> QED BY <1>5, <3>1, <3>2
  <2> QED BY <1>10, <2>2, <2>3
<1>11. CASE InspectNotFound(w)
  <2> DEFINE r == [run[w] EXCEPT !.pc = "scan", !.transfer = NoTransfer]
  <2>1. run' = [run EXCEPT ![w] = r]
    BY <1>1, <1>11 DEF InspectNotFound
  <2>2. Welcome(r)
    BY <1>1 DEF Welcome, RunRecord
  <2> HIDE DEF r
  <2> QED BY <1>5, <2>1, <2>2
<1>12. ASSUME NEW depth \in 1..MaxDepth, InspectFinds(w, depth) PROVE Undisturbed'
  <2> DEFINE r == [run[w] EXCEPT !.pc = "apply_final", !.depth = depth]
  <2>1. run' = [run EXCEPT ![w] = r] /\ run[w].pc = "inspect"
    BY <1>1, <1>12 DEF InspectFinds
  <2>2. Welcome(r)
    BY <1>1, <2>1 DEF Welcome, RunRecord
  <2> HIDE DEF r
  <2> QED BY <1>5, <2>1, <2>2
<1> QED BY <1>7, <1>8, <1>9, <1>10, <1>11, <1>12

(* The steps that write.                                                     *)
LEMMA CreditUndisturbed ==
  ASSUME Undisturbed, Reconciled', NEW w \in Workers,
         CreditFound(w) \/ \E o \in Orders : CreditListed(w, o)
  PROVE  Undisturbed'
<1>1. /\ Settlement!TypeOK /\ Backed /\ RecordsAreTrue
      /\ run \in [Workers -> RunRecord] /\ run[w] \in RunRecord /\ Welcome(run[w])
  BY DEF Undisturbed, Reconciled, TypeOK, RunRecord
<1>2. timely' = timely
  BY DEF CreditFound, CreditListed
<1>3. ASSUME NEW o \in Orders, Credits(o), NEW r \in RunRecord, Welcome(r),
             run' = [run EXCEPT ![w] = r]
      PROVE  Undisturbed'
  <2>1. Backed' /\ StaysConfirmed
    BY <1>1, <1>2, <1>3, CreditsKeepBacked
  <2>2. Welcome(r)'
    BY <1>1, <1>3, <2>1, WelcomeSurvives
  <2> QED BY <1>3, <2>1, <2>2, WorkerUndisturbed
<1>4. CASE CreditFound(w)
  <2> DEFINE r == [run[w] EXCEPT !.pc = "scan", !.transfer = NoTransfer]
  <2>1. run' = [run EXCEPT ![w] = r] /\ Credits(PaysFor[run[w].transfer])
    BY <1>1, <1>4 DEF CreditFound
  <2>2. PaysFor[run[w].transfer] \in Orders
    BY <1>1, <1>4 DEF CreditFound, Welcome, RecordsAreTrue
  <2>3. r \in RunRecord /\ Welcome(r)
    BY <1>1 DEF RunRecord, Welcome
  <2> HIDE DEF r
  <2> QED BY <1>3, <2>1, <2>2, <2>3
<1>5. ASSUME NEW o \in Orders, CreditListed(w, o) PROVE Undisturbed'
  <2> DEFINE r == [run[w] EXCEPT !.toCredit = @ \ {o}]
  <2>1. run' = [run EXCEPT ![w] = r] /\ Credits(o)
    BY <1>1, <1>5 DEF CreditListed
  <2>2. r \in RunRecord /\ Welcome(r)
    BY <1>1 DEF RunRecord, Welcome
  <2> HIDE DEF r
  <2> QED BY <1>3, <2>1, <2>2
<1> QED BY <1>4, <1>5

LEMMA EvidenceUndisturbed ==
  ASSUME Undisturbed, Reconciled', NEW w \in Workers,
         ApplyFinal(w) \/ \E t \in Transfers : DetectCandidate(w, t)
  PROVE  Undisturbed'
<1>1. /\ Settlement!TypeOK /\ Backed /\ RecordsAreTrue /\ timely \subseteq Transfers
      /\ run \in [Workers -> RunRecord] /\ run[w] \in RunRecord
      /\ Welcome(run[w]) /\ ReadingsStand(run[w])
  BY DEF Undisturbed, Reconciled, TypeOK, RunRecord
<1>2. timely' = timely
  BY DEF ApplyFinal, DetectCandidate
<1>3. CASE ApplyFinal(w)
  <2> DEFINE t == run[w].transfer
             found == [run[w] EXCEPT !.pc = "credit_found", !.depth = 0]
             rest == [run[w] EXCEPT !.pc = "scan", !.depth = 0, !.transfer = NoTransfer]
  <2>1. /\ run[w].pc = "apply_final" /\ Applies(t, FinalObservation(w))
        /\ \/ run' = [run EXCEPT ![w] = found] /\ orderStatus'[PaysFor[t]] = "paid"
           \/ run' = [run EXCEPT ![w] = rest]
    BY <1>1, <1>3 DEF ApplyFinal
  <2>2. t \in timely /\ run[w].depth \in Nat
    <3>1. t \in timely BY <1>1, <2>1 DEF Welcome
    <3>2. run[w].depth \in 0..MaxDepth BY <1>1 DEF RunRecord
    <3> QED BY <3>1, <3>2, BoundsAreNatural
  <2>3. Success(FinalObservation(w)) /\ FinalObservation(w).confirmations \in Nat
    BY <2>2 DEF Success, FinalObservation
  <2>4. Backed' /\ StaysConfirmed
    BY <1>1, <1>2, <2>1, <2>2, <2>3, AppliesKeepBacked
  <2>5. PICK r :
          /\ run' = [run EXCEPT ![w] = r]
          /\ \/ r = found /\ orderStatus'[PaysFor[t]] = "paid"
             \/ r = rest
    BY <2>1
  <2>6. /\ r.toCredit = run[w].toCredit /\ r.mined = run[w].mined
        /\ r.candidates = run[w].candidates
        /\ \/ r.pc = "credit_found" /\ r.transfer = t /\ orderStatus'[PaysFor[t]] = "paid"
           \/ r.pc = "scan"
    BY <1>1, <2>5 DEF RunRecord
  <2> HIDE DEF t
  <2>7. Welcome(r)'
    <3>1. \A o \in r.toCredit : Confirmed(o)'
      BY <1>1, <2>4, <2>6 DEF Welcome, StaysConfirmed, RunRecord
    <3>2. r.pc = "credit_found" => Confirmed(PaysFor[r.transfer])'
      BY <2>6 DEF Confirmed
    <3> QED BY <1>1, <1>2, <2>2, <2>6, <3>1, <3>2 DEF Welcome
  <2> QED BY <2>4, <2>5, <2>7, WorkerUndisturbed
<1>4. ASSUME NEW t \in Transfers, DetectCandidate(w, t) PROVE Undisturbed'
  <2>1. t \in timely /\ Applies(t, Settlement!CandidateObservation)
    BY <1>1, <1>4 DEF DetectCandidate, Welcome
  <2>2. /\ Success(Settlement!CandidateObservation)
        /\ Settlement!CandidateObservation.confirmations \in Nat
    BY DEF Success, Settlement!CandidateObservation
  <2>3. Backed' /\ StaysConfirmed
    BY <1>1, <1>2, <2>1, <2>2, AppliesKeepBacked
  <2>4. PICK pc \in {"credit_found", "scan", "inspect"} :
          /\ run' = [run EXCEPT ![w].pc = pc, ![w].matched = TRUE, ![w].candidates = @ \ {t},
                                ![w].transfer = IF pc = "scan" THEN NoTransfer ELSE t]
          /\ pc = "credit_found" => orderStatus'[PaysFor[t]] = "paid"
    BY <1>4 DEF DetectCandidate
  <2>5. PICK r : r = [run[w] EXCEPT !.pc = pc, !.matched = TRUE, !.candidates = @ \ {t},
                                    !.transfer = IF pc = "scan" THEN NoTransfer ELSE t]
    OBVIOUS
  <2>6. run' = [run EXCEPT ![w] = r]
    BY <1>1, <2>4, <2>5
  <2>7. /\ r.toCredit = run[w].toCredit /\ r.mined = run[w].mined
        /\ r.candidates \subseteq run[w].candidates
        /\ r.pc = pc /\ (pc # "scan" => r.transfer = t)
    BY <1>1, <2>5 DEF RunRecord
  <2>8. Welcome(r)'
    <3>1. \A o \in r.toCredit : Confirmed(o)'
      BY <1>1, <2>3, <2>7 DEF Welcome, StaysConfirmed, RunRecord
    <3>2. pc = "credit_found" => Confirmed(PaysFor[t])'
      BY <2>4 DEF Confirmed
    <3> QED BY <1>1, <1>2, <2>1, <2>7, <3>1, <3>2 DEF Welcome
  <2> QED BY <2>3, <2>6, <2>8, WorkerUndisturbed
<1> QED BY <1>3, <1>4

LEMMA FinishScanUndisturbed ==
  ASSUME Undisturbed, Reconciled', NEW w \in Workers, FinishScan(w)
  PROVE  Undisturbed'
<1> DEFINE r == [run[w] EXCEPT !.pc = "next", !.single = NoOrder, !.matched = FALSE]
<1>1. /\ Settlement!TypeOK /\ Backed /\ RecordsAreTrue /\ RecordsAreTrue'
      /\ run \in [Workers -> RunRecord] /\ run[w] \in RunRecord /\ Welcome(run[w])
  BY DEF Undisturbed, Reconciled, TypeOK, RunRecord
<1>2. run' = [run EXCEPT ![w] = r] /\ timely' = timely
  BY <1>1 DEF FinishScan
<1>3. /\ UNCHANGED <<payment, ledger>>
      /\ \A o \in Orders :
           \/ orderStatus'[o] = orderStatus[o]
           \/ ~Confirmed(o) /\ orderStatus'[o] \in {"waiting_payment", "expired"}
  BY <1>1 DEF FinishScan, settlementVars, Settlement!ExpireWaitingOrder, Settlement!TypeOK,
     Confirmed
<1>4. Backed' /\ StaysConfirmed
  BY <1>1, <1>2, <1>3, OrdersMoveOn
<1>5. r \in RunRecord /\ Welcome(r)
  BY <1>1 DEF RunRecord, Welcome
<1>6. \A q \in RunRecord : Welcome(q) => Welcome(q)'
  BY <1>1, <1>4, WelcomeSurvives
<1> HIDE DEF r
<1>7. PICK q \in RunRecord : q = r /\ Welcome(q)
  BY <1>5
<1> QED BY <1>2, <1>4, <1>6, <1>7, WorkerUndisturbed

LEMMA NextUndisturbed ==
  ASSUME Undisturbed, [Next]_vars
  PROVE  Undisturbed'
<1>1. Reconciled'
  BY NextReconciled DEF Undisturbed
<1>2. CASE \/ \E o \in Orders : OrderArrives(o) \/ DeadlinePasses(o)
           \/ \E x \in Txids : Mine(x) \/ Solidify(x) \/ Deepen(x)
           \/ \E t \in Transfers : IndexShows(t)
  BY <1>1, <1>2, SurroundingsUndisturbed
<1>3. ASSUME NEW w \in Workers,
             Work(w) \/ ReadFails(w) \/ DatabaseFails(w) \/ PageCapacityExceeded(w) \/ Restart(w)
      PROVE  Undisturbed'
  <2>1. CASE \/ ListOrders(w) \/ ScanActive(w) \/ \E o \in Orders : ScanOverdue(w, o)
             \/ InspectNotFound(w) \/ \E depth \in 1..MaxDepth : InspectFinds(w, depth)
             \/ FinishRun(w) \/ MeetConflict(w) \/ PageCapacityExceeded(w) \/ ReadFails(w)
             \/ DatabaseFails(w) \/ Restart(w)
    BY <1>1, <2>1, ReadingsUndisturbed
  <2>2. CASE CreditFound(w) \/ \E o \in Orders : CreditListed(w, o)
    BY <1>1, <2>2, CreditUndisturbed
  <2>3. CASE ApplyFinal(w) \/ \E t \in Transfers : DetectCandidate(w, t)
    BY <1>1, <2>3, EvidenceUndisturbed
  <2>4. CASE FinishScan(w)
    BY <1>1, <2>4, FinishScanUndisturbed
  <2> QED BY <1>3, <2>1, <2>2, <2>3, <2>4 DEF Work
<1>4. CASE UNCHANGED vars
  <2>1. Backed'
    BY <1>4 DEF vars, settlementVars, Undisturbed, Backed, RowsAreBacked, OrdersAreBacked,
       CreditsAreBacked, TimelyAreListed, Confirmed, Settlement!ConfirmedPayments,
       Settlement!CreditRow
  <2>2. \A w \in Workers : Welcome(run[w])'
    BY <1>4 DEF vars, settlementVars, Undisturbed, Welcome, Confirmed, SharedTransaction
  <2> QED BY <1>1, <2>1, <2>2 DEF Undisturbed
<1> QED BY <1>2, <1>3, <1>4 DEF Next

(* No worker ever halts another: a run that finds its listed order paid,     *)
(* credited or expired by an overlapping run takes that as done, and the     *)
(* credit or the evidence it brings late contradicts nothing.  Only a chain  *)
(* transaction that pays two orders ends a loop with a conflict.             *)
THEOREM OnlySharedTransactionsConflict == Spec => []WorkersNeverHaltEachOther
<1>1. Undisturbed /\ [Next]_vars => Undisturbed' BY NextUndisturbed
<1>2. Undisturbed => WorkersNeverHaltEachOther
  BY DEF Undisturbed, Welcome, WorkersNeverHaltEachOther
<1> QED BY InitUndisturbed, <1>1, <1>2, PTL DEF Spec
=============================================================================
