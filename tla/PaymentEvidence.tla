--------------------------- MODULE PaymentEvidence ---------------------------
(***************************************************************************)
(* The pure payment rules of src/core: how one chain observation of a      *)
(* transfer is judged against the payment an order expects, how the        *)
(* verdict is merged with the status already recorded for the transaction, *)
(* and which purchase-order transitions follow.                            *)
(*                                                                         *)
(* An observation is a record                                              *)
(*   [solidified, source, execution, confirmations];                       *)
(* whether its asset, contract, destination and amount equal the order's   *)
(* frozen expectation is the separate argument "matches".                  *)
(***************************************************************************)
EXTENDS Naturals, Sequences

PurchaseStates ==
  {"created", "waiting_payment", "payment_detected", "confirming",
   "paid", "credited", "expired", "failed"}

PurchaseTransitions ==
  {<<"created", "waiting_payment">>,
   <<"waiting_payment", "payment_detected">>, <<"waiting_payment", "expired">>,
   <<"payment_detected", "confirming">>, <<"payment_detected", "failed">>,
   <<"confirming", "paid">>, <<"confirming", "failed">>,
   <<"paid", "credited">>}

CanTransitionPurchaseOrder(from, to) == <<from, to>> \in PurchaseTransitions

TransactionStates == {"detected", "confirming", "confirmed", "rejected"}

AuthoritativeSources == {"solidified_node", "solidified_index"}

Sources == {"fullnode", "indexer"} \cup AuthoritativeSources

Executions == {"success", "failed", "unknown"}

Evaluations ==
  {"mismatch", "not_solidified", "non_authoritative_finality_source",
   "execution_failed", "execution_unknown", "insufficient_confirmations",
   "confirmed"}

-----------------------------------------------------------------------------
(* Mutant: the confirmation depth is not asked for.                          *)
EvaluateWithoutDepth(matches, required, obs) ==
  IF ~matches THEN "mismatch"
  ELSE IF ~obs.solidified THEN "not_solidified"
  ELSE IF obs.source \notin AuthoritativeSources
    THEN "non_authoritative_finality_source"
  ELSE IF obs.execution = "failed" THEN "execution_failed"
  ELSE IF obs.execution = "unknown" THEN "execution_unknown"
  ELSE "confirmed"

(* evaluatePaymentObservation of a well-formed observation.  The order of    *)
(* the tests matters: a failure that is not solidified is only pending.      *)
EvaluatePaymentObservation(matches, required, obs) ==
  IF ~matches THEN "mismatch"
  ELSE IF ~obs.solidified THEN "not_solidified"
  ELSE IF obs.source \notin AuthoritativeSources
    THEN "non_authoritative_finality_source"
  ELSE IF obs.execution = "failed" THEN "execution_failed"
  ELSE IF obs.execution = "unknown" THEN "execution_unknown"
  ELSE IF obs.confirmations < required THEN "insufficient_confirmations"
  ELSE "confirmed"

(* The transaction status an evaluation other than a mismatch asks for.      *)
TargetForEvaluation(evaluation) ==
  CASE evaluation \in {"not_solidified", "non_authoritative_finality_source"}
         -> "detected"
    [] evaluation \in {"execution_unknown", "insufficient_confirmations"}
         -> "confirming"
    [] evaluation = "execution_failed" -> "rejected"
    [] evaluation = "confirmed"        -> "confirmed"

(* Mutant: the latest observation wins.                                      *)
MergeLatestWins(current, requested) == requested

(* The recorded status only strengthens; "absent" is a transaction without a *)
(* row.  The two final statuses exclude each other.                          *)
MergeTransactionStatus(current, requested) ==
  IF current \in {"absent", "detected"} \/ current = requested THEN requested
  ELSE IF current = "confirming"
    THEN IF requested = "detected" THEN "confirming" ELSE requested
  ELSE IF {current, requested} = {"confirmed", "rejected"} THEN "conflict"
  ELSE current

OrderTargetForTransaction(status) ==
  CASE status = "detected"   -> "payment_detected"
    [] status = "confirming" -> "confirming"
    [] status = "confirmed"  -> "paid"
    [] status = "rejected"   -> "failed"

HappyPath == <<"waiting_payment", "payment_detected", "confirming", "paid">>

HappyPathIndex ==
  [waiting_payment |-> 1, payment_detected |-> 2, confirming |-> 3, paid |-> 4]

(* The steps of the happy path from current to target, none when the order   *)
(* is already as far.                                                        *)
HappyPathTransitions(current, target) ==
  SubSeq(HappyPath, HappyPathIndex[current] + 1, HappyPathIndex[target])

RejectedTransitions(current) ==
  IF current = "waiting_payment" THEN <<"payment_detected", "failed">>
                                 ELSE <<"failed">>

(* Every step of the path is one the purchase state machine allows.          *)
LegalPath(current, path) ==
  \A i \in 1..Len(path) :
    CanTransitionPurchaseOrder(IF i = 1 THEN current ELSE path[i - 1], path[i])

(* An order that is already decided is never reopened.                       *)
TerminalOrderPlan(orderState, status) ==
  IF \/ orderState \in {"paid", "credited"} /\ status = "rejected"
     \/ orderState = "failed" /\ status = "confirmed"
    THEN [kind |-> "state_conflict"]
    ELSE [kind |-> "terminal_noop"]

(* Mutant: a paid order still takes evidence.                                *)
PlanReopeningPaid(evaluation, orderState, current) ==
  LET merged == MergeTransactionStatus(current, TargetForEvaluation(evaluation))
      target == OrderTargetForTransaction(merged)
      path   == IF target = "failed" THEN RejectedTransitions(orderState)
                                     ELSE HappyPathTransitions(orderState, target)
  IN  IF evaluation = "mismatch" THEN [kind |-> "ignore"]
      ELSE IF merged = "conflict" THEN [kind |-> "state_conflict"]
      ELSE IF orderState = "created" THEN [kind |-> "invalid_order_state"]
      ELSE IF orderState \in {"credited", "expired", "failed"}
        THEN TerminalOrderPlan(orderState, merged)
      ELSE IF ~LegalPath(orderState, path) THEN [kind |-> "invalid_order_state"]
      ELSE [kind |-> "apply", status |-> merged, path |-> path]

PlanPaymentEvidenceLifecycle(evaluation, orderState, current) ==
  LET merged == MergeTransactionStatus(current, TargetForEvaluation(evaluation))
      target == OrderTargetForTransaction(merged)
      path   == IF target = "failed" THEN RejectedTransitions(orderState)
                                     ELSE HappyPathTransitions(orderState, target)
  IN  IF evaluation = "mismatch" THEN [kind |-> "ignore"]
      ELSE IF merged = "conflict" THEN [kind |-> "state_conflict"]
      ELSE IF orderState = "created" THEN [kind |-> "invalid_order_state"]
      ELSE IF orderState \in {"paid", "credited", "expired", "failed"}
        THEN TerminalOrderPlan(orderState, merged)
      ELSE IF ~LegalPath(orderState, path) THEN [kind |-> "invalid_order_state"]
      ELSE [kind |-> "apply", status |-> merged, path |-> path]

(* The order status after the guarded updates of a plan, one per transition. *)
OrderAfter(orderState, path) ==
  IF path = <<>> THEN orderState ELSE path[Len(path)]
=============================================================================
