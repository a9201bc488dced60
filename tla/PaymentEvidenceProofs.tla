------------------------ MODULE PaymentEvidenceProofs ------------------------
(***************************************************************************)
(* What the pure payment rules guarantee for every evaluation, order       *)
(* status and recorded transaction status.                                 *)
(***************************************************************************)
EXTENDS PaymentEvidence, SequenceTheorems, TLAPS

RecordedStates == TransactionStates \cup {"absent"}

OpenStates == {"waiting_payment", "payment_detected", "confirming"}

(* Walking the happy path ends at the target, or stays where the order is    *)
(* when it is already as far.                                                *)
LEMMA HappyPathSteps ==
  ASSUME NEW current \in OpenStates,
         NEW target \in {"payment_detected", "confirming", "paid"}
  PROVE  OrderAfter(current, HappyPathTransitions(current, target)) =
           IF HappyPathIndex[target] <= HappyPathIndex[current] THEN current ELSE target
<1> DEFINE i == HappyPathIndex[current]
           j == HappyPathIndex[target]
           path == HappyPathTransitions(current, target)
<1>1. i \in 1..3 /\ j \in 2..4
  BY DEF HappyPathIndex, OpenStates
<1>2. CASE j <= i
  <2>1. path = <<>>
    BY <1>1, <1>2, SubSeqEmpty DEF HappyPathTransitions
  <2> QED BY <2>1, <1>2 DEF OrderAfter
<1>3. CASE ~(j <= i)
  <2>1. \A k \in i + 1 .. j : HappyPath[k] \in OpenStates \cup {"paid"}
    <3>1. \A k \in 1 .. 4 : HappyPath[k] \in OpenStates \cup {"paid"}
      BY DEF HappyPath, OpenStates
    <3> HIDE DEF i, j
    <3> QED BY <1>1, <3>1
  <2>2. /\ Len(path) = j - i
        /\ \A k \in 1 .. j - (i + 1) + 1 : path[k] = HappyPath[(i + 1) + k - 1]
    <3> HIDE DEF i, j
    <3>1. path = SubSeq(HappyPath, i + 1, j)
      BY DEF HappyPathTransitions, i, j
    <3>2. i + 1 \in Int /\ j \in Int /\ i + 1 <= j
      BY <1>1, <1>3
    <3> HIDE DEF path
    <3> QED BY <3>1, <3>2, <2>1, SubSeqProperties, <1>1
  <2>3. path # <<>> BY <2>2, <1>1, <1>3
  <2>4. path[Len(path)] = HappyPath[j]
    BY <1>1, <1>3, <2>2
  <2>5. HappyPath[j] = target
    BY DEF HappyPath, HappyPathIndex
  <2> QED BY <1>3, <2>3, <2>4, <2>5 DEF OrderAfter
<1> QED BY <1>2, <1>3

(* Merging never loses evidence: with a recorded status the result is that   *)
(* status or a stronger one, and a final status meets only itself, weaker    *)
(* requests, or a reported conflict.                                         *)
LEMMA MergeStrengthens ==
  ASSUME NEW current \in TransactionStates, NEW requested \in TransactionStates
  PROVE  LET merged == MergeTransactionStatus(current, requested)
         IN  /\ merged \in {current, requested, "conflict"}
             /\ current \in {"confirmed", "rejected"} => merged \in {current, "conflict"}
             /\ current = "confirming" => merged # "detected"
             /\ merged = "conflict" <=> {current, requested} = {"confirmed", "rejected"}
  BY DEF MergeTransactionStatus, TransactionStates

(* The order in which three observations of one transaction are merged does  *)
(* not change the status they lead to: rescans, delays and overlapping       *)
(* workers converge.  "conflict" is absorbing, as the transaction keeps its  *)
(* row and reports the conflict again whatever comes later.                  *)
MergeOrConflict(current, requested) ==
  IF current = "conflict" \/ requested = "conflict" THEN "conflict"
  ELSE MergeTransactionStatus(current, requested)

THEOREM MergeOrderIndependent ==
  ASSUME NEW a \in TransactionStates, NEW b \in TransactionStates,
         NEW c \in TransactionStates
  PROVE  /\ MergeOrConflict(a, a) = a
         /\ MergeOrConflict(a, b) = MergeOrConflict(b, a)
         /\ MergeOrConflict(MergeOrConflict(a, b), c)
              = MergeOrConflict(a, MergeOrConflict(b, c))
<1>1. MergeOrConflict(a, a) = a
  BY DEF MergeOrConflict, MergeTransactionStatus, TransactionStates
<1>2. MergeOrConflict(a, b) = MergeOrConflict(b, a)
  BY DEF MergeOrConflict, MergeTransactionStatus, TransactionStates
<1>3. MergeOrConflict(MergeOrConflict(a, b), c)
        = MergeOrConflict(a, MergeOrConflict(b, c))
  BY SMTT(60) DEF MergeOrConflict, MergeTransactionStatus, TransactionStates
<1> QED BY <1>1, <1>2, <1>3

(* What an applied plan may do to an order, by the status it records: the    *)
(* order is open, a confirmation pays it, a rejection fails it, and weaker   *)
(* evidence never moves it backwards.                                        *)
LEMMA AppliedPlan ==
  ASSUME NEW evaluation \in Evaluations,
         NEW orderState \in (PurchaseStates \ {"created"}) \cup {"absent"},
         orderState # "absent",
         NEW current \in RecordedStates,
         PlanPaymentEvidenceLifecycle(evaluation, orderState, current).kind = "apply"
  PROVE  LET plan == PlanPaymentEvidenceLifecycle(evaluation, orderState, current)
             after == OrderAfter(orderState, plan.path)
         IN  /\ evaluation # "mismatch"
             /\ orderState \in OpenStates
             /\ plan.status \in TransactionStates
             /\ plan.status = MergeTransactionStatus(current, TargetForEvaluation(evaluation))
             /\ plan.status = "detected" =>
                  after = (IF orderState = "waiting_payment" THEN "payment_detected"
                                                             ELSE orderState)
             /\ plan.status = "confirming" => after = "confirming"
             /\ plan.status = "confirmed" => after = "paid"
             /\ plan.status = "rejected" => after = "failed"
<1> DEFINE requested == TargetForEvaluation(evaluation)
           merged == MergeTransactionStatus(current, requested)
           target == OrderTargetForTransaction(merged)
           path == IF target = "failed" THEN RejectedTransitions(orderState)
                                        ELSE HappyPathTransitions(orderState, target)
           plan == PlanPaymentEvidenceLifecycle(evaluation, orderState, current)
<1>1. /\ evaluation # "mismatch" /\ merged # "conflict"
      /\ orderState \notin {"created", "paid", "credited", "expired", "failed"}
      /\ plan = [kind |-> "apply", status |-> merged, path |-> path]
  <2> HIDE DEF merged, path
  <2>1. plan =
          IF evaluation = "mismatch" THEN [kind |-> "ignore"]
          ELSE IF merged = "conflict" THEN [kind |-> "state_conflict"]
          ELSE IF orderState = "created" THEN [kind |-> "invalid_order_state"]
          ELSE IF orderState \in {"paid", "credited", "expired", "failed"}
            THEN TerminalOrderPlan(orderState, merged)
          ELSE IF ~LegalPath(orderState, path) THEN [kind |-> "invalid_order_state"]
          ELSE [kind |-> "apply", status |-> merged, path |-> path]
    BY DEF PlanPaymentEvidenceLifecycle, merged, path
  <2>2. TerminalOrderPlan(orderState, merged).kind # "apply"
    BY DEF TerminalOrderPlan
  <2> HIDE DEF plan
  <2>3. plan.kind = "apply" BY DEF plan
  <2> QED BY <2>1, <2>2, <2>3
<1>2. orderState \in OpenStates
  BY <1>1 DEF OpenStates, PurchaseStates
<1>3. requested \in TransactionStates
  BY <1>1 DEF TargetForEvaluation, Evaluations, TransactionStates
<1>4. merged \in TransactionStates
  BY <1>1, <1>3 DEF MergeTransactionStatus, TransactionStates, RecordedStates
<1>5. merged = "rejected" => OrderAfter(orderState, path) = "failed"
  <2> SUFFICES ASSUME merged = "rejected" PROVE OrderAfter(orderState, path) = "failed"
    OBVIOUS
  <2> HIDE DEF merged
  <2>1. path = RejectedTransitions(orderState) BY DEF OrderTargetForTransaction
  <2> HIDE DEF path
  <2>2. path \in {<<"payment_detected", "failed">>, <<"failed">>}
    BY <2>1 DEF RejectedTransitions
  <2> QED BY <2>2 DEF OrderAfter
<1>6. merged # "rejected" =>
        /\ target \in {"payment_detected", "confirming", "paid"}
        /\ path = HappyPathTransitions(orderState, target)
  <2> HIDE DEF merged
  <2> QED BY <1>4 DEF OrderTargetForTransaction, TransactionStates
<1>7. merged # "rejected" =>
        OrderAfter(orderState, path) =
          IF HappyPathIndex[target] <= HappyPathIndex[orderState] THEN orderState ELSE target
  <2> HIDE DEF target, path, merged
  <2> QED BY <1>2, <1>6, HappyPathSteps
<1>8. /\ merged = "detected" => target = "payment_detected"
      /\ merged = "confirming" => target = "confirming"
      /\ merged = "confirmed" => target = "paid"
  <2> HIDE DEF merged
  <2> QED BY DEF OrderTargetForTransaction
<1> HIDE DEF merged, target, path, plan
<1>9. plan.status = merged /\ plan.path = path BY <1>1
<1>10. /\ merged = "detected" =>
            OrderAfter(orderState, path) =
              (IF orderState = "waiting_payment" THEN "payment_detected" ELSE orderState)
       /\ merged = "confirming" => OrderAfter(orderState, path) = "confirming"
       /\ merged = "confirmed" => OrderAfter(orderState, path) = "paid"
  BY <1>2, <1>7, <1>8 DEF OpenStates, HappyPathIndex
<1> QED BY <1>1, <1>2, <1>4, <1>5, <1>9, <1>10 DEF plan, merged

-----------------------------------------------------------------------------
(* The happy path only takes steps of the purchase state machine.            *)
LEMMA HappyPathIsLegal ==
  ASSUME NEW current \in OpenStates,
         NEW target \in {"payment_detected", "confirming", "paid"}
  PROVE  LegalPath(current, HappyPathTransitions(current, target))
<1> DEFINE i == HappyPathIndex[current]
           j == HappyPathIndex[target]
           path == HappyPathTransitions(current, target)
<1>1. i \in 1..3 /\ j \in 2..4 /\ HappyPath[i] = current
  BY DEF HappyPathIndex, OpenStates, HappyPath
<1>2. \A k \in 1..3 : CanTransitionPurchaseOrder(HappyPath[k], HappyPath[k + 1])
  BY DEF CanTransitionPurchaseOrder, PurchaseTransitions, HappyPath
<1>3. CASE j <= i
  <2>1. path = <<>>
    BY <1>1, <1>3, SubSeqEmpty DEF HappyPathTransitions
  <2> QED BY <2>1 DEF LegalPath
<1>4. CASE ~(j <= i)
  <2>1. \A k \in i + 1 .. j : HappyPath[k] \in OpenStates \cup {"paid"}
    <3>1. \A k \in 1 .. 4 : HappyPath[k] \in OpenStates \cup {"paid"}
      BY DEF HappyPath, OpenStates
    <3> HIDE DEF i, j
    <3> QED BY <1>1, <3>1
  <2>2. /\ Len(path) = j - i
        /\ \A k \in 1 .. j - (i + 1) + 1 : path[k] = HappyPath[(i + 1) + k - 1]
    <3> HIDE DEF i, j
    <3>1. path = SubSeq(HappyPath, i + 1, j)
      BY DEF HappyPathTransitions, i, j
    <3>2. i + 1 \in Int /\ j \in Int /\ i + 1 <= j
      BY <1>1, <1>4
    <3> HIDE DEF path
    <3> QED BY <3>1, <3>2, <2>1, SubSeqProperties, <1>1
  <2> HIDE DEF i, j, path
  <2>3. \A k \in 1 .. Len(path) : path[k] = HappyPath[i + k]
    BY <1>1, <1>4, <2>2
  <2>4. ASSUME NEW k \in 1 .. Len(path)
        PROVE  CanTransitionPurchaseOrder(IF k = 1 THEN current ELSE path[k - 1], path[k])
    <3>1. path[k] = HappyPath[i + k]
      BY <2>3
    <3>2. (IF k = 1 THEN current ELSE path[k - 1]) = HappyPath[i + k - 1]
      <4>1. CASE k = 1
        BY <1>1, <4>1
      <4>2. CASE k # 1
        <5>1. k - 1 \in 1 .. Len(path) /\ i + (k - 1) = i + k - 1
          BY <1>1, <1>4, <2>2, <4>2
        <5>2. path[k - 1] = HappyPath[i + (k - 1)]
          BY <2>3, <5>1
        <5> QED BY <4>2, <5>1, <5>2
      <4> QED BY <4>1, <4>2
    <3>3. i + k - 1 \in 1..3 /\ (i + k - 1) + 1 = i + k
      BY <1>1, <1>4, <2>2
    <3>4. CanTransitionPurchaseOrder(HappyPath[i + k - 1], HappyPath[(i + k - 1) + 1])
      BY <1>2, <3>3
    <3> QED BY <3>1, <3>2, <3>3, <3>4
  <2> QED BY <2>4 DEF LegalPath, path
<1> QED BY <1>3, <1>4

LEMMA RejectionIsLegal ==
  ASSUME NEW current \in OpenStates
  PROVE  LegalPath(current, RejectedTransitions(current))
<1> DEFINE path == RejectedTransitions(current)
<1>1. CASE current = "waiting_payment"
  <2>1. path = <<"payment_detected", "failed">>
    BY <1>1 DEF RejectedTransitions
  <2>2. Len(path) = 2 /\ path[1] = "payment_detected" /\ path[2] = "failed"
    BY <2>1
  <2> HIDE DEF path
  <2>3. \A i \in 1..Len(path) : i = 1 \/ i = 2
    BY <2>2
  <2> QED BY <1>1, <2>2, <2>3 DEF LegalPath, CanTransitionPurchaseOrder, PurchaseTransitions, path
<1>2. CASE current # "waiting_payment"
  <2>1. path = <<"failed">>
    BY <1>2 DEF RejectedTransitions
  <2>2. Len(path) = 1 /\ path[1] = "failed"
    BY <2>1
  <2> HIDE DEF path
  <2>3. \A i \in 1..Len(path) : i = 1
    BY <2>2
  <2> QED BY <1>2, <2>2, <2>3
          DEF LegalPath, CanTransitionPurchaseOrder, PurchaseTransitions, OpenStates, path
<1> QED BY <1>1, <1>2

(* Evidence about an open order is always taken: whatever was recorded and   *)
(* whatever is observed, unless the two contradict each other, the planner   *)
(* finds a legal way on; "invalid_order_state" is the answer to an order     *)
(* that is still "created", and to no other.                                 *)
THEOREM OpenOrdersTakeEvidence ==
  ASSUME NEW evaluation \in Evaluations, evaluation # "mismatch",
         NEW orderState \in PurchaseStates \ {"created"},
         NEW current \in RecordedStates
  PROVE  LET plan == PlanPaymentEvidenceLifecycle(evaluation, orderState, current)
             merged == MergeTransactionStatus(current, TargetForEvaluation(evaluation))
         IN  /\ plan.kind \in {"apply", "terminal_noop", "state_conflict"}
             /\ orderState \in OpenStates =>
                  (plan.kind = "apply" <=> merged # "conflict")
<1> DEFINE requested == TargetForEvaluation(evaluation)
           merged == MergeTransactionStatus(current, requested)
           target == OrderTargetForTransaction(merged)
           path == IF target = "failed" THEN RejectedTransitions(orderState)
                                        ELSE HappyPathTransitions(orderState, target)
           plan == PlanPaymentEvidenceLifecycle(evaluation, orderState, current)
<1>1. requested \in TransactionStates
  BY DEF TargetForEvaluation, Evaluations, TransactionStates
<1>2. merged \in TransactionStates \cup {"conflict"}
  BY <1>1 DEF MergeTransactionStatus, TransactionStates, RecordedStates
<1> HIDE DEF merged
<1>3. plan = IF merged = "conflict" THEN [kind |-> "state_conflict"]
             ELSE IF orderState \in {"paid", "credited", "expired", "failed"}
               THEN TerminalOrderPlan(orderState, merged)
             ELSE IF ~LegalPath(orderState, path) THEN [kind |-> "invalid_order_state"]
             ELSE [kind |-> "apply", status |-> merged, path |-> path]
  <2> HIDE DEF path
  <2> QED BY DEF PlanPaymentEvidenceLifecycle, merged, path
<1>4. orderState \in OpenStates /\ merged # "conflict" => LegalPath(orderState, path)
  <2> SUFFICES ASSUME orderState \in OpenStates, merged \in TransactionStates
      PROVE LegalPath(orderState, path)
    BY <1>2
  <2>1. CASE merged = "rejected"
    <3>1. path = RejectedTransitions(orderState)
      BY <2>1 DEF OrderTargetForTransaction
    <3> HIDE DEF path
    <3> QED BY <3>1, RejectionIsLegal
  <2>2. CASE merged # "rejected"
    <3>1. target \in {"payment_detected", "confirming", "paid"}
      BY <2>2 DEF OrderTargetForTransaction, TransactionStates
    <3>2. path = HappyPathTransitions(orderState, target)
      BY <3>1
    <3> HIDE DEF path, target
    <3> QED BY <3>1, <3>2, HappyPathIsLegal
  <2> QED BY <2>1, <2>2
<1>5. orderState \in OpenStates \/ orderState \in {"paid", "credited", "expired", "failed"}
  BY DEF PurchaseStates, OpenStates
<1>6. TerminalOrderPlan(orderState, merged).kind \in {"terminal_noop", "state_conflict"}
  BY DEF TerminalOrderPlan
<1>7. orderState \in OpenStates => orderState \notin {"paid", "credited", "expired", "failed"}
  BY DEF OpenStates
<1> HIDE DEF plan, path
<1>8. plan.kind \in {"apply", "terminal_noop", "state_conflict"}
  BY <1>3, <1>4, <1>5, <1>6
<1>9. orderState \in OpenStates => (plan.kind = "apply" <=> merged # "conflict")
  BY <1>3, <1>4, <1>7
<1> QED BY <1>8, <1>9 DEF plan, merged

(* As long as no execution fails, evidence never contradicts what is         *)
(* recorded: it is applied to an open order, confirms the order exactly when *)
(* it confirms the transaction, and is a no-op for a decided one.            *)
LEMMA SuccessIsTaken ==
  ASSUME NEW evaluation \in Evaluations \ {"mismatch", "execution_failed"},
         NEW orderState \in PurchaseStates \ {"created", "failed"},
         NEW current \in RecordedStates \ {"rejected"}
  PROVE  LET plan == PlanPaymentEvidenceLifecycle(evaluation, orderState, current)
             after == OrderAfter(orderState, plan.path)
         IN  /\ plan.kind \in {"apply", "terminal_noop"}
             /\ plan.kind = "apply" =>
                  /\ orderState \in OpenStates
                  /\ plan.status \in {"detected", "confirming", "confirmed"}
                  /\ after \in {"payment_detected", "confirming", "paid"}
                  /\ after = "paid" <=> plan.status = "confirmed"
<1> DEFINE requested == TargetForEvaluation(evaluation)
           merged == MergeTransactionStatus(current, requested)
           plan == PlanPaymentEvidenceLifecycle(evaluation, orderState, current)
           after == OrderAfter(orderState, plan.path)
<1>1. requested \in {"detected", "confirming", "confirmed"}
  BY DEF TargetForEvaluation, Evaluations
<1>2. merged \in {"detected", "confirming", "confirmed"}
  BY <1>1 DEF MergeTransactionStatus, TransactionStates, RecordedStates
<1>3. plan.kind \in {"apply", "terminal_noop", "state_conflict"}
  BY OpenOrdersTakeEvidence
<1>4. plan.kind # "state_conflict"
  <2>1. CASE orderState \in OpenStates
    <3>1. merged # "conflict"
      BY <1>2
    <3>2. plan.kind = "apply"
      BY <2>1, <3>1, OpenOrdersTakeEvidence
    <3> QED BY <3>2
  <2>2. CASE orderState \in {"paid", "credited", "expired"}
    <3> HIDE DEF merged
    <3>1. plan = TerminalOrderPlan(orderState, merged)
      BY <1>2, <2>2 DEF PlanPaymentEvidenceLifecycle, merged
    <3>2. TerminalOrderPlan(orderState, merged).kind = "terminal_noop"
      BY <1>2, <2>2 DEF TerminalOrderPlan
    <3> QED BY <3>1, <3>2
  <2> QED BY <2>1, <2>2 DEF PurchaseStates, OpenStates
<1>5. plan.kind = "apply" =>
        /\ orderState \in OpenStates
        /\ plan.status = merged
        /\ plan.status = "detected" =>
             after = (IF orderState = "waiting_payment" THEN "payment_detected" ELSE orderState)
        /\ plan.status = "confirming" => after = "confirming"
        /\ plan.status = "confirmed" => after = "paid"
  <2>1. orderState # "absent" /\ orderState \in (PurchaseStates \ {"created"}) \cup {"absent"}
    BY DEF PurchaseStates
  <2> QED BY <2>1, AppliedPlan
<1> HIDE DEF plan, merged, after
<1>6. plan.kind = "apply" =>
        /\ plan.status \in {"detected", "confirming", "confirmed"}
        /\ after \in {"payment_detected", "confirming", "paid"}
        /\ after = "paid" <=> plan.status = "confirmed"
  BY <1>2, <1>5 DEF OpenStates
<1> QED BY <1>3, <1>4, <1>5, <1>6 DEF plan, after
=============================================================================
