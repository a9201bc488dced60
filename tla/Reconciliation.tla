--------------------------- MODULE Reconciliation ---------------------------
(***************************************************************************)
(* The USDT reconciliation workers: PaymentReconciliationLoop calling      *)
(* UsdtPaymentReconciliationService.runOnce in every bot process.  During  *)
(* a deployment the old and the new process both run one.                  *)
(*                                                                         *)
(* A run lists the open orders once and then works from that list: every   *)
(* await between two of its steps lets the other process, the chain, the   *)
(* indexer and new customers in.  Only the repository transactions, taken  *)
(* from PaymentSettlement, are atomic.                                     *)
(*                                                                         *)
(* All open orders share one token contract and destination here, so the   *)
(* active ones form one scan group; a scan reads its pages at once, and    *)
(* works through lists in any order.                                       *)
(***************************************************************************)
EXTENDS Naturals, FiniteSets

CONSTANTS
  Users, Orders, Transfers, Txids, OwnerOf, CountOf, TxidOf, PaysFor, NoOrder,
  NoPayment, RequiredConfirmations, MaxDepth,   \* as in PaymentSettlement
  Workers,          \* bot processes
  NoTransfer,       \* no candidate in hand
  MaxOrdersPerRun,  \* RECONCILIATION_MAX_ORDERS: more open orders are fatal
  MaxFaults         \* bound: read errors, full scans, database errors, restarts

ASSUME OwnersAreUsers == OwnerOf \in [Orders -> Users]
ASSUME CountsArePositive == CountOf \in [Orders -> Nat \ {0}]
ASSUME TransfersHaveTxids == TxidOf \in [Transfers -> Txids]
ASSUME TransfersPayOrders ==
  PaysFor \in [Transfers -> Orders \cup {NoOrder}] /\ NoOrder \notin Orders
ASSUME BoundsAreNatural == RequiredConfirmations \in Nat \ {0} /\ {MaxDepth, MaxFaults} \subseteq Nat

VARIABLES
  orderStatus, overdue, payment, ledger, available, chain,
  timely,   \* transfers mined while the order they pay was within its window
  indexed,  \* transfers the historical index shows
  prompt,   \* history: indexed before the deadline of the order they pay
  run,      \* the local state of each worker
  faults    \* history: faults so far

settlementVars == <<orderStatus, overdue, payment, ledger, available, chain>>
vars == <<settlementVars, timely, indexed, prompt, run, faults>>

Settlement == INSTANCE PaymentSettlement

ASSUME NoPaymentIsNoRow == NoPayment \notin Settlement!PaymentRow

(* The local variables of runOnce: what is left of the list, the transfers   *)
(* mined by scanStartedAt, the overdue order of the current scan, what the   *)
(* scan found, and the candidate between its two applications.               *)
Resting ==
  [pc |-> "resting", toCredit |-> {}, toExpire |-> {}, active |-> {}, mined |-> {},
   single |-> NoOrder, candidates |-> {}, matched |-> FALSE,
   transfer |-> NoTransfer, depth |-> 0]

Halted(reason) == [Resting EXCEPT !.pc = reason]

HaltReasons == {"capacity_exceeded", "conflict", "database_error"}

IsHalted(w) == run[w].pc \in HaltReasons

Init ==
  /\ Settlement!Init
  /\ timely = {} /\ indexed = {} /\ prompt = {}
  /\ run = [w \in Workers |-> Resting]
  /\ faults = 0

-----------------------------------------------------------------------------
(* The surroundings.                                                         *)

(* New orders are taken as long as some process still has its payment gate   *)
(* open: a fatal error closes the gate of its process for good.              *)
OrderArrives(o) ==
  /\ \E w \in Workers : ~IsHalted(w)
  /\ Settlement!CreateOrder(o)
  /\ UNCHANGED <<timely, indexed, prompt, run, faults>>

DeadlinePasses(o) ==
  /\ Settlement!PassDeadline(o)
  /\ UNCHANGED <<timely, indexed, prompt, run, faults>>

(* The block timestamp of a transfer is fixed when it is mined, and with it  *)
(* whether it is in the window of its order.                                 *)
CandidateWithinOrderWindow(t) ==
  /\ PaysFor[t] # NoOrder
  /\ orderStatus[PaysFor[t]] # "absent"
  /\ PaysFor[t] \notin overdue

Mine(x) ==
  /\ Settlement!TransactionAppears(x)
  /\ timely' = timely \cup
       {t \in Transfers : TxidOf[t] = x /\ CandidateWithinOrderWindow(t)}
  /\ UNCHANGED <<indexed, prompt, run, faults>>

(* A failed TRC-20 call emits no Transfer event, so it is never a candidate. *)
Solidify(x) ==
  /\ Settlement!TransactionSolidifies(x, "success")
  /\ UNCHANGED <<timely, indexed, prompt, run, faults>>

Deepen(x) ==
  /\ Settlement!BlockIsAdded(x)
  /\ UNCHANGED <<timely, indexed, prompt, run, faults>>

(* The index (only_confirmed) shows a solidified transfer after some lag.    *)
IndexShows(t) ==
  /\ t \notin indexed
  /\ chain[TxidOf[t]].state = "success"
  /\ indexed' = indexed \cup {t}
  /\ prompt' = IF t \in timely /\ PaysFor[t] \notin overdue THEN prompt \cup {t}
                                                           ELSE prompt
  /\ UNCHANGED <<settlementVars, timely, run, faults>>

-----------------------------------------------------------------------------
(* runOnce.                                                                  *)

(* Mutant: paid orders are not listed again.                                 *)
OpenUnpaidOrders ==
  {o \in Orders :
     orderStatus[o] \in {"waiting_payment", "payment_detected", "confirming"}}

OpenOrders ==
  {o \in Orders : orderStatus[o] \in
                    {"waiting_payment", "payment_detected", "confirming", "paid"}}

ListOrders(w) ==
  /\ run[w].pc = "resting"
  /\ IF Cardinality(OpenOrders) > MaxOrdersPerRun
       THEN run' = [run EXCEPT ![w] = Halted("capacity_exceeded")]
       ELSE LET paid == {o \in OpenOrders : orderStatus[o] = "paid"}
                late == {o \in overdue : orderStatus[o] = "waiting_payment"}
            IN  run' = [run EXCEPT ![w] =
                  [Resting EXCEPT !.pc = "next", !.toCredit = paid, !.toExpire = late,
                                  !.active = OpenOrders \ (paid \cup late),
                                  !.mined = timely]]
  /\ UNCHANGED <<settlementVars, timely, indexed, prompt, faults>>

(* creditOrThrow.                                                            *)
Credits(o) ==
  \/ Settlement!CreditPaidOrder(o)
  \/ Settlement!CreditResult(o) = "replay" /\ UNCHANGED settlementVars

(* Mutant: an order the other process credited is an error.                  *)
CreditRefusedOnReplay(o) == Settlement!CreditResult(o) # "credited"

CreditRefused(o) == Settlement!CreditResult(o) \notin {"credited", "replay"}

CreditListed(w, o) ==
  /\ run[w].pc = "next" /\ o \in run[w].toCredit
  /\ Credits(o)
  /\ run' = [run EXCEPT ![w].toCredit = @ \ {o}]
  /\ UNCHANGED <<timely, indexed, prompt, faults>>

(* Mutant: transfers that are not confirmed yet are asked for too.           *)
UnconfirmedCandidates(w, group) ==
  {t \in run[w].mined : PaysFor[t] \in group}

(* findCandidates: what the index shows now of what was mined by the start.  *)
CandidatesFor(w, group) ==
  {t \in indexed \cap run[w].mined : PaysFor[t] \in group}

ScanOverdue(w, o) ==
  /\ run[w].pc = "next" /\ run[w].toCredit = {} /\ o \in run[w].toExpire
  /\ run' = [run EXCEPT ![w].pc = "scan", ![w].single = o, ![w].matched = FALSE,
                        ![w].toExpire = @ \ {o},
                        ![w].candidates = CandidatesFor(w, {o})]
  /\ UNCHANGED <<settlementVars, timely, indexed, prompt, faults>>

ScanActive(w) ==
  /\ run[w].pc = "next" /\ run[w].toCredit = {} /\ run[w].toExpire = {}
  /\ run[w].active # {}
  /\ run' = [run EXCEPT ![w].pc = "scan", ![w].single = NoOrder, ![w].active = {},
                        ![w].candidates = CandidatesFor(w, run[w].active)]
  /\ UNCHANGED <<settlementVars, timely, indexed, prompt, faults>>

(* applyOrThrow: the write, or the terminal no-op that is no error either.   *)
Applies(t, obs) ==
  \/ Settlement!ApplyObservation(PaysFor[t], t, obs)
  \/ /\ Settlement!ApplyResult(PaysFor[t], t, obs) = "terminal_noop"
     /\ UNCHANGED settlementVars

ApplyRefused(t, obs) ==
  \/ Settlement!ApplyResult(PaysFor[t], t, obs) \notin {"applied", "terminal_noop"}
  \/ /\ Settlement!ApplyResult(PaysFor[t], t, obs) = "applied"
     /\ ~Settlement!UniqueConfirmedPayment(
           PaysFor[t], t, Settlement!PlanFor(PaysFor[t], t, obs).status)

DetectCandidate(w, t) ==
  /\ run[w].pc = "scan" /\ t \in run[w].candidates
  /\ Applies(t, Settlement!CandidateObservation)
  /\ LET state == orderStatus'[PaysFor[t]]
         pc == CASE state = "paid" -> "credit_found"
                 [] state \in {"credited", "expired", "failed"} -> "scan"
                 [] OTHER -> "inspect"
     IN  run' = [run EXCEPT ![w].pc = pc, ![w].matched = TRUE,
                            ![w].candidates = @ \ {t},
                            ![w].transfer = IF pc = "scan" THEN NoTransfer ELSE t]
  /\ UNCHANGED <<timely, indexed, prompt, faults>>

(* finality.inspect: the solidified node may lag behind the index.           *)
InspectNotFound(w) ==
  /\ run[w].pc = "inspect"
  /\ run' = [run EXCEPT ![w].pc = "scan", ![w].transfer = NoTransfer]
  /\ UNCHANGED <<settlementVars, timely, indexed, prompt, faults>>

InspectFinds(w, depth) ==
  /\ run[w].pc = "inspect"
  /\ depth <= chain[TxidOf[run[w].transfer]].depth
  /\ run' = [run EXCEPT ![w].pc = "apply_final", ![w].depth = depth]
  /\ UNCHANGED <<settlementVars, timely, indexed, prompt, faults>>

(* Mutant: a solidified transaction is taken to be deep enough.              *)
FinalObservationAssumedDeep(w) ==
  [solidified |-> TRUE, source |-> "solidified_node", execution |-> "success",
   confirmations |-> RequiredConfirmations]

FinalObservation(w) ==
  [solidified |-> TRUE, source |-> "solidified_node", execution |-> "success",
   confirmations |-> run[w].depth]

ApplyFinal(w) ==
  /\ run[w].pc = "apply_final"
  /\ Applies(run[w].transfer, FinalObservation(w))
  /\ LET pc == IF orderStatus'[PaysFor[run[w].transfer]] = "paid" THEN "credit_found"
                                                                 ELSE "scan"
     IN  run' = [run EXCEPT ![w].pc = pc, ![w].depth = 0,
                            ![w].transfer = IF pc = "scan" THEN NoTransfer ELSE @]
  /\ UNCHANGED <<timely, indexed, prompt, faults>>

CreditFound(w) ==
  /\ run[w].pc = "credit_found"
  /\ Credits(PaysFor[run[w].transfer])
  /\ run' = [run EXCEPT ![w].pc = "scan", ![w].transfer = NoTransfer]
  /\ UNCHANGED <<timely, indexed, prompt, faults>>

(* Mutant: the order expires although candidates are left.                   *)
FinishScanEarly(w) ==
  /\ run[w].pc = "scan"
  /\ IF run[w].single # NoOrder /\ orderStatus[run[w].single] = "waiting_payment"
       THEN Settlement!ExpireWaitingOrder(run[w].single)
       ELSE UNCHANGED settlementVars
  /\ run' = [run EXCEPT ![w] = [Resting EXCEPT !.pc = "next", !.toExpire = run[w].toExpire,
                                               !.active = run[w].active]]
  /\ UNCHANGED <<timely, indexed, prompt, faults>>

(* Mutant: the order expires when something did match.                       *)
FinishScanSwapped(w) ==
  /\ run[w].pc = "scan" /\ run[w].candidates = {}
  /\ IF /\ run[w].single # NoOrder
        /\ run[w].matched
        /\ orderStatus[run[w].single] = "waiting_payment"
       THEN Settlement!ExpireWaitingOrder(run[w].single)
       ELSE UNCHANGED settlementVars
  /\ run' = [run EXCEPT ![w].pc = "next", ![w].single = NoOrder, ![w].matched = FALSE]
  /\ UNCHANGED <<timely, indexed, prompt, faults>>

(* An overdue order nothing matched is expired, if it is still waiting.      *)
FinishScan(w) ==
  /\ run[w].pc = "scan" /\ run[w].candidates = {}
  /\ IF /\ run[w].single # NoOrder
        /\ ~run[w].matched
        /\ orderStatus[run[w].single] = "waiting_payment"
       THEN Settlement!ExpireWaitingOrder(run[w].single)
       ELSE UNCHANGED settlementVars
  /\ run' = [run EXCEPT ![w].pc = "next", ![w].single = NoOrder, ![w].matched = FALSE]
  /\ UNCHANGED <<timely, indexed, prompt, faults>>

FinishRun(w) ==
  /\ run[w].pc = "next"
  /\ run[w].toCredit = {} /\ run[w].toExpire = {} /\ run[w].active = {}
  /\ run' = [run EXCEPT ![w] = Resting]
  /\ UNCHANGED <<settlementVars, timely, indexed, prompt, faults>>

-----------------------------------------------------------------------------
(* What can go wrong in a run.                                               *)

(* A conflict is thrown, is not retryable, and ends the loop.                *)
MeetConflict(w) ==
  /\ \/ run[w].pc = "next" /\ \E o \in run[w].toCredit : CreditRefused(o)
     \/ run[w].pc = "credit_found" /\ CreditRefused(PaysFor[run[w].transfer])
     \/ /\ run[w].pc = "scan"
        /\ \E t \in run[w].candidates : ApplyRefused(t, Settlement!CandidateObservation)
     \/ run[w].pc = "apply_final" /\ ApplyRefused(run[w].transfer, FinalObservation(w))
  /\ run' = [run EXCEPT ![w] = Halted("conflict")]
  /\ UNCHANGED <<settlementVars, timely, indexed, prompt, faults>>

(* A scan that needs more pages than it may read, or cannot take one, ends   *)
(* the loop too; what the pages read so far showed has been worked through.  *)
PageCapacityExceeded(w) ==
  /\ run[w].pc = "scan" /\ faults < MaxFaults
  /\ run' = [run EXCEPT ![w] = Halted("capacity_exceeded")]
  /\ faults' = faults + 1
  /\ UNCHANGED <<settlementVars, timely, indexed, prompt>>

(* An unavailable index or node aborts the run, the next cycle starts anew.  *)
ReadFails(w) ==
  /\ run[w].pc \in {"next", "inspect"} /\ faults < MaxFaults
  /\ run' = [run EXCEPT ![w] = Resting]
  /\ faults' = faults + 1
  /\ UNCHANGED <<settlementVars, timely, indexed, prompt>>

(* A database error is not retryable either.                                 *)
DatabaseFails(w) ==
  /\ run[w].pc \in {"resting", "next", "scan", "apply_final", "credit_found"}
  /\ faults < MaxFaults
  /\ run' = [run EXCEPT ![w] = Halted("database_error")]
  /\ faults' = faults + 1
  /\ UNCHANGED <<settlementVars, timely, indexed, prompt>>

(* The process dies or is replaced; the new one starts a fresh loop.         *)
Restart(w) ==
  /\ run[w].pc # "resting" /\ faults < MaxFaults
  /\ run' = [run EXCEPT ![w] = Resting]
  /\ faults' = faults + 1
  /\ UNCHANGED <<settlementVars, timely, indexed, prompt>>

-----------------------------------------------------------------------------
Work(w) ==
  \/ ListOrders(w) \/ ScanActive(w) \/ FinishScan(w) \/ FinishRun(w)
  \/ InspectNotFound(w) \/ ApplyFinal(w) \/ CreditFound(w) \/ MeetConflict(w)
  \/ \E o \in Orders : CreditListed(w, o) \/ ScanOverdue(w, o)
  \/ \E t \in Transfers : DetectCandidate(w, t)
  \/ \E depth \in 1..MaxDepth : InspectFinds(w, depth)

Next ==
  \/ \E o \in Orders : OrderArrives(o) \/ DeadlinePasses(o)
  \/ \E x \in Txids : Mine(x) \/ Solidify(x) \/ Deepen(x)
  \/ \E t \in Transfers : IndexShows(t)
  \/ \E w \in Workers : Work(w) \/ ReadFails(w) \/ DatabaseFails(w)
                        \/ PageCapacityExceeded(w) \/ Restart(w)

Spec == Init /\ [][Next]_vars

(* The event loop keeps each worker going, blocks keep coming, and a         *)
(* solidified node that is asked again and again is not behind for ever.     *)
Fairness ==
  /\ \A w \in Workers : WF_vars(Work(w))
  /\ \A w \in Workers :
       SF_vars(run[w].pc = "inspect"
                 /\ InspectFinds(w, chain[TxidOf[run[w].transfer]].depth))
  /\ \A x \in Txids : WF_vars(Deepen(x))

FairSpec == Spec /\ Fairness

-----------------------------------------------------------------------------
(* Properties.                                                               *)

TypeOK ==
  /\ Settlement!TypeOK
  /\ timely \subseteq Transfers /\ indexed \subseteq Transfers /\ prompt \subseteq indexed
  /\ faults \in 0..MaxFaults
  /\ run \in [Workers ->
       [pc : {"resting", "next", "scan", "inspect", "apply_final", "credit_found"}
               \cup HaltReasons,
        toCredit : SUBSET Orders, toExpire : SUBSET Orders, active : SUBSET Orders,
        mined : SUBSET Transfers, single : Orders \cup {NoOrder},
        candidates : SUBSET Transfers, matched : BOOLEAN,
        transfer : Transfers \cup {NoTransfer}, depth : 0..MaxDepth]]

(* Every write of the workers is one of the settlement transactions, on an   *)
(* observation that was true when it was made, however long ago that was.    *)
ImplementsSettlement == Settlement!Spec

(* What a run has read is still true whenever it acts on it, however many    *)
(* awaits, and steps of the other process, the chain and the index, later:   *)
(* the orders it is about to expire are overdue, a prompt payment of theirs  *)
(* cannot slip through the scan it is in or has yet to make, candidates are  *)
(* final money, and a depth it was told is not more than there is.           *)
ReadingsStayTrue ==
  \A w \in Workers : LET r == run[w] IN
    /\ r.toExpire \cup ({r.single} \ {NoOrder}) \subseteq overdue
    /\ \A t \in prompt : /\ PaysFor[t] \in r.toExpire => t \in r.mined
                         /\ PaysFor[t] = r.single => t \in r.candidates \/ r.matched
    /\ \A t \in r.candidates : chain[TxidOf[t]].state = "success"
    /\ r.pc \in {"inspect", "apply_final", "credit_found"} =>
         chain[TxidOf[r.transfer]].state = "success"
    /\ r.pc = "apply_final" => r.depth <= chain[TxidOf[r.transfer]].depth

(* Expiry never overtakes a payment in time: an order whose transfer was     *)
(* mined in its window and indexed before its deadline is never expired,     *)
(* although each worker decides on a list, a scan and a clock of its own.    *)
PromptPaymentsAreKept ==
  \A t \in prompt : orderStatus[PaysFor[t]] # "expired"

(* A worker that finds its listed order already paid, credited or expired by *)
(* the other process takes that as done.  What stops a loop for good is too  *)
(* many open orders, the database, or one chain transaction that pays two    *)
(* orders; never the other worker.                                           *)
SharedTransaction ==
  \E t1, t2 \in Transfers :
    /\ t1 # t2 /\ TxidOf[t1] = TxidOf[t2]
    /\ {PaysFor[t1], PaysFor[t2]} \subseteq Orders

WorkersNeverHaltEachOther ==
  \A w \in Workers : run[w].pc = "conflict" => SharedTransaction

(* A detected payment does not get stuck between detection and credit: it is *)
(* credited, whatever restarts, read errors and overlapping runs there were, *)
(* or a fatal error has stopped every loop.                                  *)
DetectedIsCredited ==
  \A o \in Orders :
    orderStatus[o] \in {"payment_detected", "confirming", "paid"}
      ~> \/ orderStatus[o] = "credited"
         \/ \A w \in Workers : IsHalted(w)

(* An overdue order does not stay open for ever: it is expired, or a payment *)
(* in its window that the index showed late has moved it on.                 *)
OverdueIsDecided ==
  \A o \in Orders :
    orderStatus[o] = "waiting_payment" /\ o \in overdue
      ~> \/ orderStatus[o] # "waiting_payment"
         \/ \A w \in Workers : IsHalted(w)
=============================================================================
