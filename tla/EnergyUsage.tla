----------------------------- MODULE EnergyUsage -----------------------------
(***************************************************************************)
(* Spending count on Energy: EnergyUsageService and the delivery recovery  *)
(* loop of every bot process, over PostgresEnergyUsageRepository and an    *)
(* EnergyProvider that keeps its contract (idempotent by key, completed    *)
(* and failed are final) and nothing more: a request or its answer may be  *)
(* lost, and a request whose caller gave up may still arrive.              *)
(*                                                                         *)
(* reserve, startDispatch and applyDelivery are database transactions and  *)
(* one step each.  Between them a call holds only what it read: which      *)
(* provider the order was bound to and what a provider answered.  Calls of *)
(* one process on one order exclude each other after reserve; calls of two *)
(* processes do not.                                                       *)
(***************************************************************************)
EXTENDS Integers, FiniteSets, FiniteSetsExt

CONSTANTS
  Users, Purchases, BuyerOf, CountOf,  \* the credited purchases, as in CountAccount
  Orders,        \* energy_consumption_orders; 1..n in the order of their keys
  SpenderOf,     \* the customer of each order
  CostOf,        \* count_cost snapshot of each order
  MayBeBlocked,  \* customers an operator may block
  Providers, NoProvider,
  Processes,     \* bot processes; they overlap during a deployment
  CurrentOf,     \* the provider each process dispatches new orders to
  KnownBy,       \* the providers each process can still resume
  Callers,       \* customers' concurrent calls
  ProcessOf,     \* the process that serves each of them
  PageSize,      \* maxOrders of the recovery loop
  MaxFaults      \* bound: lost requests and answers, errors and crashes

ASSUME PurchasesAreBought ==
  BuyerOf \in [Purchases -> Users] /\ CountOf \in [Purchases -> Nat]
ASSUME OrdersAreSpent ==
  SpenderOf \in [Orders -> Users] /\ CostOf \in [Orders -> Nat \ {0}]
ASSUME OrdersAreKeys == Orders \subseteq Nat \ {0}
ASSUME ProvidersAreRegistered ==
  /\ NoProvider \notin Providers
  /\ CurrentOf \in [Processes -> Providers]
  /\ KnownBy \in [Processes -> SUBSET Providers]
  /\ \A p \in Processes : CurrentOf[p] \in KnownBy[p]
ASSUME CallersAreServed ==
  ProcessOf \in [Callers -> Processes] /\ Callers \cap Processes = {}

(* The recovery loop of a process makes its calls one after the other.       *)
Calls == Callers \cup Processes

HostOf(c) == IF c \in Callers THEN ProcessOf[c] ELSE c

VARIABLES
  order,      \* status of each order; "absent" before it is reserved
  delivery,   \* provider_deliveries: the bound provider and the known status
  available, reserved,  \* package_balances
  ledger,     \* the Energy rows of balance_ledger
  credited,   \* purchases credited so far (PaymentSettlement)
  blocked,    \* users.status = blocked
  supply,     \* what each provider holds under the key of each order
  inFlight,   \* requests whose caller gave up on them
  call,       \* the local state of each call
  loop,       \* the recovery loop of each process: cursor and page
  faults      \* bound: faults so far

balances == <<available, reserved, ledger, credited>>
database == <<order, delivery, balances, blocked>>
provider == <<supply, inFlight>>
vars == <<database, provider, call, loop, faults>>

Idle ==
  [pc |-> "idle", order |-> 0, provider |-> NoProvider, created |-> FALSE, answer |-> "none"]

Init ==
  /\ order = [o \in Orders |-> "absent"]
  /\ delivery = [o \in Orders |-> [provider |-> NoProvider, status |-> "pending"]]
  /\ available = [u \in Users |-> 0]
  /\ reserved = [u \in Users |-> 0]
  /\ ledger = {}
  /\ credited = {}
  /\ blocked = {}
  /\ supply = [r \in Providers |-> [o \in Orders |-> "none"]]
  /\ inFlight = {}
  /\ call = [c \in Calls |-> Idle]
  /\ loop = [p \in Processes |-> [cursor |-> 0, page |-> {}]]
  /\ faults = 0

-----------------------------------------------------------------------------
(* The surroundings: purchases, the operator, the provider's own progress.   *)

CreditPurchase(p) ==
  /\ p \notin credited
  /\ credited' = credited \cup {p}
  /\ available' = [available EXCEPT ![BuyerOf[p]] = @ + CountOf[p]]
  /\ UNCHANGED <<order, delivery, reserved, ledger, blocked, provider, call, loop, faults>>

BlockUser(u) ==
  /\ u \in MayBeBlocked \ blocked
  /\ blocked' = blocked \cup {u}
  /\ UNCHANGED <<order, delivery, balances, provider, call, loop, faults>>

Accepted(s) == IF s = "none" THEN "accepted" ELSE s

LateRequestArrives(r, o) ==
  /\ <<r, o>> \in inFlight
  /\ inFlight' = inFlight \ {<<r, o>>}
  /\ supply' = [supply EXCEPT ![r][o] = Accepted(@)]
  /\ UNCHANGED <<database, call, loop, faults>>

ProviderWorks(r, o) ==
  /\ supply[r][o] = "accepted"
  /\ supply' = [supply EXCEPT ![r][o] = "processing"]
  /\ UNCHANGED <<database, inFlight, call, loop, faults>>

ProviderDecides(r, o, outcome) ==
  /\ supply[r][o] \in {"accepted", "processing"}
  /\ supply' = [supply EXCEPT ![r][o] = outcome]
  /\ UNCHANGED <<database, inFlight, call, loop, faults>>

-----------------------------------------------------------------------------
(* execute: reserve, then the rest under the lock of the order.              *)

(* The rows of balance_ledger.                                               *)
ReserveRow(o) ==
  [order |-> o, reason |-> "energy_reserve",
   availableDelta |-> -CostOf[o], reservedDelta |-> CostOf[o]]

ConsumeRow(o) ==
  [order |-> o, reason |-> "energy_consume",
   availableDelta |-> 0, reservedDelta |-> -CostOf[o]]

ReleaseRow(o) ==
  [order |-> o, reason |-> "energy_release",
   availableDelta |-> CostOf[o], reservedDelta |-> -CostOf[o]]

(* Plausible slips in the new reservation: the key is not looked up, or the   *)
(* balance is not.                                                           *)
ReserveNewIgnoringKey(o) ==
  LET u == SpenderOf[o]
  IN  /\ u \notin blocked
      /\ available[u] >= CostOf[o]
      /\ available' = [available EXCEPT ![u] = @ - CostOf[o]]
      /\ reserved' = [reserved EXCEPT ![u] = @ + CostOf[o]]
      /\ ledger' = ledger \cup {ReserveRow(o)}
      /\ order' = [order EXCEPT ![o] = "reserved"]
      /\ UNCHANGED <<delivery, credited, blocked>>

ReserveNewUnchecked(o) ==
  LET u == SpenderOf[o]
  IN  /\ order[o] = "absent"
      /\ u \notin blocked
      /\ available' = [available EXCEPT ![u] = @ - CostOf[o]]
      /\ reserved' = [reserved EXCEPT ![u] = @ + CostOf[o]]
      /\ ledger' = ledger \cup {ReserveRow(o)}
      /\ order' = [order EXCEPT ![o] = "reserved"]
      /\ UNCHANGED <<delivery, credited, blocked>>

(* A new reservation takes the cost out of the available count; one that is  *)
(* denied or short of count changes nothing and ends the call.               *)
ReserveNew(o) ==
  LET u == SpenderOf[o]
  IN  /\ order[o] = "absent"
      /\ u \notin blocked
      /\ available[u] >= CostOf[o]
      /\ available' = [available EXCEPT ![u] = @ - CostOf[o]]
      /\ reserved' = [reserved EXCEPT ![u] = @ + CostOf[o]]
      /\ ledger' = ledger \cup {ReserveRow(o)}
      /\ order' = [order EXCEPT ![o] = "reserved"]
      /\ UNCHANGED <<delivery, credited, blocked>>

(* The reservation of a known key returns the order and its delivery as they *)
(* are; a finished order or a blocked customer ends the call.                *)
ReserveAgain(o) ==
  /\ order[o] \in {"reserved", "dispatching"}
  /\ SpenderOf[o] \notin blocked
  /\ UNCHANGED database

Reserve(c, o) ==
  /\ call[c].pc = "idle"
  /\ ReserveNew(o) \/ ReserveAgain(o)
  /\ call' = [call EXCEPT ![c] =
       [Idle EXCEPT !.pc = "ready", !.order = o, !.provider = delivery[o].provider]]
  /\ UNCHANGED <<provider, faults>>

CustomerExecutes(c, o) ==
  /\ Reserve(c, o)
  /\ UNCHANGED loop

(* getStatus reads the row under the lock.  It goes on with a delivery that  *)
(* is under way and never starts one.                                        *)
Busy(c, o) ==
  \E d \in Calls : /\ HostOf(d) = HostOf(c) /\ call[d].order = o
                   /\ call[d].pc \notin {"idle", "ready"}

CustomerAsks(c, o) ==
  /\ call[c].pc = "idle" /\ ~Busy(c, o)
  /\ order[o] = "dispatching"
  /\ delivery[o].provider \in KnownBy[HostOf(c)]
  /\ call' = [call EXCEPT ![c] =
       [Idle EXCEPT !.pc = "asking", !.order = o, !.provider = delivery[o].provider]]
  /\ UNCHANGED <<database, provider, loop, faults>>

(* A plausible slip: the current provider whatever the order is bound to.    *)
StartDispatchUnbound(c) ==
  LET o == call[c].order
      r == CurrentOf[HostOf(c)]
  IN  /\ call[c].pc = "ready" /\ ~Busy(c, o)
      /\ \/ /\ order[o] = "reserved"
            /\ order' = [order EXCEPT ![o] = "dispatching"]
            /\ delivery' = [delivery EXCEPT ![o] = [provider |-> r, status |-> "pending"]]
            /\ call' = [call EXCEPT ![c].pc = "creating", ![c].provider = r,
                                    ![c].created = TRUE]
         \/ /\ order[o] = "dispatching"
            /\ call' = [call EXCEPT ![c].pc = "creating", ![c].provider = r]
            /\ UNCHANGED <<order, delivery>>
      /\ UNCHANGED <<balances, blocked, provider, loop, faults>>

(* startDispatch binds a reserved order to the current provider; an order    *)
(* that is bound already goes on with the provider the call read before.     *)
StartDispatch(c) ==
  LET o == call[c].order
      r == IF call[c].provider = NoProvider THEN CurrentOf[HostOf(c)]
                                            ELSE call[c].provider
  IN  /\ call[c].pc = "ready" /\ ~Busy(c, o)
      /\ r \in KnownBy[HostOf(c)]
      /\ \/ /\ order[o] = "reserved"
            /\ order' = [order EXCEPT ![o] = "dispatching"]
            /\ delivery' = [delivery EXCEPT ![o] = [provider |-> r, status |-> "pending"]]
            /\ call' = [call EXCEPT ![c].pc = "creating", ![c].provider = r,
                                    ![c].created = TRUE]
         \/ /\ order[o] = "dispatching" /\ delivery[o].provider = r
            /\ call' = [call EXCEPT ![c].pc = "creating", ![c].provider = r]
            /\ UNCHANGED <<order, delivery>>
      /\ UNCHANGED <<balances, blocked, provider, loop, faults>>

(* The order was finished meanwhile, or is bound to a provider this process  *)
(* does not have or did not expect: the call ends.                           *)
DispatchEnds(c) ==
  LET o == call[c].order
      r == IF call[c].provider = NoProvider THEN CurrentOf[HostOf(c)]
                                            ELSE call[c].provider
  IN  /\ call[c].pc = "ready" /\ ~Busy(c, o)
      /\ \/ r \notin KnownBy[HostOf(c)]
         \/ order[o] # "reserved" /\ delivery[o].provider # r
         \/ order[o] \in {"completed", "released"}
      /\ call' = [call EXCEPT ![c] = Idle]
      /\ UNCHANGED <<database, provider, loop, faults>>

-----------------------------------------------------------------------------
(* The provider calls.                                                       *)

CreatingPcs == {"creating", "asking", "creating_again"}

(* createDelivery arrives: the provider accepts the key once and answers     *)
(* with what it holds.                                                       *)
CreateDelivery(c) ==
  LET o == call[c].order
      r == call[c].provider
  IN  /\ call[c].pc \in CreatingPcs
      /\ supply' = [supply EXCEPT ![r][o] = Accepted(@)]
      /\ call' = [call EXCEPT ![c].pc = "applying", ![c].answer = supply'[r][o]]
      /\ UNCHANGED <<database, inFlight, loop, faults>>

(* It throws: the request was lost, arrived and its answer was lost, or is   *)
(* still under way.  A second create that throws ends the call.              *)
CreateThrows(c) ==
  LET o == call[c].order
      r == call[c].provider
      next == CASE call[c].pc = "creating" -> "querying"
                [] call[c].pc = "asking" -> "querying_status"
                [] OTHER -> "idle"
  IN  /\ call[c].pc \in CreatingPcs /\ faults < MaxFaults
      /\ \/ UNCHANGED provider
         \/ supply' = [supply EXCEPT ![r][o] = Accepted(@)] /\ UNCHANGED inFlight
         \/ inFlight' = inFlight \cup {<<r, o>>} /\ UNCHANGED supply
      /\ call' = [call EXCEPT ![c] =
                    IF next = "idle" THEN Idle ELSE [call[c] EXCEPT !.pc = next]]
      /\ faults' = faults + 1
      /\ UNCHANGED <<database, loop>>

(* recoverExistingDelivery: by provider order id or by key.  The answers of  *)
(* a query do not tell accepted from processing and may be unknown.          *)
QueryAnswers(s) ==
  IF s \in {"accepted", "processing"} THEN {"processing", "unknown"} ELSE {s}

QueryFinds(c) ==
  LET o == call[c].order
  IN  /\ call[c].pc \in {"querying", "querying_status"}
      /\ supply[call[c].provider][o] # "none"
      /\ \E a \in QueryAnswers(supply[call[c].provider][o]) :
           call' = [call EXCEPT ![c].pc = "applying", ![c].answer = a]
      /\ UNCHANGED <<database, provider, loop, faults>>

(* Nothing under the key: the first create is recorded as unknown, a resumed *)
(* order is created again, and a status request is answered from the row.    *)
QueryFindsNothing(c) ==
  LET o == call[c].order
  IN  /\ call[c].pc \in {"querying", "querying_status"}
      /\ supply[call[c].provider][o] = "none"
      /\ call' = [call EXCEPT ![c] =
           IF call[c].pc = "querying_status" THEN Idle
           ELSE IF call[c].created
             THEN [call[c] EXCEPT !.pc = "applying", !.answer = "unknown"]
           ELSE [call[c] EXCEPT !.pc = "creating_again"]]
      /\ UNCHANGED <<database, provider, loop, faults>>

-----------------------------------------------------------------------------
(* applyDelivery.                                                            *)

MergeLatestAnswer(current, incoming) == incoming

MergeProviderDeliveryStatus(current, incoming) ==
  IF current = "processing" THEN "processing"
  ELSE IF current = "accepted" /\ incoming = "unknown" THEN "accepted"
  ELSE incoming

(* An answer the order cannot take: the transaction throws.  No action       *)
(* stands for it, since it cannot happen (AnswersAreApplicable).  Two throws *)
(* are left out, for a delivery key and for a provider order id other than   *)
(* the row's: the key is a function of the order, and the providers here have*)
(* one id per key.  The own pool has more; OwnPool has that throw.           *)
DeliveryRefused(c) ==
  LET o == call[c].order
  IN  \/ delivery[o].provider # call[c].provider
      \/ call[c].answer = "completed" /\ order[o] \notin {"dispatching", "completed"}
      \/ call[c].answer = "failed" /\ order[o] \notin {"dispatching", "released"}
      \/ /\ call[c].answer \in {"completed", "failed"} /\ order[o] = "dispatching"
         /\ reserved[SpenderOf[o]] < CostOf[o]

Consume(o) ==
  /\ order' = [order EXCEPT ![o] = "completed"]
  /\ delivery' = [delivery EXCEPT ![o].status = "completed"]
  /\ reserved' = [reserved EXCEPT ![SpenderOf[o]] = @ - CostOf[o]]
  /\ ledger' = ledger \cup {ConsumeRow(o)}
  /\ UNCHANGED available

Release(o) ==
  /\ order' = [order EXCEPT ![o] = "released"]
  /\ delivery' = [delivery EXCEPT ![o].status = "failed"]
  /\ available' = [available EXCEPT ![SpenderOf[o]] = @ + CostOf[o]]
  /\ reserved' = [reserved EXCEPT ![SpenderOf[o]] = @ - CostOf[o]]
  /\ ledger' = ledger \cup {ReleaseRow(o)}

RecordProgress(o, answer) ==
  /\ delivery' = [delivery EXCEPT
                    ![o].status = MergeProviderDeliveryStatus(@, answer)]
  /\ UNCHANGED <<order, available, reserved, ledger>>

(* Plausible slips: an answer is applied to an order that is finished, or an *)
(* answer that says nothing counts as a failure.                             *)
ApplyDeliveryTwice(c) ==
  LET o == call[c].order
  IN  /\ call[c].pc = "applying" /\ ~DeliveryRefused(c)
      /\ \/ call[c].answer = "completed" /\ Consume(o)
         \/ call[c].answer = "failed" /\ Release(o)
         \/ /\ call[c].answer \notin {"completed", "failed"}
            /\ RecordProgress(o, call[c].answer)
      /\ call' = [call EXCEPT ![c] = Idle]
      /\ UNCHANGED <<credited, blocked, provider, loop, faults>>

ApplyDeliveryUnknownFails(c) ==
  LET o == call[c].order
  IN  /\ call[c].pc = "applying" /\ ~DeliveryRefused(c)
      /\ \/ /\ order[o] # "dispatching"
            /\ UNCHANGED <<order, delivery, available, reserved, ledger>>
         \/ order[o] = "dispatching" /\ call[c].answer = "completed" /\ Consume(o)
         \/ /\ order[o] = "dispatching" /\ call[c].answer \in {"failed", "unknown"}
            /\ Release(o)
         \/ /\ order[o] = "dispatching" /\ call[c].answer \in {"accepted", "processing"}
            /\ RecordProgress(o, call[c].answer)
      /\ call' = [call EXCEPT ![c] = Idle]
      /\ UNCHANGED <<credited, blocked, provider, loop, faults>>

ApplyDelivery(c) ==
  LET o == call[c].order
  IN  /\ call[c].pc = "applying" /\ ~DeliveryRefused(c)
      /\ \/ /\ order[o] # "dispatching"
            /\ UNCHANGED <<order, delivery, available, reserved, ledger>>
         \/ order[o] = "dispatching" /\ call[c].answer = "completed" /\ Consume(o)
         \/ order[o] = "dispatching" /\ call[c].answer = "failed" /\ Release(o)
         \/ /\ order[o] = "dispatching" /\ call[c].answer \notin {"completed", "failed"}
            /\ RecordProgress(o, call[c].answer)
      /\ call' = [call EXCEPT ![c] = Idle]
      /\ UNCHANGED <<credited, blocked, provider, loop, faults>>

-----------------------------------------------------------------------------
(* The recovery loop: a page of unfinished orders after the cursor, or from  *)
(* the start when there is none, each resumed with execute.                  *)

PendingAfter(key) == {o \in Orders : o > key /\ order[o] \in {"reserved", "dispatching"}}

PageOf(pending) == {o \in pending : Cardinality({q \in pending : q < o}) < PageSize}

(* A plausible slip: a scan past the last order does not start over.         *)
ListPendingWithoutWrap(p) ==
  LET page == PageOf(PendingAfter(loop[p].cursor))
  IN  /\ loop[p].page = {} /\ call[p].pc = "idle"
      /\ page # {}
      /\ loop' = [loop EXCEPT ![p].page = {<<o, delivery[o].provider>> : o \in page}]
      /\ UNCHANGED <<database, provider, call, faults>>

ListPending(p) ==
  LET wraps == PendingAfter(loop[p].cursor) = {}
      cursor == IF wraps THEN 0 ELSE loop[p].cursor
      page == PageOf(PendingAfter(cursor))
  IN  /\ loop[p].page = {} /\ call[p].pc = "idle"
      /\ page # {} \/ cursor # loop[p].cursor
      /\ loop' = [loop EXCEPT ![p] =
           [cursor |-> cursor, page |-> {<<o, delivery[o].provider>> : o \in page}]]
      /\ UNCHANGED <<database, provider, call, faults>>

(* The next entry of the page leaves it and becomes the cursor.              *)
Advance(p, entry) ==
  /\ call[p].pc = "idle"
  /\ \A later \in loop[p].page : entry[1] <= later[1]
  /\ loop' = [loop EXCEPT ![p] = [cursor |-> entry[1], page |-> @.page \ {entry}]]

RecoverOrder(p) ==
  \E entry \in loop[p].page :
    /\ entry[2] \in KnownBy[p] \cup {NoProvider}
    /\ Advance(p, entry)
    /\ Reserve(p, entry[1])

(* canResumeDelivery, or execute, says no.                                   *)
SkipOrder(p) ==
  \E entry \in loop[p].page :
    /\ \/ entry[2] \notin KnownBy[p] \cup {NoProvider}
       \/ order[entry[1]] \in {"completed", "released"}
       \/ SpenderOf[entry[1]] \in blocked
    /\ Advance(p, entry)
    /\ UNCHANGED <<database, provider, call, faults>>

-----------------------------------------------------------------------------
(* Faults.                                                                   *)

(* A provider query or a database statement throws and ends the call.        *)
CallFails(c) ==
  /\ call[c].pc \in {"ready", "querying", "querying_status", "applying"}
  /\ faults < MaxFaults
  /\ call' = [call EXCEPT ![c] = Idle]
  /\ faults' = faults + 1
  /\ UNCHANGED <<database, provider, loop>>

(* A process dies with its calls, locks and cursor; a request it has sent    *)
(* may still arrive.                                                         *)
ProcessCrashes(p) ==
  LET mine == {c \in Calls : HostOf(c) = p}
      cut == {c \in mine : call[c].pc \in CreatingPcs}
  IN  /\ faults < MaxFaults
      /\ call' = [c \in Calls |-> IF c \in mine THEN Idle ELSE call[c]]
      /\ loop' = [loop EXCEPT ![p] = [cursor |-> 0, page |-> {}]]
      /\ \E sent \in SUBSET {<<call[c].provider, call[c].order>> : c \in cut} :
           inFlight' = inFlight \cup sent
      /\ faults' = faults + 1
      /\ UNCHANGED <<database, supply>>

-----------------------------------------------------------------------------
Step(c) ==
  \/ StartDispatch(c) \/ DispatchEnds(c) \/ CreateDelivery(c)
  \/ QueryFinds(c) \/ QueryFindsNothing(c) \/ ApplyDelivery(c)

RecoveryStep(p) == ListPending(p) \/ RecoverOrder(p) \/ SkipOrder(p)

Next ==
  \/ \E p \in Purchases : CreditPurchase(p)
  \/ \E u \in Users : BlockUser(u)
  \/ \E r \in Providers, o \in Orders :
       \/ LateRequestArrives(r, o) \/ ProviderWorks(r, o)
       \/ \E outcome \in {"completed", "failed"} : ProviderDecides(r, o, outcome)
  \/ \E c \in Callers, o \in Orders : CustomerExecutes(c, o) \/ CustomerAsks(c, o)
  \/ \E c \in Calls : Step(c) \/ CreateThrows(c) \/ CallFails(c)
  \/ \E p \in Processes : RecoveryStep(p) \/ ProcessCrashes(p)

Spec == Init /\ [][Next]_vars

(* Calls that are under way go on, the loop of each process runs again, and  *)
(* a provider decides what it has accepted.                                  *)
Fairness ==
  /\ \A c \in Calls : WF_vars(Step(c))
  /\ \A p \in Processes : WF_vars(RecoveryStep(p))
  /\ \A r \in Providers, o \in Orders :
       WF_vars(\E outcome \in {"completed", "failed"} : ProviderDecides(r, o, outcome))

FairSpec == Spec /\ Fairness
-----------------------------------------------------------------------------
(* Properties.                                                               *)

Statuses == {"absent", "reserved", "dispatching", "completed", "released"}
DeliveryStatuses == {"pending", "unknown", "accepted", "processing", "completed", "failed"}
SupplyStates == {"none", "accepted", "processing", "completed", "failed"}
Answers == {"none", "unknown"} \cup SupplyStates
Pcs == {"idle", "ready", "querying", "querying_status", "applying"} \cup CreatingPcs
CallStates == [pc : Pcs, order : Orders \cup {0}, provider : Providers \cup {NoProvider},
               created : BOOLEAN, answer : Answers]
LoopStates == [cursor : Orders \cup {0},
               page : SUBSET (Orders \X (Providers \cup {NoProvider}))]
Rows == [order : Orders, reason : {"energy_reserve", "energy_consume", "energy_release"},
         availableDelta : Int, reservedDelta : Int]

(* Every variable has its type; in particular no count is ever negative,     *)
(* as the check constraints of package_balances demand.                      *)
TypeOK ==
  /\ order \in [Orders -> Statuses]
  /\ delivery \in [Orders -> [provider : Providers \cup {NoProvider}, status : DeliveryStatuses]]
  /\ available \in [Users -> Nat]
  /\ reserved \in [Users -> Nat]
  /\ ledger \subseteq Rows
  /\ credited \subseteq Purchases
  /\ blocked \subseteq Users
  /\ supply \in [Providers -> [Orders -> SupplyStates]]
  /\ inFlight \subseteq Providers \X Orders
  /\ call \in [Calls -> CallStates]
  /\ loop \in [Processes -> LoopStates]
  /\ faults \in Nat

(* The ledger rows of an order tell its status and nothing else: one reserve *)
(* row from the reservation on, and after it either one consume row or one   *)
(* release row, never both.                                                  *)
RowsFor(o) ==
  CASE order[o] = "absent" -> {}
    [] order[o] \in {"reserved", "dispatching"} -> {ReserveRow(o)}
    [] order[o] = "completed" -> {ReserveRow(o), ConsumeRow(o)}
    [] OTHER -> {ReserveRow(o), ReleaseRow(o)}

LedgerMatchesOrders == \A o \in Orders : {l \in ledger : l.order = o} = RowsFor(o)

(* The balance is what the purchases and the ledger rows add up to: no       *)
(* interleaving of calls, processes and repeated answers loses or            *)
(* invents count.                                                            *)
Total(set, value(_)) == MapThenSumSet(value, set)

BalancesMatchLedger ==
  \A u \in Users :
    LET rows == {l \in ledger : SpenderOf[l.order] = u}
        bought == {p \in credited : BuyerOf[p] = u}
    IN  /\ available[u] = Total(bought, LAMBDA p : CountOf[p])
                            + Total(rows, LAMBDA l : l.availableDelta)
        /\ reserved[u] = Total(rows, LAMBDA l : l.reservedDelta)

(* No two providers ever get a request for the same order: whatever was      *)
(* accepted, or may still arrive, is with the provider the row names.        *)
OneProviderPerOrder ==
  \A r \in Providers, o \in Orders :
    supply[r][o] # "none" \/ <<r, o>> \in inFlight => delivery[o].provider = r

(* Count is spent only on Energy that was delivered, and given back only     *)
(* when the provider will never deliver it.                                  *)
CountFollowsDelivery ==
  \A o \in Orders :
    /\ order[o] = "completed" => supply[delivery[o].provider][o] = "completed"
    /\ order[o] = "released" => supply[delivery[o].provider][o] = "failed"

(* However late an answer of a provider with one id per key is applied, the  *)
(* order can still take it: it is bound to that provider, in a status that   *)
(* does not contradict the answer, and its cost is still reserved.  (For the *)
(* own pool, whose ids change, see FinalAnswersAreTaken of OwnPool.)         *)
AnswersAreApplicable ==
  \A c \in Calls : call[c].pc = "applying" => ~DeliveryRefused(c)

(* An answer that is overtaken by a newer one never takes the delivery back, *)
(* and a bound order never changes provider.                                 *)
Rank == [pending |-> 0, unknown |-> 1, accepted |-> 2, processing |-> 3,
         completed |-> 4, failed |-> 4]

DeliveryOnlyAdvances(o) ==
  /\ Rank[delivery[o].status] <= Rank[delivery'[o].status]
  /\ delivery[o].status \in {"completed", "failed"} => delivery'[o] = delivery[o]
  /\ delivery[o].provider # NoProvider => delivery'[o].provider = delivery[o].provider

DeliveryNeverRegresses == [][\A o \in Orders : DeliveryOnlyAdvances(o)]_vars

(* All of it implements the count account the product promises.              *)
HoldOf(status) ==
  CASE status = "absent" -> "none"
    [] status = "completed" -> "spent"
    [] status = "released" -> "returned"
    [] OTHER -> "held"

Holds == [o \in Orders |-> HoldOf(order[o])]
HeldCosts == [o \in Orders |-> IF order[o] = "absent" THEN 0 ELSE CostOf[o]]

Account == INSTANCE CountAccount WITH
  Uses <- Orders, Costs <- {CostOf[o] : o \in Orders}, hold <- Holds, cost <- HeldCosts

ImplementsCountAccount == Account!Spec

(* A reserved count does not stay reserved: the recovery loops bring every   *)
(* order of a customer who is not blocked to its end, whatever is lost.      *)
HeldCountIsSettled ==
  \A o \in Orders :
    order[o] = "reserved" ~> order[o] \in {"completed", "released"} \/ SpenderOf[o] \in blocked

(* What docs/DATABASE_INVARIANTS.md says: an ambiguous order stays in         *)
(* reconciliation until the provider has said what became of it.             *)
AmbiguousOrdersAreReconciled ==
  \A o \in Orders : delivery[o].status = "unknown" ~> delivery[o].status # "unknown"
=============================================================================
