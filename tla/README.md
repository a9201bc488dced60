# Formal models of the TRX energy Telegram bot

The bot sells packages of *Energy counts* for USDT (TRC20) transfers and lets
customers spend the counts on TRON Energy delegations. Money comes in over the
TRON chain and Energy goes out over it; in between stands one PostgreSQL
database and one or, during a deployment, two bot processes. This directory
holds TLA+ models of the parts where money or count can be lost, doubled or
stuck, the TLC configurations that check them on small instances, and theorems
about them whose proofs TLAPS checks.

Contents: [the system](#1-the-system) · [the modules](#2-the-modules-and-the-code) ·
[the runs](#3-the-runs) · [fairness](#4-fairness) · [the proofs](#5-the-proofs) ·
[divergences](#6-where-code-and-documents-disagree) ·
[limits](#7-what-is-not-modelled) · [plan](#8-plan)

To repeat the checks:

    tlc -workers 2 -config MCOwnPool.cfg MCOwnPool     # any module and cfg of section 3
    tlapm PaymentSettlementProofs.tla                  # any module of section 5

## 1. The system

Paths are relative to `src/src`.

| Component | State it keeps | Operations | Hard behaviour |
|---|---|---|---|
| Payment rules: `core/orders`, `core/payments/payment-observation.ts`, `payment-evidence-lifecycle.ts` | none, pure | judge an observation, merge it with the recorded status, derive the order's transitions | late, weaker and repeated observations; the order of the tests |
| Payment persistence: `postgres-payment-lifecycle-repository.ts`, `postgres-package-credit-repository.ts`, `postgres-usdt-payment-reconciliation-order-repository.ts` | `purchase_orders.status`, `payment_transactions`, `count_ledger`, `package_balances` | apply an observation, credit a paid order, expire an overdue one, list open orders | two processes on one order; several transactions for one order; one transaction for two orders |
| USDT reconciliation: `usdt-payment-reconciliation-service.ts`, `payment-reconciliation-loop.ts`, `background-task-supervisor.ts` | a run's local list; the payment gate | list, scan, inspect, apply, credit, expire | work from stale lists between awaits; deadline against indexer; fatal and retryable errors; restarts |
| Detection and finality reading: `adapters/tron/*` | the cursor and page of a scan, within a run | find candidate transfers page by page, read a solidified transaction and its depth | an index with two endpoints that changes between pages; solidified nodes that lag, each differently; forks; reads that fail |
| Purchase order creation: `purchase-order-service.ts`, `postgres-purchase-order-repository.ts` | `purchase_orders` rows and their unique amounts | `createOrGet` | concurrent and repeated confirmations racing for an amount |
| Energy usage: `energy-usage-service.ts`, `postgres-energy-usage-repository.ts` | `energy_orders`, `provider_deliveries`, ledger and balances, the in-process promise map | reserve, dispatch, call the provider, apply its answer | lost requests and answers, crashes between steps, two processes with different providers |
| Energy delivery recovery: `energy-delivery-recovery-service.ts` | a cursor | pages of unfinished orders, executed again | starvation, blocked customers |
| Own-pool provider: `tron-own-pool-energy-provider.ts`, `postgres-energy-provider-attempt-journal.ts` | `provider_transaction_attempts` | create a delivery, look one up, replace an expired attempt | crashes between sign, claim, broadcast and record; expiry against finality |
| Signer service: `adapters/signer/*`, `runtime/signer-*` | the signed transaction of an attempt | sign once, find what was signed | answer lost after signing |
| Energy reclaim: `energy-reclaim-service.ts`, `postgres-energy-reclaim-attempt-journal.ts` | `provider_reclaim_attempts`, a cursor | undelegate what was delivered and is due | as the own pool; sources that fail every time |
| Runtime: `runtime/start.ts` and the loops | process lifetime | start and supervise the loops | old and new process overlap |
| Telegram interface, status queries, migrations and catalogue, configuration and secrets | none that changes over time, or read-only | menus, lists, start-up | repeated and concurrent updates reach the services |

How they interact:

    customer --confirm--> purchase order creation --row: amount--+
                                                                 v
    TRON chain --index, solidified node--> reconciliation --> payment persistence
                                                                 | credits count
                                                                 v
    customer --use--> energy usage --reserve--> balance and ledger
                          | create / query            ^ consume or release
                          v                           |
              recovery loop --> provider (own pool) --+
                                  | journal, signer
                                  v
                              TRON chain  <-- energy reclaim

Everything is coupled through rows of the database, which each transaction locks
and re-reads; nothing a process keeps in memory (lists, promises, the gate)
reaches the other process. So the models treat a repository transaction as one
step and let anything happen between two of them.

What makes each part correct:

- **Payments.** An order is paid only by a solidified, successful, deep enough
  transfer of its exact amount; it is credited once, by a row that names that
  transfer; a late observation never weakens what is recorded; expiry never
  overtakes a payment in time; two processes do not stop each other.
- **Orders.** Two USDT orders never ask for the same amount, since the amount is
  all that tells the transfers apart; a repeated confirmation leads to one order.
- **Usage.** The balance is what the ledger adds up to; an order is served by one
  provider; count is spent only on delivered Energy and returned only when none
  will come; in the end one of the two happens.
- **Own pool.** One order is delegated at most once; nothing is broadcast that
  the journal does not know; an attempt is replaced only when the previous one
  is off the chain for good.
- **Reading.** A candidate is a final transfer to the shop in the window of its
  order, and nobody is told more confirmations than there are; what the index
  shows in time is not lost between two pages.
- **Reclaim.** Delegated Energy is taken back after its lease and once, and every
  source that can be is dealt with, whatever the sources before it do.

`PROJECT.json` lists each hazard with its line and the properties aimed at it.

## 2. The modules and the code

`PROJECT.json` maps every definition to its lines. In outline:

**`PaymentEvidence`** has no state. `EvaluatePaymentObservation`,
`MergeTransactionStatus`, `PlanPaymentEvidenceLifecycle` and the transition
relation are the functions of `core/`, whether the transfer matches the order's
frozen terms being an argument.

**`PaymentSettlement`** is the database under payments. `orderStatus`, `payment`
(by transaction, as the unique index on it), `ledger` and `available` are the
tables; `chain` is what is true of each transaction. Its actions are the three
transactions `ApplyObservation`, `CreditPaidOrder`, `ExpireWaitingOrder`, and the
surroundings: orders are created, deadlines pass, transactions appear, solidify
and deepen. `ApplyObservation` may be called with *any* observation that was
true at some time (`ObservationsOf`), however old, which stands for
whatever processes may be in flight.

**`Reconciliation`** adds who calls them. `run[w]` holds the local variables of
`runOnce` in process `w`; each await is a step: list the orders, credit the paid,
scan for the overdue, detect a candidate, inspect it, apply what was found,
expire or go on. `timely`, `indexed` and `prompt` say which transfers were
mined and indexed before the deadline. The settlement transactions are taken
from `PaymentSettlement` by `INSTANCE`, and the whole is shown to implement
`PaymentSettlement!Spec`.

**`PaymentFeed`** is what settlement relies on when it is told of a payment: a
candidate is on the chain for good, and its depth is no more than it has.
**`PaymentReading`** shows that the reading does so. It opens the two steps that
`Reconciliation` takes as one: a scan, request by request and page by page
(`ReadHistory`, `ReadEvents`, `HandOn`, `FinishPage`), and a finality check with its
three reads (`ReadBody`, `ReadInfo`, `ReadLatestBlock`). `head`, `solid` and `mined`
are a chain whose last blocks may be replaced, `history` and `events` the two
endpoints of the index; `pc` is where the one worker is, `list`, `scan` and `check`
the local variables of `runOnce`, of `scanOrders` and of `inspect`; every solidified
read may be served by a node up to `MaxLag` blocks behind (`View`). Time is
counted in blocks. So that `Reconciliation` may read all pages at once and
`PaymentSettlement` take only observations that were true is a result here, not an
assumption: `PromptPaymentsAreKept` for the first, `ImplementsFeed` for the second.

**`OrderBook`** is what order creation promises: orders placed one at a time, each
at the lowest amount no order ever took. **`PurchaseOrders`** is `createOrGet`
statement by statement (`pc`), because its transactions are READ COMMITTED and see
each other's commits. An insert that meets an uncommitted row with the same key
or amount waits, and goes on when that row is committed or rolled back
(`Excludes`, `Abort`).

**`CountAccount`** is what the product promises about counts: a purchase adds its
count once, a use holds its cost, and a held cost is spent or given back, once.
`PaymentSettlement` and `EnergyUsage` each implement it.

**`EnergyUsage`** is `EnergyUsageService` in every process over
`PostgresEnergyUsageRepository`. `call[c]` is a customer's call or the one call
of a recovery loop; `loop[p]` is the loop's cursor and page; `order`, `delivery`,
`ledger`, `available`, `reserved` are the tables; `supply` and `inFlight` are a
provider that keeps its contract (idempotent by key) and the requests whose
callers gave up. `reserve`, `startDispatch` and `applyDelivery` are one step
each; `Busy` is the map of promises that serializes calls within a process.

**`EnergyProvider`** is what the `EnergyProvider` interface promises of one idempotency
key: Energy is delegated once at most, the provider decides once, completed means
delegated, and the order is told what was decided. **`OwnPool`** is the
provider itself for one order: `attempts` is the journal with
what the signer has signed for each attempt, `delivery` and `providerOrderId` the row of
`provider_deliveries`, which a claim and `applyDelivery` write, `pool`, `landed` and
`now` the chain. A call goes through create,
find or status, then start (build, sign, claim), broadcast, record, look,
read the solidified block, and record what was seen; journal, signer and node
calls are one step each. `EnergyUsage` and `OwnPool` are not composed: the first
assumes a provider that keeps its contract, the second is shown to implement
`EnergyProvider` and asks how far it does what that leaves open.

**`EnergyLease`** is what reclaiming promises: lent Energy stays until its lease is
over and comes back at most once. **`EnergyReclaim`** is `EnergyReclaimService` in
every process over its journal, the reclaim signer and the chain. `delivered` and
`lease` are the sources, completed delegations; `attempts` the journal with what the
signer signed; `cursor` and `page` the progress of a loop; `call` what it is doing for
the source at hand: find what was signed, build and sign, claim, look, read the
solidified block, record what was seen or broadcast again. Timers count down with
the blocks, so that time needs no bound. Unlike `OwnPool` it has many sources, and
their order in the pages is what its liveness is about.

The `MC…` modules give the constants values. Definitions headed *Mutant* or
*A plausible slip* are wrong variants of the operation that follows them. They
are not part of any specification; each shows that a property would notice it.

## 3. The runs

States are distinct states, with the bounds in the `.cfg`.

| Run | Question | Instance | States |
|---|---|---|---|
| `PaymentSettlement` | do the payment transactions keep orders, rows, ledger and balance together under any late or repeated observation? | two orders, four transfers in two transactions; one transaction pays both orders, one order is paid twice, one transfer matches nothing | 9,904 |
| `Reconciliation` | do two overlapping workers keep to those transactions, keep prompt payments and leave each other running? | two workers, one order paid by two transactions, one fault | 229,896 |
| `ReconciliationLive` | is a detected payment credited and an overdue order decided, unless a foreseen halt stops the loop? | one worker, three orders and room for two of them open, one transaction that pays two, confirmed at depth one, one fault | 52,824 |
| `PaymentReading` | is what a worker reads true, complete enough and enough in the end? | one order, two transactions with four transfers (one to somebody else), pages of one entry and two pages at most, nodes one block behind, five blocks, one fork, failure, restart or page that is refused | 221,625 |
| `PurchaseOrders` | are concurrent creations as good as one at a time, and is every call answered? | four calls, two of them copies, overlapping ranges of two amounts, one rollback | 201,296 |
| `EnergyUsage` | one provider per order, count spent or returned once and in the end | an old process with `oldPool`, a new one with both, a customer's call, two faults | 90,580 |
| `EnergyUsageTwoOrders` | the same for two orders competing for one balance, pages of one, a customer who may be blocked | one process, one caller, one fault | 27,892 |
| `OwnPool` | is an order delegated at most once, and does the pool keep the provider's contract? | two processes, transactions that live one block and solidify one later, three blocks, one fault | 2,406,435 |
| `EnergyReclaim` | is Energy taken back once, not early, and in the end? | two processes, two sources of which the signer refuses the first, pages of one, undelegations that live one block and solidify one later, one fault | 243,139 |
| `EnergyBlockedCustomer` | *refuted:* ambiguous orders stay in reconciliation | section 6 | |
| `OwnPoolOverlap` | *refuted:* an order that failed is not delivered | section 6 | |
| `OwnPoolCrash` | *refuted:* a delegation that succeeded can be recorded | section 6 | |

### What each property says and why the bounds suffice

*PaymentSettlement.* `OrderMatchesEvidence` ties the order's status to the
statuses of its payment rows; `CreditsAreSound` says what a ledger row implies
(`CreditedExactlyOnce`, `OnlyFinalMoneyIsCredited`); `PersistenceNeverRefuses` says that what is
applied never meets the unique index on confirmed payments and that crediting never finds rows
that contradict each other (a transaction that pays a second order is still a conflict there,
as in the code); `NothingIsTakenBack` is about steps
(`EvidenceNeverRegresses` for the rows, `DecidedOrdersStayDecided` for the orders);
`ImplementsCountAccount` is the refinement. Two orders and two transactions are
the least that has a transaction with two orders and an order with two
transactions, on which all the conflicts in the code turn. Depth 2 of a required 2
tells deep from not yet. All of them are proved for every instance.

*Reconciliation.* Two workers are what a deployment has. The race of two runs
needs an order that can be found paid twice; three orders would only lengthen
lists whose elements are worked on independently. `ReadingsStayTrue` says of the local
variables of every run that what was read into them is still true when the run acts on
it, with the other worker, the chain and the index having moved on at every await; it fails
when the index is asked for unconfirmed transfers too. `PromptPaymentsAreKept` is the
hazard of this service: expiry is decided on a list, a scan and a clock read at
different times. The types of the variables are proved (`ReconciliationTypeOK`), not
checked. `WorkersNeverHaltEachOther` says that only a transaction that
pays two orders leads to the fatal conflict.

`ReconciliationLive` needs one worker only, since another could but help; two
orders in one transaction and a third without room make both fatal errors happen, so
that the escape in its properties is exercised. Waiting for depth is left to
`PaymentReading`, waiting for finality is here.

*PaymentReading.* Two pages are the least at which something can move between
pages, and three entries are one more than they hold, so that the capacity halt
happens: a payment mined in the first block with two later entries before it lies beyond the
second page, and `PromptPaymentsAreKept` fails if the scan that stops there is taken for complete.
The two later entries are of one transaction, so the payment is never on the second page
itself (three transactions are too many states for one run); a payment between the pages of
a scan of any length is covered by the proof (`PagesKeepPromptPayments`). `ImplementsFeed` fails when a depth is told from a block that is not
final; `PromptPaymentsAreKept` when a page without a match ends the scan, or when a
payment that *both* endpoints showed before the deadline is expired. It says nothing
of a payment whose events came later than its history entry: the code takes an
empty list of events for an answer and may expire the order, which section 7
notes. `ShownPaymentsAreConfirmed` is the liveness of repeated finality checks.

*PurchaseOrders.* Four calls on three amounts reach every race for an amount,
a full range, a repeated confirmation during and after its first copy, and a
rollback that frees a waiting insert. `AnswersHold` is `RepeatsAgree` (copies get one
order) and `RefusalsAreTrue`; that amounts are distinct is part of
`ImplementsOrderBook`. TRX orders and a key used for another order are not in this
instance; the proofs cover both.

*EnergyUsage.* Two faults are one lost create and one crash or lost query after
it, which every interesting history contains; a third only repeats. One order is
enough for what concerns delivery, since orders meet only in the balance: for
that there is the run with two.

*OwnPool.* Life and Lag of one block and three blocks let an attempt be signed,
expire, be proven absent, be replaced and the replacement be mined, and let every
lookup fall before and after each of these. One fault is a death, a lost answer
or an unavailable view at any step; the overlap of two processes already makes
every call stale. `JournalIsReliable` joins `BroadcastIsJournaled` and `AttemptsOnlyAdvance`.
`FinalAnswersAreTaken` is about "Energy provider order identity changed": an answer about a
replaced attempt is refused when the replacement has been claimed, but no completed or
failed answer ever is. `ImplementsProvider` maps what the chain has taken, the status of
the last attempt and the delivery's status to the three variables of `EnergyProvider`;
that one delegation at most succeeds (`OneDelegationLands`) is part of it.
All its properties are also proved.

*EnergyReclaim.* Two sources and pages of one are the least where one source can
keep another from its turn; the signer refuses the first for ever. Two processes
meet at every step of one source. With one fault a transaction expires, an answer
is lost, or a process dies; as before, the other process makes every step stale.
`ImplementsLease` fails when an attempt nothing is known about is replaced,
`OutcomesAreTrue` when the head decides what only the solidified block may, and
`DueSourcesAreDecided` when the cursor does not move past a source that fails.

`Reconciliation` and `OwnPool` are checked up to symmetry: of the processes, and in
`Reconciliation` of the two payments, each with its transaction. Both have safety properties only.

Deadlock checking is off where the instance ends by design (all orders decided,
time or faults used up). `PurchaseOrders` and `EnergyReclaim` keep it on: there a stuck
state would be transactions waiting for each other, or processes for nothing.

## 4. Fairness

- `PurchaseOrders`: weak fairness of each call's statements. The database answers
  every statement; a waiting insert is disabled until its blocker ends, which its
  own fairness ensures.
- `Reconciliation`: weak fairness of each worker (`PaymentReconciliationLoop`
  reschedules itself until a fatal error), of blocks being added to a transaction
  that has solidified, and strong fairness of a lookup that finds it: a node that is
  asked again and again is not behind for ever. No fairness of mining, indexing,
  new orders, or faults.
- `EnergyUsage`: weak fairness of a call under way (promises settle or time out),
  of each recovery loop (a timer), and of a provider deciding what it accepted.
  Nothing makes lost requests arrive, customers call or operators block.
- `PaymentReading`: weak fairness of the worker, of new blocks and of their
  solidification. None of the index: the liveness is about what it shows. A
  lagging node needs no fairness: it is behind by `MaxLag` blocks at most, and the
  chain grows until those are past.
- `EnergyReclaim`: weak fairness of each process's loop (a
  `PaymentReconciliationLoop` of thirty seconds whose errors are all retried), of new
  blocks, and of the network mining a valid transaction that it keeps being sent. A
  transaction that expires unmined all the same is a fault, of which there are finitely
  many. Nothing makes orders be delivered.
- `OwnPool` has safety properties only.

Liveness is stated with the escape the code has: `DetectedIsCredited` and
`OverdueIsDecided` unless every loop has halted, `ShownPaymentsAreConfirmed` unless the one
loop has, `HeldCountIsSettled` unless the customer is blocked. A halt is by design
(`superviseBackgroundTask` closes purchases), and nothing promises progress after it.

## 5. The proofs

TLC looks at one instance; these hold for any number of customers, orders,
transactions, processes, providers, calls and prices, and any bounds. They
assume only the named `ASSUME`s of the modules (the functions that give an order
its customer, count or price have the type they need, model values are distinct),
which TLC evaluates in every run.

`PaymentEvidenceProofs`: merging is independent of the order of two
observations (`MergeOrderIndependent`), a merge never weakens a status, and what
each plan does to an order and its row (`AppliedPlan`), which the next module uses.
`OpenOrdersTakeEvidence` is the safety half of "no payment gets stuck": for every order
that was shown to a customer the planner has an answer, and for an open one it is a legal
path unless the merged evidence contradicts itself.

`PaymentSettlementProofs`: none of the invariants is inductive by itself. That an
order is credited once rests on its having one confirmed payment, which rests on
an order still open having none, which rests on how the planner moves an order
and its row together. `Settled` is the conjunction

    TypeOK, RowsAreBacked, OneConfirmedPayment, OrdersMatchRows, CreditedExactlyOnce

with `OrdersMatchRows` for `OrderMatchesEvidence` without sets of statuses and
`RowsAreBacked` for what a row says of the chain. Each action preserves it; from it
follow `OrdersAgreeWithEvidence`, `CreditingIsExactlyOnce`, `CreditsAreForFinalMoney`
(together `CreditingIsSound`), `PersistenceAccepts`, and, step by step, `EvidenceOnlyStrengthens` and
`DecisionsAreFinal` (together `RecordsAreKept`) and the refinement
`SettlementImplementsAccount`.

`PurchaseOrdersProofs`: `Placed` strengthens `TypeOK` and `RefusalsAreTrue` by
the unique indexes over uncommitted rows as well (`UniqueRows`) and by what a call
between two statements knows: that all amounts below its candidate are used
(`CandidatesAreLowest`), that a loser will find a row (`LosersKnow`), that a range it
was refused is taken by others (`RefusedRangesAreTaken`, needed for
`RepeatsAgree`). `AnswersCanBeTrusted` is both properties of answers. All of it survives other calls' commits because used amounts only
grow. That the candidate is the lowest free amount is proved from the
well-foundedness of the natural numbers (`LowestFreeAmountIsLowest`).

`ReconciliationProofs`: `Reconciled` is

    TypeOK, RecordsAreTrue, PromptPaymentsAreKept, ReadingsStand of every worker

and `ReadingsStand` says of each local variable of a run what is still true of it when
it is used: a listed overdue order is overdue, a candidate is indexed and so a
success on the chain, a depth once read is at most the depth now, and the transfers a
scan of an overdue order may look at include every prompt one (their number no longer
grows once the deadline has passed). Others' steps leave all of this alone
(`ReadingsSurvive`), so `WhatWasReadStaysTrue` follows at once. `WorkersImplementSettlement` then makes every theorem of
`PaymentSettlementProofs` one about the running workers; and the only step that
expires an order has seen each prompt transfer (`FinishScanReconciled`).

`OnlySharedTransactionsConflict` needs a second invariant, `Undisturbed`: `Reconciled`, and

    Backed, Welcome of every worker

`Backed` says that orders, payment rows and ledger rows belong together: a row is of the
order its transfer pays, an order is paid or credited exactly when one payment of it is
confirmed, a ledger row is that payment's. `Welcome` says of what a worker carries that
the database will take it: what it is about to credit was confirmed, what it found was
shown for an order that is recorded. Both survive the steps of all others because orders never
leave the confirmed states and shown payments stay shown (`StaysConfirmed`,
`WelcomeSurvives`). It repeats something of the settlement's invariant: theorems of
a module that is instantiated with substitutions cannot be cited.

`EnergyUsageProofs`: `Served` is

    TypeOK, LedgerMatchesOrders, DeliveriesMatchOrders, CallsKnow,
    OneProviderPerOrder, CountFollowsDelivery

The heart is `CallsKnow`: a call that was overtaken by another process still knows
something that is true, because a binding is never changed and a provider's final
answer stays final. This covers, too, the release of the balance in the
refinement `UsageImplementsAccount`.

`BalancesAddUp` is about sums over sets of orders, and the library's induction over
finite sets has an operator parameter. `SmallestSubset` stands in for it: a
non-empty set of subsets of a finite set has a smallest member, so that a counterexample
can be made smaller. With it the fold behind `Total` is shown to be a well-defined
function (`SumsExist`, `SumsAgree`) and a sum to change by one number when an element
is added or taken away (`SumWith`, `SumWithout`), whichever the fold takes first. `Balanced`
states the two balances of each customer as such sums, of purchases and of ledger rows, and
the reserved count once more as the sum of the costs of the orders that are held. A
step moves one row, and so one term (`StepsBalance`). That second sum is what
`AnswersCanBeApplied` uses: a late answer can be applied because the order's cost is one
of its terms, so the reserved count cannot be less.

`OwnPoolProofs`: `Delegated` is

    TypeOK, JournalIsSound, ChainIsSound, PoolIsJournaled, IdentityIsCurrent, CallsKnow

and that a delivery that is closed has the status of its last attempt. `OneDelegationLands` says
nothing of how it is kept: it rests on every attempt but the last having expired
(`JournalIsSound`), on an expired attempt's transaction being *gone*, its time over and
not mined, and on every mined transaction being one of the journal's. That `absent`
means gone is not something a call sees at one moment. It follows from the order of its
reads (`ReadMoves`): what it did not find can only have been mined since (`Knows`, for
`read_block`), the block read after is at most `Lag` ahead of that, so a
solidified block past the expiration leaves no time in which it was. The rest is that
what a call knows survives the steps of all others (`KnowledgeStays`), because no
step takes anything back from the journal (`SpecAttemptsOnlyAdvance`, with the journal's
knowledge of all that is broadcast `SpecJournalIsReliable`).

`SpecFinalAnswersAreTaken` needs two things more. The provider order id is the
transaction claimed last (`IdentityIsCurrent`); and once the last attempt is
completed or failed, nothing is written to the journal or the order id any more
(`JournalAdvances`), so that a final answer is about that transaction for good (`IsAnswer`).
`OwnPoolImplementsProvider` follows: mining adds at most the first delegation
(`LandsFirst`), a decision is the last attempt's and true (`DecidesTruly`), and the
delivery is closed by that decision only.

`PaymentReadingProofs`: two invariants. `Reads` says that all a worker holds is final:
the index shows nothing else (`IndexIsFinal`), so neither pages nor cursor
(`ScanIsFinal`), candidates (`DetectedIsFinal`) or the height a check has read
(`CheckIsTrue`) can be taken back by a fork. With `ToldIsDeep` it gives
`ReadingImplementsFeed`. `Kept` is for `PagesKeepPromptPayments`: while an order is
scanned alone, each of its prompt payments is matched, in the page, in its events or
still ahead of the cursor (`NothingIsSkipped`). That a transfer that did not fit on a
page is older than all that did (`PageSkipsNothing`) is a comparison of cardinalities;
that a page has an oldest entry at all, a well-foundedness argument
(`PagesHaveAnEnd`). And a payment that becomes prompt during the scan is not the
order's, whose deadline had passed when the run began (`ScanIsLate`).

`EnergyReclaimProofs`: `Reclaims` is

    TypeOK, JournalIsSound, OnlyDueAreSigned, ChainIsSound, PoolIsJournaled, CallsKnow

and the argument that of `OwnPoolProofs`, with timers that run down in place of a clock:
what a call that reads the solidified block knows is that a transaction mined since
its lookup has at most lost the time the call has waited, `left + waited >= 1`, so that
`left = Gone` rules it out. `ReclaimImplementsLease` follows from `NothingElseLands`: a
transaction with time left belongs to the last attempt, any that was mined
to one that did not expire, which is the last one too.

Only model-checked are the liveness properties: `DetectedIsCredited`, `OverdueIsDecided`,
`ShownPaymentsAreConfirmed`, `HeldCountIsSettled`, `EveryCallEnds` and
`DueSourcesAreDecided` (fairness and `ENABLED` are beyond the prover). What keeps them from
failing by a refusal is proved: that no applied plan meets a refusal of the database
(`PersistenceNeverRefuses`), that the planner always has one (`OpenOrdersTakeEvidence`), that
workers do not halt each other (`OnlySharedTransactionsConflict`), and that late answers
can be applied (`AnswersCanBeApplied`). Every safety invariant and action property of
the passing runs is stated by a theorem.

## 6. Where code and documents disagree

1. **A blocked customer's ambiguous order is never reconciled** (run
   `EnergyBlockedCustomer`). `docs/DATABASE_INVARIANTS.md:101` keeps an ambiguous order in
   reconciliation until the provider has been asked; `reserve`
   (`postgres-energy-usage-repository.ts:367`), which recovery goes through, refuses the
   orders of blocked customers. The count stays reserved.
2. **An attempt can be failed while another process delivers it** (run
   `OwnPoolOverlap`). A process that read the attempt as new and finds the pool short
   records it failed (`tron-own-pool-energy-provider.ts:717`) though another has
   signed and claimed a transaction for it meanwhile, perhaps the very one that
   used the capacity. The count is given back and the Energy is delivered.
3. **A delegation that succeeded may not be recordable** (run `OwnPoolCrash`). After a
   death between broadcast and record the attempt is still `signed`; if it is
   first looked at when it is solidified, the transition `signed` → `completed` is
   refused (`postgres-energy-provider-attempt-journal.ts:122`) by every later call.

Two more were noted while reading and have no run. `docs/ARCHITECTURE.md` speaks of
payment evidence by transaction and event, while code and
`docs/DATABASE_INVARIANTS.md` identify a payment by the transaction alone; the
second order a transaction pays is a conflict that stops the loop
(`ReconciliationLive` has it). And `core/providers/energy-provider.ts:36` asks for the
query before a create is retried, while `continueExistingDelivery`
(`energy-usage-service.ts:449`) creates first; the own pool tolerates that, as
`OneDelegationLands` shows.

## 7. What is not modelled

Simplifications, and what they hide:

- One token contract and destination for all USDT orders: the code groups scans by
  them, and the groups do not share state. TRX payments follow the same rules.
- `PaysFor` gives each transfer at most one order. That amounts are distinct is
  what `PurchaseOrders` proves (`AmountsIdentifyOrders`).
- `Reconciliation` has one clock; the start of a scan coincides with the listing; the
  pages of a scan are read at once, or are too many (`PageCapacityExceeded`), which
  `PaymentReading` takes apart. Its liveness run has one worker: with two, halts and
  restarts of both are covered by the safety run only.
- `PaymentReading` has one worker (workers share nothing while they read) and no
  crediting: a settled order leaves the list. Malformed bodies make the run fail, as any
  read error does, and are `RunFails`; a candidate without a timestamp and a cursor that is
  repeated are fatal (`CandidateLacksTimestamp`, `CursorIsRepeated`). A failed TRC-20 call emits no event and is not found. Within a
  block the index orders entries somehow. The events endpoint may lag behind the
  history: a transaction whose events come after the deadline may lose its order,
  although its entry was shown before it; TronGrid promises no more.
- Rows that no code path writes (the checks for corrupted rows) do not occur.
- `EnergyUsage` leaves the provider's order id and the delivery key out, and with them two
  throws of `applyDelivery` ("Energy provider order identity changed" and the key in "Energy
  provider delivery identity mismatch"): the key is a function of the order, and with a
  provider that keeps one id per key the comparisons of ids cannot fail. `AnswersAreApplicable`
  and `AnswersCanBeApplied` are about such a provider. The own pool, where a replaced attempt
  has another id, has it: there a comparison may fail, but not for a final answer
  (`FinalAnswersAreTaken`); for another, the call ends without recording its progress,
  as one that fails does in `EnergyUsage`.
- `OwnPool` has one order, so the shared capacity of the pool is a free choice
  (`StartAttempt` finds it short or not); no reorganisations; the head node is not
  behind the solidified one; a lookup and the block read after it are at most `Lag`
  apart; a delegation in the pool may be mined or not, with either result;
  `DUP_TRANSACTION_ERROR` counts as accepted, as in the code. `bindDelegation` and the
  branch for a rejected broadcast, which the transport never reports, are left out.

- `EnergyReclaim` keeps its sources' bindings constant (they are written once, when
  the delegation is completed), so that building cannot fail but by refusal or a
  fault. An expired attempt is replaced any number of times in the code, here up to
  `MaxAttempts`; expiring is a fault, so one attempt more than faults is all the
  instance can ask for. The branch for a rejected broadcast is left out here too. A reclaim that was
  mined and failed is final, as in `listDueSources`: the Energy then stays
  delegated. No reorganisations, as in `OwnPool`.

Left out altogether: address and HTTP
parsing, signer authentication and transaction validation, menus and texts,
read-only queries, migrations and catalogue, configuration and secrets: no state
that changes over time, or none that another actor can disturb.

The lock order of the attempt journal is not modelled either: PostgreSQL resolves
a deadlock by failing one transaction, which is `CallFails`.

## 8. Plan

Done, in this order: `PaymentEvidence`, `PaymentSettlement` with proofs; `Reconciliation` with proofs;
`EnergyUsage` with proofs; `PurchaseOrders` with `OrderBook` and proofs; `OwnPool` with
proofs, then with `EnergyProvider`; `EnergyReclaim` with `EnergyLease` and proofs; `PaymentReading` with `PaymentFeed` and proofs.

Next, the most important first:

1. **Composition** of `EnergyUsage` and `EnergyProvider` without the promise that nothing
   is delegated after a failure, to see which of the guarantees of `EnergyUsage` survive
   the own pool's deviation (section 6, 2).
2. The shared capacity of the pool over several orders and TRX expectations in
   reconciliation, once the code has a detector for them; the start-up of the runtime.
