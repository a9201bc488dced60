-------------------------- MODULE EnergyUsageProofs --------------------------
(***************************************************************************)
(* The Energy usage invariants, for any set of customers, orders, providers *)
(* and overlapping processes, any number of concurrent calls, and any       *)
(* bounds.                                                                  *)
(*                                                                         *)
(* What makes them inductive is what a call in flight knows: an order that  *)
(* was bound to a provider stays bound to it, and a final answer of a       *)
(* provider stays true, so what a call read or was told before it lost the  *)
(* order to another process still holds when it comes back.                 *)
(*                                                                         *)
(* The balances are sums over sets that grow by one element at a time; the  *)
(* second invariant, Balanced, says what they add up to, and that what is   *)
(* reserved is the cost of the orders that are still held.                  *)
(***************************************************************************)
EXTENDS EnergyUsage, FiniteSetTheorems, TLAPS

(* What a call knows of its order, given the orders, the deliveries and what *)
(* the providers hold.                                                       *)
Knows(k, ord, del, sup) ==
  k.pc # "idle" =>
    /\ k.order \in Orders
    /\ ord[k.order] # "absent"
    /\ k.provider # NoProvider => del[k.order].provider = k.provider
    /\ k.pc # "ready" => k.provider \in Providers
    /\ k.pc = "applying" =>
         /\ k.answer \in {"unknown", "accepted", "processing", "completed", "failed"}
         /\ k.answer \in {"completed", "failed"} => sup[k.provider][k.order] = k.answer

CallsKnow == \A c \in Calls : Knows(call[c], order, delivery, supply)

(* The delivery row of an order follows its status.                          *)
DeliveriesMatchOrders ==
  \A o \in Orders :
    /\ order[o] \in {"absent", "reserved"} =>
         delivery[o] = [provider |-> NoProvider, status |-> "pending"]
    /\ order[o] \in {"dispatching", "completed", "released"} =>
         delivery[o].provider \in Providers
    /\ order[o] = "dispatching" => delivery[o].status \notin {"completed", "failed"}
    /\ order[o] = "completed" => delivery[o].status = "completed"
    /\ order[o] = "released" => delivery[o].status = "failed"

Served ==
  /\ TypeOK
  /\ LedgerMatchesOrders
  /\ DeliveriesMatchOrders
  /\ CallsKnow
  /\ OneProviderPerOrder
  /\ CountFollowsDelivery

(* What no step takes back: reservations, bindings and final answers.        *)
Keeps ==
  \A o \in Orders :
    /\ order[o] # "absent" => order'[o] # "absent"
    /\ delivery[o].provider # NoProvider => delivery'[o].provider = delivery[o].provider
    /\ \A r \in Providers :
         supply[r][o] \in {"completed", "failed"} => supply'[r][o] = supply[r][o]

-----------------------------------------------------------------------------
LEMMA Hosts ==
  ASSUME NEW c \in Calls
  PROVE  HostOf(c) \in Processes /\ CurrentOf[HostOf(c)] \in Providers
BY CallersAreServed, ProvidersAreRegistered DEF HostOf, Calls

(* A call that was not touched, or was ended, still knows what it knew.      *)
LEMMA UntouchedCallsKnow ==
  ASSUME TypeOK, CallsKnow, Keeps,
         NEW c \in Calls, call'[c] \in {call[c], Idle}
  PROVE  Knows(call'[c], order', delivery', supply')
<1>1. CASE call'[c] = Idle
  BY <1>1 DEF Knows, Idle
<1>2. CASE call'[c] = call[c]
  <2>1. Knows(call[c], order, delivery, supply)
    BY DEF CallsKnow
  <2>2. call[c].provider \in Providers \cup {NoProvider}
    BY DEF TypeOK, CallStates
  <2> QED
    BY <1>2, <2>1, <2>2, ProvidersAreRegistered DEF Knows, Keeps
<1> QED BY <1>1, <1>2

(* One call moves to k and what it knows then is true.                       *)
LEMMA OneCallMoves ==
  ASSUME TypeOK, CallsKnow, Keeps,
         NEW c \in Calls, NEW k \in CallStates,
         call' = [call EXCEPT ![c] = k],
         Knows(k, order', delivery', supply')
  PROVE  call' \in [Calls -> CallStates] /\ CallsKnow'
<1>1. \A d \in Calls : call'[d] = IF d = c THEN k ELSE call[d]
  BY DEF TypeOK
<1>2. \A d \in Calls : d # c => Knows(call'[d], order', delivery', supply')
  BY <1>1, UntouchedCallsKnow
<1>3. Knows(call'[c], order', delivery', supply')
  BY <1>1
<1> QED BY <1>2, <1>3 DEF CallsKnow, TypeOK

(* Steps that leave a part of the state alone keep what is said of it.       *)
LEMMA DatabaseKept ==
  ASSUME Served, UNCHANGED <<order, delivery, ledger>>
  PROVE  LedgerMatchesOrders' /\ DeliveriesMatchOrders'
BY DEF Served, LedgerMatchesOrders, DeliveriesMatchOrders, RowsFor

LEMMA ProvidersKept ==
  ASSUME Served, UNCHANGED <<order, delivery, supply, inFlight>>
  PROVE  OneProviderPerOrder' /\ CountFollowsDelivery' /\ Keeps
BY DEF Served, OneProviderPerOrder, CountFollowsDelivery, Keeps

(* A step of one call that changes nothing but the call, the recovery loop   *)
(* and the bound.                                                            *)
LEMMA OnlyTheCallMoves ==
  ASSUME Served, UNCHANGED <<database, provider>>,
         NEW c \in Calls, NEW k \in CallStates,
         call' = [call EXCEPT ![c] = k],
         Knows(k, order, delivery, supply),
         loop' \in [Processes -> LoopStates],
         faults' \in Nat
  PROVE  Served'
<1>1. UNCHANGED <<order, delivery, available, reserved, ledger, credited, blocked,
                 supply, inFlight>>
  BY DEF database, balances, provider
<1>2. LedgerMatchesOrders' /\ DeliveriesMatchOrders'
  BY <1>1, DatabaseKept
<1>3. OneProviderPerOrder' /\ CountFollowsDelivery' /\ Keeps
  BY <1>1, ProvidersKept
<1>4. call' \in [Calls -> CallStates] /\ CallsKnow'
  BY <1>1, <1>3, OneCallMoves DEF Served
<1>5. TypeOK'
  BY <1>1, <1>4 DEF Served, TypeOK
<1> QED BY <1>2, <1>3, <1>4, <1>5 DEF Served

-----------------------------------------------------------------------------
(* The surroundings.                                                         *)
LEMMA SurroundingsServe ==
  ASSUME Served,
         \/ \E p \in Purchases : CreditPurchase(p)
         \/ \E u \in Users : BlockUser(u)
  PROVE  Served'
<1>1. /\ UNCHANGED <<order, delivery, reserved, ledger, supply, inFlight, call, loop,
                    faults>>
      /\ available' \in [Users -> Nat] /\ credited' \subseteq Purchases
      /\ blocked' \subseteq Users
  BY PurchasesAreBought
     DEF CreditPurchase, BlockUser, Served, TypeOK, provider, balances
<1>2. LedgerMatchesOrders' /\ DeliveriesMatchOrders'
  BY <1>1, DatabaseKept
<1>3. OneProviderPerOrder' /\ CountFollowsDelivery' /\ Keeps
  BY <1>1, ProvidersKept
<1>4. CallsKnow'
  BY <1>1 DEF Served, CallsKnow
<1>5. TypeOK'
  BY <1>1 DEF Served, TypeOK
<1> QED BY <1>2, <1>3, <1>4, <1>5 DEF Served

(* A provider moves an order it holds, or takes a request that was late: it  *)
(* does so only for orders that are bound to it, and never once it decided.  *)
LEMMA ProvidersServe ==
  ASSUME Served, NEW r \in Providers, NEW o \in Orders,
         \/ LateRequestArrives(r, o) \/ ProviderWorks(r, o)
         \/ \E outcome \in {"completed", "failed"} : ProviderDecides(r, o, outcome)
  PROVE  Served'
<1>1. UNCHANGED <<order, delivery, available, reserved, ledger, credited, blocked,
                 call, loop, faults>>
  BY DEF LateRequestArrives, ProviderWorks, ProviderDecides, database, balances
<1>2. PICK s \in SupplyStates :
        /\ supply' = [supply EXCEPT ![r][o] = s]
        /\ inFlight' \subseteq inFlight
        /\ supply[r][o] \in {"completed", "failed"} => s = supply[r][o]
        /\ supply[r][o] # "none" \/ <<r, o>> \in inFlight
  BY DEF LateRequestArrives, ProviderWorks, ProviderDecides, Accepted, SupplyStates,
         Served, TypeOK
<1>3. \A q \in Providers, n \in Orders :
        supply'[q][n] = IF q = r /\ n = o THEN s ELSE supply[q][n]
  BY <1>2 DEF Served, TypeOK
<1>4. Keeps
  BY <1>1, <1>2, <1>3 DEF Keeps
<1>5. OneProviderPerOrder'
  BY <1>1, <1>2, <1>3 DEF Served, OneProviderPerOrder
<1>6. CountFollowsDelivery'
  BY <1>1, <1>2, <1>3 DEF Served, CountFollowsDelivery, TypeOK
<1>7. LedgerMatchesOrders' /\ DeliveriesMatchOrders'
  BY <1>1, DatabaseKept
<1>8. CallsKnow'
  BY <1>1, <1>4, UntouchedCallsKnow DEF Served, CallsKnow
<1>9. TypeOK'
  BY <1>1, <1>2 DEF Served, TypeOK
<1> QED BY <1>5, <1>6, <1>7, <1>8, <1>9 DEF Served

-----------------------------------------------------------------------------
(* reserve writes the row and moves the count with the order, or writes      *)
(* nothing; the call then knows the provider the order is bound to.          *)
LEMMA ReserveServes ==
  ASSUME Served, NEW c \in Calls, NEW o \in Orders, Reserve(c, o),
         loop' \in [Processes -> LoopStates]
  PROVE  Served'
<1> DEFINE k == [Idle EXCEPT !.pc = "ready", !.order = o, !.provider = delivery[o].provider]
<1>1. /\ call' = [call EXCEPT ![c] = k]
      /\ k \in CallStates
      /\ k.pc = "ready" /\ k.order = o /\ k.provider = delivery[o].provider
      /\ UNCHANGED <<supply, inFlight, faults, delivery, credited, blocked>>
  BY DEF Reserve, ReserveNew, ReserveAgain, Idle, CallStates, Pcs, Answers, CreatingPcs,
         Served, TypeOK, provider, database, balances
<1> HIDE DEF k
<1>2. CASE ReserveAgain(o)
  <2>1. UNCHANGED <<database, provider>>
    BY <1>1, <1>2 DEF ReserveAgain, provider
  <2>2. Knows(k, order, delivery, supply)
    BY <1>1, <1>2 DEF ReserveAgain, Knows
  <2>3. faults' \in Nat
    BY <1>1 DEF Served, TypeOK
  <2> QED BY <1>1, <2>1, <2>2, <2>3, OnlyTheCallMoves
<1>3. CASE ReserveNew(o)
  <2>1. /\ order[o] = "absent"
        /\ order' = [order EXCEPT ![o] = "reserved"]
        /\ ledger' = ledger \cup {ReserveRow(o)}
        /\ available[SpenderOf[o]] >= CostOf[o]
        /\ available' = [available EXCEPT ![SpenderOf[o]] = @ - CostOf[o]]
        /\ reserved' = [reserved EXCEPT ![SpenderOf[o]] = @ + CostOf[o]]
    BY <1>3 DEF ReserveNew
  <2>1a. SpenderOf[o] \in Users /\ CostOf[o] \in Nat
    BY OrdersAreSpent
  <2>1b. available \in [Users -> Nat] /\ reserved \in [Users -> Nat]
    BY DEF Served, TypeOK
  <2>1c. available' \in [Users -> Nat] /\ reserved' \in [Users -> Nat]
    BY <2>1, <2>1a, <2>1b
  <2>2. \A n \in Orders : order'[n] = IF n = o THEN "reserved" ELSE order[n]
    BY <2>1 DEF Served, TypeOK
  <2>3. Keeps
    BY <1>1, <2>1, <2>2 DEF Keeps
  <2>4. ReserveRow(o) \in Rows /\ ReserveRow(o).order = o
    BY OrdersAreSpent DEF ReserveRow, Rows
  <2>5. LedgerMatchesOrders'
    <3> SUFFICES ASSUME NEW n \in Orders
                 PROVE  {l \in ledger' : l.order = n} = RowsFor(n)'
      BY DEF LedgerMatchesOrders
    <3>1. {l \in ledger : l.order = n} = RowsFor(n)
      BY DEF Served, LedgerMatchesOrders
    <3>2. CASE n = o
      BY <2>1, <2>2, <2>4, <3>1, <3>2 DEF RowsFor
    <3>3. CASE n # o
      BY <2>1, <2>2, <2>4, <3>1, <3>3 DEF RowsFor
    <3> QED BY <3>2, <3>3
  <2>6. DeliveriesMatchOrders'
    BY <1>1, <2>1, <2>2 DEF Served, DeliveriesMatchOrders
  <2>7. Knows(k, order', delivery', supply')
    BY <1>1, <2>2 DEF Knows
  <2>8. call' \in [Calls -> CallStates] /\ CallsKnow'
    BY <1>1, <2>3, <2>7, OneCallMoves DEF Served
  <2>9. OneProviderPerOrder' /\ CountFollowsDelivery'
    BY <1>1, <2>1, <2>2 DEF Served, OneProviderPerOrder, CountFollowsDelivery
  <2>10. TypeOK'
    BY <1>1, <2>1, <2>4, <2>8, <2>1c DEF Served, TypeOK, Statuses
  <2> QED BY <2>5, <2>6, <2>8, <2>9, <2>10 DEF Served
<1> QED BY <1>2, <1>3 DEF Reserve

(* startDispatch binds the order once, and the call to the same provider.    *)
LEMMA StartDispatchServes ==
  ASSUME Served, NEW c \in Calls, StartDispatch(c)
  PROVE  Served'
<1> DEFINE o == call[c].order
           r == IF call[c].provider = NoProvider THEN CurrentOf[HostOf(c)]
                                                 ELSE call[c].provider
           k == [call[c] EXCEPT !.pc = "creating", !.provider = r]
           m == [call[c] EXCEPT !.pc = "creating", !.provider = r, !.created = TRUE]
<1>1. /\ call[c] \in CallStates /\ call[c].pc = "ready"
      /\ Knows(call[c], order, delivery, supply)
  BY DEF StartDispatch, Served, TypeOK, CallsKnow
<1>2. r \in Providers
  BY <1>1, Hosts DEF CallStates
<1>3. o \in Orders
  BY <1>1 DEF Knows
<1>4. /\ k \in CallStates /\ k.pc = "creating" /\ k.order = o /\ k.provider = r
      /\ m \in CallStates /\ m.pc = "creating" /\ m.order = o /\ m.provider = r
  BY <1>1, <1>2 DEF CallStates, Pcs, CreatingPcs
<1>5. \/ /\ order[o] = "reserved"
         /\ order' = [order EXCEPT ![o] = "dispatching"]
         /\ delivery' = [delivery EXCEPT ![o] = [provider |-> r, status |-> "pending"]]
         /\ call' = [call EXCEPT ![c] = m]
         /\ UNCHANGED <<balances, blocked, provider, loop, faults>>
      \/ /\ order[o] = "dispatching" /\ delivery[o].provider = r
         /\ call' = [call EXCEPT ![c] = k]
         /\ UNCHANGED <<database, provider, loop, faults>>
  <2>1. call \in [Calls -> CallStates]
    BY DEF Served, TypeOK
  <2> QED BY <2>1 DEF StartDispatch, database
<1> HIDE DEF k, m, o, r
<1>6. CASE /\ order[o] = "dispatching" /\ delivery[o].provider = r
           /\ call' = [call EXCEPT ![c] = k]
           /\ UNCHANGED <<database, provider, loop, faults>>
  <2>1. Knows(k, order, delivery, supply)
    BY <1>2, <1>3, <1>4, <1>6 DEF Knows
  <2>2. /\ loop' \in [Processes -> LoopStates]
        /\ faults' \in Nat
    BY <1>6 DEF Served, TypeOK
  <2>3. UNCHANGED <<database, provider>>
    BY <1>6
  <2>4. call' = [call EXCEPT ![c] = k]
    BY <1>6
  <2> QED BY <1>4, <2>1, <2>2, <2>3, <2>4, OnlyTheCallMoves
<1>7. CASE /\ order[o] = "reserved"
           /\ order' = [order EXCEPT ![o] = "dispatching"]
           /\ delivery' = [delivery EXCEPT ![o] = [provider |-> r, status |-> "pending"]]
           /\ call' = [call EXCEPT ![c] = m]
           /\ UNCHANGED <<balances, blocked, provider, loop, faults>>
  <2>1. /\ \A n \in Orders : order'[n] = IF n = o THEN "dispatching" ELSE order[n]
        /\ \A n \in Orders : delivery'[n] = IF n = o THEN [provider |-> r, status |-> "pending"]
                                                    ELSE delivery[n]
    BY <1>3, <1>7 DEF Served, TypeOK
  <2>2. UNCHANGED <<available, reserved, ledger, credited, blocked, supply, inFlight, loop,
                   faults>>
    BY <1>7 DEF balances, provider
  <2>3. delivery[o].provider = NoProvider
    BY <1>3, <1>7 DEF Served, DeliveriesMatchOrders
  <2>4. Keeps
    BY <2>1, <2>2, <2>3 DEF Keeps
  <2>5. LedgerMatchesOrders'
    BY <1>3, <1>7, <2>1, <2>2 DEF Served, LedgerMatchesOrders, RowsFor
  <2>6. DeliveriesMatchOrders'
    BY <1>2, <2>1 DEF Served, DeliveriesMatchOrders
  <2>7. Knows(m, order', delivery', supply')
    BY <1>2, <1>3, <1>4, <2>1 DEF Knows
  <2>8. call' \in [Calls -> CallStates] /\ CallsKnow'
    BY <1>4, <1>7, <2>4, <2>7, OneCallMoves DEF Served
  <2>9. OneProviderPerOrder'
    BY <2>1, <2>2, <2>3, ProvidersAreRegistered DEF Served, OneProviderPerOrder
  <2>10. CountFollowsDelivery'
    BY <2>1, <2>2 DEF Served, CountFollowsDelivery
  <2>11. order' \in [Orders -> Statuses]
    BY <1>3, <1>7 DEF Served, TypeOK, Statuses
  <2>12. delivery' \in [Orders -> [provider : Providers \cup {NoProvider},
                                   status : DeliveryStatuses]]
    BY <1>2, <1>3, <1>7 DEF Served, TypeOK, DeliveryStatuses
  <2>13. TypeOK'
    BY <2>2, <2>8, <2>11, <2>12 DEF Served, TypeOK
  <2> QED BY <2>5, <2>6, <2>8, <2>9, <2>10, <2>13 DEF Served
<1> QED BY <1>5, <1>6, <1>7

(* Steps that only move the call: a customer asks, a query is answered, a    *)
(* call ends.                                                                *)
LEMMA CallMovesServe ==
  ASSUME Served, NEW c \in Calls,
         \/ \E o \in Orders : CustomerAsks(c, o)
         \/ DispatchEnds(c) \/ QueryFinds(c) \/ QueryFindsNothing(c)
         \/ CallFails(c)
  PROVE  Served'
<1>1. /\ UNCHANGED <<database, provider, loop>>
      /\ faults' \in {faults, faults + 1}
  BY DEF CustomerAsks, DispatchEnds, QueryFinds, QueryFindsNothing, CallFails
<1>2. /\ loop' \in [Processes -> LoopStates] /\ faults' \in Nat
      /\ call \in [Calls -> CallStates]
      /\ Knows(call[c], order, delivery, supply)
      /\ Knows(Idle, order, delivery, supply)
      /\ Idle \in CallStates
  BY <1>1 DEF Served, TypeOK, CallsKnow, Knows, Idle, CallStates, Pcs, Answers
<1> SUFFICES \E k \in CallStates :
               call' = [call EXCEPT ![c] = k] /\ Knows(k, order, delivery, supply)
  BY <1>1, <1>2, OnlyTheCallMoves
<1>3. CASE DispatchEnds(c) \/ CallFails(c)
  BY <1>2, <1>3 DEF DispatchEnds, CallFails
<1>4. ASSUME NEW o \in Orders, CustomerAsks(c, o)
      PROVE  \E k \in CallStates :
               call' = [call EXCEPT ![c] = k] /\ Knows(k, order, delivery, supply)
  <2> DEFINE k == [Idle EXCEPT !.pc = "asking", !.order = o,
                              !.provider = delivery[o].provider]
  <2>1. /\ call' = [call EXCEPT ![c] = k]
        /\ order[o] = "dispatching"
    BY <1>4 DEF CustomerAsks
  <2>2. delivery[o].provider \in Providers
    BY <2>1 DEF Served, DeliveriesMatchOrders
  <2>3. /\ k \in CallStates /\ k.pc = "asking" /\ k.order = o
        /\ k.provider = delivery[o].provider
    BY <2>2 DEF Idle, CallStates, Pcs, CreatingPcs, Answers
  <2>4. Knows(k, order, delivery, supply)
    BY <2>1, <2>2, <2>3 DEF Knows
  <2> QED BY <2>1, <2>3, <2>4
<1>5. CASE QueryFinds(c)
  <2> DEFINE s == supply[call[c].provider][call[c].order]
  <2>1. /\ call[c].order \in Orders /\ call[c].provider \in Providers
        /\ order[call[c].order] # "absent"
        /\ call[c].provider # NoProvider =>
             delivery[call[c].order].provider = call[c].provider
    BY <1>2, <1>5 DEF QueryFinds, Knows
  <2>2. s \in SupplyStates \ {"none"}
    <3>1. s # "none"
      BY <1>5 DEF QueryFinds
    <3>2. supply \in [Providers -> [Orders -> SupplyStates]]
      BY DEF Served, TypeOK
    <3> QED BY <2>1, <3>1, <3>2
  <2>3. PICK a \in QueryAnswers(s) :
          call' = [call EXCEPT ![c].pc = "applying", ![c].answer = a]
    BY <1>5 DEF QueryFinds
  <2>4. /\ a \in {"unknown", "processing", "completed", "failed"}
        /\ a \in {"completed", "failed"} => s = a
    BY <2>2, <2>3 DEF QueryAnswers, SupplyStates
  <2> DEFINE k == [call[c] EXCEPT !.pc = "applying", !.answer = a]
  <2>5. /\ k \in CallStates /\ k.pc = "applying" /\ k.order = call[c].order
        /\ k.provider = call[c].provider /\ k.answer = a
    BY <1>2, <2>4 DEF CallStates, Pcs, Answers, SupplyStates
  <2>6. call' = [call EXCEPT ![c] = k]
    BY <1>2, <2>3
  <2>7. Knows(k, order, delivery, supply)
    BY <2>1, <2>4, <2>5 DEF Knows
  <2> QED BY <2>5, <2>6, <2>7
<1>6. CASE QueryFindsNothing(c)
  <2> DEFINE k == [call[c] EXCEPT !.pc = "applying", !.answer = "unknown"]
             m == [call[c] EXCEPT !.pc = "creating_again"]
  <2>1. /\ call[c].order \in Orders /\ call[c].provider \in Providers
        /\ order[call[c].order] # "absent"
        /\ call[c].provider # NoProvider =>
             delivery[call[c].order].provider = call[c].provider
    BY <1>2, <1>6 DEF QueryFindsNothing, Knows
  <2>2. \/ call' = [call EXCEPT ![c] = Idle]
        \/ call' = [call EXCEPT ![c] = k]
        \/ call' = [call EXCEPT ![c] = m]
    BY <1>6 DEF QueryFindsNothing
  <2>3. /\ k \in CallStates /\ k.pc = "applying" /\ k.order = call[c].order
        /\ k.provider = call[c].provider /\ k.answer = "unknown"
        /\ m \in CallStates /\ m.pc = "creating_again" /\ m.order = call[c].order
        /\ m.provider = call[c].provider
    BY <1>2 DEF CallStates, Pcs, CreatingPcs, Answers
  <2>4. Knows(k, order, delivery, supply) /\ Knows(m, order, delivery, supply)
    BY <2>1, <2>3 DEF Knows
  <2> QED BY <1>2, <2>2, <2>3, <2>4
<1> QED BY <1>3, <1>4, <1>5, <1>6

-----------------------------------------------------------------------------
(* The request of a call reaches the provider its order is bound to, or may  *)
(* reach it later.                                                           *)
LEMMA RequestsServe ==
  ASSUME Served, NEW c \in Calls, CreateDelivery(c) \/ CreateThrows(c)
  PROVE  Served'
<1> DEFINE o == call[c].order
           r == call[c].provider
<1>1. /\ call[c] \in CallStates /\ call[c].pc \in CreatingPcs
      /\ Knows(call[c], order, delivery, supply)
      /\ call \in [Calls -> CallStates]
  BY DEF CreateDelivery, CreateThrows, Served, TypeOK, CallsKnow
<1>2. /\ o \in Orders /\ r \in Providers /\ order[o] # "absent"
      /\ delivery[o].provider = r
  BY <1>1, ProvidersAreRegistered DEF Knows, CreatingPcs
<1>3. UNCHANGED <<order, delivery, available, reserved, ledger, credited, blocked, loop>>
  BY DEF CreateDelivery, CreateThrows, database, balances
<1>4. supply[r][o] \in SupplyStates /\ Accepted(supply[r][o]) \in SupplyStates \ {"none"}
  <2>1. supply \in [Providers -> [Orders -> SupplyStates]]
    BY DEF Served, TypeOK
  <2> QED BY <1>2, <2>1 DEF Accepted, SupplyStates
<1>5. /\ \/ supply' = supply
         \/ supply' = [supply EXCEPT ![r][o] = Accepted(@)]
      /\ inFlight' \subseteq inFlight \cup {<<r, o>>}
  BY DEF CreateDelivery, CreateThrows, provider
<1>6. supply' \in [Providers -> [Orders -> SupplyStates]]
  <2>1. supply \in [Providers -> [Orders -> SupplyStates]]
    BY DEF Served, TypeOK
  <2> QED BY <1>2, <1>4, <1>5, <2>1
<1>7. \A q \in Providers, n \in Orders :
        \/ supply'[q][n] = supply[q][n]
        \/ q = r /\ n = o /\ supply'[q][n] = Accepted(supply[q][n])
  <2>1. supply \in [Providers -> [Orders -> SupplyStates]]
    BY DEF Served, TypeOK
  <2> QED BY <1>2, <1>5, <2>1
<1>8. Keeps
  BY <1>3, <1>7 DEF Keeps, Accepted
<1>9. OneProviderPerOrder'
  BY <1>2, <1>3, <1>5, <1>7 DEF Served, OneProviderPerOrder
<1>10. CountFollowsDelivery'
  <2> SUFFICES ASSUME NEW n \in Orders, order[n] \in {"completed", "released"}
      PROVE  supply'[delivery[n].provider][n] = supply[delivery[n].provider][n]
    BY <1>3 DEF Served, CountFollowsDelivery
  <2>1. delivery[n].provider \in Providers
    BY DEF Served, DeliveriesMatchOrders
  <2>2. supply[delivery[n].provider][n] \in {"completed", "failed"}
    BY DEF Served, CountFollowsDelivery
  <2> QED BY <2>1, <2>2, <1>8 DEF Keeps
<1>11. LedgerMatchesOrders' /\ DeliveriesMatchOrders'
  BY <1>3, DatabaseKept
<1>12. PICK k \in CallStates :
         call' = [call EXCEPT ![c] = k] /\ Knows(k, order', delivery', supply')
  <2>1. CASE CreateDelivery(c)
    <3> DEFINE k == [call[c] EXCEPT !.pc = "applying", !.answer = supply'[r][o]]
    <3>1. supply'[r][o] \in {"accepted", "processing", "completed", "failed"}
      <4>1. supply' = [supply EXCEPT ![r][o] = Accepted(@)]
        BY <2>1 DEF CreateDelivery
      <4>2. supply \in [Providers -> [Orders -> SupplyStates]]
        BY DEF Served, TypeOK
      <4>3. supply'[r][o] = Accepted(supply[r][o])
        BY <1>2, <4>1, <4>2
      <4> QED BY <1>4, <4>3 DEF SupplyStates
    <3>2. /\ k \in CallStates /\ k.pc = "applying" /\ k.order = o /\ k.provider = r
          /\ k.answer = supply'[r][o]
      BY <1>1, <3>1 DEF CallStates, Pcs, Answers, SupplyStates
    <3>3. call' = [call EXCEPT ![c] = k]
      <4> DEFINE a == supply'[r][o]
      <4>1. call' = [call EXCEPT ![c].pc = "applying", ![c].answer = a]
        BY <2>1 DEF CreateDelivery
      <4>2. k = [call[c] EXCEPT !.pc = "applying", !.answer = a]
        OBVIOUS
      <4> HIDE DEF a, k
      <4> QED BY <1>1, <4>1, <4>2
    <3>4. Knows(k, order', delivery', supply')
      BY <1>2, <1>3, <3>1, <3>2 DEF Knows
    <3> QED BY <3>2, <3>3, <3>4
  <2>2. CASE CreateThrows(c)
    <3>1. PICK next \in {"querying", "querying_status", "idle"} :
            call' = [call EXCEPT ![c] = IF next = "idle" THEN Idle
                                        ELSE [call[c] EXCEPT !.pc = next]]
      BY <1>1, <2>2 DEF CreateThrows, CreatingPcs
    <3> DEFINE k == [call[c] EXCEPT !.pc = next]
    <3>2. k \in CallStates /\ k.pc = next /\ k.order = o /\ k.provider = r
      BY <1>1 DEF CallStates, Pcs
    <3>3. CASE next # "idle"
      <4>1. Knows(k, order', delivery', supply')
        BY <1>2, <1>3, <3>2 DEF Knows
      <4> QED BY <3>1, <3>2, <3>3, <4>1
    <3>4. CASE next = "idle"
      <4>1. Idle \in CallStates /\ Knows(Idle, order', delivery', supply')
        BY DEF Idle, CallStates, Pcs, Answers, Knows
      <4> QED BY <3>1, <3>4, <4>1
    <3> QED BY <3>3, <3>4
  <2> QED BY <2>1, <2>2
<1>13. call' \in [Calls -> CallStates] /\ CallsKnow'
  BY <1>8, <1>12, OneCallMoves DEF Served
<1>14. faults' \in Nat /\ inFlight' \subseteq Providers \X Orders
  BY <1>2, <1>5 DEF CreateDelivery, CreateThrows, Served, TypeOK
<1>15. TypeOK'
  BY <1>3, <1>6, <1>13, <1>14 DEF Served, TypeOK
<1> QED BY <1>9, <1>10, <1>11, <1>13, <1>15 DEF Served

-----------------------------------------------------------------------------
(* An answer that a call brings back is applied, consumed or released on the *)
(* strength of what the provider decided; a repeated one changes nothing.    *)
LEMMA ApplyDeliveryServes ==
  ASSUME Served, NEW c \in Calls, ApplyDelivery(c)
  PROVE  Served'
<1> DEFINE o == call[c].order
           r == call[c].provider
           answer == call[c].answer
<1>1. /\ call[c].pc = "applying" /\ ~DeliveryRefused(c)
      /\ Knows(call[c], order, delivery, supply)
      /\ call' = [call EXCEPT ![c] = Idle]
      /\ UNCHANGED <<credited, blocked, supply, inFlight, loop, faults>>
  BY DEF ApplyDelivery, Served, CallsKnow, provider
<1>2. /\ o \in Orders /\ r \in Providers /\ delivery[o].provider = r
      /\ answer \in {"unknown", "accepted", "processing", "completed", "failed"}
      /\ answer \in {"completed", "failed"} => supply[r][o] = answer
  BY <1>1, ProvidersAreRegistered DEF Knows
<1>3. Idle \in CallStates /\ Knows(Idle, order', delivery', supply')
  BY DEF Idle, CallStates, Pcs, Answers, Knows
<1>4. /\ order \in [Orders -> Statuses]
      /\ delivery \in [Orders -> [provider : Providers \cup {NoProvider},
                                  status : DeliveryStatuses]]
      /\ available \in [Users -> Nat] /\ reserved \in [Users -> Nat]
      /\ SpenderOf[o] \in Users /\ CostOf[o] \in Nat
      /\ ledger \subseteq Rows
  BY <1>2, OrdersAreSpent DEF Served, TypeOK
<1>4a. \/ UNCHANGED <<order, delivery, available, reserved, ledger>>
       \/ order[o] = "dispatching" /\ answer = "completed" /\ Consume(o)
       \/ order[o] = "dispatching" /\ answer = "failed" /\ Release(o)
       \/ /\ order[o] = "dispatching" /\ answer \notin {"completed", "failed"}
          /\ RecordProgress(o, answer)
  BY DEF ApplyDelivery
<1> HIDE DEF o, r, answer
<1>5. CASE UNCHANGED <<order, delivery, available, reserved, ledger>>
  <2>1. /\ UNCHANGED <<database, provider>>
        /\ loop' \in [Processes -> LoopStates] /\ faults' \in Nat
    BY <1>1, <1>5 DEF database, balances, provider, Served, TypeOK
  <2>2. Knows(Idle, order, delivery, supply)
    BY DEF Knows, Idle
  <2> QED BY <1>1, <1>3, <2>1, <2>2, OnlyTheCallMoves
<1>6. ASSUME NEW s \in {"completed", "released"}, NEW d \in {"completed", "failed"},
             NEW row \in Rows, row.order = o,
             order[o] = "dispatching",
             order' = [order EXCEPT ![o] = s],
             delivery' = [delivery EXCEPT ![o].status = d],
             ledger' = ledger \cup {row},
             available' \in [Users -> Nat], reserved' \in [Users -> Nat],
             \/ s = "completed" /\ d = "completed" /\ answer = d /\ row = ConsumeRow(o)
             \/ s = "released" /\ d = "failed" /\ answer = d /\ row = ReleaseRow(o)
      PROVE  Served'
  <2>1. /\ \A n \in Orders : order'[n] = IF n = o THEN s ELSE order[n]
        /\ \A n \in Orders : delivery'[n] =
             IF n = o THEN [provider |-> r, status |-> d] ELSE delivery[n]
    BY <1>2, <1>4, <1>6
  <2>2. Keeps
    BY <1>1, <1>2, <1>6, <2>1 DEF Keeps
  <2>3. LedgerMatchesOrders'
    <3> SUFFICES ASSUME NEW n \in Orders
                 PROVE  {l \in ledger' : l.order = n} = RowsFor(n)'
      BY DEF LedgerMatchesOrders
    <3>1. {l \in ledger : l.order = n} = RowsFor(n)
      BY DEF Served, LedgerMatchesOrders
    <3>2. CASE n = o
      BY <1>2, <1>6, <2>1, <3>1, <3>2 DEF RowsFor
    <3>3. CASE n # o
      BY <1>2, <1>6, <2>1, <3>1, <3>3 DEF RowsFor
    <3> QED BY <3>2, <3>3
  <2>4. DeliveriesMatchOrders'
    BY <1>2, <1>6, <2>1 DEF Served, DeliveriesMatchOrders
  <2>5. call' \in [Calls -> CallStates] /\ CallsKnow'
    BY <1>1, <1>3, <2>2, OneCallMoves DEF Served
  <2>6. OneProviderPerOrder'
    BY <1>1, <1>2, <2>1 DEF Served, OneProviderPerOrder
  <2>7. CountFollowsDelivery'
    BY <1>1, <1>2, <1>6, <2>1 DEF Served, CountFollowsDelivery
  <2>8. order' \in [Orders -> Statuses]
    BY <1>2, <1>4, <1>6 DEF Statuses
  <2>9. delivery' \in [Orders -> [provider : Providers \cup {NoProvider},
                                  status : DeliveryStatuses]]
    BY <1>2, <1>4, <1>6 DEF DeliveryStatuses
  <2>10. ledger' \subseteq Rows
    BY <1>4, <1>6
  <2>11. TypeOK'
    BY <1>1, <1>6, <2>5, <2>8, <2>9, <2>10 DEF Served, TypeOK
  <2> QED BY <2>3, <2>4, <2>5, <2>6, <2>7, <2>11 DEF Served
<1>7. CASE order[o] = "dispatching" /\ answer = "completed" /\ Consume(o)
  <2>1. reserved[SpenderOf[o]] >= CostOf[o]
    BY <1>1, <1>4, <1>7 DEF DeliveryRefused, o, answer
  <2>2. /\ order' = [order EXCEPT ![o] = "completed"]
        /\ delivery' = [delivery EXCEPT ![o].status = "completed"]
        /\ reserved' = [reserved EXCEPT ![SpenderOf[o]] = @ - CostOf[o]]
        /\ ledger' = ledger \cup {ConsumeRow(o)}
        /\ available' = available
    BY <1>7 DEF Consume
  <2>3. available' \in [Users -> Nat] /\ reserved' \in [Users -> Nat]
    BY <1>4, <2>1, <2>2
  <2>4. ConsumeRow(o) \in Rows /\ ConsumeRow(o).order = o
    BY <1>2, <1>4 DEF ConsumeRow, Rows
  <2> QED BY <1>6, <1>7, <2>2, <2>3, <2>4
<1>8. CASE order[o] = "dispatching" /\ answer = "failed" /\ Release(o)
  <2>1. reserved[SpenderOf[o]] >= CostOf[o]
    BY <1>1, <1>4, <1>8 DEF DeliveryRefused, o, answer
  <2>2. /\ order' = [order EXCEPT ![o] = "released"]
        /\ delivery' = [delivery EXCEPT ![o].status = "failed"]
        /\ reserved' = [reserved EXCEPT ![SpenderOf[o]] = @ - CostOf[o]]
        /\ available' = [available EXCEPT ![SpenderOf[o]] = @ + CostOf[o]]
        /\ ledger' = ledger \cup {ReleaseRow(o)}
    BY <1>8 DEF Release
  <2>3. available' \in [Users -> Nat] /\ reserved' \in [Users -> Nat]
    BY <1>4, <2>1, <2>2
  <2>4. ReleaseRow(o) \in Rows /\ ReleaseRow(o).order = o
    BY <1>2, <1>4 DEF ReleaseRow, Rows
  <2> QED BY <1>6, <1>8, <2>2, <2>3, <2>4
<1>9. CASE /\ order[o] = "dispatching" /\ answer \notin {"completed", "failed"}
           /\ RecordProgress(o, answer)
  <2> DEFINE d == MergeProviderDeliveryStatus(delivery[o].status, answer)
  <2>1. d \in {"unknown", "accepted", "processing"}
    BY <1>2, <1>9 DEF MergeProviderDeliveryStatus
  <2>2. /\ delivery' = [delivery EXCEPT ![o].status = d]
        /\ UNCHANGED <<order, available, reserved, ledger>>
    BY <1>2, <1>4, <1>9 DEF RecordProgress
  <2> HIDE DEF d
  <2>3. \A n \in Orders : delivery'[n] =
          IF n = o THEN [provider |-> r, status |-> d] ELSE delivery[n]
    BY <1>2, <1>4, <2>2
  <2>4. Keeps
    BY <1>1, <1>2, <2>2, <2>3 DEF Keeps
  <2>5. LedgerMatchesOrders'
    BY <2>2 DEF Served, LedgerMatchesOrders, RowsFor
  <2>6. DeliveriesMatchOrders'
    BY <1>2, <1>9, <2>1, <2>2, <2>3 DEF Served, DeliveriesMatchOrders
  <2>7. call' \in [Calls -> CallStates] /\ CallsKnow'
    BY <1>1, <1>3, <2>4, OneCallMoves DEF Served
  <2>8. OneProviderPerOrder' /\ CountFollowsDelivery'
    BY <1>1, <1>2, <1>9, <2>2, <2>3 DEF Served, OneProviderPerOrder, CountFollowsDelivery
  <2>9. delivery' \in [Orders -> [provider : Providers \cup {NoProvider},
                                  status : DeliveryStatuses]]
    BY <1>2, <1>4, <2>1, <2>2 DEF DeliveryStatuses
  <2>10. TypeOK'
    BY <1>1, <2>2, <2>7, <2>9 DEF Served, TypeOK
  <2> QED BY <2>5, <2>6, <2>7, <2>8, <2>10 DEF Served
<1> QED BY <1>4a, <1>5, <1>7, <1>8, <1>9

-----------------------------------------------------------------------------
(* The recovery loop lists, skips, or makes the call a customer makes.       *)
LEMMA RecoveryServes ==
  ASSUME Served, NEW p \in Processes, RecoveryStep(p)
  PROVE  Served'
<1>1. p \in Calls /\ loop \in [Processes -> LoopStates]
  BY DEF Calls, Served, TypeOK
<1>2. CASE \E entry \in loop[p].page : Advance(p, entry) /\ Reserve(p, entry[1])
  <2>1. PICK entry \in loop[p].page : Advance(p, entry) /\ Reserve(p, entry[1])
    BY <1>2
  <2>2. /\ loop[p].page \subseteq Orders \X (Providers \cup {NoProvider})
        /\ entry[1] \in Orders
    BY <1>1, <2>1 DEF LoopStates
  <2>3. loop' \in [Processes -> LoopStates]
    BY <1>1, <2>1, <2>2 DEF Advance, LoopStates
  <2> QED BY <1>1, <2>1, <2>2, <2>3, ReserveServes
<1>3. CASE ListPending(p) \/ SkipOrder(p)
  <2>1. loop' \in [Processes -> LoopStates]
    <3>1. CASE ListPending(p)
      <4> DEFINE wraps == PendingAfter(loop[p].cursor) = {}
                 cursor == IF wraps THEN 0 ELSE loop[p].cursor
                 page == {<<o, delivery[o].provider>> : o \in PageOf(PendingAfter(cursor))}
      <4>1. cursor \in Orders \cup {0}
        BY <1>1 DEF LoopStates
      <4>2. page \subseteq Orders \X (Providers \cup {NoProvider})
        <5>1. PageOf(PendingAfter(cursor)) \subseteq Orders
          BY DEF PageOf, PendingAfter
        <5>2. \A o \in Orders : delivery[o].provider \in Providers \cup {NoProvider}
          BY DEF Served, TypeOK
        <5> QED BY <5>1, <5>2
      <4>3. loop' = [loop EXCEPT ![p] = [cursor |-> cursor, page |-> page]]
        BY <3>1 DEF ListPending
      <4> HIDE DEF cursor, page
      <4> QED BY <1>1, <4>1, <4>2, <4>3 DEF LoopStates
    <3>2. CASE SkipOrder(p)
      <4>1. PICK entry \in loop[p].page : Advance(p, entry)
        BY <3>2 DEF SkipOrder
      <4>2. /\ loop[p].page \subseteq Orders \X (Providers \cup {NoProvider})
            /\ entry[1] \in Orders
        BY <1>1, <4>1 DEF LoopStates
      <4> QED BY <1>1, <4>1, <4>2 DEF Advance, LoopStates
    <3> QED BY <1>3, <3>1, <3>2
  <2>2. UNCHANGED <<database, provider, call, faults>>
    BY <1>3 DEF ListPending, SkipOrder
  <2>3. UNCHANGED <<order, delivery, available, reserved, ledger, credited, blocked,
                   supply, inFlight, call, faults>>
    BY <2>2 DEF database, balances, provider
  <2>4. LedgerMatchesOrders' /\ DeliveriesMatchOrders'
    BY <2>3, DatabaseKept
  <2>5. OneProviderPerOrder' /\ CountFollowsDelivery' /\ Keeps
    BY <2>3, ProvidersKept
  <2>6. CallsKnow' /\ TypeOK'
    BY <2>1, <2>3 DEF Served, CallsKnow, TypeOK
  <2> QED BY <2>4, <2>5, <2>6 DEF Served
<1> QED BY <1>2, <1>3 DEF RecoveryStep, RecoverOrder

(* A crash ends calls, and what they sent may still arrive.                  *)
LEMMA CrashesServe ==
  ASSUME Served, NEW p \in Processes, ProcessCrashes(p)
  PROVE  Served'
<1> DEFINE cut == {c \in {d \in Calls : HostOf(d) = p} : call[c].pc \in CreatingPcs}
<1>1. /\ UNCHANGED <<order, delivery, available, reserved, ledger, credited, blocked, supply>>
      /\ \A c \in Calls : call'[c] \in {call[c], Idle}
      /\ call' = [c \in Calls |-> call'[c]]
      /\ inFlight' \subseteq inFlight \cup {<<call[c].provider, call[c].order>> : c \in cut}
      /\ faults' = faults + 1
      /\ loop' = [loop EXCEPT ![p] = [cursor |-> 0, page |-> {}]]
  BY DEF ProcessCrashes, database, balances
<1>2. \A c \in cut : /\ call[c].order \in Orders /\ call[c].provider \in Providers
                     /\ delivery[call[c].order].provider = call[c].provider
  <2> SUFFICES ASSUME NEW c \in cut
      PROVE  /\ call[c].order \in Orders /\ call[c].provider \in Providers
             /\ delivery[call[c].order].provider = call[c].provider
    OBVIOUS
  <2>1. Knows(call[c], order, delivery, supply)
    BY DEF Served, CallsKnow
  <2> QED BY <2>1, ProvidersAreRegistered DEF Knows, CreatingPcs
<1>3. Keeps
  BY <1>1 DEF Keeps
<1>4. CallsKnow'
  BY <1>1, <1>3, UntouchedCallsKnow DEF Served, CallsKnow
<1>5. OneProviderPerOrder'
  BY <1>1, <1>2 DEF Served, OneProviderPerOrder
<1>6. CountFollowsDelivery'
  BY <1>1 DEF Served, CountFollowsDelivery
<1>7. LedgerMatchesOrders' /\ DeliveriesMatchOrders'
  BY <1>1, DatabaseKept
<1>8. call' \in [Calls -> CallStates]
  <2>1. Idle \in CallStates
    BY DEF Idle, CallStates, Pcs, Answers
  <2> QED BY <1>1, <2>1 DEF Served, TypeOK
<1>9. /\ inFlight' \subseteq Providers \X Orders
      /\ faults' \in Nat
  BY <1>1, <1>2 DEF Served, TypeOK
<1>10. loop' \in [Processes -> LoopStates]
  BY <1>1 DEF Served, TypeOK, LoopStates
<1>11. TypeOK'
  BY <1>1, <1>8, <1>9, <1>10 DEF Served, TypeOK
<1> QED BY <1>4, <1>5, <1>6, <1>7, <1>11 DEF Served

-----------------------------------------------------------------------------
LEMMA StepsServe ==
  ASSUME Served, [Next]_vars
  PROVE  Served'
<1>1. CASE UNCHANGED vars
  <2>1. UNCHANGED <<order, delivery, available, reserved, ledger, credited, blocked,
                   supply, inFlight, call, loop, faults>>
    BY <1>1 DEF vars, database, balances, provider
  <2>2. LedgerMatchesOrders' /\ DeliveriesMatchOrders'
    BY <2>1, DatabaseKept
  <2>3. OneProviderPerOrder' /\ CountFollowsDelivery' /\ Keeps
    BY <2>1, ProvidersKept
  <2>4. CallsKnow' /\ TypeOK'
    BY <2>1 DEF Served, CallsKnow, TypeOK
  <2> QED BY <2>2, <2>3, <2>4 DEF Served
<1>2. CASE \/ \E p \in Purchases : CreditPurchase(p)
           \/ \E u \in Users : BlockUser(u)
  BY <1>2, SurroundingsServe
<1>3. ASSUME NEW r \in Providers, NEW o \in Orders,
             \/ LateRequestArrives(r, o) \/ ProviderWorks(r, o)
             \/ \E outcome \in {"completed", "failed"} : ProviderDecides(r, o, outcome)
      PROVE  Served'
  BY <1>3, ProvidersServe
<1>4. ASSUME NEW c \in Callers, NEW o \in Orders,
             CustomerExecutes(c, o) \/ CustomerAsks(c, o)
      PROVE  Served'
  <2>1. c \in Calls
    BY DEF Calls
  <2>2. CASE CustomerExecutes(c, o)
    <3>1. Reserve(c, o) /\ loop' \in [Processes -> LoopStates]
      BY <2>2 DEF CustomerExecutes, Served, TypeOK
    <3> QED BY <2>1, <3>1, ReserveServes
  <2>3. CASE CustomerAsks(c, o)
    BY <2>1, <2>3, CallMovesServe
  <2> QED BY <1>4, <2>2, <2>3
<1>5. ASSUME NEW c \in Calls, Step(c) \/ CreateThrows(c) \/ CallFails(c)
      PROVE  Served'
  BY <1>5, StartDispatchServes, CallMovesServe, RequestsServe, ApplyDeliveryServes DEF Step
<1>6. ASSUME NEW p \in Processes, RecoveryStep(p) \/ ProcessCrashes(p)
      PROVE  Served'
  BY <1>6, RecoveryServes, CrashesServe
<1> QED BY <1>1, <1>2, <1>3, <1>4, <1>5, <1>6 DEF Next

LEMMA InitServes == Init => Served
<1> SUFFICES ASSUME Init PROVE Served
  OBVIOUS
<1>1. Idle \in CallStates
  BY DEF Idle, CallStates, Pcs, Answers
<1>2. TypeOK
  BY <1>1 DEF Init, TypeOK, Statuses, DeliveryStatuses, SupplyStates, LoopStates
<1>3. LedgerMatchesOrders
  BY DEF Init, LedgerMatchesOrders, RowsFor
<1>4. DeliveriesMatchOrders /\ CallsKnow
  BY DEF Init, DeliveriesMatchOrders, CallsKnow, Knows, Idle
<1>5. OneProviderPerOrder /\ CountFollowsDelivery
  BY DEF Init, OneProviderPerOrder, CountFollowsDelivery
<1> QED BY <1>2, <1>3, <1>4, <1>5 DEF Served

LEMMA AlwaysServed == Spec => []Served
BY InitServes, StepsServe, PTL DEF Spec

-----------------------------------------------------------------------------
(* Every variable keeps its type, so no available and no reserved count is   *)
(* ever negative.                                                            *)
THEOREM UsageTypeOK == Spec => []TypeOK
<1>1. Served => TypeOK
  BY DEF Served
<1> QED BY <1>1, AlwaysServed, PTL

(* The ledger tells the status of every order: reserved once, and afterwards *)
(* consumed or released but never both, whatever calls overlap.              *)
THEOREM LedgerTellsStatus == Spec => []LedgerMatchesOrders
<1>1. Served => LedgerMatchesOrders
  BY DEF Served
<1> QED BY <1>1, AlwaysServed, PTL

(* No order is ever requested from two providers.                            *)
THEOREM OneProviderServes == Spec => []OneProviderPerOrder
<1>1. Served => OneProviderPerOrder
  BY DEF Served
<1> QED BY <1>1, AlwaysServed, PTL

(* Count is spent only on delivered Energy and returned only when it will    *)
(* never be delivered.                                                       *)
THEOREM CountIsSpentOnDelivery == Spec => []CountFollowsDelivery
<1>1. Served => CountFollowsDelivery
  BY DEF Served
<1> QED BY <1>1, AlwaysServed, PTL

-----------------------------------------------------------------------------
(* A delivery row changes only when its order is dispatched or an answer is  *)
(* applied to a dispatched order.                                            *)
LEMMA DeliveryStep ==
  ASSUME Served, [Next]_vars, NEW n \in Orders
  PROVE  DeliveryOnlyAdvances(n)
<1>0. /\ delivery \in [Orders -> [provider : Providers \cup {NoProvider},
                                  status : DeliveryStatuses]]
  BY DEF Served, TypeOK
<1>1. CASE UNCHANGED delivery
  <2>1. Rank[delivery[n].status] \in Nat
    BY <1>0 DEF Rank, DeliveryStatuses
  <2> QED BY <1>1, <2>1 DEF DeliveryOnlyAdvances
<1>2. ASSUME NEW c \in Calls, StartDispatch(c), order[call[c].order] = "reserved"
      PROVE  DeliveryOnlyAdvances(n)
  <2>1. PICK r : delivery' = [delivery EXCEPT ![call[c].order] =
                                [provider |-> r, status |-> "pending"]]
    BY <1>2 DEF StartDispatch
  <2>2. call[c].order \in Orders =>
          delivery[call[c].order] = [provider |-> NoProvider, status |-> "pending"]
    BY <1>2 DEF Served, DeliveriesMatchOrders
  <2>3. CASE n = call[c].order
    BY <1>0, <2>1, <2>2, <2>3 DEF DeliveryOnlyAdvances, Rank
  <2>4. CASE n # call[c].order
    <3>1. delivery'[n] = delivery[n]
      BY <1>0, <2>1, <2>4
    <3>2. Rank[delivery[n].status] \in Nat
      BY <1>0 DEF Rank, DeliveryStatuses
    <3> QED BY <3>1, <3>2 DEF DeliveryOnlyAdvances
  <2> QED BY <2>3, <2>4
<1>3. ASSUME NEW c \in Calls, ApplyDelivery(c), order[call[c].order] = "dispatching"
      PROVE  DeliveryOnlyAdvances(n)
  <2> DEFINE o == call[c].order
             answer == call[c].answer
  <2>1. Knows(call[c], order, delivery, supply) /\ call[c].pc = "applying"
    BY <1>3 DEF Served, CallsKnow, ApplyDelivery
  <2>2. /\ o \in Orders
        /\ answer \in {"unknown", "accepted", "processing", "completed", "failed"}
    BY <2>1 DEF Knows
  <2>3. delivery[o].status \in {"pending", "unknown", "accepted", "processing"}
    <3>1. delivery[o].status \in DeliveryStatuses
      BY <1>0, <2>2
    <3>2. delivery[o].status \notin {"completed", "failed"}
      BY <1>3, <2>2 DEF Served, DeliveriesMatchOrders
    <3> QED BY <3>1, <3>2 DEF DeliveryStatuses
  <2>4. PICK d \in DeliveryStatuses :
          /\ delivery' = [delivery EXCEPT ![o].status = d]
          /\ d \in {"completed", "failed"} \/ d = MergeProviderDeliveryStatus(delivery[o].status, answer)
    <3>1. CASE Consume(o)
      BY <3>1 DEF Consume, DeliveryStatuses
    <3>2. CASE Release(o)
      BY <3>2 DEF Release, DeliveryStatuses
    <3>3. CASE RecordProgress(o, answer) /\ answer \notin {"completed", "failed"}
      <4>1. MergeProviderDeliveryStatus(delivery[o].status, answer) \in DeliveryStatuses
        BY <2>2, <2>3, <3>3 DEF MergeProviderDeliveryStatus, DeliveryStatuses
      <4> QED BY <3>3, <4>1, <1>0, <2>2 DEF RecordProgress
    <3> QED BY <1>3, <3>1, <3>2, <3>3 DEF ApplyDelivery
  <2>5. CASE n = o
    <3>1. /\ delivery'[n].status = d
          /\ delivery'[n].provider = delivery[n].provider
      BY <1>0, <2>2, <2>4, <2>5
    <3>2. Rank[delivery[n].status] <= Rank[d]
      BY <2>2, <2>3, <2>4, <2>5 DEF Rank, MergeProviderDeliveryStatus
    <3> QED BY <2>3, <2>5, <3>1, <3>2 DEF DeliveryOnlyAdvances
  <2>6. CASE n # o
    <3>1. delivery'[n] = delivery[n]
      BY <1>0, <2>4, <2>6
    <3>2. Rank[delivery[n].status] \in Nat
      BY <1>0 DEF Rank, DeliveryStatuses
    <3> QED BY <3>1, <3>2 DEF DeliveryOnlyAdvances
  <2> QED BY <2>5, <2>6
<1> DEFINE Moves ==
      \/ UNCHANGED delivery
      \/ \E c \in Calls : StartDispatch(c) /\ order[call[c].order] = "reserved"
      \/ \E c \in Calls : ApplyDelivery(c) /\ order[call[c].order] = "dispatching"
<1>4. Moves
  <2>1. CASE UNCHANGED vars
    BY <2>1 DEF vars, database
  <2>2. CASE \E p \in Purchases : CreditPurchase(p)
    BY <2>2 DEF CreditPurchase
  <2>3. CASE \E u \in Users : BlockUser(u)
    BY <2>3 DEF BlockUser
  <2>4. CASE \E r \in Providers, o \in Orders :
               \/ LateRequestArrives(r, o) \/ ProviderWorks(r, o)
               \/ \E outcome \in {"completed", "failed"} : ProviderDecides(r, o, outcome)
    BY <2>4 DEF LateRequestArrives, ProviderWorks, ProviderDecides, database
  <2>5. CASE \E c \in Callers, o \in Orders : CustomerExecutes(c, o) \/ CustomerAsks(c, o)
    BY <2>5 DEF CustomerExecutes, CustomerAsks, Reserve, ReserveNew, ReserveAgain, database
  <2>6. ASSUME NEW c \in Calls, Step(c) \/ CreateThrows(c) \/ CallFails(c)
        PROVE  Moves
    <3>1. CASE StartDispatch(c)
      BY <3>1 DEF StartDispatch
    <3>2. CASE ApplyDelivery(c)
      BY <3>2 DEF ApplyDelivery
    <3>3. CASE DispatchEnds(c) \/ QueryFinds(c) \/ QueryFindsNothing(c)
               \/ CallFails(c)
      BY <3>3 DEF DispatchEnds, QueryFinds, QueryFindsNothing, CallFails, database
    <3>4. CASE CreateDelivery(c) \/ CreateThrows(c)
      BY <3>4 DEF CreateDelivery, CreateThrows, database
    <3> QED BY <2>6, <3>1, <3>2, <3>3, <3>4 DEF Step
  <2>7. CASE \E p \in Processes : RecoveryStep(p) \/ ProcessCrashes(p)
    BY <2>7 DEF RecoveryStep, ListPending, RecoverOrder, SkipOrder, ProcessCrashes,
                Reserve, ReserveNew, ReserveAgain, database
  <2> QED BY <2>1, <2>2, <2>3, <2>4, <2>5, <2>6, <2>7 DEF Next
<1> QED BY <1>1, <1>2, <1>3, <1>4

(* An answer that was overtaken never takes a delivery back, a decided one   *)
(* stays decided, and a bound order keeps its provider.                      *)
THEOREM DeliveriesOnlyAdvance == Spec => DeliveryNeverRegresses
<1>1. Served /\ [Next]_vars => [\A o \in Orders : DeliveryOnlyAdvances(o)]_vars
  BY DeliveryStep
<1> QED BY <1>1, AlwaysServed, PTL DEF Spec, DeliveryNeverRegresses

-----------------------------------------------------------------------------
LEMMA UseMoves ==
  ASSUME Served, NEW o \in Orders, NEW s \in Statuses \ {"absent"},
         order' = [order EXCEPT ![o] = s]
  PROVE  /\ Holds' = [Holds EXCEPT ![o] = HoldOf(s)]
         /\ HeldCosts' = [HeldCosts EXCEPT ![o] = CostOf[o]]
<1>1. \A n \in Orders : order'[n] = IF n = o THEN s ELSE order[n]
  BY DEF Served, TypeOK
<1>2. Holds' = [Holds EXCEPT ![o] = HoldOf(s)]
  <2>1. Holds' = [n \in Orders |-> HoldOf(order'[n])]
    BY DEF Holds
  <2>2. [Holds EXCEPT ![o] = HoldOf(s)] =
          [n \in Orders |-> IF n = o THEN HoldOf(s) ELSE HoldOf(order[n])]
    BY DEF Holds
  <2>3. \A n \in Orders : HoldOf(order'[n]) = IF n = o THEN HoldOf(s) ELSE HoldOf(order[n])
    BY <1>1
  <2> QED BY <2>1, <2>2, <2>3
<1>3. HeldCosts' = [HeldCosts EXCEPT ![o] = CostOf[o]]
  BY <1>1 DEF HeldCosts
<1> QED BY <1>2, <1>3

LEMMA AccountKept ==
  ASSUME UNCHANGED <<order, available, credited>>
  PROVE  UNCHANGED Account!vars
BY DEF Account!vars, Holds, HoldOf, HeldCosts

LEMMA ReserveHolds ==
  ASSUME Served, NEW c \in Calls, NEW o \in Orders, Reserve(c, o)
  PROVE  [Account!Next]_(Account!vars)
<1>1. CASE ReserveAgain(o)
  BY <1>1, AccountKept DEF ReserveAgain, database, balances
<1>2. CASE ReserveNew(o)
  <2>1. order[o] = "absent" /\ order' = [order EXCEPT ![o] = "reserved"]
    BY <1>2 DEF ReserveNew
  <2>2. /\ Holds' = [Holds EXCEPT ![o] = HoldOf("reserved")]
        /\ HeldCosts' = [HeldCosts EXCEPT ![o] = CostOf[o]]
    BY <2>1, UseMoves DEF Served, Statuses
  <2>3. Holds[o] = "none" /\ HoldOf("reserved") = "held"
    BY <2>1, <2>2 DEF Holds, HoldOf
  <2>4. Account!Hold(o, CostOf[o])
    BY <1>2, <2>2, <2>3 DEF ReserveNew, Account!Hold
  <2> QED BY <2>4 DEF Account!Next
<1> QED BY <1>1, <1>2 DEF Reserve

LEMMA AnswerSettles ==
  ASSUME Served, NEW c \in Calls, ApplyDelivery(c)
  PROVE  [Account!Next]_(Account!vars)
<1> DEFINE o == call[c].order
<1>1. credited' = credited
  BY DEF ApplyDelivery
<1>2. o \in Orders
  BY DEF ApplyDelivery, Served, CallsKnow, Knows
<1>3. CASE UNCHANGED <<order, available>>
  BY <1>1, <1>3, AccountKept
<1>4. CASE order[o] = "dispatching" /\ Consume(o)
  <2>1. /\ Holds' = [Holds EXCEPT ![o] = HoldOf("completed")]
        /\ HeldCosts' = [HeldCosts EXCEPT ![o] = CostOf[o]]
    BY <1>2, <1>4, UseMoves DEF Consume, Served, Statuses
  <2>2. Holds[o] = "held" /\ HoldOf("completed") = "spent" /\ HeldCosts[o] = CostOf[o]
    BY <1>2, <1>4, <2>1 DEF Holds, HoldOf, HeldCosts
  <2>3. HeldCosts' = HeldCosts
    BY <1>2, <2>1, <2>2 DEF HeldCosts
  <2>4. Account!Spend(o)
    BY <1>1, <1>4, <2>1, <2>2, <2>3 DEF Consume, Account!Spend
  <2> QED BY <1>2, <2>4 DEF Account!Next
<1>5. CASE order[o] = "dispatching" /\ Release(o)
  <2>1. /\ Holds' = [Holds EXCEPT ![o] = HoldOf("released")]
        /\ HeldCosts' = [HeldCosts EXCEPT ![o] = CostOf[o]]
    BY <1>2, <1>5, UseMoves DEF Release, Served, Statuses
  <2>2. Holds[o] = "held" /\ HoldOf("released") = "returned" /\ HeldCosts[o] = CostOf[o]
    BY <1>2, <1>5, <2>1 DEF Holds, HoldOf, HeldCosts
  <2>3. HeldCosts' = HeldCosts
    BY <1>2, <2>1, <2>2 DEF HeldCosts
  <2>4. Account!GiveBack(o)
    BY <1>1, <1>5, <2>1, <2>2, <2>3 DEF Release, Account!GiveBack
  <2> QED BY <1>2, <2>4 DEF Account!Next
<1> QED BY <1>3, <1>4, <1>5 DEF ApplyDelivery, RecordProgress

(* Using Energy implements the customer account: a reservation is a hold,    *)
(* an applied answer spends it or gives it back, once, and nothing else that *)
(* calls, processes or providers do touches the account.                     *)
THEOREM UsageImplementsAccount == Spec => ImplementsCountAccount
<1>1. Init => Account!Init
  BY DEF Init, Account!Init, Holds, HoldOf, HeldCosts
<1>2. Served /\ [Next]_vars => [Account!Next]_(Account!vars)
  <2> SUFFICES ASSUME Served, [Next]_vars PROVE [Account!Next]_(Account!vars)
    OBVIOUS
  <2>1. CASE UNCHANGED vars
    BY <2>1, AccountKept DEF vars, database, balances
  <2>2. ASSUME NEW p \in Purchases, CreditPurchase(p) PROVE Account!Next
    <3>1. UNCHANGED <<Holds, HeldCosts>>
      BY <2>2 DEF CreditPurchase, Holds, HoldOf, HeldCosts
    <3>2. Account!Credit(p)
      BY <2>2, <3>1 DEF CreditPurchase, Account!Credit
    <3> QED BY <3>2 DEF Account!Next
  <2>3. ASSUME NEW u \in Users, BlockUser(u) PROVE UNCHANGED Account!vars
    BY <2>3, AccountKept DEF BlockUser, balances
  <2>4. ASSUME NEW r \in Providers, NEW o \in Orders,
               \/ LateRequestArrives(r, o) \/ ProviderWorks(r, o)
               \/ \E outcome \in {"completed", "failed"} : ProviderDecides(r, o, outcome)
        PROVE  UNCHANGED Account!vars
    BY <2>4, AccountKept
       DEF LateRequestArrives, ProviderWorks, ProviderDecides, database, balances
  <2>5. ASSUME NEW c \in Calls, NEW o \in Orders, CustomerAsks(c, o)
        PROVE  UNCHANGED Account!vars
    BY <2>5, AccountKept DEF CustomerAsks, database, balances
  <2>6. ASSUME NEW c \in Calls, StartDispatch(c) PROVE UNCHANGED Account!vars
    <3>1. call[c].order \in Orders
      BY <2>6 DEF StartDispatch, Served, CallsKnow, Knows
    <3>2. CASE UNCHANGED order
      BY <2>6, <3>2, AccountKept DEF StartDispatch, balances
    <3>3. CASE /\ order[call[c].order] = "reserved"
               /\ order' = [order EXCEPT ![call[c].order] = "dispatching"]
      <4>1. /\ Holds' = [Holds EXCEPT ![call[c].order] = HoldOf("dispatching")]
            /\ HeldCosts' = [HeldCosts EXCEPT ![call[c].order] = CostOf[call[c].order]]
        BY <3>1, <3>3, UseMoves DEF Statuses
      <4>2. /\ Holds[call[c].order] = "held" /\ HoldOf("dispatching") = "held"
            /\ HeldCosts[call[c].order] = CostOf[call[c].order]
        BY <3>1, <3>3 DEF Holds, HoldOf, HeldCosts
      <4>3. Holds' = Holds /\ HeldCosts' = HeldCosts
        BY <3>1, <4>1, <4>2 DEF Holds, HeldCosts
      <4> QED BY <2>6, <4>3 DEF StartDispatch, balances, Account!vars
    <3> QED BY <2>6, <3>2, <3>3 DEF StartDispatch
  <2>7. ASSUME NEW c \in Calls, Step(c) \/ CreateThrows(c) \/ CallFails(c)
        PROVE  [Account!Next]_(Account!vars)
    <3>1. CASE StartDispatch(c)
      BY <2>6, <3>1
    <3>2. CASE ApplyDelivery(c)
      BY <3>2, AnswerSettles
    <3>3. CASE DispatchEnds(c) \/ QueryFinds(c) \/ QueryFindsNothing(c)
               \/ CallFails(c)
      BY <3>3, AccountKept
         DEF DispatchEnds, QueryFinds, QueryFindsNothing, CallFails, database,
             balances
    <3>4. CASE CreateDelivery(c) \/ CreateThrows(c)
      BY <3>4, AccountKept DEF CreateDelivery, CreateThrows, database, balances
    <3> QED BY <2>7, <3>1, <3>2, <3>3, <3>4 DEF Step
  <2>8. ASSUME NEW c \in Callers, NEW o \in Orders, CustomerExecutes(c, o)
        PROVE  [Account!Next]_(Account!vars)
    BY <2>8, ReserveHolds DEF CustomerExecutes, Calls
  <2>9. ASSUME NEW p \in Processes, RecoveryStep(p)
        PROVE  [Account!Next]_(Account!vars)
    <3>1. CASE ListPending(p) \/ SkipOrder(p)
      BY <3>1, AccountKept DEF ListPending, SkipOrder, database, balances
    <3>2. CASE RecoverOrder(p)
      <4>1. PICK entry \in loop[p].page : Reserve(p, entry[1])
        BY <3>2 DEF RecoverOrder
      <4>2. p \in Calls /\ entry[1] \in Orders
        BY <4>1 DEF Calls, Served, TypeOK, LoopStates
      <4> QED BY <4>1, <4>2, ReserveHolds
    <3> QED BY <2>9, <3>1, <3>2 DEF RecoveryStep
  <2>10. ASSUME NEW p \in Processes, ProcessCrashes(p)
         PROVE  UNCHANGED Account!vars
    BY <2>10, AccountKept DEF ProcessCrashes, database, balances
  <2>11. \A c \in Callers : c \in Calls
    BY DEF Calls
  <2> QED BY <2>1, <2>2, <2>3, <2>4, <2>5, <2>7, <2>8, <2>9, <2>10, <2>11 DEF Next
<1> QED BY <1>1, <1>2, AlwaysServed, PTL DEF Spec, ImplementsCountAccount, Account!Spec

-----------------------------------------------------------------------------
(* The sum of the numbers v[x] over the elements x of a finite set, as the   *)
(* fold of Total computes it: one element after the other.                   *)
Pick(S) == CHOOSE x \in S : TRUE

IsSum(v, S, iter) ==
  iter = [T \in SUBSET S |-> IF T = {} THEN 0 ELSE v[Pick(T)] + iter[T \ {Pick(T)}]]

SumOf(v, S) == (CHOOSE iter : IsSum(v, S, iter))[S]

(* A non-empty set of subsets of a finite set has a smallest one: what       *)
(* stands for induction over the finite set.                                 *)
LEMMA SmallestSubset ==
  ASSUME NEW S, IsFiniteSet(S), NEW Bad, Bad \subseteq SUBSET S, Bad # {}
  PROVE  \E T \in Bad : \A U \in SUBSET T : U # T => U \notin Bad
<1>1. IsWellFoundedOn(StrictSubsetOrdering(S), SUBSET S)
  BY FS_StrictSubsetOrderingWellFounded, FS_FiniteSubsetsOfFinite
<1>2. PICK T \in Bad : \A U \in Bad : ~ (<<U, T>> \in StrictSubsetOrdering(S))
  BY <1>1, WFMin
<1>3. ASSUME NEW U \in SUBSET T, U # T PROVE U \notin Bad
  <2>1. U \in SUBSET S /\ T \in SUBSET S
    BY <1>2, <1>3
  <2>2. <<U, T>> \in StrictSubsetOrdering(S)
    BY <1>3, <2>1 DEF StrictSubsetOrdering
  <2> QED BY <1>2, <2>2
<1> QED BY <1>2, <1>3

(* The recursion has one solution on every finite set.                       *)
LEMMA SumsAgree ==
  ASSUME NEW v, NEW S, IsFiniteSet(S), NEW T \in SUBSET S,
         NEW g, IsSum(v, S, g), NEW h, IsSum(v, T, h)
  PROVE  \A U \in SUBSET T : g[U] = h[U]
<1> DEFINE Bad == {U \in SUBSET T : g[U] # h[U]}
<1> SUFFICES ASSUME Bad # {} PROVE FALSE
  OBVIOUS
<1>1. IsFiniteSet(T)
  BY FS_Subset
<1>0. Bad \subseteq SUBSET T
  OBVIOUS
<1>2. PICK U \in Bad : \A W \in SUBSET U : W # U => W \notin Bad
  <2> HIDE DEF Bad
  <2> QED BY <1>0, <1>1, SmallestSubset
<1>3. U # {}
  BY <1>2 DEF IsSum
<1>4. Pick(U) \in U
  BY <1>3 DEF Pick
<1>5. g[U \ {Pick(U)}] = h[U \ {Pick(U)}]
  BY <1>2, <1>4
<1>6. U \in SUBSET S /\ U \in SUBSET T /\ g[U] # h[U]
  BY <1>2
<1>7. /\ g[U] = v[Pick(U)] + g[U \ {Pick(U)}]
      /\ h[U] = v[Pick(U)] + h[U \ {Pick(U)}]
  BY <1>3, <1>6 DEF IsSum
<1> QED BY <1>5, <1>6, <1>7

LEMMA SumsExist ==
  ASSUME NEW v, NEW S, IsFiniteSet(S)
  PROVE  \E g : IsSum(v, S, g)
<1> DEFINE Bad == {T \in SUBSET S : ~ \E g : IsSum(v, T, g)}
<1> SUFFICES ASSUME Bad # {} PROVE FALSE
  OBVIOUS
<1>0. Bad \subseteq SUBSET S
  OBVIOUS
<1>1. PICK T \in Bad : \A U \in SUBSET T : U # T => U \notin Bad
  <2> HIDE DEF Bad
  <2> QED BY <1>0, SmallestSubset
<1>2. \A U \in SUBSET T : U # T => IsSum(v, U, CHOOSE iter : IsSum(v, U, iter))
  BY <1>1
<1> DEFINE g == [U \in SUBSET T |-> IF U = {} THEN 0
                                   ELSE v[Pick(U)] + SumOf(v, U \ {Pick(U)})]
<1>3. ASSUME NEW U \in SUBSET T, U # T PROVE g[U] = SumOf(v, U)
  <2> DEFINE h == CHOOSE iter : IsSum(v, U, iter)
             W == U \ {Pick(U)}
             k == CHOOSE iter : IsSum(v, W, iter)
  <2>1. IsSum(v, U, h) /\ SumOf(v, U) = h[U]
    BY <1>2, <1>3 DEF SumOf
  <2>2. CASE U = {}
    BY <2>1, <2>2 DEF IsSum
  <2>3. CASE U # {}
    <3>1. Pick(U) \in U
      BY <2>3 DEF Pick
    <3>2. IsSum(v, W, k) /\ SumOf(v, W) = k[W]
      BY <1>2, <1>3, <3>1 DEF SumOf
    <3>3. IsFiniteSet(U) /\ W \in SUBSET U
      BY FS_Subset
    <3> HIDE DEF h, k
    <3>4. h[W] = k[W]
      BY <2>1, <3>2, <3>3, SumsAgree
    <3>5. h[U] = v[Pick(U)] + h[W]
      BY <2>1, <2>3 DEF IsSum
    <3> QED BY <2>1, <2>3, <3>2, <3>4, <3>5
  <2> QED BY <2>2, <2>3
<1>4. ASSUME NEW U \in SUBSET T, U # {} PROVE g[U \ {Pick(U)}] = SumOf(v, U \ {Pick(U)})
  <2>1. Pick(U) \in U
    BY <1>4 DEF Pick
  <2> QED BY <1>3, <2>1
<1>5. g = [U \in SUBSET T |-> IF U = {} THEN 0 ELSE v[Pick(U)] + g[U \ {Pick(U)}]]
  BY <1>4
<1>6. IsSum(v, T, g)
  BY <1>5 DEF IsSum
<1> QED BY <1>1, <1>6

LEMMA SumOfNone ==
  ASSUME NEW v PROVE SumOf(v, {}) = 0
<1>1. PICK g : IsSum(v, {}, g)
  BY FS_EmptySet, SumsExist
<1>2. IsSum(v, {}, CHOOSE iter : IsSum(v, {}, iter))
  BY <1>1
<1> QED BY <1>2 DEF SumOf, IsSum

LEMMA SumUnfolds ==
  ASSUME NEW v, NEW S, IsFiniteSet(S), S # {}
  PROVE  SumOf(v, S) = v[Pick(S)] + SumOf(v, S \ {Pick(S)})
<1> DEFINE W == S \ {Pick(S)}
           h == CHOOSE iter : IsSum(v, S, iter)
           k == CHOOSE iter : IsSum(v, W, iter)
<1>1. IsFiniteSet(W)
  BY FS_Subset
<1>2. IsSum(v, S, h) /\ IsSum(v, W, k)
  BY <1>1, SumsExist
<1>3. SumOf(v, S) = h[S] /\ SumOf(v, W) = k[W]
  BY DEF SumOf
<1> HIDE DEF h, k
<1>4. h[W] = k[W]
  BY <1>2, SumsAgree
<1>5. h[S] = v[Pick(S)] + h[W]
  BY <1>2 DEF IsSum
<1> QED BY <1>3, <1>4, <1>5

LEMMA SumIsInteger ==
  ASSUME NEW v, NEW S, IsFiniteSet(S), \A x \in S : v[x] \in Int
  PROVE  SumOf(v, S) \in Int
<1> DEFINE Bad == {T \in SUBSET S : SumOf(v, T) \notin Int}
<1> SUFFICES ASSUME Bad # {} PROVE FALSE
  OBVIOUS
<1>0. Bad \subseteq SUBSET S
  OBVIOUS
<1>1. PICK T \in Bad : \A U \in SUBSET T : U # T => U \notin Bad
  <2> HIDE DEF Bad
  <2> QED BY <1>0, SmallestSubset
<1>2. IsFiniteSet(T)
  BY FS_Subset
<1>3. T # {}
  <2>1. T = {} => SumOf(v, T) = 0
    BY SumOfNone
  <2> QED BY <1>1, <2>1
<1>4. Pick(T) \in T
  BY <1>3 DEF Pick
<1>5. SumOf(v, T \ {Pick(T)}) \in Int
  BY <1>1, <1>4
<1>6. SumOf(v, T) = v[Pick(T)] + SumOf(v, T \ {Pick(T)})
  BY <1>2, <1>3, SumUnfolds
<1> QED BY <1>1, <1>4, <1>5, <1>6

(* An element may be taken out of a sum whatever the order of the fold.      *)
LEMMA SumWithout ==
  ASSUME NEW v, NEW S, IsFiniteSet(S), \A x \in S : v[x] \in Int, NEW x \in S
  PROVE  SumOf(v, S) = v[x] + SumOf(v, S \ {x})
<1> DEFINE Bad == {T \in SUBSET S : \E y \in T : SumOf(v, T) # v[y] + SumOf(v, T \ {y})}
<1> SUFFICES ASSUME Bad # {} PROVE FALSE
  OBVIOUS
<1>0. Bad \subseteq SUBSET S
  OBVIOUS
<1>1. PICK T \in Bad : \A U \in SUBSET T : U # T => U \notin Bad
  <2> HIDE DEF Bad
  <2> QED BY <1>0, SmallestSubset
<1>2. PICK y \in T : SumOf(v, T) # v[y] + SumOf(v, T \ {y})
  BY <1>1
<1> DEFINE p == Pick(T)
<1>3. IsFiniteSet(T) /\ p \in T
  BY <1>2, FS_Subset DEF Pick
<1> HIDE DEF p
<1>4. SumOf(v, T) = v[p] + SumOf(v, T \ {p})
  BY <1>2, <1>3, SumUnfolds DEF p
<1>5. y # p
  BY <1>2, <1>4
<1>6. SumOf(v, T \ {p}) = v[y] + SumOf(v, (T \ {p}) \ {y})
  BY <1>1, <1>2, <1>3, <1>5
<1>7. SumOf(v, T \ {y}) = v[p] + SumOf(v, (T \ {y}) \ {p})
  BY <1>1, <1>2, <1>3, <1>5
<1>8. (T \ {p}) \ {y} = (T \ {y}) \ {p}
  OBVIOUS
<1>9. SumOf(v, (T \ {y}) \ {p}) \in Int
  <2>1. IsFiniteSet((T \ {y}) \ {p})
    BY <1>3, FS_Subset
  <2> QED BY <2>1, SumIsInteger
<1>10. v[p] \in Int /\ v[y] \in Int
  BY <1>2, <1>3
<1>11. \A a, b, n \in Int : a + (b + n) = b + (a + n)
  OBVIOUS
<1>12. v[p] + (v[y] + SumOf(v, (T \ {y}) \ {p})) = v[y] + (v[p] + SumOf(v, (T \ {y}) \ {p}))
  BY <1>9, <1>10, <1>11
<1>13. v[p] + SumOf(v, T \ {p}) = v[y] + SumOf(v, T \ {y})
  BY <1>6, <1>7, <1>8, <1>12
<1> QED BY <1>2, <1>4, <1>13

(* A sum grows by what is added to the set.                                  *)
LEMMA SumWith ==
  ASSUME NEW v, NEW S, IsFiniteSet(S), NEW x, x \notin S,
         \A y \in S \cup {x} : v[y] \in Int
  PROVE  /\ SumOf(v, S \cup {x}) = SumOf(v, S) + v[x]
         /\ SumOf(v, S) \in Int
<1>1. IsFiniteSet(S \cup {x})
  BY FS_AddElement
<1>2. SumOf(v, S \cup {x}) = v[x] + SumOf(v, (S \cup {x}) \ {x})
  BY <1>1, SumWithout
<1>3. (S \cup {x}) \ {x} = S
  OBVIOUS
<1>4. SumOf(v, S) \in Int
  BY SumIsInteger
<1>5. v[x] \in Int
  OBVIOUS
<1>6. SumOf(v, S \cup {x}) = v[x] + SumOf(v, S)
  BY <1>2, <1>3
<1> QED BY <1>4, <1>5, <1>6

(* Only the numbers of the set count.                                        *)
LEMMA SumOfSame ==
  ASSUME NEW v, NEW w, NEW S, IsFiniteSet(S), \A x \in S : v[x] = w[x]
  PROVE  SumOf(v, S) = SumOf(w, S)
<1> DEFINE Bad == {T \in SUBSET S : SumOf(v, T) # SumOf(w, T)}
<1> SUFFICES ASSUME Bad # {} PROVE FALSE
  OBVIOUS
<1>0. Bad \subseteq SUBSET S
  OBVIOUS
<1>1. PICK T \in Bad : \A U \in SUBSET T : U # T => U \notin Bad
  <2> HIDE DEF Bad
  <2> QED BY <1>0, SmallestSubset
<1>2. IsFiniteSet(T)
  BY FS_Subset
<1>3. T # {}
  <2>1. T = {} => SumOf(v, T) = 0 /\ SumOf(w, T) = 0
    BY SumOfNone
  <2> QED BY <1>1, <2>1
<1>4. Pick(T) \in T
  BY <1>3 DEF Pick
<1>5. SumOf(v, T \ {Pick(T)}) = SumOf(w, T \ {Pick(T)})
  BY <1>1, <1>4
<1>6. /\ SumOf(v, T) = v[Pick(T)] + SumOf(v, T \ {Pick(T)})
      /\ SumOf(w, T) = w[Pick(T)] + SumOf(w, T \ {Pick(T)})
  BY <1>2, <1>3, SumUnfolds
<1> QED BY <1>1, <1>4, <1>5, <1>6

(* A sum of natural numbers is one, and no smaller than any of them.         *)
LEMMA SumOfNaturals ==
  ASSUME NEW v, NEW S, IsFiniteSet(S), \A x \in S : v[x] \in Nat
  PROVE  SumOf(v, S) \in Nat /\ \A x \in S : v[x] <= SumOf(v, S)
<1> DEFINE Bad == {T \in SUBSET S : SumOf(v, T) \notin Nat}
<1>1. Bad = {}
  <2> SUFFICES ASSUME Bad # {} PROVE FALSE
    OBVIOUS
  <2>0. Bad \subseteq SUBSET S
    OBVIOUS
  <2>1. PICK T \in Bad : \A U \in SUBSET T : U # T => U \notin Bad
    <3> HIDE DEF Bad
    <3> QED BY <2>0, SmallestSubset
  <2>2. IsFiniteSet(T)
    BY FS_Subset
  <2>3. T # {}
    <3>1. T = {} => SumOf(v, T) = 0
      BY SumOfNone
    <3> QED BY <2>1, <3>1
  <2>4. Pick(T) \in T
    BY <2>3 DEF Pick
  <2>5. SumOf(v, T \ {Pick(T)}) \in Nat
    BY <2>1, <2>4
  <2>6. SumOf(v, T) = v[Pick(T)] + SumOf(v, T \ {Pick(T)})
    BY <2>2, <2>3, SumUnfolds
  <2> QED BY <2>1, <2>4, <2>5, <2>6
<1>2. \A T \in SUBSET S : SumOf(v, T) \in Nat
  BY <1>1
<1>3. ASSUME NEW x \in S PROVE v[x] <= SumOf(v, S)
  <2>1. SumOf(v, S) = v[x] + SumOf(v, S \ {x})
    BY SumWithout
  <2>2. SumOf(v, S \ {x}) \in Nat /\ v[x] \in Nat
    BY <1>2
  <2> QED BY <2>1, <2>2
<1> QED BY <1>2, <1>3

-----------------------------------------------------------------------------
(* What the balance of a customer adds up to: the purchases, the rows of the *)
(* ledger, and the cost of the orders that are still held.                   *)
AvailableDeltas == [l \in Rows |-> l.availableDelta]
ReservedDeltas == [l \in Rows |-> l.reservedDelta]

BoughtBy(u) == {p \in credited : BuyerOf[p] = u}
RowsOf(u) == {l \in ledger : SpenderOf[l.order] = u}
HeldBy(u) == {o \in Orders : order[o] \in {"reserved", "dispatching"} /\ SpenderOf[o] = u}

Balanced ==
  /\ IsFiniteSet(credited) /\ IsFiniteSet(ledger)
  /\ \A u \in Users :
       /\ available[u] = SumOf(CountOf, BoughtBy(u)) + SumOf(AvailableDeltas, RowsOf(u))
       /\ reserved[u] = SumOf(ReservedDeltas, RowsOf(u))
       /\ IsFiniteSet(HeldBy(u)) /\ reserved[u] = SumOf(CostOf, HeldBy(u))

(* The sums of BalancesMatchLedger are these sums.                           *)
LEMMA TotalOfCounts ==
  ASSUME NEW S
  PROVE  Total(S, LAMBDA p : CountOf[p]) = SumOf(CountOf, S)
BY DEF Total, MapThenSumSet, MapThenFoldSet, SumOf, IsSum, Pick

LEMMA TotalOfRows ==
  ASSUME NEW S, IsFiniteSet(S), S \subseteq Rows
  PROVE  /\ Total(S, LAMBDA l : l.availableDelta) = SumOf(AvailableDeltas, S)
         /\ Total(S, LAMBDA l : l.reservedDelta) = SumOf(ReservedDeltas, S)
<1>1. Total(S, LAMBDA l : l.availableDelta) = SumOf([l \in S |-> l.availableDelta], S)
  BY DEF Total, MapThenSumSet, MapThenFoldSet, SumOf, IsSum, Pick
<1>2. Total(S, LAMBDA l : l.reservedDelta) = SumOf([l \in S |-> l.reservedDelta], S)
  BY DEF Total, MapThenSumSet, MapThenFoldSet, SumOf, IsSum, Pick
<1>3. /\ \A x \in S : AvailableDeltas[x] = [l \in S |-> l.availableDelta][x]
      /\ \A x \in S : ReservedDeltas[x] = [l \in S |-> l.reservedDelta][x]
  BY DEF AvailableDeltas, ReservedDeltas
<1>4. SumOf(AvailableDeltas, S) = SumOf([l \in S |-> l.availableDelta], S)
  BY <1>3, SumOfSame
<1>5. SumOf(ReservedDeltas, S) = SumOf([l \in S |-> l.reservedDelta], S)
  BY <1>3, SumOfSame
<1> QED BY <1>1, <1>2, <1>4, <1>5

LEMMA BalancedMatches ==
  ASSUME Served, Balanced
  PROVE  BalancesMatchLedger
<1> SUFFICES ASSUME NEW u \in Users
    PROVE  /\ available[u] = Total({p \in credited : BuyerOf[p] = u}, LAMBDA p : CountOf[p])
                + Total({l \in ledger : SpenderOf[l.order] = u}, LAMBDA l : l.availableDelta)
           /\ reserved[u] = Total({l \in ledger : SpenderOf[l.order] = u},
                                  LAMBDA l : l.reservedDelta)
  BY DEF BalancesMatchLedger
<1>1. IsFiniteSet(RowsOf(u)) /\ RowsOf(u) \subseteq Rows
  <2>1. RowsOf(u) \in SUBSET ledger /\ IsFiniteSet(ledger)
    BY DEF RowsOf, Balanced
  <2> QED BY <2>1, FS_Subset DEF Served, TypeOK
<1>2. /\ available[u] = SumOf(CountOf, BoughtBy(u)) + SumOf(AvailableDeltas, RowsOf(u))
      /\ reserved[u] = SumOf(ReservedDeltas, RowsOf(u))
  BY DEF Balanced
<1>3. Total(BoughtBy(u), LAMBDA p : CountOf[p]) = SumOf(CountOf, BoughtBy(u))
  BY TotalOfCounts
<1>4. /\ Total(RowsOf(u), LAMBDA l : l.availableDelta) = SumOf(AvailableDeltas, RowsOf(u))
      /\ Total(RowsOf(u), LAMBDA l : l.reservedDelta) = SumOf(ReservedDeltas, RowsOf(u))
  BY <1>1, TotalOfRows
<1> QED BY <1>2, <1>3, <1>4 DEF BoughtBy, RowsOf

(* The parts of a customer's balance are finite sets of integers.            *)
LEMMA PartsOfBalance ==
  ASSUME Served, Balanced, NEW u \in Users
  PROVE  /\ IsFiniteSet(BoughtBy(u)) /\ \A p \in BoughtBy(u) : CountOf[p] \in Int
         /\ IsFiniteSet(RowsOf(u))
         /\ \A l \in RowsOf(u) : AvailableDeltas[l] \in Int /\ ReservedDeltas[l] \in Int
         /\ IsFiniteSet(HeldBy(u)) /\ \A o \in HeldBy(u) : CostOf[o] \in Nat
         /\ SumOf(CountOf, BoughtBy(u)) \in Int
         /\ SumOf(AvailableDeltas, RowsOf(u)) \in Int
         /\ SumOf(ReservedDeltas, RowsOf(u)) \in Int
<1>1. IsFiniteSet(BoughtBy(u))
  <2>1. BoughtBy(u) \in SUBSET credited /\ IsFiniteSet(credited)
    BY DEF BoughtBy, Balanced
  <2> QED BY <2>1, FS_Subset
<1>2. IsFiniteSet(RowsOf(u))
  <2>1. RowsOf(u) \in SUBSET ledger /\ IsFiniteSet(ledger)
    BY DEF RowsOf, Balanced
  <2> QED BY <2>1, FS_Subset
<1>3. \A p \in BoughtBy(u) : CountOf[p] \in Int
  BY PurchasesAreBought DEF BoughtBy, Served, TypeOK
<1>4. \A l \in RowsOf(u) : AvailableDeltas[l] \in Int /\ ReservedDeltas[l] \in Int
  BY DEF RowsOf, Served, TypeOK, Rows, AvailableDeltas, ReservedDeltas
<1>5. IsFiniteSet(HeldBy(u)) /\ \A o \in HeldBy(u) : CostOf[o] \in Nat
  BY OrdersAreSpent DEF HeldBy, Balanced
<1>6. SumOf(CountOf, BoughtBy(u)) \in Int
  BY <1>1, <1>3, SumIsInteger
<1>7. /\ SumOf(AvailableDeltas, RowsOf(u)) \in Int
      /\ SumOf(ReservedDeltas, RowsOf(u)) \in Int
  BY <1>2, <1>4, SumIsInteger
<1> QED BY <1>1, <1>2, <1>3, <1>4, <1>5, <1>6, <1>7

(* A step that leaves the balances, the ledger and the held orders alone.    *)
LEMMA BalanceKept ==
  ASSUME Balanced, UNCHANGED <<available, reserved, ledger, credited>>,
         \A u \in Users : HeldBy(u)' = HeldBy(u)
  PROVE  Balanced'
<1>1. \A u \in Users : BoughtBy(u)' = BoughtBy(u) /\ RowsOf(u)' = RowsOf(u)
  BY DEF BoughtBy, RowsOf
<1> QED BY <1>1 DEF Balanced

LEMMA OrdersKept ==
  ASSUME Balanced, UNCHANGED <<available, reserved, ledger, credited, order>>
  PROVE  Balanced'
BY BalanceKept DEF HeldBy

(* One new row of one order moves the balance of its customer by its deltas. *)
LEMMA RowMovesBalance ==
  ASSUME Served, Balanced, NEW o \in Orders, NEW row \in Rows,
         row.order = o, row \notin ledger,
         ledger' = ledger \cup {row}, credited' = credited,
         available' = [available EXCEPT ![SpenderOf[o]] = @ + row.availableDelta],
         reserved' = [reserved EXCEPT ![SpenderOf[o]] = @ + row.reservedDelta],
         \A u \in Users \ {SpenderOf[o]} : HeldBy(u)' = HeldBy(u),
         \/ /\ row.reservedDelta = CostOf[o]
            /\ o \notin HeldBy(SpenderOf[o])
            /\ HeldBy(SpenderOf[o])' = HeldBy(SpenderOf[o]) \cup {o}
         \/ /\ row.reservedDelta = -CostOf[o]
            /\ o \in HeldBy(SpenderOf[o])
            /\ HeldBy(SpenderOf[o])' = HeldBy(SpenderOf[o]) \ {o}
  PROVE  Balanced'
<1>1. IsFiniteSet(credited') /\ IsFiniteSet(ledger')
  BY FS_AddElement DEF Balanced
<1>2. /\ available \in [Users -> Nat] /\ reserved \in [Users -> Nat]
      /\ SpenderOf[o] \in Users /\ CostOf[o] \in Nat
      /\ row.availableDelta \in Int /\ row.reservedDelta \in Int
      /\ AvailableDeltas[row] = row.availableDelta
      /\ ReservedDeltas[row] = row.reservedDelta
  BY OrdersAreSpent DEF Served, TypeOK, Rows, AvailableDeltas, ReservedDeltas
<1>3. ASSUME NEW u \in Users, u # SpenderOf[o]
      PROVE  /\ available'[u] = SumOf(CountOf, BoughtBy(u)') + SumOf(AvailableDeltas, RowsOf(u)')
             /\ reserved'[u] = SumOf(ReservedDeltas, RowsOf(u)')
             /\ IsFiniteSet(HeldBy(u)') /\ reserved'[u] = SumOf(CostOf, HeldBy(u)')
  <2>1. /\ BoughtBy(u)' = BoughtBy(u) /\ RowsOf(u)' = RowsOf(u) /\ HeldBy(u)' = HeldBy(u)
        /\ available'[u] = available[u] /\ reserved'[u] = reserved[u]
    BY <1>2, <1>3 DEF BoughtBy, RowsOf
  <2> QED BY <2>1 DEF Balanced
<1>4. ASSUME NEW u \in Users, u = SpenderOf[o]
      PROVE  /\ available'[u] = SumOf(CountOf, BoughtBy(u)') + SumOf(AvailableDeltas, RowsOf(u)')
             /\ reserved'[u] = SumOf(ReservedDeltas, RowsOf(u)')
             /\ IsFiniteSet(HeldBy(u)') /\ reserved'[u] = SumOf(CostOf, HeldBy(u)')
  <2>1. /\ BoughtBy(u)' = BoughtBy(u) /\ RowsOf(u)' = RowsOf(u) \cup {row}
        /\ row \notin RowsOf(u)
    BY <1>4 DEF BoughtBy, RowsOf
  <2>2. /\ available'[u] = available[u] + row.availableDelta
        /\ reserved'[u] = reserved[u] + row.reservedDelta
    BY <1>2, <1>4
  <2>3. /\ SumOf(AvailableDeltas, RowsOf(u)') = SumOf(AvailableDeltas, RowsOf(u)) + row.availableDelta
        /\ SumOf(ReservedDeltas, RowsOf(u)') = SumOf(ReservedDeltas, RowsOf(u)) + row.reservedDelta
    <3>1. /\ IsFiniteSet(RowsOf(u))
          /\ \A l \in RowsOf(u) \cup {row} : AvailableDeltas[l] \in Int /\ ReservedDeltas[l] \in Int
      BY <1>2, PartsOfBalance
    <3> HIDE DEF AvailableDeltas, ReservedDeltas
    <3>2. SumOf(AvailableDeltas, RowsOf(u) \cup {row})
            = SumOf(AvailableDeltas, RowsOf(u)) + AvailableDeltas[row]
      BY <2>1, <3>1, SumWith
    <3>3. SumOf(ReservedDeltas, RowsOf(u) \cup {row})
            = SumOf(ReservedDeltas, RowsOf(u)) + ReservedDeltas[row]
      BY <2>1, <3>1, SumWith
    <3> QED BY <1>2, <2>1, <3>2, <3>3
  <2>4. /\ available[u] = SumOf(CountOf, BoughtBy(u)) + SumOf(AvailableDeltas, RowsOf(u))
        /\ reserved[u] = SumOf(ReservedDeltas, RowsOf(u))
        /\ reserved[u] = SumOf(CostOf, HeldBy(u))
    BY DEF Balanced
  <2>5. available'[u] = SumOf(CountOf, BoughtBy(u)') + SumOf(AvailableDeltas, RowsOf(u)')
    <3>1. /\ SumOf(CountOf, BoughtBy(u)) \in Int
          /\ SumOf(AvailableDeltas, RowsOf(u)) \in Int
      BY PartsOfBalance
    <3>2. \A a, b, d \in Int : (a + b) + d = a + (b + d)
      OBVIOUS
    <3> QED BY <1>2, <2>1, <2>2, <2>3, <2>4, <3>1, <3>2
  <2>6. reserved'[u] = SumOf(ReservedDeltas, RowsOf(u)')
    BY <2>2, <2>3, <2>4
  <2>7. IsFiniteSet(HeldBy(u)) /\ \A n \in HeldBy(u) : CostOf[n] \in Nat
    BY PartsOfBalance
  <2>8. IsFiniteSet(HeldBy(u)') /\ reserved'[u] = SumOf(CostOf, HeldBy(u)')
    <3>1. CASE /\ row.reservedDelta = CostOf[o] /\ o \notin HeldBy(u)
               /\ HeldBy(u)' = HeldBy(u) \cup {o}
      <4>1. \A n \in HeldBy(u) \cup {o} : CostOf[n] \in Int
        BY <1>2, <2>7
      <4>2. SumOf(CostOf, HeldBy(u) \cup {o}) = SumOf(CostOf, HeldBy(u)) + CostOf[o]
        BY <2>7, <3>1, <4>1, SumWith
      <4>3. IsFiniteSet(HeldBy(u) \cup {o})
        BY <2>7, FS_AddElement
      <4> QED BY <2>2, <2>4, <3>1, <4>2, <4>3
    <3>2. CASE /\ row.reservedDelta = -CostOf[o] /\ o \in HeldBy(u)
               /\ HeldBy(u)' = HeldBy(u) \ {o}
      <4>1. SumOf(CostOf, HeldBy(u)) = CostOf[o] + SumOf(CostOf, HeldBy(u) \ {o})
        BY <2>7, <3>2, SumWithout
      <4>2. IsFiniteSet(HeldBy(u) \ {o})
        BY <2>7, FS_RemoveElement
      <4>3. SumOf(CostOf, HeldBy(u) \ {o}) \in Int
        BY <2>7, <4>2, SumIsInteger
      <4>4. \A a, b \in Int : (a + b) + (-a) = b
        OBVIOUS
      <4>5. CostOf[o] \in Int
        BY <1>2
      <4>6. (CostOf[o] + SumOf(CostOf, HeldBy(u) \ {o})) + (-CostOf[o])
              = SumOf(CostOf, HeldBy(u) \ {o})
        BY <4>3, <4>4, <4>5
      <4> QED BY <2>2, <2>4, <3>2, <4>1, <4>2, <4>6
    <3> QED BY <1>4, <3>1, <3>2
  <2> QED BY <2>5, <2>6, <2>8
<1> QED BY <1>1, <1>3, <1>4 DEF Balanced

(* The status of one order changes: what its customer holds follows.         *)
LEMMA HeldFollows ==
  ASSUME Served, NEW o \in Orders, NEW s \in Statuses, order' = [order EXCEPT ![o] = s]
  PROVE  /\ \A u \in Users \ {SpenderOf[o]} : HeldBy(u)' = HeldBy(u)
         /\ HeldBy(SpenderOf[o])' = IF s \in {"reserved", "dispatching"}
                                      THEN HeldBy(SpenderOf[o]) \cup {o}
                                      ELSE HeldBy(SpenderOf[o]) \ {o}
         /\ o \in HeldBy(SpenderOf[o]) <=> order[o] \in {"reserved", "dispatching"}
<1>1. \A n \in Orders : order'[n] = IF n = o THEN s ELSE order[n]
  BY DEF Served, TypeOK
<1> QED BY <1>1 DEF HeldBy

(* A row of a reason that the order has no row of is new.                    *)
LEMMA NewRows ==
  ASSUME Served, NEW o \in Orders
  PROVE  /\ order[o] = "absent" => ReserveRow(o) \notin ledger
         /\ order[o] = "dispatching" => ConsumeRow(o) \notin ledger /\ ReleaseRow(o) \notin ledger
<1>1. {l \in ledger : l.order = o} = RowsFor(o)
  BY DEF Served, LedgerMatchesOrders
<1>2. ReserveRow(o).order = o /\ ConsumeRow(o).order = o /\ ReleaseRow(o).order = o
  BY DEF ReserveRow, ConsumeRow, ReleaseRow
<1>3. ReserveRow(o) # ConsumeRow(o) /\ ReserveRow(o) # ReleaseRow(o)
  <2>1. /\ ReserveRow(o).reason = "energy_reserve"
        /\ ConsumeRow(o).reason = "energy_consume"
        /\ ReleaseRow(o).reason = "energy_release"
    BY DEF ReserveRow, ConsumeRow, ReleaseRow
  <2> QED BY <2>1
<1> QED BY <1>1, <1>2, <1>3 DEF RowsFor

LEMMA ReserveBalances ==
  ASSUME Served, Balanced, NEW c \in Calls, NEW o \in Orders, Reserve(c, o)
  PROVE  Balanced'
<1>1. CASE ReserveAgain(o)
  BY <1>1, OrdersKept DEF ReserveAgain, database, balances
<1>2. CASE ReserveNew(o)
  <2>1. /\ order[o] = "absent" /\ order' = [order EXCEPT ![o] = "reserved"]
        /\ ledger' = ledger \cup {ReserveRow(o)} /\ credited' = credited
        /\ available' = [available EXCEPT ![SpenderOf[o]] = @ - CostOf[o]]
        /\ reserved' = [reserved EXCEPT ![SpenderOf[o]] = @ + CostOf[o]]
    BY <1>2 DEF ReserveNew
  <2>2. /\ ReserveRow(o) \in Rows /\ ReserveRow(o).order = o
        /\ ReserveRow(o).availableDelta = -CostOf[o]
        /\ ReserveRow(o).reservedDelta = CostOf[o]
    BY OrdersAreSpent DEF ReserveRow, Rows
  <2>3. available' = [available EXCEPT ![SpenderOf[o]] = @ + ReserveRow(o).availableDelta]
    <3>1. SpenderOf[o] \in Users /\ CostOf[o] \in Nat /\ available \in [Users -> Nat]
      BY OrdersAreSpent DEF Served, TypeOK
    <3>2. available[SpenderOf[o]] - CostOf[o] = available[SpenderOf[o]] + (-CostOf[o])
      BY <3>1
    <3> QED BY <2>1, <2>2, <3>2
  <2>4. ReserveRow(o) \notin ledger
    BY <2>1, NewRows
  <2>5. /\ \A u \in Users \ {SpenderOf[o]} : HeldBy(u)' = HeldBy(u)
        /\ HeldBy(SpenderOf[o])' = HeldBy(SpenderOf[o]) \cup {o}
        /\ o \notin HeldBy(SpenderOf[o])
    <3>1. "reserved" \in Statuses
      BY DEF Statuses
    <3> QED BY <2>1, <3>1, HeldFollows
  <2> DEFINE row == ReserveRow(o)
  <2>6. /\ row \in Rows /\ row.order = o /\ row \notin ledger
        /\ ledger' = ledger \cup {row}
        /\ available' = [available EXCEPT ![SpenderOf[o]] = @ + row.availableDelta]
        /\ reserved' = [reserved EXCEPT ![SpenderOf[o]] = @ + row.reservedDelta]
        /\ row.reservedDelta = CostOf[o]
    BY <2>1, <2>2, <2>3, <2>4
  <2> HIDE DEF row
  <2> QED BY <2>1, <2>5, <2>6, RowMovesBalance
<1> QED BY <1>1, <1>2 DEF Reserve

LEMMA StartDispatchBalances ==
  ASSUME Served, Balanced, NEW c \in Calls, StartDispatch(c)
  PROVE  Balanced'
<1>1. PICK o \in Orders : o = call[c].order
  BY DEF StartDispatch, Served, CallsKnow, Knows
<1>2. UNCHANGED <<available, reserved, ledger, credited>>
  BY DEF StartDispatch, balances
<1>3. CASE UNCHANGED order
  BY <1>2, <1>3, OrdersKept
<1>4. CASE order[o] = "reserved" /\ order' = [order EXCEPT ![o] = "dispatching"]
  <2>1. "dispatching" \in Statuses
    BY DEF Statuses
  <2>2. /\ \A u \in Users \ {SpenderOf[o]} : HeldBy(u)' = HeldBy(u)
        /\ HeldBy(SpenderOf[o])' = HeldBy(SpenderOf[o]) \cup {o}
        /\ o \in HeldBy(SpenderOf[o])
    BY <1>4, <2>1, HeldFollows
  <2>3. \A u \in Users : HeldBy(u)' = HeldBy(u)
    BY <2>2
  <2> QED BY <1>2, <2>3, BalanceKept
<1> QED BY <1>1, <1>3, <1>4 DEF StartDispatch

LEMMA AnswerBalances ==
  ASSUME Served, Balanced, NEW c \in Calls, ApplyDelivery(c)
  PROVE  Balanced'
<1>0. PICK o \in Orders : o = call[c].order
  BY DEF ApplyDelivery, Served, CallsKnow, Knows
<1>1. credited' = credited
  BY DEF ApplyDelivery
<1>2. /\ SpenderOf[o] \in Users /\ CostOf[o] \in Nat
      /\ available \in [Users -> Nat] /\ reserved \in [Users -> Nat]
  BY OrdersAreSpent DEF Served, TypeOK
<1>3. \/ UNCHANGED <<order, available, reserved, ledger>>
      \/ order[o] = "dispatching" /\ Consume(o)
      \/ order[o] = "dispatching" /\ Release(o)
  BY <1>0 DEF ApplyDelivery, RecordProgress
<1>4. ASSUME NEW s \in {"completed", "released"}, NEW row \in Rows,
             order[o] = "dispatching", order' = [order EXCEPT ![o] = s],
             row.order = o, row \notin ledger, ledger' = ledger \cup {row},
             row.reservedDelta = -CostOf[o],
             available' = [available EXCEPT ![SpenderOf[o]] = @ + row.availableDelta],
             reserved' = [reserved EXCEPT ![SpenderOf[o]] = @ - CostOf[o]]
      PROVE  Balanced'
  <2>1. s \in Statuses
    BY DEF Statuses
  <2>2. /\ \A u \in Users \ {SpenderOf[o]} : HeldBy(u)' = HeldBy(u)
        /\ HeldBy(SpenderOf[o])' = HeldBy(SpenderOf[o]) \ {o}
        /\ o \in HeldBy(SpenderOf[o])
    BY <1>1, <1>4, <2>1, HeldFollows
  <2>3. reserved' = [reserved EXCEPT ![SpenderOf[o]] = @ + row.reservedDelta]
    <3>1. reserved[SpenderOf[o]] - CostOf[o] = reserved[SpenderOf[o]] + (-CostOf[o])
      BY <1>2
    <3> QED BY <1>4, <3>1
  <2> QED BY <1>1, <1>4, <2>2, <2>3, RowMovesBalance
<1>5. CASE order[o] = "dispatching" /\ Consume(o)
  <2>1. /\ ConsumeRow(o) \in Rows /\ ConsumeRow(o).order = o
        /\ ConsumeRow(o).reservedDelta = -CostOf[o] /\ ConsumeRow(o).availableDelta = 0
    BY <1>1, <1>2 DEF ConsumeRow, Rows
  <2>2. ConsumeRow(o) \notin ledger
    BY <1>1, <1>5, NewRows
  <2>3. available' = [available EXCEPT ![SpenderOf[o]] = @ + ConsumeRow(o).availableDelta]
    BY <1>2, <1>5, <2>1 DEF Consume
  <2> QED BY <1>4, <1>5, <2>1, <2>2, <2>3 DEF Consume
<1>6. CASE order[o] = "dispatching" /\ Release(o)
  <2>1. /\ ReleaseRow(o) \in Rows /\ ReleaseRow(o).order = o
        /\ ReleaseRow(o).reservedDelta = -CostOf[o] /\ ReleaseRow(o).availableDelta = CostOf[o]
    BY <1>1, <1>2 DEF ReleaseRow, Rows
  <2>2. ReleaseRow(o) \notin ledger
    BY <1>1, <1>6, NewRows
  <2>3. available' = [available EXCEPT ![SpenderOf[o]] = @ + ReleaseRow(o).availableDelta]
    BY <1>6, <2>1 DEF Release
  <2> QED BY <1>4, <1>6, <2>1, <2>2, <2>3 DEF Release
<1>7. CASE UNCHANGED <<order, available, reserved, ledger>>
  BY <1>1, <1>7, OrdersKept
<1> QED BY <1>3, <1>5, <1>6, <1>7

LEMMA CreditBalances ==
  ASSUME Served, Balanced, NEW p \in Purchases, CreditPurchase(p)
  PROVE  Balanced'
<1>1. /\ p \notin credited /\ credited' = credited \cup {p}
      /\ available' = [available EXCEPT ![BuyerOf[p]] = @ + CountOf[p]]
      /\ UNCHANGED <<order, reserved, ledger>>
  BY DEF CreditPurchase
<1>2. IsFiniteSet(credited') /\ IsFiniteSet(ledger')
  BY <1>1, FS_AddElement DEF Balanced
<1>3. BuyerOf[p] \in Users /\ CountOf[p] \in Nat /\ available \in [Users -> Nat]
  BY PurchasesAreBought DEF Served, TypeOK
<1>4. ASSUME NEW u \in Users
      PROVE  available'[u] = SumOf(CountOf, BoughtBy(u)') + SumOf(AvailableDeltas, RowsOf(u)')
  <2>1. /\ RowsOf(u)' = RowsOf(u)
        /\ available[u] = SumOf(CountOf, BoughtBy(u)) + SumOf(AvailableDeltas, RowsOf(u))
    BY <1>1 DEF RowsOf, Balanced
  <2>2. CASE u # BuyerOf[p]
    <3>1. BoughtBy(u)' = BoughtBy(u) /\ available'[u] = available[u]
      BY <1>1, <1>3, <2>2 DEF BoughtBy
    <3> QED BY <2>1, <3>1
  <2>3. CASE u = BuyerOf[p]
    <3>1. /\ BoughtBy(u)' = BoughtBy(u) \cup {p} /\ p \notin BoughtBy(u)
          /\ available'[u] = available[u] + CountOf[p]
      BY <1>1, <1>3, <2>3 DEF BoughtBy
    <3>2. /\ IsFiniteSet(BoughtBy(u)) /\ \A q \in BoughtBy(u) \cup {p} : CountOf[q] \in Int
          /\ SumOf(CountOf, BoughtBy(u)) \in Int /\ SumOf(AvailableDeltas, RowsOf(u)) \in Int
      BY <1>3, PartsOfBalance
    <3>3. SumOf(CountOf, BoughtBy(u) \cup {p}) = SumOf(CountOf, BoughtBy(u)) + CountOf[p]
      BY <3>1, <3>2, SumWith
    <3>4. \A a, b, d \in Int : (a + b) + d = (a + d) + b
      OBVIOUS
    <3> QED BY <1>3, <2>1, <3>1, <3>2, <3>3, <3>4
  <2> QED BY <2>2, <2>3
<1>5. \A u \in Users : RowsOf(u)' = RowsOf(u) /\ HeldBy(u)' = HeldBy(u)
  BY <1>1 DEF RowsOf, HeldBy
<1> QED BY <1>1, <1>2, <1>4, <1>5 DEF Balanced

-----------------------------------------------------------------------------
LEMMA StepsBalance ==
  ASSUME Served, Balanced, [Next]_vars
  PROVE  Balanced'
<1>1. CASE UNCHANGED vars
  BY <1>1, OrdersKept DEF vars, database, balances
<1>2. ASSUME NEW p \in Purchases, CreditPurchase(p) PROVE Balanced'
  BY <1>2, CreditBalances
<1>3. ASSUME NEW u \in Users, BlockUser(u) PROVE Balanced'
  BY <1>3, OrdersKept DEF BlockUser, balances
<1>4. ASSUME NEW r \in Providers, NEW o \in Orders,
             \/ LateRequestArrives(r, o) \/ ProviderWorks(r, o)
             \/ \E outcome \in {"completed", "failed"} : ProviderDecides(r, o, outcome)
      PROVE  Balanced'
  BY <1>4, OrdersKept
     DEF LateRequestArrives, ProviderWorks, ProviderDecides, database, balances
<1>5. ASSUME NEW c \in Callers, NEW o \in Orders,
             CustomerExecutes(c, o) \/ CustomerAsks(c, o)
      PROVE  Balanced'
  <2>1. CASE CustomerExecutes(c, o)
    BY <2>1, ReserveBalances DEF CustomerExecutes, Calls
  <2>2. CASE CustomerAsks(c, o)
    BY <2>2, OrdersKept DEF CustomerAsks, database, balances
  <2> QED BY <1>5, <2>1, <2>2
<1>6. ASSUME NEW c \in Calls, Step(c) \/ CreateThrows(c) \/ CallFails(c)
      PROVE  Balanced'
  <2>1. CASE StartDispatch(c)
    BY <2>1, StartDispatchBalances
  <2>2. CASE ApplyDelivery(c)
    BY <2>2, AnswerBalances
  <2>3. CASE DispatchEnds(c) \/ QueryFinds(c) \/ QueryFindsNothing(c) \/ CallFails(c)
    BY <2>3, OrdersKept
       DEF DispatchEnds, QueryFinds, QueryFindsNothing, CallFails, database, balances
  <2>4. CASE CreateDelivery(c) \/ CreateThrows(c)
    BY <2>4, OrdersKept DEF CreateDelivery, CreateThrows, database, balances
  <2> QED BY <1>6, <2>1, <2>2, <2>3, <2>4 DEF Step
<1>7. ASSUME NEW p \in Processes, RecoveryStep(p) \/ ProcessCrashes(p)
      PROVE  Balanced'
  <2>1. CASE RecoverOrder(p)
    <3>1. PICK entry \in loop[p].page : Reserve(p, entry[1])
      BY <2>1 DEF RecoverOrder
    <3>2. p \in Calls /\ entry[1] \in Orders
      BY <3>1 DEF Calls, Served, TypeOK, LoopStates
    <3> QED BY <3>1, <3>2, ReserveBalances
  <2>2. CASE ListPending(p) \/ SkipOrder(p) \/ ProcessCrashes(p)
    BY <2>2, OrdersKept DEF ListPending, SkipOrder, ProcessCrashes, database, balances
  <2> QED BY <1>7, <2>1, <2>2 DEF RecoveryStep
<1> QED BY <1>1, <1>2, <1>3, <1>4, <1>5, <1>6, <1>7 DEF Next

LEMMA InitBalances == Init => Balanced
<1> SUFFICES ASSUME Init PROVE Balanced
  OBVIOUS
<1>1. IsFiniteSet(credited) /\ IsFiniteSet(ledger)
  BY FS_EmptySet DEF Init
<1>2. ASSUME NEW u \in Users
      PROVE  /\ BoughtBy(u) = {} /\ RowsOf(u) = {} /\ HeldBy(u) = {}
             /\ available[u] = 0 /\ reserved[u] = 0
  BY DEF Init, BoughtBy, RowsOf, HeldBy
<1>3. /\ SumOf(CountOf, {}) = 0 /\ SumOf(AvailableDeltas, {}) = 0
      /\ SumOf(ReservedDeltas, {}) = 0 /\ SumOf(CostOf, {}) = 0 /\ IsFiniteSet({})
  BY SumOfNone, FS_EmptySet
<1> QED BY <1>1, <1>2, <1>3 DEF Balanced

LEMMA AlwaysBalanced == Spec => [](Served /\ Balanced)
<1>1. Init => Balanced
  BY InitBalances
<1>2. Served /\ Balanced /\ [Next]_vars => Balanced'
  BY StepsBalance
<1> QED BY <1>1, <1>2, AlwaysServed, PTL DEF Spec

(* The balance of every customer is what the purchases and the ledger rows   *)
(* add up to, for any number of customers, purchases and orders.             *)
THEOREM BalancesAddUp == Spec => []BalancesMatchLedger
<1>1. Served /\ Balanced => BalancesMatchLedger
  BY BalancedMatches
<1> QED BY <1>1, AlwaysBalanced, PTL

LEMMA AnswersApply ==
  ASSUME Served, Balanced
  PROVE  AnswersAreApplicable
<1> SUFFICES ASSUME NEW c \in Calls, call[c].pc = "applying" PROVE ~DeliveryRefused(c)
  BY DEF AnswersAreApplicable
<1> DEFINE o == call[c].order
           r == call[c].provider
           answer == call[c].answer
<1>1. /\ o \in Orders /\ r \in Providers /\ delivery[o].provider = r /\ order[o] # "absent"
      /\ answer \in {"completed", "failed"} => supply[r][o] = answer
  <2>1. Knows(call[c], order, delivery, supply)
    BY DEF Served, CallsKnow
  <2> QED BY <2>1, ProvidersAreRegistered DEF Knows
<1>2. order[o] \in Statuses
  BY <1>1 DEF Served, TypeOK
<1>3. order[o] # "reserved"
  BY <1>1, ProvidersAreRegistered DEF Served, DeliveriesMatchOrders
<1>4. /\ order[o] = "completed" => supply[r][o] = "completed"
      /\ order[o] = "released" => supply[r][o] = "failed"
  BY <1>1 DEF Served, CountFollowsDelivery
<1>5. /\ answer = "completed" => order[o] \in {"dispatching", "completed"}
      /\ answer = "failed" => order[o] \in {"dispatching", "released"}
  BY <1>1, <1>2, <1>3, <1>4 DEF Statuses
<1>6. ASSUME order[o] = "dispatching" PROVE ~(reserved[SpenderOf[o]] < CostOf[o])
  <2>1. SpenderOf[o] \in Users /\ CostOf[o] \in Nat
    BY <1>1, OrdersAreSpent
  <2>2. o \in HeldBy(SpenderOf[o])
    BY <1>1, <1>6 DEF HeldBy
  <2>3. /\ IsFiniteSet(HeldBy(SpenderOf[o]))
        /\ \A n \in HeldBy(SpenderOf[o]) : CostOf[n] \in Nat
    BY <2>1, PartsOfBalance
  <2>4. /\ SumOf(CostOf, HeldBy(SpenderOf[o])) \in Nat
        /\ CostOf[o] <= SumOf(CostOf, HeldBy(SpenderOf[o]))
    BY <2>2, <2>3, SumOfNaturals
  <2>5. reserved[SpenderOf[o]] = SumOf(CostOf, HeldBy(SpenderOf[o]))
    BY <2>1 DEF Balanced
  <2> HIDE DEF o
  <2> QED BY <2>1, <2>4, <2>5
<1> QED BY <1>1, <1>5, <1>6 DEF DeliveryRefused

(* However late an answer is applied, the order can still take it: it is     *)
(* bound to the provider that answered, its status does not contradict the   *)
(* answer, and its cost is still in the reserved count.  The providers are   *)
(* those of EnergyUsage, with one order id per key.                          *)
THEOREM AnswersCanBeApplied == Spec => []AnswersAreApplicable
<1>1. Served /\ Balanced => AnswersAreApplicable
  BY AnswersApply
<1> QED BY <1>1, AlwaysBalanced, PTL
=============================================================================
