-------------------------------- MODULE OwnPool --------------------------------
(***************************************************************************)
(* Delivering the Energy of one order from the shop's own pool:            *)
(* TronOwnPoolEnergyProvider over its attempt journal, the signer service  *)
(* and the TRON chain.  Several bot processes may work on the order at     *)
(* once; within one the calls follow each other (EnergyUsageService).      *)
(*                                                                         *)
(* A journal or signer transaction is one step, and so is a call to a node.*)
(* Time is counted in blocks.  A process may die, and a request or its     *)
(* answer get lost, at any step.  The transport never reports a broadcast  *)
(* as rejected, so the branch for it is left out, and so is bindDelegation:*)
(* its tests are repeated by sign and claim.                               *)
(***************************************************************************)
EXTENDS Integers, Sequences, FiniteSets

CONSTANTS
  Processes,  \* bot processes; they overlap during a deployment
  NoTx,
  Life,       \* how long a delegation transaction can be mined
  Lag,        \* how long a block waits to be solidified; no node call takes longer
  MaxTime,    \* bound: blocks
  MaxFaults   \* bound: lost requests and answers, deaths of processes

ASSUME TimesArePositive == Life \in Nat \ {0} /\ Lag \in Nat \ {0}
ASSUME BoundsAreNatural == MaxTime \in Nat /\ MaxFaults \in Nat

VARIABLES
  attempts,   \* provider_transaction_attempts of the order, by attempt number
  delivery,   \* provider_deliveries.status, as far as the order decides by it
  providerOrderId,  \* provider_deliveries.provider_order_id: the transaction claimed last
  pool,       \* delegations the network knows and may still mine
  landed,     \* delegations mined: at which block, and with which result
  now,        \* the block the chain is at
  call,       \* what each process is doing for the order
  faults      \* bound: faults so far

deliveryRow == <<delivery, providerOrderId>>
journal == <<attempts, deliveryRow>>
chain == <<pool, landed, now>>
vars == <<journal, chain, call, faults>>

(* A transaction is told apart by who had it built and when.                 *)
Tx == [by : Processes, expires : Nat]
ASSUME NoTxIsNoTx == NoTx \notin Tx

Statuses ==
  {"created", "signed", "accepted", "processing", "completed", "failed", "expired", "unknown"}

Row == [status : Statuses, signed : Tx \cup {NoTx}, txid : Tx \cup {NoTx}]

NewAttempt == [status |-> "created", signed |-> NoTx, txid |-> NoTx]

Idle ==
  [pc |-> "idle", op |-> "none", n |-> 0, was |-> "none", tx |-> NoTx, seen |-> "none",
   since |-> 0, replace |-> FALSE]

Init ==
  /\ attempts = <<>>
  /\ delivery = "open"
  /\ providerOrderId = NoTx
  /\ pool = {}
  /\ landed = {}
  /\ now = 0
  /\ call = [c \in Processes |-> Idle]
  /\ faults = 0

Latest == Len(attempts)
Mined == {l.tx : l \in landed}

(* Mutant: a status is recorded whatever it replaces.                        *)
AnyTransition(current, next) == TRUE

TransitionAllowed(current, next) ==
  \/ current = next
  \/ next \in CASE current = "created" -> {"signed", "failed"}
                [] current = "signed" ->
                     {"accepted", "processing", "failed", "expired", "unknown"}
                [] current = "accepted" ->
                     {"processing", "completed", "failed", "expired", "unknown"}
                [] current = "processing" -> {"completed", "failed", "expired", "unknown"}
                [] current = "unknown" ->
                     {"accepted", "processing", "completed", "failed", "expired"}
                [] OTHER -> {}

-----------------------------------------------------------------------------
(* Steps of a call.                                                          *)

Goto(c, next) == call' = [call EXCEPT ![c] = next]
GoOn(c, pc) == Goto(c, [call[c] EXCEPT !.pc = pc])
Answer(c, status, tx) ==
  Goto(c, [Idle EXCEPT !.pc = "answered", !.seen = status, !.tx = tx])
Throw(c) == Goto(c, Idle)

(* What a reconciled attempt is answered with.  createDelivery looks first   *)
(* whether the attempt is to be replaced.                                    *)
Reconciled(c, status) ==
  IF call[c].op = "create" /\ call[c].replace
  THEN Goto(c, [Idle EXCEPT !.pc = "refresh", !.op = "create", !.seen = status,
                            !.tx = call[c].tx])
  ELSE Answer(c, status, call[c].tx)

(* recordAttemptState, with what follows when the transition is legal.       *)
Record(c, status, Then) ==
  LET n == call[c].n
  IN  IF TransitionAllowed(attempts[n].status, status)
      THEN /\ attempts' = [attempts EXCEPT ![n].status = status]
           /\ Then
      ELSE Throw(c) /\ UNCHANGED attempts

(* How a call goes on with the attempt it has read.  One that it starts it   *)
(* does not replace.                                                         *)
Advance(c, n, row, replace) ==
  LET with == [Idle EXCEPT !.op = call[c].op, !.n = n, !.was = row.status, !.tx = row.txid]
  IN  CASE row.status = "created" -> Goto(c, [with EXCEPT !.pc = "start"])
        [] row.status \in {"completed", "failed"} -> Answer(c, row.status, row.txid)
        [] OTHER -> Goto(c, [with EXCEPT !.pc = "look", !.replace = replace])

(* The service calls the provider for an order that is not finished.         *)
Begin(c, op) ==
  /\ call[c].pc = "idle"
  /\ delivery = "open"
  /\ op = "status" => providerOrderId # NoTx
  /\ Goto(c, [Idle EXCEPT !.pc = op, !.op = op,
                          !.tx = IF op = "status" THEN providerOrderId ELSE NoTx])
  /\ UNCHANGED <<journal, chain, faults>>

CreateDelivery(c) ==
  /\ call[c].pc = "create"
  /\ \/ delivery = "failed" /\ Answer(c, "failed", providerOrderId)
     \/ delivery # "failed" /\ Goto(c, [call[c] EXCEPT !.pc = "current", !.replace = TRUE])
  /\ UNCHANGED <<journal, chain, faults>>

(* Mutant: an attempt nothing is known about is replaced too.                *)
ReplaceUnknownAttempt(c) ==
  /\ call[c].pc = "current"
  /\ IF Latest > 0 /\ attempts[Latest].status \notin {"expired", "unknown"}
     THEN Advance(c, Latest, attempts[Latest], call[c].replace) /\ UNCHANGED attempts
     ELSE /\ attempts' = Append(attempts, NewAttempt)
          /\ Advance(c, Latest + 1, NewAttempt, call[c].replace)
  /\ UNCHANGED <<deliveryRow, chain, faults>>

GetOrCreateCurrentAttempt(c) ==
  /\ call[c].pc = "current"
  /\ IF Latest > 0 /\ attempts[Latest].status # "expired"
     THEN Advance(c, Latest, attempts[Latest], call[c].replace) /\ UNCHANGED attempts
     ELSE /\ attempts' = Append(attempts, NewAttempt)
          /\ Advance(c, Latest + 1, NewAttempt, call[c].replace)
  /\ UNCHANGED <<deliveryRow, chain, faults>>

(* By key: nothing is there before the first signature, or once the last     *)
(* transaction has expired.                                                  *)
FindDeliveryByIdempotencyKey(c) ==
  /\ call[c].pc = "find"
  /\ \/ delivery = "failed" /\ Answer(c, "failed", providerOrderId)
     \/ /\ delivery # "failed"
        /\ IF Latest = 0 \/ (Latest > 0 /\ attempts[Latest].status = "expired")
           THEN Answer(c, "none", NoTx)
           ELSE Advance(c, Latest, attempts[Latest], FALSE)
  /\ UNCHANGED <<journal, chain, faults>>

(* By the provider order id the service has read: the transaction of the      *)
(* attempt claimed last, unless another has been claimed since.              *)
GetDeliveryStatus(c) ==
  /\ call[c].pc = "status"
  /\ \/ call[c].tx # providerOrderId /\ Throw(c)
     \/ \E n \in 1 .. Latest : /\ attempts[n].txid = call[c].tx
                              /\ Advance(c, n, attempts[n], FALSE)
  /\ UNCHANGED <<journal, chain, faults>>

-----------------------------------------------------------------------------
(* startAttempt: what the signer has signed already is used; otherwise a     *)
(* transaction is built if the pool has the capacity for it.                 *)
StartAttempt(c) ==
  LET signed == attempts[call[c].n].signed
  IN  /\ call[c].pc = "start"
      /\ \/ signed # NoTx /\ Goto(c, [call[c] EXCEPT !.pc = "claim", !.tx = signed])
         \/ /\ signed = NoTx /\ call[c].op = "create"
            /\ \/ GoOn(c, "short")
               \/ Goto(c, [call[c] EXCEPT !.pc = "sign",
                                          !.tx = [by |-> c, expires |-> now + Life]])
         \/ signed = NoTx /\ call[c].op = "find" /\ Answer(c, "none", NoTx)
      /\ UNCHANGED <<journal, chain, faults>>

(* The pool is short: the attempt has failed.                                *)
FailShort(c) ==
  /\ call[c].pc = "short"
  /\ Record(c, "failed", Answer(c, "failed", NoTx))
  /\ UNCHANGED <<deliveryRow, chain, faults>>

(* The signer signs one transaction for an attempt, and only while it is     *)
(* new.  Its answer may be lost.                                             *)
Sign(c) ==
  LET n == call[c].n
      signs == /\ attempts[n].signed = NoTx
               /\ attempts[n].status = "created"
               /\ call[c].tx.expires > now
  IN  /\ call[c].pc = "sign"
      /\ \/ ~signs /\ Throw(c) /\ UNCHANGED <<attempts, faults>>
         \/ /\ signs
            /\ attempts' = [attempts EXCEPT ![n].signed = call[c].tx]
            /\ \/ GoOn(c, "claim") /\ UNCHANGED faults
               \/ faults < MaxFaults /\ faults' = faults + 1 /\ Throw(c)
      /\ UNCHANGED <<deliveryRow, chain>>

(* Mutant: the claim forgets the transaction.                                *)
ClaimWithoutTx(c) ==
  LET n == call[c].n
  IN  /\ call[c].pc = "claim"
      /\ attempts[n].status = "created"
      /\ attempts' = [attempts EXCEPT ![n].status = "signed"]
      /\ providerOrderId' = call[c].tx
      /\ Goto(c, [call[c] EXCEPT !.pc = "broadcast", !.was = "signed"])
      /\ UNCHANGED <<delivery, chain, faults>>

(* A claim makes the transaction the order id of the provider.               *)
ClaimAttemptTransaction(c) ==
  LET n == call[c].n
      row == attempts[n]
  IN  /\ call[c].pc = "claim"
      /\ \/ /\ row.txid = call[c].tx
            /\ Goto(c, [call[c] EXCEPT !.pc = "broadcast", !.was = row.status])
            /\ UNCHANGED <<attempts, providerOrderId>>
         \/ /\ row.txid = NoTx /\ row.status = "created"
            /\ attempts' = [attempts EXCEPT ![n].txid = call[c].tx, ![n].status = "signed"]
            /\ providerOrderId' = call[c].tx
            /\ Goto(c, [call[c] EXCEPT !.pc = "broadcast", !.was = "signed"])
         \/ /\ row.txid # call[c].tx
            /\ row.txid # NoTx \/ row.status # "created"
            /\ Throw(c)
            /\ UNCHANGED <<attempts, providerOrderId>>
      /\ UNCHANGED <<delivery, chain, faults>>

(* The node takes a transaction that is still valid, and one it has already; *)
(* one that has expired, or an answer that does not come, leaves it unknown. *)
Broadcast(c) ==
  LET tx == call[c].tx
      taken == (tx.expires > now \/ tx \in pool) /\ pool' = pool \cup {tx}
      result(s) == Goto(c, [call[c] EXCEPT !.pc = "record", !.seen = s])
  IN  /\ call[c].pc = "broadcast"
      /\ \/ taken /\ result("accepted") /\ UNCHANGED faults
         \/ tx.expires <= now /\ result("unknown") /\ UNCHANGED <<pool, faults>>
         \/ /\ faults < MaxFaults /\ faults' = faults + 1
            /\ taken \/ UNCHANGED pool
            /\ result("unknown")
      /\ UNCHANGED <<journal, landed, now>>

RecordBroadcast(c) ==
  LET accepted == call[c].seen = "accepted"
      status == IF ~accepted THEN "unknown"
                ELSE IF call[c].was = "processing" THEN "processing" ELSE "accepted"
  IN  /\ call[c].pc = "record"
      /\ Record(c, status,
           Reconciled(c, IF accepted /\ call[c].op = "create" THEN "accepted"
                                                              ELSE "processing"))
      /\ UNCHANGED <<deliveryRow, chain, faults>>

-----------------------------------------------------------------------------
(* reconcileAttempt: the transaction is looked up in the solidified view,    *)
(* then at the head; if neither knows it, the time of the solidified view is *)
(* read.                                                                     *)

Solidified(l) == l.at + Lag <= now

(* Mutant: what the head says of a transaction is final.                     *)
LookAtHead(c) ==
  LET tx == call[c].tx
  IN  /\ call[c].pc = "look"
      /\ IF tx \in Mined
         THEN \E l \in landed :
                /\ l.tx = tx
                /\ Goto(c, [call[c] EXCEPT !.pc = "seen", !.seen = l.result])
         ELSE Goto(c, [call[c] EXCEPT !.pc = "read_block", !.since = now])
      /\ UNCHANGED <<journal, chain, faults>>

Look(c) ==
  LET tx == call[c].tx
  IN  /\ call[c].pc = "look"
      /\ IF tx \in Mined
         THEN \E l \in landed :
                /\ l.tx = tx
                /\ Goto(c, [call[c] EXCEPT !.pc = "seen",
                     !.seen = IF Solidified(l) THEN l.result ELSE "processing"])
         ELSE Goto(c, [call[c] EXCEPT !.pc = "read_block", !.since = now])
      /\ UNCHANGED <<journal, chain, faults>>

(* A view that does not answer: without the solidified one, what the head    *)
(* knows is under way at best.                                               *)
LookUnavailable(c) ==
  LET tx == call[c].tx
  IN  /\ call[c].pc = "look"
      /\ faults < MaxFaults
      /\ faults' = faults + 1
      /\ \E seen \in {"unknown"} \cup (IF tx \in Mined THEN {"processing"} ELSE {}) :
           Goto(c, [call[c] EXCEPT !.pc = "seen", !.seen = seen])
      /\ UNCHANGED <<journal, chain>>

(* Mutant: the head has passed the expiration, the solidified view has not.  *)
ReadHeadBlock(c) ==
  /\ call[c].pc = "read_block"
  /\ Goto(c, [call[c] EXCEPT !.pc = "seen", !.since = 0,
       !.seen = IF now >= call[c].tx.expires THEN "absent" ELSE "unknown"])
  /\ UNCHANGED <<journal, chain, faults>>

ReadSolidifiedBlock(c) ==
  /\ call[c].pc = "read_block"
  /\ Goto(c, [call[c] EXCEPT !.pc = "seen", !.since = 0,
       !.seen = IF now - Lag >= call[c].tx.expires THEN "absent" ELSE "unknown"])
  /\ UNCHANGED <<journal, chain, faults>>

(* A transaction nothing is known about is sent again, as it was signed.     *)
RecordSeen(c) ==
  LET seen == call[c].seen
  IN  /\ call[c].pc = "seen"
      /\ CASE seen \in {"completed", "failed", "processing"} ->
                Record(c, seen, Reconciled(c, seen))
           [] seen = "absent" -> Record(c, "expired", Reconciled(c, "processing"))
           [] seen = "unknown" ->
                Record(c, "unknown",
                  Goto(c, [call[c] EXCEPT !.pc = "broadcast", !.seen = "none"]))
      /\ UNCHANGED <<deliveryRow, chain, faults>>

(* advanceAttempt replaces an attempt it finds expired now, once.            *)
Refresh(c) ==
  /\ call[c].pc = "refresh"
  /\ IF attempts[Latest].status = "expired"
     THEN Goto(c, [Idle EXCEPT !.pc = "current", !.op = "create"])
     ELSE Answer(c, call[c].seen, call[c].tx)
  /\ UNCHANGED <<journal, chain, faults>>

(* applyDelivery of the service (EnergyUsage), as far as it concerns the     *)
(* provider: the delivery is closed by a final answer.  One about another    *)
(* transaction than the row's is refused.                                    *)
IdentityChanged(tx) == providerOrderId # NoTx /\ tx # NoTx /\ tx # providerOrderId

Apply(c) ==
  /\ call[c].pc = "answered"
  /\ IF delivery = "open" /\ ~IdentityChanged(call[c].tx)
     THEN /\ delivery' = IF call[c].seen \in {"completed", "failed"} THEN call[c].seen
                                                                   ELSE delivery
          /\ providerOrderId' = IF providerOrderId = NoTx THEN call[c].tx ELSE providerOrderId
     ELSE UNCHANGED deliveryRow
  /\ Throw(c)
  /\ UNCHANGED <<attempts, chain, faults>>

(* The process dies, or a read or write throws.                              *)
CallFails(c) ==
  /\ call[c].pc # "idle"
  /\ faults < MaxFaults
  /\ faults' = faults + 1
  /\ Throw(c)
  /\ UNCHANGED <<journal, chain>>

-----------------------------------------------------------------------------
(* The chain.                                                                *)

Land(tx, result) ==
  /\ tx \in pool \ Mined
  /\ tx.expires > now
  /\ landed' = landed \cup {[tx |-> tx, at |-> now, result |-> result]}
  /\ UNCHANGED <<journal, pool, now, call, faults>>

(* A lookup and the block read after it are not further apart than the time  *)
(* a block takes to be solidified.                                           *)
BlockIsAdded ==
  /\ now < MaxTime
  /\ \A c \in Processes : call[c].pc = "read_block" => now < call[c].since + Lag
  /\ now' = now + 1
  /\ UNCHANGED <<journal, pool, landed, call, faults>>

Step(c) ==
  \/ \E op \in {"create", "find", "status"} : Begin(c, op)
  \/ CreateDelivery(c) \/ GetOrCreateCurrentAttempt(c)
  \/ FindDeliveryByIdempotencyKey(c) \/ GetDeliveryStatus(c)
  \/ StartAttempt(c) \/ FailShort(c) \/ Sign(c) \/ ClaimAttemptTransaction(c)
  \/ Broadcast(c) \/ RecordBroadcast(c)
  \/ Look(c) \/ LookUnavailable(c) \/ ReadSolidifiedBlock(c)
  \/ RecordSeen(c) \/ Refresh(c) \/ Apply(c) \/ CallFails(c)

Next ==
  \/ \E c \in Processes : Step(c)
  \/ \E tx \in pool, result \in {"completed", "failed"} : Land(tx, result)
  \/ BlockIsAdded

Spec == Init /\ [][Next]_vars
-----------------------------------------------------------------------------
(* Properties.                                                               *)

Results == {"completed", "failed"}
Landings == [tx : Tx, at : Nat, result : Results]

CallStates ==
  [pc : {"idle", "create", "find", "status", "current", "start", "short", "sign", "claim",
         "broadcast", "record", "look", "read_block", "seen", "refresh", "answered"},
   op : {"none", "create", "find", "status"}, n : Nat, was : Statuses \cup {"none"},
   tx : Tx \cup {NoTx}, seen : Results \cup {"none", "unknown", "processing", "accepted", "absent"},
   since : Nat, replace : BOOLEAN]

(* Every variable has its type; a new attempt has no transaction and one that*)
(* has got on has, as a check constraint of the table demands.               *)
TypeOK ==
  /\ attempts \in Seq(Row)
  /\ \A n \in 1 .. Latest :
       /\ attempts[n].status = "created" => attempts[n].txid = NoTx
       /\ attempts[n].txid = NoTx => attempts[n].status \in {"created", "failed"}
  /\ delivery \in {"open"} \cup Results
  /\ providerOrderId \in Tx \cup {NoTx}
  /\ pool \subseteq Tx
  /\ landed \subseteq Landings
  /\ now \in 0 .. MaxTime
  /\ call \in [Processes -> CallStates]
  /\ faults \in 0 .. MaxFaults

(* The customer's Energy is delegated once: whatever is retried, resent,     *)
(* recovered or replaced by whichever process, one delegation of the order   *)
(* at most succeeds on the chain.                                            *)
OneDelegationLands == Cardinality({l \in landed : l.result = "completed"}) <= 1

(* The contract of createDelivery in core/providers/energy-provider.ts: "A   *)
(* retry must never overlap active external attempts."  While an attempt is  *)
(* open, nothing signed for an earlier one was mined or can still be.        *)
RetriesDoNotOverlap ==
  \A n \in 1 .. Latest - 1 :
    /\ attempts[n].status = "expired"
    /\ attempts[n].signed \notin Mined
    /\ attempts[n].signed.expires <= now

(* Nothing reaches the network that the journal does not know by its txid,   *)
(* so that a process that dies leaves nothing behind that recovery cannot    *)
(* find.                                                                     *)
BroadcastIsJournaled == pool \subseteq {attempts[n].txid : n \in 1 .. Latest}

(* An attempt is completed only on the strength of a solidified delegation,  *)
(* and expired only when its transaction is not on the chain; the order is   *)
(* told completed only for a completed attempt.                              *)
OutcomesAreTrue ==
  /\ \A n \in 1 .. Latest :
       /\ attempts[n].status = "completed" =>
            \E l \in landed : l.tx = attempts[n].txid /\ l.result = "completed"
                              /\ Solidified(l)
       /\ attempts[n].status = "expired" => attempts[n].txid \notin Mined
  /\ delivery = "completed" => \E n \in 1 .. Latest : attempts[n].status = "completed"

(* A final answer is taken, however late it is applied: it is about the       *)
(* transaction the delivery has as its provider order id, and no process has *)
(* closed the delivery with another one.                                     *)
FinalAnswersAreTaken ==
  \A c \in Processes :
    call[c].pc = "answered" /\ call[c].seen \in Results =>
      ~IdentityChanged(call[c].tx) /\ delivery \in {"open", call[c].seen}

(* An attempt keeps its signature and its transaction, and never leaves a    *)
(* final status, however late the answer that is recorded.                   *)
AttemptsOnlyAdvance ==
  [][\A n \in 1 .. Latest :
       /\ attempts[n].signed # NoTx => attempts'[n].signed = attempts[n].signed
       /\ attempts[n].txid # NoTx => attempts'[n].txid = attempts[n].txid
       /\ attempts[n].status \in {"completed", "failed", "expired"} =>
            attempts'[n].status = attempts[n].status
       /\ attempts'[n].status = "created" => attempts[n].status = "created"]_vars

(* What the recovery of an attempt relies on, whoever died before: the       *)
(* journal knows all that was broadcast, and never forgets.                  *)
JournalIsReliable == []BroadcastIsJournaled /\ AttemptsOnlyAdvance

(* The own pool is an EnergyProvider: the delegations that succeeded are what*)
(* was delegated, and the last attempt decides.                              *)
SuccessfulDelegations == {l.tx : l \in {m \in landed : m.result = "completed"}}

Result == IF Latest > 0 /\ attempts[Latest].status \in Results
          THEN attempts[Latest].status ELSE "open"

Provider == INSTANCE EnergyProvider
            WITH delegated <- SuccessfulDelegations, result <- Result, told <- delivery

(* Whatever is retried, resent, replaced or answered late by whichever       *)
(* process, the interface promises it: one delegation, decided once, and the *)
(* order told what was decided.                                              *)
ImplementsProvider == Provider!Spec

(* docs/DATABASE_INVARIANTS.md: "final delivery failure releases the         *)
(* reservation", "successful delivery consumes" it.  An order that failed,   *)
(* and whose count was given back, is not delivered all the same.            *)
FailureIsFinal == delivery = "failed" => \A l \in landed : l.result # "completed"

(* docs/ARCHITECTURE.md: "an ambiguous create result (for example, a timeout *)
(* after the provider accepted the order) must be recoverable by             *)
(* idempotencyKey".  A delegation that is seen to have succeeded can be      *)
(* recorded.                                                                 *)
SuccessIsRecordable ==
  \A c \in Processes :
    call[c].pc = "seen" /\ call[c].seen = "completed" =>
      TransitionAllowed(attempts[call[c].n].status, "completed")
=============================================================================
