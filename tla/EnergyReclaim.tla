----------------------------- MODULE EnergyReclaim -----------------------------
(***************************************************************************)
(* Taking delegated Energy back: EnergyReclaimService over its attempt     *)
(* journal, the reclaim signer and the TRON chain.  Every bot process runs *)
(* the loop, page by page over the sources that are due (a source is a     *)
(* completed delegation), so that two may work on one source at once.      *)
(*                                                                         *)
(* A journal or signer transaction is one step, and so is a call to a node.*)
(* Time is relative: every timer runs down with the blocks of the chain, so*)
(* that it need not be bounded.  A source whose reconciliation throws is   *)
(* left for the next page; a process may die at any step.                  *)
(***************************************************************************)
EXTENDS Integers, Sequences, FiniteSets

CONSTANTS
  Processes,    \* bot processes; they overlap during a deployment
  NumSources,   \* delegations
  Refused,      \* sources the signer refuses: delegated from another account
  MaxSources,   \* sources in a page
  NoTx,
  Lease,        \* how long the Energy stays with the recipient
  Life,         \* how long an undelegation can be mined
  Lag,          \* how long a block waits to be solidified; no node call takes longer
  MaxAttempts,  \* bound: attempts for a source
  MaxFaults     \* bound: lost requests and answers, deaths, expired transactions

Sources == 1 .. NumSources

ASSUME TimersArePositive == Lease \in Nat /\ Life \in Nat \ {0} /\ Lag \in Nat \ {0}
ASSUME PagesHoldSources == NumSources \in Nat /\ MaxSources \in Nat \ {0}
ASSUME RefusedAreSources == Refused \subseteq Sources
ASSUME BoundsAreNatural == MaxAttempts \in Nat \ {0} /\ MaxFaults \in Nat

VARIABLES
  delivered,  \* sources: completed provider_transaction_attempts
  lease,      \* time until reclaim_eligible_at of a delivered source
  attempts,   \* provider_reclaim_attempts of each source, by attempt number
  pool,       \* undelegations the network knows and may still mine
  landed,     \* undelegations mined, with their result and how long ago
  cursor,     \* reclaimCursor of each process; 0 is undefined
  page,       \* sources of its page still to be reconciled
  call,       \* what it is doing for the source at hand
  faults      \* bound: faults so far

chain == <<pool, landed>>
sources == <<delivered, lease>>
scan == <<cursor, page>>
vars == <<sources, attempts, chain, scan, call, faults>>

(* A transaction is told apart by the attempt and by who had it built.       *)
Tx == [source : Sources, n : Nat, by : Processes]
ASSUME NoTxIsNoTx == NoTx \notin Tx

Statuses ==
  {"created", "signed", "accepted", "processing", "completed", "failed", "expired", "unknown"}
Final == {"completed", "failed", "expired"}

(* left: until the signed transaction expires; it is of no interest once the *)
(* solidified chain has got there too.                                       *)
Gone == 0 - Lag
Row == [status : Statuses, signed : Tx \cup {NoTx}, txid : Tx \cup {NoTx}, left : Gone .. Life]
NewAttempt == [status |-> "created", signed |-> NoTx, txid |-> NoTx, left |-> Gone]

Idle == [pc |-> "idle", source |-> 0, n |-> 0, tx |-> NoTx, left |-> 0, seen |-> "none", waited |-> 0]

Init ==
  /\ delivered = {}
  /\ lease = [s \in Sources |-> 0]
  /\ attempts = [s \in Sources |-> <<>>]
  /\ pool = {}
  /\ landed = {}
  /\ cursor = [c \in Processes |-> 0]
  /\ page = [c \in Processes |-> {}]
  /\ call = [c \in Processes |-> Idle]
  /\ faults = 0

Latest(s) == Len(attempts[s])
Due(s) == s \in delivered /\ lease[s] = 0
Decided(s) == \E n \in 1 .. Latest(s) : attempts[s][n].status \in {"completed", "failed"}
Mined == {l.tx : l \in landed}

Goto(c, next) == call' = [call EXCEPT ![c] = next]
GoOn(c, pc) == Goto(c, [call[c] EXCEPT !.pc = pc])
Done(c) == Goto(c, Idle)
Fault == faults < MaxFaults /\ faults' = faults + 1

(* The attempt a call works on.                                              *)
Current(c) == attempts[call[c].source][call[c].n]
Update(c, row) == attempts' = [attempts EXCEPT ![call[c].source][call[c].n] = row]
-----------------------------------------------------------------------------
(* recordAttemptState of the delivery journal completes a delegation: it is  *)
(* due one lease after its broadcast was accepted, and no earlier than now.  *)
Deliver(s) ==
  /\ s \notin delivered
  /\ delivered' = delivered \cup {s}
  /\ \E left \in 0 .. Lease : lease' = [lease EXCEPT ![s] = left]
  /\ UNCHANGED <<attempts, chain, scan, call, faults>>

(* runOnce lists a page of sources that are due and not decided, from the    *)
(* cursor on; when there is none it starts again from the first.             *)
ListDueSources(c) ==
  LET due == {s \in Sources : s > cursor[c] /\ Due(s) /\ ~Decided(s)}
  IN  /\ call[c].pc = "idle" /\ page[c] = {}
      /\ due # {} \/ cursor[c] # 0
      /\ page' = [page EXCEPT ![c] =
                    {s \in due : Cardinality({t \in due : t < s}) < MaxSources}]
      /\ cursor' = [cursor EXCEPT ![c] = IF due = {} THEN 0 ELSE @]
      /\ UNCHANGED <<sources, attempts, chain, call, faults>>

(* The next source of the page.                                              *)
Take(c, s) ==
  /\ call[c].pc = "idle"
  /\ s \in page[c] /\ \A t \in page[c] : s <= t
  /\ page' = [page EXCEPT ![c] = @ \ {s}]

(* Mutant: an attempt nothing is known about is replaced like an expired one.*)
ReplaceUnknownAttempt(c, s) ==
  LET n == Latest(s)
      open == [Idle EXCEPT !.source = s]
  IN  \/ /\ n > 0 /\ attempts[s][n].status \in {"completed", "failed"}
         /\ UNCHANGED <<attempts, call>>
      \/ /\ n > 0 /\ attempts[s][n].status \notin Final \cup {"unknown"}
         /\ Goto(c, [open EXCEPT !.n = n, !.tx = attempts[s][n].txid,
                       !.pc = IF attempts[s][n].txid = NoTx THEN "find" ELSE "look"])
         /\ UNCHANGED attempts
      \/ /\ n > 0 => attempts[s][n].status \in {"expired", "unknown"}
         /\ n < MaxAttempts
         /\ attempts' = [attempts EXCEPT ![s] = Append(@, NewAttempt)]
         /\ Goto(c, [open EXCEPT !.n = n + 1, !.pc = "find"])

(* A decided source is left alone, an attempt under way is gone on with, one *)
(* that has expired is replaced.  The code replaces any number of them:      *)
(* MaxAttempts is a bound of the instance, one more than its faults can make *)
(* expire.                                                                   *)
CurrentAttempt(c, s) ==
  LET n == Latest(s)
      open == [Idle EXCEPT !.source = s]
  IN  \/ /\ n > 0 /\ attempts[s][n].status \in {"completed", "failed"}
         /\ UNCHANGED <<attempts, call>>
      \/ /\ n > 0 /\ attempts[s][n].status \notin Final
         /\ Goto(c, [open EXCEPT !.n = n, !.tx = attempts[s][n].txid,
                       !.pc = IF attempts[s][n].txid = NoTx THEN "find" ELSE "look"])
         /\ UNCHANGED attempts
      \/ /\ n > 0 => attempts[s][n].status = "expired"
         /\ n < MaxAttempts
         /\ attempts' = [attempts EXCEPT ![s] = Append(@, NewAttempt)]
         /\ Goto(c, [open EXCEPT !.n = n + 1, !.pc = "find"])

(* Mutant: the cursor stays where the page began.                            *)
ReconcileFromStart(c, s) ==
  /\ Take(c, s)
  /\ CurrentAttempt(c, s)
  /\ UNCHANGED <<sources, chain, cursor, faults>>

Reconcile(c, s) ==
  /\ Take(c, s)
  /\ cursor' = [cursor EXCEPT ![c] = s]
  /\ CurrentAttempt(c, s)
  /\ UNCHANGED <<sources, chain, faults>>

-----------------------------------------------------------------------------
(* What the signer has signed already is used; otherwise an undelegation of  *)
(* what was delegated is built.                                              *)
FindSigned(c) ==
  LET signed == Current(c).signed
      built == [source |-> call[c].source, n |-> call[c].n, by |-> c]
  IN  /\ call[c].pc = "find"
      /\ Goto(c, IF signed # NoTx
                 THEN [call[c] EXCEPT !.pc = "claim", !.tx = signed]
                 ELSE [call[c] EXCEPT !.pc = "sign", !.tx = built, !.left = Life])
      /\ UNCHANGED <<sources, attempts, chain, scan, faults>>

(* validateUnsignedReclaim: the transaction must be of the signer's account  *)
(* and still be valid.                                                       *)
Valid(c) == call[c].source \notin Refused /\ call[c].left > 0

(* The signer signs one transaction for an attempt, while it is new and the  *)
(* source due.  Its answer may be lost.                                      *)
Sign(c) ==
  LET row == Current(c)
      signs == /\ row.signed = NoTx /\ row.status = "created"
               /\ Due(call[c].source) /\ Valid(c)
  IN  /\ call[c].pc = "sign"
      /\ \/ ~signs /\ Done(c) /\ UNCHANGED <<attempts, faults>>
         \/ /\ signs
            /\ Update(c, [row EXCEPT !.signed = call[c].tx, !.left = call[c].left])
            /\ \/ Goto(c, [call[c] EXCEPT !.pc = "claim", !.left = 0]) /\ UNCHANGED faults
               \/ Fault /\ Done(c)
      /\ UNCHANGED <<sources, chain, scan>>

(* Mutant: the claim forgets the transaction.                                *)
ClaimWithoutTx(c) ==
  /\ call[c].pc = "claim"
  /\ Current(c).status = "created"
  /\ Update(c, [Current(c) EXCEPT !.status = "signed"])
  /\ GoOn(c, "look")
  /\ UNCHANGED <<sources, chain, scan, faults>>

ClaimTransaction(c) ==
  LET row == Current(c)
      claims == row.txid = NoTx /\ row.status = "created" /\ row.signed = call[c].tx
  IN  /\ call[c].pc = "claim"
      /\ \/ row.txid = call[c].tx /\ GoOn(c, "look") /\ UNCHANGED attempts
         \/ /\ claims
            /\ Update(c, [row EXCEPT !.txid = call[c].tx, !.status = "signed"])
            /\ GoOn(c, "look")
         \/ row.txid # call[c].tx /\ ~claims /\ Done(c) /\ UNCHANGED attempts
      /\ UNCHANGED <<sources, chain, scan, faults>>
-----------------------------------------------------------------------------
(* observe: the transaction is looked up in the solidified view, then at the *)
(* head; if neither knows it, the time of the solidified view is read.       *)

Solidified(l) == l.age = Lag

Look(c) ==
  LET tx == call[c].tx
  IN  /\ call[c].pc = "look"
      /\ IF tx \in Mined
         THEN \E l \in landed :
                /\ l.tx = tx
                /\ Goto(c, [call[c] EXCEPT !.pc = "seen",
                     !.seen = IF Solidified(l) THEN l.result ELSE "processing"])
         ELSE GoOn(c, "read_block")
      /\ UNCHANGED <<sources, attempts, chain, scan, faults>>

(* A view that does not answer: without the solidified one, what the head    *)
(* knows is under way at best.                                               *)
LookUnavailable(c) ==
  /\ call[c].pc = "look"
  /\ Fault
  /\ \E seen \in {"unknown"} \cup (IF call[c].tx \in Mined THEN {"processing"} ELSE {}) :
       Goto(c, [call[c] EXCEPT !.pc = "seen", !.seen = seen])
  /\ UNCHANGED <<sources, attempts, chain, scan>>

(* Mutant: the head has passed the expiration, the solidified view has not.  *)
ReadHeadBlock(c) ==
  /\ call[c].pc = "read_block"
  /\ Goto(c, [call[c] EXCEPT !.pc = "seen", !.waited = 0,
       !.seen = IF Current(c).left <= 0 THEN "absent" ELSE "unknown"])
  /\ UNCHANGED <<sources, attempts, chain, scan, faults>>

ReadSolidifiedBlock(c) ==
  /\ call[c].pc = "read_block"
  /\ Goto(c, [call[c] EXCEPT !.pc = "seen", !.waited = 0,
       !.seen = IF Current(c).left = Gone THEN "absent" ELSE "unknown"])
  /\ UNCHANGED <<sources, attempts, chain, scan, faults>>

(* A final status is kept: recordState returns or throws, which ends the     *)
(* source's turn either way.                                                 *)
RecordState(c, status) ==
  IF Current(c).status \in Final THEN UNCHANGED attempts
  ELSE Update(c, [Current(c) EXCEPT !.status = status])

(* A transaction nothing is known about is sent again, as it was signed,     *)
(* while it can be mined.                                                    *)
RecordSeen(c) ==
  LET seen == call[c].seen
  IN  /\ call[c].pc = "seen"
      /\ \/ /\ seen # "unknown"
            /\ RecordState(c, IF seen = "absent" THEN "expired" ELSE seen)
            /\ Done(c)
         \/ seen = "unknown" /\ Current(c).left <= 0 /\ Done(c) /\ UNCHANGED attempts
         \/ seen = "unknown" /\ Current(c).left > 0 /\ GoOn(c, "broadcast") /\ UNCHANGED attempts
      /\ UNCHANGED <<sources, chain, scan, faults>>

(* The node takes a transaction that is still valid, and one it has already; *)
(* one that has expired, or an answer that does not come, leaves it unknown. *)
Broadcast(c) ==
  LET tx == call[c].tx
      valid == Current(c).left > 0
      taken == (valid \/ tx \in pool) /\ pool' = pool \cup {tx}
      result(s) == Goto(c, [call[c] EXCEPT !.pc = "record", !.seen = s])
  IN  /\ call[c].pc = "broadcast"
      /\ \/ taken /\ result("accepted") /\ UNCHANGED faults
         \/ ~valid /\ result("unknown") /\ UNCHANGED <<pool, faults>>
         \/ Fault /\ (taken \/ UNCHANGED pool) /\ result("unknown")
      /\ UNCHANGED <<sources, attempts, landed, scan>>

RecordBroadcast(c) ==
  /\ call[c].pc = "record"
  /\ RecordState(c, call[c].seen)
  /\ Done(c)
  /\ UNCHANGED <<sources, chain, scan, faults>>

(* A read or a write throws: the loop goes on with the next source.          *)
SourceFails(c) ==
  /\ call[c].pc # "idle"
  /\ Fault
  /\ Done(c)
  /\ UNCHANGED <<sources, attempts, chain, scan>>

(* The process dies, and the one after it starts from the first source.      *)
ProcessDies(c) ==
  /\ call[c].pc # "idle" \/ cursor[c] # 0
  /\ Fault
  /\ Done(c)
  /\ cursor' = [cursor EXCEPT ![c] = 0]
  /\ page' = [page EXCEPT ![c] = {}]
  /\ UNCHANGED <<sources, attempts, chain>>
-----------------------------------------------------------------------------
(* The chain.                                                                *)

Land(tx, result) ==
  /\ tx \in pool \ Mined
  /\ attempts[tx.source][tx.n].left > 0
  /\ landed' = landed \cup {[tx |-> tx, result |-> result, age |-> 0]}
  /\ UNCHANGED <<sources, attempts, pool, scan, call, faults>>

(* A block: every timer runs down.  A transaction that expires without having*)
(* been mined is a fault, and a lookup and the block read after it are not   *)
(* further apart than the time a block takes to be solidified.               *)
BlockIsAdded ==
  LET expires == \/ \E s \in Sources : \E n \in 1 .. Latest(s) :
                      attempts[s][n].left = 1 /\ attempts[s][n].signed \notin Mined
                 \/ \E c \in Processes : call[c].left = 1 /\ call[c].source \notin Refused
      down(timer, floor) == IF timer > floor THEN timer - 1 ELSE timer
  IN  /\ \A c \in Processes : call[c].pc = "read_block" => call[c].waited < Lag
      /\ (expires /\ Fault) \/ (~expires /\ UNCHANGED faults)
      /\ lease' = [s \in Sources |-> down(lease[s], 0)]
      /\ attempts' = [s \in Sources |->
           [n \in 1 .. Latest(s) |-> [attempts[s][n] EXCEPT !.left = down(@, Gone)]]]
      /\ landed' = {[l EXCEPT !.age = IF @ < Lag THEN @ + 1 ELSE @] : l \in landed}
      /\ call' = [c \in Processes |->
           [call[c] EXCEPT !.left = down(@, 0),
                           !.waited = IF call[c].pc = "read_block" THEN @ + 1 ELSE @]]
      /\ UNCHANGED <<delivered, pool, scan>>

(* What a process does of itself.                                            *)
Step(c) ==
  \/ ListDueSources(c)
  \/ \E s \in Sources : Reconcile(c, s)
  \/ FindSigned(c) \/ Sign(c) \/ ClaimTransaction(c)
  \/ Look(c) \/ ReadSolidifiedBlock(c) \/ RecordSeen(c)
  \/ Broadcast(c) \/ RecordBroadcast(c)

Results == {"completed", "failed"}

Next ==
  \/ \E s \in Sources : Deliver(s)
  \/ \E c \in Processes : Step(c) \/ LookUnavailable(c) \/ SourceFails(c) \/ ProcessDies(c)
  \/ \E tx \in pool, result \in Results : Land(tx, result)
  \/ BlockIsAdded

Spec == Init /\ [][Next]_vars

(* The loops of the processes run for ever, blocks follow each other, and the*)
(* network mines a valid transaction that it keeps being sent.               *)
Fairness ==
  /\ \A c \in Processes : WF_vars(Step(c))
  /\ WF_vars(BlockIsAdded)
  /\ WF_vars(\E tx \in pool, result \in Results : Land(tx, result))

FairSpec == Spec /\ Fairness
-----------------------------------------------------------------------------
(* Properties.                                                               *)

CallStates ==
  [pc : {"idle", "find", "sign", "claim", "look", "read_block", "seen", "broadcast", "record"},
   source : 0 .. NumSources, n : Nat, tx : Tx \cup {NoTx}, left : 0 .. Life,
   seen : Results \cup {"none", "unknown", "processing", "accepted", "absent"}, waited : 0 .. Lag]

(* Every variable has its type; an attempt has its transaction exactly once  *)
(* it is past being created, as a check constraint of the table demands.     *)
TypeOK ==
  /\ delivered \subseteq Sources
  /\ lease \in [Sources -> 0 .. Lease]
  /\ attempts \in [Sources -> Seq(Row)]
  /\ \A s \in Sources : \A n \in 1 .. Latest(s) :
       attempts[s][n].status = "created" <=> attempts[s][n].txid = NoTx
  /\ pool \subseteq Tx
  /\ landed \subseteq [tx : Tx, result : Results, age : 0 .. Lag]
  /\ cursor \in [Processes -> 0 .. NumSources]
  /\ page \in [Processes -> SUBSET Sources]
  /\ call \in [Processes -> CallStates]
  /\ faults \in 0 .. MaxFaults

(* The Energy is lent and taken back as EnergyLease says: never before the   *)
(* lease is over, and never twice, whatever is retried, resent or replaced by*)
(* whichever process.                                                        *)
Returns(s) == {l.tx : l \in {k \in landed : k.tx.source = s /\ k.result = "completed"}}
EL == INSTANCE EnergyLease WITH
        lent <- delivered,
        due <- {s \in delivered : lease[s] = 0},
        returned <- [s \in Sources |-> Cardinality(Returns(s))]
ImplementsLease == EL!Spec

(* An attempt is decided only as a solidified block decides it.  "All        *)
(* ambiguous outcomes retain the same signed txID": it expires, and another  *)
(* is begun in its place, only when what was signed for it is not on the     *)
(* chain and cannot get there any more.                                      *)
OutcomesAreTrue ==
  \A s \in Sources : \A n \in 1 .. Latest(s) :
    LET row == attempts[s][n]
    IN  /\ row.status \in Results =>
             \E l \in landed : l.tx = row.txid /\ l.result = row.status /\ Solidified(l)
        /\ row.status = "expired" => row.signed \notin Mined /\ row.left <= 0
        /\ n < Latest(s) => row.status = "expired"

(* tests/energy-reclaim-service.test.ts: "visits later reclaim sources even  *)
(* if earlier sources keep failing".  Every source that is due and that the  *)
(* signer signs for is decided in the end.                                   *)
DueSourcesAreDecided == \A s \in Sources \ Refused : Due(s) ~> Decided(s)
=============================================================================
