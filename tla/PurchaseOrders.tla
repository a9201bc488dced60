---------------------------- MODULE PurchaseOrders ----------------------------
(***************************************************************************)
(* Creating purchase orders: PostgresPurchaseOrderRepository.createOrGet,  *)
(* one statement at a time, because its calls (of one process or several)  *)
(* run in READ COMMITTED transactions that see each other's commits between*)
(* their statements.  Every call carries an idempotency key and a payload; *)
(* a repeated confirmation is another call with the same key, or the same  *)
(* call once more.                                                         *)
(*                                                                         *)
(* One token contract and one destination: the attribution index is then   *)
(* on the amount.  A payload stands for everything samePayload compares.   *)
(***************************************************************************)
EXTENDS Integers, FiniteSets

CONSTANTS
  Calls,      \* confirmations that reach createOrGet
  Keys,       \* idempotency keys
  Payloads,   \* customer, package, price and payment terms
  KeyOf,      \* key of each call
  PayloadOf,  \* payload of each call
  PriceOf,    \* price_usdt_micros_snapshot (the quoted amount of a TRX order)
  AssetOf,    \* payment_asset
  MaxOffset,  \* usdtAttributionMaxOffsetAtomic
  NoRow,      \* a call that has inserted nothing
  NoOrder,    \* an answer without an order
  MaxAborts   \* bound: how often a transaction is rolled back

ASSUME CallsHaveKeys == KeyOf \in [Calls -> Keys] /\ PayloadOf \in [Calls -> Payloads]
ASSUME PayloadsHavePrices ==
  PriceOf \in [Payloads -> Nat \ {0}] /\ AssetOf \in [Payloads -> {"USDT", "TRX"}]
ASSUME BoundsAreNatural == MaxOffset \in Nat /\ MaxAborts \in Nat
ASSUME NoOrderIsNoCall == NoOrder \notin Calls

VARIABLES
  row,        \* the order row a call inserted; visible to others unless "created"
  pc,         \* the statement a call executes next
  candidate,  \* the amount it is about to insert
  answer,     \* what it answered last
  aborts      \* rolled-back transactions so far

vars == <<row, pc, candidate, answer, aborts>>

Asset(c) == AssetOf[PayloadOf[c]]
Price(c) == PriceOf[PayloadOf[c]]
Amounts(c) == Price(c) .. (IF Asset(c) = "USDT" THEN Price(c) + MaxOffset ELSE Price(c))

Row == [amount : Nat, status : {"created", "waiting_payment", "decided"}]

ASSUME NoRowIsNoRow == NoRow \notin Row

Kinds == {"none", "created", "existing", "conflict", "attribution_unavailable", "error"}

Init ==
  /\ row = [c \in Calls |-> NoRow]
  /\ pc = [c \in Calls |-> "idle"]
  /\ candidate = [c \in Calls |-> 0]
  /\ answer = [c \in Calls |-> [kind |-> "none", order |-> NoOrder]]
  /\ aborts = 0

-----------------------------------------------------------------------------
(* What a statement sees: the rows of committed transactions.  An order is   *)
(* "created" only inside the transaction that inserts it.                    *)

Inserted == {c \in Calls : row[c] # NoRow}
Committed == {c \in Inserted : row[c].status # "created"}

WithKey(c) == {d \in Committed : KeyOf[d] = KeyOf[c]}

(* Mutant: the amounts of decided orders are used again.                     *)
OpenAmounts ==
  {row[d].amount : d \in {e \in Committed : Asset(e) = "USDT"
                                              /\ row[e].status = "waiting_payment"}}

UsedAmounts == {row[d].amount : d \in {e \in Committed : Asset(e) = "USDT"}}

(* The walk over the ordered amounts stops at the first gap.                 *)
LowestFreeAmount(c) ==
  CHOOSE a \in Price(c) .. (Price(c) + MaxOffset + 1) :
    /\ a \notin UsedAmounts \/ a = Price(c) + MaxOffset + 1
    /\ Price(c) .. (a - 1) \subseteq UsedAmounts

(* Mutant: no unique index on the attributed amount.                         *)
SameKeyRow(c, a, d) == d \in Inserted /\ KeyOf[d] = KeyOf[c]

(* The unique indexes: the row of d and a row of c with amount a exclude     *)
(* each other.                                                               *)
Excludes(c, a, d) ==
  /\ d \in Inserted
  /\ \/ KeyOf[d] = KeyOf[c]
     \/ Asset(c) = "USDT" /\ Asset(d) = "USDT" /\ row[d].amount = a

-----------------------------------------------------------------------------
(* Answers.                                                                  *)

Answer(c, kind, order) ==
  /\ answer' = [answer EXCEPT ![c] = [kind |-> kind, order |-> order]]
  /\ pc' = [pc EXCEPT ![c] = "done"]
  /\ candidate' = [candidate EXCEPT ![c] = 0]

(* An order with the key is the call's own when the payload is the same.     *)
AnswerFrom(c, d) ==
  IF PayloadOf[d] = PayloadOf[c] THEN Answer(c, "existing", d)
                                 ELSE Answer(c, "conflict", NoOrder)

GoOn(c, next, amount) ==
  /\ pc' = [pc EXCEPT ![c] = next]
  /\ candidate' = [candidate EXCEPT ![c] = amount]
  /\ UNCHANGED answer

-----------------------------------------------------------------------------
Begin(c) ==
  /\ pc[c] \in {"idle", "done"}
  /\ pc' = [pc EXCEPT ![c] = "find"]
  /\ UNCHANGED <<row, candidate, answer, aborts>>

(* findExisting before the insert; a TRX order needs no attribution.         *)
FindExisting(c) ==
  /\ pc[c] = "find"
  /\ \/ \E d \in WithKey(c) : AnswerFrom(c, d)
     \/ WithKey(c) = {} /\ Asset(c) = "USDT" /\ GoOn(c, "read", 0)
     \/ WithKey(c) = {} /\ Asset(c) = "TRX" /\ GoOn(c, "insert", Price(c))
  /\ UNCHANGED <<row, aborts>>

(* Mutant: the end of the range is forgotten.                                *)
ReadUsedAmountsUnbounded(c) ==
  /\ pc[c] = "read"
  /\ GoOn(c, "insert", LowestFreeAmount(c))
  /\ UNCHANGED <<row, aborts>>

ReadUsedAmounts(c) ==
  /\ pc[c] = "read"
  /\ \/ LowestFreeAmount(c) \in Amounts(c) /\ GoOn(c, "insert", LowestFreeAmount(c))
     \/ LowestFreeAmount(c) \notin Amounts(c) /\ GoOn(c, "full", 0)
  /\ UNCHANGED <<row, aborts>>

(* Mutant: a full range is refused at once.                                  *)
RefuseWhenFull(c) ==
  /\ pc[c] = "full"
  /\ Answer(c, "attribution_unavailable", NoOrder)
  /\ UNCHANGED <<row, aborts>>

(* No amount is left; the order may be there all the same, placed by another *)
(* call with the key since this one looked.                                  *)
FindWhenFull(c) ==
  /\ pc[c] = "full"
  /\ \/ \E d \in WithKey(c) : AnswerFrom(c, d)
     \/ WithKey(c) = {} /\ Answer(c, "attribution_unavailable", NoOrder)
  /\ UNCHANGED <<row, aborts>>

(* INSERT ... ON CONFLICT DO NOTHING: it waits for a transaction whose row   *)
(* excludes this one, and inserts nothing if that row is committed.          *)
InsertCandidate(c) ==
  /\ pc[c] = "insert"
  /\ \A d \in Calls : ~Excludes(c, candidate[c], d)
  /\ row' = [row EXCEPT ![c] = [amount |-> candidate[c], status |-> "created"]]
  /\ GoOn(c, "activate", 0)
  /\ UNCHANGED aborts

InsertNothing(c) ==
  /\ pc[c] = "insert"
  /\ \E d \in Committed : Excludes(c, candidate[c], d)
  /\ GoOn(c, "refind", 0)
  /\ UNCHANGED <<row, aborts>>

(* activateInserted and the commit.                                          *)
ActivateInserted(c) ==
  /\ pc[c] = "activate"
  /\ row' = [row EXCEPT ![c].status = "waiting_payment"]
  /\ Answer(c, "created", c)
  /\ UNCHANGED aborts

(* findExisting after an insert of nothing.  A USDT call whose key is still  *)
(* free lost its amount only, and looks for another one.                     *)
FindAfterInsert(c) ==
  /\ pc[c] = "refind"
  /\ \/ \E d \in WithKey(c) : AnswerFrom(c, d)
     \/ /\ WithKey(c) = {}
        /\ IF Asset(c) = "USDT" THEN GoOn(c, "read", 0) ELSE Answer(c, "error", NoOrder)
  /\ UNCHANGED <<row, aborts>>

(* The process dies or the database fails: the transaction is rolled back.   *)
Abort(c) ==
  /\ pc[c] \notin {"idle", "done"}
  /\ aborts < MaxAborts
  /\ aborts' = aborts + 1
  /\ row' = IF pc[c] = "activate" THEN [row EXCEPT ![c] = NoRow] ELSE row
  /\ GoOn(c, "idle", 0)

(* Later the order is paid, fails or expires; its row stays.                 *)
DecideOrder(c) ==
  /\ row[c] # NoRow
  /\ row[c].status = "waiting_payment"
  /\ row' = [row EXCEPT ![c].status = "decided"]
  /\ UNCHANGED <<pc, candidate, answer, aborts>>

(* The statements of createOrGet.                                            *)
CreateOrGet(c) ==
  \/ FindExisting(c) \/ ReadUsedAmounts(c) \/ FindWhenFull(c) \/ InsertCandidate(c)
  \/ InsertNothing(c) \/ ActivateInserted(c) \/ FindAfterInsert(c)

Next == \E c \in Calls : Begin(c) \/ CreateOrGet(c) \/ Abort(c) \/ DecideOrder(c)

(* The database answers every statement; a waiting insert goes on when the   *)
(* transaction it waits for has ended.                                       *)
Fairness == \A c \in Calls : WF_vars(CreateOrGet(c))

Spec == Init /\ [][Next]_vars

FairSpec == Spec /\ Fairness
-----------------------------------------------------------------------------
(* Properties.                                                               *)

TypeOK ==
  /\ row \in [Calls -> Row \cup {NoRow}]
  /\ \A c \in Inserted : row[c].amount \in Amounts(c)
  /\ pc \in [Calls -> {"idle", "find", "read", "full", "insert", "activate", "refind", "done"}]
  /\ candidate \in [Calls -> Nat]
  /\ answer \in [Calls -> [kind : Kinds, order : Calls \cup {NoOrder}]]
  /\ aborts \in 0 .. MaxAborts

(* A transfer identifies an order by its amount alone: two USDT orders never *)
(* ask for the same amount, not even when one has been decided long ago.     *)
(* PaymentSettlement takes this for granted in PaysFor.                      *)
OrdersAreDistinguishable ==
  \A c, d \in Committed :
    c # d => /\ KeyOf[c] # KeyOf[d]
             /\ Asset(c) = "USDT" /\ Asset(d) = "USDT" => row[c].amount # row[d].amount

(* A confirmation that is repeated, at the same time or later, through this  *)
(* process or another one, always leads to the same order or to none: it is  *)
(* never refused for want of an amount when its other copy got an order.     *)
RepeatsAgree ==
  \A c, d \in Calls :
    (/\ KeyOf[c] = KeyOf[d] /\ PayloadOf[c] = PayloadOf[d]
     /\ answer[c].kind # "none" /\ answer[d].kind # "none")
    => answer[c].order = answer[d].order

(* What a call answers is true of the committed rows although every statement*)
(* saw other ones: a conflict names an order with other terms, a refusal a   *)
(* range without a free amount, and a call never ends in an error.           *)
RefusalsAreTrue ==
  \A c \in Calls :
    /\ answer[c].kind \in {"created", "existing"} =>
         /\ answer[c].order \in WithKey(c)
         /\ PayloadOf[answer[c].order] = PayloadOf[c]
    /\ answer[c].kind = "conflict" => \E d \in WithKey(c) : PayloadOf[d] # PayloadOf[c]
    /\ answer[c].kind = "attribution_unavailable" =>
         Asset(c) = "USDT" /\ Amounts(c) \subseteq UsedAmounts
    /\ answer[c].kind # "error"

(* What a customer is told holds, and is the same for every copy.            *)
AnswersHold == RepeatsAgree /\ RefusalsAreTrue

(* The concurrent calls create orders as if one at a time: each order's      *)
(* amount is the lowest one free when its transaction commits.               *)
Book == INSTANCE OrderBook WITH
  book <- {[key |-> KeyOf[c], payload |-> PayloadOf[c], amount |-> row[c].amount] :
             c \in Committed}

ImplementsOrderBook == Book!Spec

(* The loop that looks for an amount ends although others take the amounts   *)
(* it has found free: every call is answered unless it is rolled back.       *)
EveryCallEnds == \A c \in Calls : []<>(pc[c] \in {"idle", "done"})
=============================================================================
