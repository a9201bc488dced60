------------------------- MODULE PurchaseOrdersProofs -------------------------
(***************************************************************************)
(* Creating purchase orders, for any number of concurrent calls, keys,     *)
(* payloads and prices and any attribution range.                          *)
(*                                                                         *)
(* Everything follows from Placed: rows, also the uncommitted ones, respect*)
(* the unique indexes, and an amount about to be inserted has only used    *)
(* amounts below it, which stays so because rows are never deleted.        *)
(***************************************************************************)
EXTENDS PurchaseOrders, WellFoundedInduction, TLAPS

(* A call has an uncommitted row exactly between its insert and its commit.  *)
CallsMatchRows ==
  \A c \in Calls :
    /\ pc[c] = "activate" <=> row[c] # NoRow /\ row[c].status = "created"
    /\ pc[c] \in {"read", "full", "insert", "refind"} => row[c] = NoRow

UniqueRows ==
  \A c, d \in Inserted :
    c # d => /\ KeyOf[c] # KeyOf[d]
             /\ Asset(c) = "USDT" /\ Asset(d) = "USDT" => row[c].amount # row[d].amount

BelowIsUsed(c, a) == Price(c) .. (a - 1) \subseteq UsedAmounts

CandidatesAreLowest ==
  \A c \in Calls :
    /\ pc[c] = "insert" => candidate[c] \in Amounts(c)
    /\ pc[c] = "insert" /\ Asset(c) = "USDT" => BelowIsUsed(c, candidate[c])
    /\ c \in Inserted /\ Asset(c) = "USDT" => BelowIsUsed(c, row[c].amount)

(* What a call that lost its amount or found none knows.                     *)
LosersKnow ==
  \A c \in Calls :
    /\ pc[c] = "refind" /\ Asset(c) = "TRX" => WithKey(c) # {}
    /\ pc[c] \in {"read", "full"} => Asset(c) = "USDT"
    /\ pc[c] = "full" => Amounts(c) \subseteq UsedAmounts

(* The amounts taken by orders under other keys.                             *)
TakenFrom(c) ==
  {row[d].amount : d \in {e \in Committed : Asset(e) = "USDT" /\ KeyOf[e] # KeyOf[c]}}

RefusedRangesAreTaken ==
  \A c \in Calls :
    /\ answer[c].kind = "attribution_unavailable" => Amounts(c) \subseteq TakenFrom(c)
    /\ answer[c].kind \in {"conflict", "attribution_unavailable"} => answer[c].order = NoOrder

Placed ==
  /\ TypeOK
  /\ CallsMatchRows
  /\ UniqueRows
  /\ CandidatesAreLowest
  /\ LosersKnow
  /\ RefusalsAreTrue
  /\ RefusedRangesAreTaken

-----------------------------------------------------------------------------
(* The least element of a set of numbers.                                    *)
LEMMA LeastElement ==
  ASSUME NEW T \in SUBSET Nat, T # {}
  PROVE  \E x \in T : \A y \in T : x <= y
<1> DEFINE R == {p \in Nat \X Nat : p[1] < p[2]}
<1>1. IsWellFoundedOn(R, Nat)
  BY NatLessThanWellFounded DEF OpToRel
<1>2. PICK x \in T : \A y \in T : <<y, x>> \notin R
  <2> HIDE DEF R
  <2> QED BY <1>1, WFMin
<1>3. \A y \in T : ~(y < x)
  BY <1>2
<1> QED BY <1>3

(* The walk over the used amounts (createOrGet, lines 359-372) finds the     *)
(* lowest free amount, or the one after the range when none is free.         *)
LEMMA LowestFreeAmountIsLowest ==
  ASSUME TypeOK, NEW c \in Calls
  PROVE  /\ LowestFreeAmount(c) \in Price(c) .. (Price(c) + MaxOffset + 1)
         /\ LowestFreeAmount(c) \notin UsedAmounts
              \/ LowestFreeAmount(c) = Price(c) + MaxOffset + 1
         /\ BelowIsUsed(c, LowestFreeAmount(c))
<1> DEFINE Last == Price(c) + MaxOffset + 1
           T == {a \in Price(c) .. Last : a \notin UsedAmounts \/ a = Last}
<1>1. Price(c) \in Nat /\ MaxOffset \in Nat /\ Last \in Price(c) .. Last
  BY CallsHaveKeys, PayloadsHavePrices, BoundsAreNatural DEF Price
<1>2. T \in SUBSET Nat /\ Last \in T
  BY <1>1
<1>3. PICK x \in T : \A y \in T : x <= y
  <2> HIDE DEF T
  <2> QED BY <1>2, LeastElement
<1>4. \A a \in Price(c) .. (x - 1) : a \in UsedAmounts
  BY <1>1, <1>3
<1>5. \E a \in Price(c) .. (Price(c) + MaxOffset + 1) :
        /\ a \notin UsedAmounts \/ a = Price(c) + MaxOffset + 1
        /\ Price(c) .. (a - 1) \subseteq UsedAmounts
  BY <1>3, <1>4
<1> HIDE DEF Last, T
<1> QED BY <1>5 DEF LowestFreeAmount, BelowIsUsed

-----------------------------------------------------------------------------
(* Committed rows stay, with their amounts.                                  *)
RowsStay ==
  \A d \in Committed : d \in Committed' /\ row'[d].amount = row[d].amount

LEMMA CommittedRowsStay ==
  ASSUME TypeOK, CallsMatchRows, [Next]_vars
  PROVE  RowsStay
<1> USE DEF Inserted, Committed
<1> SUFFICES ASSUME NEW d \in Committed
             PROVE  d \in Committed' /\ row'[d].amount = row[d].amount
  BY DEF RowsStay
<1>1. CASE UNCHANGED vars
  BY <1>1 DEF vars
<1>2. ASSUME NEW c \in Calls, InsertCandidate(c)
      PROVE  d \in Committed' /\ row'[d].amount = row[d].amount
  <2>1. c # d
    BY <1>2 DEF InsertCandidate, CallsMatchRows
  <2> QED BY <1>2, <2>1 DEF InsertCandidate, TypeOK
<1>3. ASSUME NEW c \in Calls, ActivateInserted(c)
      PROVE  d \in Committed' /\ row'[d].amount = row[d].amount
  <2>1. c # d
    BY <1>3 DEF ActivateInserted, CallsMatchRows
  <2> QED BY <1>3, <2>1 DEF ActivateInserted, TypeOK
<1>4. ASSUME NEW c \in Calls, Abort(c)
      PROVE  d \in Committed' /\ row'[d].amount = row[d].amount
  <2>1. pc[c] = "activate" => c # d
    BY DEF CallsMatchRows
  <2> QED BY <1>4, <2>1 DEF Abort, TypeOK
<1>5. ASSUME NEW c \in Calls, DecideOrder(c)
      PROVE  d \in Committed' /\ row'[d].amount = row[d].amount
  <2>1. row' = [row EXCEPT ![c].status = "decided"] /\ row[c] \in Row /\ NoRow \notin Row
    BY <1>5, NoRowIsNoRow DEF DecideOrder, TypeOK
  <2>2. row'[c] = [row[c] EXCEPT !.status = "decided"] /\ row'[c] \in Row
    BY <2>1 DEF Row, TypeOK
  <2>3. row'[c].amount = row[c].amount /\ row'[c].status = "decided"
    BY <2>1, <2>2 DEF Row
  <2>4. c # d => row'[d] = row[d]
    BY <2>1 DEF TypeOK
  <2> QED BY <2>1, <2>2, <2>3, <2>4
<1>6. ASSUME NEW c \in Calls,
             Begin(c) \/ FindExisting(c) \/ ReadUsedAmounts(c) \/ FindWhenFull(c)
               \/ InsertNothing(c) \/ FindAfterInsert(c)
      PROVE  d \in Committed' /\ row'[d].amount = row[d].amount
  <2>1. row' = row
    BY <1>6 DEF Begin, FindExisting, ReadUsedAmounts, FindWhenFull, InsertNothing,
                FindAfterInsert
  <2> QED BY <2>1
<1> QED BY <1>1, <1>2, <1>3, <1>4, <1>5, <1>6 DEF Next, CreateOrGet

(* What statements see only grows.                                           *)
LEMMA ViewsGrow ==
  ASSUME RowsStay
  PROVE  /\ UsedAmounts \subseteq UsedAmounts'
         /\ \A c \in Calls : WithKey(c) \subseteq WithKey(c)' /\ TakenFrom(c) \subseteq TakenFrom(c)'
         /\ \A c \in Calls : \A a : BelowIsUsed(c, a) => BelowIsUsed(c, a)'
<1>1. \A d \in Committed : d \in Committed' /\ row'[d].amount = row[d].amount
  BY DEF RowsStay
<1>2. UsedAmounts \subseteq UsedAmounts'
  BY <1>1 DEF UsedAmounts, Asset
<1>3. \A c \in Calls : WithKey(c) \subseteq WithKey(c)'
  BY <1>1 DEF WithKey
<1>4. \A c \in Calls : TakenFrom(c) \subseteq TakenFrom(c)'
  BY <1>1 DEF TakenFrom, Asset
<1>5. \A c \in Calls : \A a : BelowIsUsed(c, a) => BelowIsUsed(c, a)'
  BY <1>2 DEF BelowIsUsed, Price
<1> QED BY <1>2, <1>3, <1>4, <1>5

LEMMA SameRows ==
  ASSUME row' = row
  PROVE  /\ Inserted' = Inserted /\ Committed' = Committed /\ UsedAmounts' = UsedAmounts
         /\ \A c \in Calls : WithKey(c)' = WithKey(c) /\ TakenFrom(c)' = TakenFrom(c)
         /\ \A c \in Calls : Asset(c)' = Asset(c) /\ Amounts(c)' = Amounts(c)
  BY DEF Inserted, Committed, UsedAmounts, WithKey, TakenFrom, Asset, Amounts, Price

(* Rows of committed transactions differ in key and in attributed amount, so *)
(* an answer that names a row of the call's key names the only one.          *)
LEMMA OneRowPerKey ==
  ASSUME UniqueRows, NEW c \in Calls, NEW d \in WithKey(c), NEW e \in WithKey(c)
  PROVE  d = e
  BY DEF UniqueRows, WithKey, Committed, Inserted

THEOREM InitPlaced == Init => Placed
<1> SUFFICES ASSUME Init PROVE Placed
  OBVIOUS
<1> USE DEF Init
<1>1. TypeOK
  BY BoundsAreNatural DEF TypeOK, Inserted, Kinds
<1>2. CallsMatchRows
  BY DEF CallsMatchRows
<1>3. UniqueRows
  BY DEF UniqueRows, Inserted
<1>4. CandidatesAreLowest
  BY DEF CandidatesAreLowest, Inserted
<1>5. LosersKnow
  BY DEF LosersKnow
<1>6. RefusalsAreTrue
  BY DEF RefusalsAreTrue
<1>7. RefusedRangesAreTaken
  BY DEF RefusedRangesAreTaken
<1> QED BY <1>1, <1>2, <1>3, <1>4, <1>5, <1>6, <1>7 DEF Placed

-----------------------------------------------------------------------------
(* Steps that change no row.                                                 *)

(* What an answer from a found order adds.                                   *)
LEMMA AnswerFromIsTrue ==
  ASSUME Placed, NEW c \in Calls, NEW d \in WithKey(c), AnswerFrom(c, d), row' = row
  PROVE  /\ RefusalsAreTrue' /\ RefusedRangesAreTaken'
         /\ answer' \in [Calls -> [kind : Kinds, order : Calls \cup {NoOrder}]]
         /\ pc' = [pc EXCEPT ![c] = "done"]
         /\ candidate' = [candidate EXCEPT ![c] = 0]
<1>1. \E k \in {"existing", "conflict"}, o \in Calls \cup {NoOrder} :
        /\ answer' = [answer EXCEPT ![c] = [kind |-> k, order |-> o]]
        /\ k = "existing" => o = d /\ PayloadOf[d] = PayloadOf[c]
        /\ k = "conflict" => o = NoOrder /\ PayloadOf[d] # PayloadOf[c]
  BY DEF AnswerFrom, Answer, WithKey, Committed, Inserted
<1>2. PICK k \in {"existing", "conflict"}, o \in Calls \cup {NoOrder} :
        /\ answer' = [answer EXCEPT ![c] = [kind |-> k, order |-> o]]
        /\ k = "existing" => o = d /\ PayloadOf[d] = PayloadOf[c]
        /\ k = "conflict" => o = NoOrder /\ PayloadOf[d] # PayloadOf[c]
  BY <1>1
<1>3. answer \in [Calls -> [kind : Kinds, order : Calls \cup {NoOrder}]]
  BY DEF Placed, TypeOK
<1>4. answer'[c] = [kind |-> k, order |-> o] /\ \A e \in Calls : e # c => answer'[e] = answer[e]
  BY <1>2, <1>3
<1>5. RefusalsAreTrue'
  <2>1. /\ \A e \in Calls : /\ WithKey(e)' = WithKey(e) /\ Asset(e)' = Asset(e)
                            /\ Amounts(e)' = Amounts(e)
        /\ UsedAmounts' = UsedAmounts
    BY SameRows
  <2>2. answer'[c].kind = k /\ answer'[c].order = o
    BY <1>4
  <2>3. k = "existing" => o \in WithKey(c) /\ PayloadOf[o] = PayloadOf[c]
    BY <1>2
  <2>4. k = "conflict" => \E e \in WithKey(c) : PayloadOf[e] # PayloadOf[c]
    BY <1>2
  <2>5. RefusalsAreTrue
    BY DEF Placed
  <2> QED BY <1>4, <2>1, <2>2, <2>3, <2>4, <2>5 DEF RefusalsAreTrue
<1>6. RefusedRangesAreTaken'
  <2>1. \A e \in Calls : TakenFrom(e)' = TakenFrom(e) /\ Amounts(e)' = Amounts(e)
    BY SameRows
  <2>2. answer'[c].kind = k /\ answer'[c].order = o /\ (k = "conflict" => o = NoOrder)
    BY <1>2, <1>4
  <2>3. RefusedRangesAreTaken
    BY DEF Placed
  <2> QED BY <1>4, <2>1, <2>2, <2>3 DEF RefusedRangesAreTaken
<1>7. answer' \in [Calls -> [kind : Kinds, order : Calls \cup {NoOrder}]]
  BY <1>2, <1>3 DEF Kinds
<1>8. pc' = [pc EXCEPT ![c] = "done"] /\ candidate' = [candidate EXCEPT ![c] = 0]
  BY DEF AnswerFrom, Answer
<1> QED BY <1>5, <1>6, <1>7, <1>8

(* A call that goes on, or ends, without touching a row: what remains to be  *)
(* shown is what its next statement relies on.                               *)
LEMMA CallGoesOn ==
  ASSUME Placed, row' = row, aborts' = aborts,
         NEW c \in Calls, pc[c] # "activate",
         NEW next \in {"idle", "find", "read", "full", "insert", "refind", "done"},
         pc' = [pc EXCEPT ![c] = next],
         NEW a \in Nat, candidate' = [candidate EXCEPT ![c] = a],
         next \in {"read", "full", "insert", "refind"} => row[c] = NoRow,
         next = "insert" => a \in Amounts(c) /\ (Asset(c) = "USDT" => BelowIsUsed(c, a)),
         next = "refind" /\ Asset(c) = "TRX" => WithKey(c) # {},
         next \in {"read", "full"} => Asset(c) = "USDT",
         next = "full" => Amounts(c) \subseteq UsedAmounts,
         answer' \in [Calls -> [kind : Kinds, order : Calls \cup {NoOrder}]],
         RefusalsAreTrue', RefusedRangesAreTaken'
  PROVE  Placed'
<1> USE DEF Placed
<1>1. TypeOK'
  BY SameRows DEF TypeOK
<1>2. CallsMatchRows'
  BY DEF CallsMatchRows, TypeOK
<1>3. UniqueRows'
  BY SameRows DEF UniqueRows
<1>4. CandidatesAreLowest'
  <2>1. \A e \in Calls : \A b : BelowIsUsed(e, b)' = BelowIsUsed(e, b)
    BY SameRows DEF BelowIsUsed, Price
  <2> QED BY <2>1, SameRows DEF CandidatesAreLowest, TypeOK
<1>5. LosersKnow'
  BY SameRows DEF LosersKnow, TypeOK
<1> QED BY <1>1, <1>2, <1>3, <1>4, <1>5

(* The answers stay true when no row and no answer changes.                  *)
LEMMA SameAnswers ==
  ASSUME Placed, row' = row, answer' = answer
  PROVE  /\ RefusalsAreTrue' /\ RefusedRangesAreTaken'
         /\ answer' \in [Calls -> [kind : Kinds, order : Calls \cup {NoOrder}]]
  BY SameRows DEF Placed, TypeOK, RefusalsAreTrue, RefusedRangesAreTaken

LEMMA BeginKeeps ==
  ASSUME Placed, NEW c \in Calls, Begin(c)
  PROVE  Placed'
<1>1. candidate[c] \in Nat /\ candidate' = [candidate EXCEPT ![c] = candidate[c]]
  BY DEF Begin, Placed, TypeOK
<1> QED BY <1>1, SameAnswers, CallGoesOn DEF Begin

LEMMA FindExistingKeeps ==
  ASSUME Placed, NEW c \in Calls, FindExisting(c)
  PROVE  Placed'
<1>1. row' = row /\ aborts' = aborts /\ pc[c] = "find"
  BY DEF FindExisting
<1>2. CASE \E d \in WithKey(c) : AnswerFrom(c, d)
  BY <1>1, <1>2, AnswerFromIsTrue, CallGoesOn
<1>3. ASSUME WithKey(c) = {} PROVE row[c] = NoRow
  BY <1>1, <1>3 DEF WithKey, Committed, Inserted, Placed, CallsMatchRows
<1>4. CASE WithKey(c) = {} /\ Asset(c) = "USDT" /\ GoOn(c, "read", 0)
  BY <1>1, <1>3, <1>4, SameAnswers, CallGoesOn DEF GoOn
<1>5. CASE WithKey(c) = {} /\ Asset(c) = "TRX" /\ GoOn(c, "insert", Price(c))
  <2>1. Price(c) \in Nat /\ Price(c) \in Amounts(c)
    BY <1>5, CallsHaveKeys, PayloadsHavePrices DEF Price, Amounts
  <2> QED BY <1>1, <1>3, <1>5, <2>1, SameAnswers, CallGoesOn DEF GoOn
<1> QED BY <1>2, <1>4, <1>5 DEF FindExisting

LEMMA ReadUsedAmountsKeeps ==
  ASSUME Placed, NEW c \in Calls, ReadUsedAmounts(c)
  PROVE  Placed'
<1> DEFINE a == LowestFreeAmount(c)
<1>1. row' = row /\ aborts' = aborts /\ pc[c] = "read" /\ row[c] = NoRow /\ Asset(c) = "USDT"
  BY DEF ReadUsedAmounts, Placed, CallsMatchRows, LosersKnow
<1>2. a \in Price(c) .. (Price(c) + MaxOffset + 1) /\ BelowIsUsed(c, a)
  BY LowestFreeAmountIsLowest DEF Placed
<1>3. Price(c) \in Nat /\ MaxOffset \in Nat /\ Amounts(c) = Price(c) .. (Price(c) + MaxOffset)
  BY <1>1, CallsHaveKeys, PayloadsHavePrices, BoundsAreNatural DEF Price, Amounts
<1>4. a \in Nat /\ (a \notin Amounts(c) => Amounts(c) \subseteq UsedAmounts)
  BY <1>2, <1>3 DEF BelowIsUsed
<1> HIDE DEF a
<1>5. CASE a \in Amounts(c) /\ GoOn(c, "insert", a)
  BY <1>1, <1>2, <1>4, <1>5, SameAnswers, CallGoesOn DEF GoOn
<1>6. CASE a \notin Amounts(c) /\ GoOn(c, "full", 0)
  BY <1>1, <1>4, <1>6, SameAnswers, CallGoesOn DEF GoOn
<1> QED BY <1>5, <1>6 DEF ReadUsedAmounts, a

LEMMA FindWhenFullKeeps ==
  ASSUME Placed, NEW c \in Calls, FindWhenFull(c)
  PROVE  Placed'
<1>1. row' = row /\ aborts' = aborts /\ pc[c] = "full" /\ Asset(c) = "USDT"
      /\ Amounts(c) \subseteq UsedAmounts
  BY DEF FindWhenFull, Placed, LosersKnow
<1>2. CASE \E d \in WithKey(c) : AnswerFrom(c, d)
  BY <1>1, <1>2, AnswerFromIsTrue, CallGoesOn
<1>3. CASE WithKey(c) = {} /\ Answer(c, "attribution_unavailable", NoOrder)
  <2>1. /\ answer' = [answer EXCEPT
                        ![c] = [kind |-> "attribution_unavailable", order |-> NoOrder]]
        /\ pc' = [pc EXCEPT ![c] = "done"] /\ candidate' = [candidate EXCEPT ![c] = 0]
    BY <1>3 DEF Answer
  <2>2. answer \in [Calls -> [kind : Kinds, order : Calls \cup {NoOrder}]]
    BY DEF Placed, TypeOK
  <2>3. answer' \in [Calls -> [kind : Kinds, order : Calls \cup {NoOrder}]]
    BY <2>1, <2>2 DEF Kinds
  <2>4. /\ answer'[c].kind = "attribution_unavailable" /\ answer'[c].order = NoOrder
        /\ \A e \in Calls : e # c => answer'[e] = answer[e]
    BY <2>1, <2>2
  <2>5. Amounts(c) \subseteq TakenFrom(c)
    BY <1>1, <1>3 DEF UsedAmounts, TakenFrom, WithKey
  <2>6. /\ \A e \in Calls : /\ WithKey(e)' = WithKey(e) /\ Asset(e)' = Asset(e)
                            /\ Amounts(e)' = Amounts(e) /\ TakenFrom(e)' = TakenFrom(e)
        /\ UsedAmounts' = UsedAmounts
    BY <1>1, SameRows
  <2>7. RefusalsAreTrue'
    BY <1>1, <2>4, <2>6 DEF RefusalsAreTrue, Placed
  <2>8. RefusedRangesAreTaken'
    BY <2>4, <2>5, <2>6 DEF RefusedRangesAreTaken, Placed
  <2> QED BY <1>1, <2>1, <2>3, <2>7, <2>8, CallGoesOn
<1> QED BY <1>2, <1>3 DEF FindWhenFull

LEMMA InsertNothingKeeps ==
  ASSUME Placed, NEW c \in Calls, InsertNothing(c)
  PROVE  Placed'
<1>1. /\ row' = row /\ aborts' = aborts /\ pc[c] = "insert" /\ row[c] = NoRow
      /\ GoOn(c, "refind", 0)
  BY DEF InsertNothing, Placed, CallsMatchRows
<1>2. Asset(c) = "TRX" => WithKey(c) # {}
  BY DEF InsertNothing, Excludes, WithKey
<1> QED BY <1>1, <1>2, SameAnswers, CallGoesOn DEF GoOn

LEMMA FindAfterInsertKeeps ==
  ASSUME Placed, NEW c \in Calls, FindAfterInsert(c)
  PROVE  Placed'
<1>1. row' = row /\ aborts' = aborts /\ pc[c] = "refind" /\ row[c] = NoRow
  BY DEF FindAfterInsert, Placed, CallsMatchRows
<1>2. CASE \E d \in WithKey(c) : AnswerFrom(c, d)
  BY <1>1, <1>2, AnswerFromIsTrue, CallGoesOn
<1>3. CASE /\ WithKey(c) = {}
           /\ IF Asset(c) = "USDT" THEN GoOn(c, "read", 0) ELSE Answer(c, "error", NoOrder)
  <2>1. Asset(c) = "USDT"
    BY <1>1, <1>3, CallsHaveKeys, PayloadsHavePrices DEF Asset, Placed, LosersKnow
  <2> QED BY <1>1, <1>3, <2>1, SameAnswers, CallGoesOn DEF GoOn
<1> QED BY <1>2, <1>3 DEF FindAfterInsert

-----------------------------------------------------------------------------
(* Steps that change a row.  Views only grow, so what was answered and what  *)
(* is below a candidate stays true.                                          *)
LEMMA GrownViews ==
  ASSUME Placed, [Next]_vars
  PROVE  /\ RowsStay
         /\ UsedAmounts \subseteq UsedAmounts'
         /\ \A c \in Calls :
              /\ WithKey(c) \subseteq WithKey(c)' /\ TakenFrom(c) \subseteq TakenFrom(c)'
              /\ Amounts(c)' = Amounts(c) /\ Asset(c)' = Asset(c)
              /\ \A a : BelowIsUsed(c, a) => BelowIsUsed(c, a)'
  BY CommittedRowsStay, ViewsGrow DEF Placed, Amounts, Asset, Price

LEMMA AnswersStayTrue ==
  ASSUME Placed, [Next]_vars, answer' = answer
  PROVE  RefusalsAreTrue' /\ RefusedRangesAreTaken'
<1>1. RefusalsAreTrue /\ RefusedRangesAreTaken
  BY DEF Placed
<1> QED BY <1>1, GrownViews DEF RefusalsAreTrue, RefusedRangesAreTaken

LEMMA InsertCandidateKeeps ==
  ASSUME Placed, NEW c \in Calls, InsertCandidate(c)
  PROVE  Placed'
<1> DEFINE new == [amount |-> candidate[c], status |-> "created"]
<1>1. [Next]_vars
  BY DEF Next, CreateOrGet
<1>2. /\ pc[c] = "insert" /\ row[c] = NoRow /\ row' = [row EXCEPT ![c] = new]
      /\ pc' = [pc EXCEPT ![c] = "activate"] /\ candidate' = [candidate EXCEPT ![c] = 0]
      /\ answer' = answer /\ aborts' = aborts
  BY DEF InsertCandidate, GoOn, Placed, CallsMatchRows
<1>3. TypeOK /\ CallsMatchRows /\ UniqueRows /\ CandidatesAreLowest /\ LosersKnow
  BY DEF Placed
<1>4. new \in Row /\ new # NoRow /\ candidate[c] \in Amounts(c)
  BY <1>2, <1>3, NoRowIsNoRow DEF TypeOK, Row, CandidatesAreLowest
<1>5. /\ row'[c] = new /\ \A d \in Calls : d # c => row'[d] = row[d]
      /\ Inserted' = Inserted \cup {c} /\ c \notin Inserted
  BY <1>2, <1>3, <1>4 DEF TypeOK, Inserted
<1>6. TypeOK'
  <2>1. row' \in [Calls -> Row \cup {NoRow}]
    BY <1>2, <1>3, <1>4 DEF TypeOK
  <2>2. \A d \in Inserted' : row'[d].amount \in Amounts(d)'
    BY <1>1, <1>3, <1>4, <1>5, GrownViews DEF TypeOK, Inserted
  <2> QED BY <1>2, <1>3, <2>1, <2>2 DEF TypeOK
<1>7. CallsMatchRows'
  BY <1>2, <1>3, <1>4, <1>5 DEF CallsMatchRows, TypeOK
<1>8. UniqueRows'
  <2>1. \A d \in Calls : ~Excludes(c, candidate[c], d)
    BY DEF InsertCandidate
  <2>2. \A d \in Inserted : /\ KeyOf[d] # KeyOf[c]
                            /\ Asset(c) = "USDT" /\ Asset(d) = "USDT"
                                 => row[d].amount # candidate[c]
    BY <2>1 DEF Excludes, Inserted
  <2>3. \A d \in Calls : Asset(d)' = Asset(d)
    BY DEF Asset
  <2> QED BY <1>3, <1>5, <2>2, <2>3 DEF UniqueRows, Inserted
<1>9. CandidatesAreLowest'
  <2>1. \A e \in Calls : /\ Amounts(e)' = Amounts(e) /\ Asset(e)' = Asset(e)
                         /\ \A a : BelowIsUsed(e, a) => BelowIsUsed(e, a)'
    BY <1>1, GrownViews
  <2> QED BY <1>2, <1>3, <1>5, <2>1 DEF CandidatesAreLowest, TypeOK
<1>10. LosersKnow'
  BY <1>1, <1>2, <1>3, GrownViews DEF LosersKnow, TypeOK
<1>11. RefusalsAreTrue' /\ RefusedRangesAreTaken'
  BY <1>1, <1>2, AnswersStayTrue
<1> QED BY <1>6, <1>7, <1>8, <1>9, <1>10, <1>11 DEF Placed

(* A row that changes its status only.                                       *)
LEMMA StatusChanges ==
  ASSUME TypeOK, NEW c \in Calls, row[c] # NoRow,
         NEW s \in {"waiting_payment", "decided"},
         row' = [row EXCEPT ![c].status = s]
  PROVE  /\ row' \in [Calls -> Row \cup {NoRow}]
         /\ row'[c] # NoRow /\ row'[c].amount = row[c].amount /\ row'[c].status = s
         /\ \A d \in Calls : d # c => row'[d] = row[d]
         /\ Inserted' = Inserted
<1>1. row[c] \in Row
  BY DEF TypeOK
<1>2. [row[c] EXCEPT !.status = s] = [amount |-> row[c].amount, status |-> s]
  BY <1>1 DEF Row
<1>3. row' = [row EXCEPT ![c] = [amount |-> row[c].amount, status |-> s]]
  BY <1>2
<1>4. [amount |-> row[c].amount, status |-> s] \in Row
  BY <1>1 DEF Row
<1> QED BY <1>3, <1>4, NoRowIsNoRow DEF TypeOK, Inserted

LEMMA StatusChangesKeep ==
  ASSUME Placed, [Next]_vars, NEW c \in Calls, row[c] # NoRow,
         NEW s \in {"waiting_payment", "decided"},
         row' = [row EXCEPT ![c].status = s]
  PROVE  UniqueRows'
<1>1. /\ \A d \in Inserted : row'[d].amount = row[d].amount
      /\ Inserted' = Inserted
  BY StatusChanges DEF Placed, Inserted
<1>2. UniqueRows /\ \A d \in Calls : Asset(d)' = Asset(d)
  BY DEF Placed, Asset
<1> QED BY <1>1, <1>2 DEF UniqueRows, Inserted

LEMMA ActivateInsertedKeeps ==
  ASSUME Placed, NEW c \in Calls, ActivateInserted(c)
  PROVE  Placed'
<1>1. [Next]_vars
  BY DEF Next, CreateOrGet
<1>2. TypeOK /\ CallsMatchRows /\ UniqueRows /\ CandidatesAreLowest /\ LosersKnow
      /\ RefusalsAreTrue /\ RefusedRangesAreTaken
  BY DEF Placed
<1>3. /\ pc[c] = "activate" /\ row[c] # NoRow /\ aborts' = aborts
      /\ row' = [row EXCEPT ![c].status = "waiting_payment"]
      /\ pc' = [pc EXCEPT ![c] = "done"] /\ candidate' = [candidate EXCEPT ![c] = 0]
      /\ answer' = [answer EXCEPT ![c] = [kind |-> "created", order |-> c]]
  BY <1>2 DEF ActivateInserted, Answer, CallsMatchRows
<1>4. /\ row' \in [Calls -> Row \cup {NoRow}]
      /\ row'[c] # NoRow /\ row'[c].amount = row[c].amount
      /\ row'[c].status = "waiting_payment"
      /\ \A d \in Calls : d # c => row'[d] = row[d]
      /\ Inserted' = Inserted
  BY <1>2, <1>3, StatusChanges
<1>5. /\ \A d \in Inserted : row'[d].amount = row[d].amount
      /\ c \in Inserted
  BY <1>3, <1>4 DEF Inserted
<1>6. /\ \A d \in Calls : /\ Amounts(d)' = Amounts(d) /\ Asset(d)' = Asset(d)
                          /\ WithKey(d) \subseteq WithKey(d)'
                          /\ TakenFrom(d) \subseteq TakenFrom(d)'
                          /\ \A a : BelowIsUsed(d, a) => BelowIsUsed(d, a)'
      /\ UsedAmounts \subseteq UsedAmounts'
  BY <1>1, GrownViews
<1>7. /\ answer'[c].kind = "created" /\ answer'[c].order = c
      /\ \A d \in Calls : d # c => answer'[d] = answer[d]
      /\ answer' \in [Calls -> [kind : Kinds, order : Calls \cup {NoOrder}]]
  BY <1>2, <1>3 DEF TypeOK, Kinds
<1>8. c \in WithKey(c)'
  BY <1>4, <1>5 DEF WithKey, Committed, Inserted
<1>9. TypeOK'
  <2>1. \A d \in Inserted' : row'[d].amount \in Amounts(d)'
    BY <1>2, <1>4, <1>5, <1>6 DEF TypeOK, Inserted
  <2> QED BY <1>2, <1>3, <1>4, <1>7, <2>1 DEF TypeOK
<1>10. CallsMatchRows'
  BY <1>2, <1>3, <1>4 DEF CallsMatchRows, TypeOK
<1>11. UniqueRows'
  BY <1>1, <1>3, StatusChangesKeep
<1>12. CandidatesAreLowest'
  BY <1>2, <1>3, <1>4, <1>5, <1>6 DEF CandidatesAreLowest, TypeOK, Inserted
<1>13. LosersKnow'
  BY <1>2, <1>3, <1>6 DEF LosersKnow, TypeOK
<1>14. RefusalsAreTrue'
  BY <1>2, <1>6, <1>7, <1>8 DEF RefusalsAreTrue
<1>15. RefusedRangesAreTaken'
  BY <1>2, <1>6, <1>7 DEF RefusedRangesAreTaken
<1> QED BY <1>9, <1>10, <1>11, <1>12, <1>13, <1>14, <1>15 DEF Placed

LEMMA DecideOrderKeeps ==
  ASSUME Placed, NEW c \in Calls, DecideOrder(c)
  PROVE  Placed'
<1>1. [Next]_vars
  BY DEF Next
<1>2. TypeOK /\ CallsMatchRows /\ UniqueRows /\ CandidatesAreLowest /\ LosersKnow
  BY DEF Placed
<1>3. /\ row[c] # NoRow /\ row[c].status = "waiting_payment"
      /\ row' = [row EXCEPT ![c].status = "decided"]
      /\ UNCHANGED <<pc, candidate, answer, aborts>>
  BY DEF DecideOrder
<1>4. /\ row' \in [Calls -> Row \cup {NoRow}]
      /\ row'[c] # NoRow /\ row'[c].amount = row[c].amount /\ row'[c].status = "decided"
      /\ \A d \in Calls : d # c => row'[d] = row[d]
      /\ Inserted' = Inserted
  BY <1>2, <1>3, StatusChanges
<1>5. \A d \in Inserted : row'[d].amount = row[d].amount
  BY <1>4 DEF Inserted
<1>6. \A d \in Calls : /\ Amounts(d)' = Amounts(d) /\ Asset(d)' = Asset(d)
                       /\ WithKey(d) \subseteq WithKey(d)'
                       /\ \A a : BelowIsUsed(d, a) => BelowIsUsed(d, a)'
  BY <1>1, GrownViews
<1>7. TypeOK'
  <2>1. \A d \in Inserted' : row'[d].amount \in Amounts(d)'
    BY <1>2, <1>4, <1>5, <1>6 DEF TypeOK, Inserted
  <2> QED BY <1>2, <1>3, <1>4, <2>1 DEF TypeOK
<1>8. CallsMatchRows'
  BY <1>2, <1>3, <1>4 DEF CallsMatchRows
<1>9. UniqueRows'
  BY <1>1, <1>3, StatusChangesKeep
<1>10. CandidatesAreLowest'
  BY <1>2, <1>3, <1>4, <1>5, <1>6 DEF CandidatesAreLowest
<1>11. LosersKnow'
  BY <1>1, <1>2, <1>3, GrownViews DEF LosersKnow
<1>12. RefusalsAreTrue' /\ RefusedRangesAreTaken'
  BY <1>1, <1>3, AnswersStayTrue
<1> QED BY <1>7, <1>8, <1>9, <1>10, <1>11, <1>12 DEF Placed

LEMMA AbortKeeps ==
  ASSUME Placed, NEW c \in Calls, Abort(c)
  PROVE  Placed'
<1>1. [Next]_vars
  BY DEF Next
<1>2. TypeOK /\ CallsMatchRows /\ UniqueRows /\ CandidatesAreLowest /\ LosersKnow
  BY DEF Placed
<1>3. /\ pc' = [pc EXCEPT ![c] = "idle"] /\ candidate' = [candidate EXCEPT ![c] = 0]
      /\ answer' = answer /\ aborts' \in 0 .. MaxAborts
      /\ row' = IF pc[c] = "activate" THEN [row EXCEPT ![c] = NoRow] ELSE row
  BY <1>2, BoundsAreNatural DEF Abort, GoOn, TypeOK
<1>4. /\ row' \in [Calls -> Row \cup {NoRow}]
      /\ \A d \in Calls : d # c => row'[d] = row[d]
      /\ row'[c] = NoRow \/ (row'[c] = row[c] /\ pc[c] # "activate")
  BY <1>2, <1>3 DEF TypeOK
<1>5. \A d \in Inserted' : d \in Inserted /\ row'[d] = row[d]
  BY <1>4 DEF Inserted
<1>6. \A d \in Calls : /\ Amounts(d)' = Amounts(d) /\ Asset(d)' = Asset(d)
                       /\ \A a : BelowIsUsed(d, a) => BelowIsUsed(d, a)'
  BY <1>1, GrownViews
<1>7. TypeOK'
  <2>1. \A d \in Inserted' : row'[d].amount \in Amounts(d)'
    BY <1>2, <1>5, <1>6 DEF TypeOK, Inserted
  <2> QED BY <1>2, <1>3, <1>4, <2>1 DEF TypeOK
<1>8. CallsMatchRows'
  BY <1>2, <1>3, <1>4 DEF CallsMatchRows, TypeOK
<1>9. UniqueRows'
  BY <1>2, <1>5, <1>6 DEF UniqueRows, Inserted
<1>10. CandidatesAreLowest'
  BY <1>2, <1>3, <1>5, <1>6 DEF CandidatesAreLowest, TypeOK, Inserted
<1>11. LosersKnow'
  BY <1>1, <1>2, <1>3, GrownViews DEF LosersKnow, TypeOK
<1>12. RefusalsAreTrue' /\ RefusedRangesAreTaken'
  BY <1>1, <1>3, AnswersStayTrue
<1> QED BY <1>7, <1>8, <1>9, <1>10, <1>11, <1>12 DEF Placed

-----------------------------------------------------------------------------
THEOREM NextPlaced == Placed /\ [Next]_vars => Placed'
<1> SUFFICES ASSUME Placed, [Next]_vars PROVE Placed'
  OBVIOUS
<1>1. CASE UNCHANGED vars
  BY <1>1 DEF vars, Placed, TypeOK, CallsMatchRows, UniqueRows, CandidatesAreLowest,
              LosersKnow, RefusalsAreTrue, RefusedRangesAreTaken, Inserted, Committed,
              WithKey, UsedAmounts, TakenFrom, BelowIsUsed, Amounts, Asset, Price
<1>2. ASSUME NEW c \in Calls, Begin(c) PROVE Placed'
  BY <1>2, BeginKeeps
<1>3. ASSUME NEW c \in Calls, FindExisting(c) PROVE Placed'
  BY <1>3, FindExistingKeeps
<1>4. ASSUME NEW c \in Calls, ReadUsedAmounts(c) PROVE Placed'
  BY <1>4, ReadUsedAmountsKeeps
<1>5. ASSUME NEW c \in Calls, FindWhenFull(c) PROVE Placed'
  BY <1>5, FindWhenFullKeeps
<1>6. ASSUME NEW c \in Calls, InsertCandidate(c) PROVE Placed'
  BY <1>6, InsertCandidateKeeps
<1>7. ASSUME NEW c \in Calls, InsertNothing(c) PROVE Placed'
  BY <1>7, InsertNothingKeeps
<1>8. ASSUME NEW c \in Calls, ActivateInserted(c) PROVE Placed'
  BY <1>8, ActivateInsertedKeeps
<1>9. ASSUME NEW c \in Calls, FindAfterInsert(c) PROVE Placed'
  BY <1>9, FindAfterInsertKeeps
<1>10. ASSUME NEW c \in Calls, Abort(c) PROVE Placed'
  BY <1>10, AbortKeeps
<1>11. ASSUME NEW c \in Calls, DecideOrder(c) PROVE Placed'
  BY <1>11, DecideOrderKeeps
<1> QED BY <1>1, <1>2, <1>3, <1>4, <1>5, <1>6, <1>7, <1>8, <1>9, <1>10, <1>11
        DEF Next, CreateOrGet

THEOREM PlacedInvariant == Spec => []Placed
<1> QED BY InitPlaced, NextPlaced, PTL DEF Spec

(* Every variable of createOrGet's calls keeps its type, and no order asks   *)
(* for less than its price or more than the largest offset above it.         *)
THEOREM CreationTypeOK == Spec => []TypeOK
<1>1. Placed => TypeOK
  BY DEF Placed
<1> QED BY <1>1, PlacedInvariant, PTL

(* No two orders share a key, and no two USDT orders an amount, whoever      *)
(* created them at the same time.                                            *)
THEOREM AmountsIdentifyOrders == Spec => []OrdersAreDistinguishable
<1>1. Placed => OrdersAreDistinguishable
  BY DEF Placed, UniqueRows, OrdersAreDistinguishable, Committed
<1> QED BY <1>1, PlacedInvariant, PTL

(* What a call of createOrGet answers is true of the committed orders.       *)
THEOREM AnswersAreTrue == Spec => []RefusalsAreTrue
<1>1. Placed => RefusalsAreTrue
  BY DEF Placed
<1> QED BY <1>1, PlacedInvariant, PTL

(* Copies of one confirmation never get different answers.                   *)
LEMMA PlacedRepeatsAgree == Placed => RepeatsAgree
<1> SUFFICES ASSUME Placed, NEW c \in Calls, NEW d \in Calls,
                    KeyOf[c] = KeyOf[d], PayloadOf[c] = PayloadOf[d],
                    answer[c].kind # "none", answer[d].kind # "none"
             PROVE  answer[c].order = answer[d].order
  BY DEF RepeatsAgree
<1>1. /\ answer[c].kind \in {"created", "existing", "conflict", "attribution_unavailable"}
      /\ answer[d].kind \in {"created", "existing", "conflict", "attribution_unavailable"}
  BY DEF Placed, TypeOK, Kinds, RefusalsAreTrue
<1>2. WithKey(c) = WithKey(d)
  BY DEF WithKey
<1>3. ASSUME NEW e \in Calls, KeyOf[e] = KeyOf[c], PayloadOf[e] = PayloadOf[c],
             answer[e].kind \in {"created", "existing"}
      PROVE  answer[e].order \in WithKey(c) /\ PayloadOf[answer[e].order] = PayloadOf[c]
  BY <1>3 DEF Placed, RefusalsAreTrue, WithKey
<1>4. ASSUME NEW e \in Calls, NEW f \in Calls, WithKey(e) = WithKey(f),
             KeyOf[e] = KeyOf[f], PayloadOf[e] = PayloadOf[f],
             answer[e].kind \in {"created", "existing"}, answer[f].kind = "conflict"
      PROVE  FALSE
  <2>1. answer[e].order \in WithKey(e) /\ PayloadOf[answer[e].order] = PayloadOf[e]
    BY <1>4 DEF Placed, RefusalsAreTrue
  <2>2. PICK g \in WithKey(f) : PayloadOf[g] # PayloadOf[f]
    BY <1>4 DEF Placed, RefusalsAreTrue
  <2>3. g = answer[e].order
    BY <1>4, <2>1, <2>2, OneRowPerKey DEF Placed
  <2> QED BY <1>4, <2>1, <2>2, <2>3
<1>5. ASSUME NEW e \in Calls, NEW f \in Calls,
             KeyOf[e] = KeyOf[f], PayloadOf[e] = PayloadOf[f],
             answer[e].kind \in {"created", "existing"},
             answer[f].kind = "attribution_unavailable"
      PROVE  FALSE
  <2> DEFINE o == answer[e].order
  <2>1. o \in WithKey(e) /\ PayloadOf[o] = PayloadOf[f] /\ Asset(f) = "USDT"
    BY <1>5 DEF Placed, RefusalsAreTrue
  <2>2. o \in Inserted /\ KeyOf[o] = KeyOf[f] /\ Asset(o) = "USDT" /\ Amounts(o) = Amounts(f)
    BY <1>5, <2>1 DEF WithKey, Committed, Inserted, Asset, Amounts, Price
  <2>3. row[o].amount \in TakenFrom(f)
    BY <1>5, <2>2 DEF Placed, TypeOK, RefusedRangesAreTaken
  <2>4. PICK g \in Committed : Asset(g) = "USDT" /\ KeyOf[g] # KeyOf[f]
                                 /\ row[g].amount = row[o].amount
    BY <2>3 DEF TakenFrom
  <2> QED BY <2>2, <2>4 DEF Placed, UniqueRows, Committed
<1>6. CASE answer[c].kind \in {"created", "existing"}
  <2>1. answer[d].kind \in {"created", "existing"}
    BY <1>1, <1>2, <1>4, <1>5, <1>6
  <2> QED BY <1>3, <1>6, <2>1, OneRowPerKey DEF Placed
<1>7. CASE answer[c].kind \in {"conflict", "attribution_unavailable"}
  <2>1. answer[d].kind \in {"conflict", "attribution_unavailable"}
    BY <1>1, <1>2, <1>4, <1>5, <1>7
  <2> QED BY <1>7, <2>1 DEF Placed, RefusedRangesAreTaken
<1> QED BY <1>1, <1>6, <1>7

(* A repeated confirmation always leads to the same order, or to none.       *)
THEOREM RepeatsGetOneOrder == Spec => []RepeatsAgree
<1> QED BY PlacedRepeatsAgree, PlacedInvariant, PTL

(* What a customer is told holds, and is the same for every copy.            *)
THEOREM AnswersCanBeTrusted == Spec => []AnswersHold
<1>1. Placed => AnswersHold
  BY PlacedRepeatsAgree DEF Placed, AnswersHold
<1> QED BY <1>1, PlacedInvariant, PTL

-----------------------------------------------------------------------------
(* Refinement of OrderBook: an order is placed when it is committed.         *)
BookEntry(c) == [key |-> KeyOf[c], payload |-> PayloadOf[c], amount |-> row[c].amount]

BookOfOrders == {BookEntry(c) : c \in Committed}

LEMMA BookStays ==
  ASSUME Committed' = Committed, \A c \in Committed : row'[c].amount = row[c].amount
  PROVE  BookOfOrders' = BookOfOrders
  BY DEF BookOfOrders, BookEntry

LEMMA CommitPlaces ==
  ASSUME Placed, NEW c \in Calls, ActivateInserted(c)
  PROVE  Book!Next
<1>1. TypeOK /\ UniqueRows /\ CallsMatchRows /\ CandidatesAreLowest
  BY DEF Placed
<1>2. /\ row[c] # NoRow /\ row[c].status = "created"
      /\ row' = [row EXCEPT ![c].status = "waiting_payment"]
  BY <1>1 DEF ActivateInserted, CallsMatchRows
<1>3. /\ row'[c] # NoRow /\ row'[c].amount = row[c].amount
      /\ row'[c].status = "waiting_payment"
      /\ \A d \in Calls : d # c => row'[d] = row[d]
  BY <1>1, <1>2, StatusChanges
<1>4. c \in Inserted /\ c \notin Committed /\ Committed' = Committed \cup {c}
  BY <1>2, <1>3 DEF Committed, Inserted
<1>5. BookOfOrders' = BookOfOrders \cup {BookEntry(c)}
  BY <1>3, <1>4 DEF BookOfOrders, BookEntry, Committed, Inserted
<1>6. \A r \in BookOfOrders : r.key # KeyOf[c]
  BY <1>1, <1>4 DEF BookOfOrders, BookEntry, UniqueRows, Committed
<1> DEFINE taken == {r.amount : r \in {s \in BookOfOrders : AssetOf[s.payload] = "USDT"}}
<1>7. taken = UsedAmounts
  <2>1. \A d \in Committed : /\ BookEntry(d) \in BookOfOrders
                             /\ BookEntry(d).amount = row[d].amount
                             /\ AssetOf[BookEntry(d).payload] = Asset(d)
    BY DEF BookOfOrders, BookEntry, Asset
  <2>2. \A r \in BookOfOrders : \E d \in Committed : r = BookEntry(d)
    BY DEF BookOfOrders
  <2>3. UsedAmounts \subseteq taken
    BY <2>1 DEF UsedAmounts
  <2>4. taken \subseteq UsedAmounts
    BY <2>1, <2>2 DEF UsedAmounts
  <2> QED BY <2>3, <2>4
<1>8. AssetOf[PayloadOf[c]] = "USDT"
        => /\ row[c].amount \notin taken
           /\ PriceOf[PayloadOf[c]] .. (row[c].amount - 1) \subseteq taken
  <2>1. Asset(c) = "USDT" => row[c].amount \notin UsedAmounts
    BY <1>1, <1>4 DEF UsedAmounts, UniqueRows, Committed
  <2>2. Asset(c) = "USDT" => Price(c) .. (row[c].amount - 1) \subseteq UsedAmounts
    BY <1>1, <1>4 DEF CandidatesAreLowest, BelowIsUsed
  <2> QED BY <1>7, <2>1, <2>2 DEF Asset, Price
<1>9. KeyOf[c] \in Keys /\ PayloadOf[c] \in Payloads
      /\ row[c].amount \in Book!Amounts(PayloadOf[c])
  BY <1>1, <1>4, CallsHaveKeys DEF TypeOK, Amounts, Asset, Price, Book!Amounts
<1>10. Book!Taken = taken
  BY DEF Book!Taken, BookOfOrders, BookEntry
<1> HIDE DEF taken
<1>11. \E k \in Keys, p \in Payloads : \E a \in Book!Amounts(p) :
         /\ \A r \in BookOfOrders : r.key # k
         /\ AssetOf[p] = "USDT"
              => a \notin Book!Taken /\ PriceOf[p] .. (a - 1) \subseteq Book!Taken
         /\ BookOfOrders' = BookOfOrders \cup {[key |-> k, payload |-> p, amount |-> a]}
  BY <1>5, <1>6, <1>8, <1>9, <1>10 DEF BookEntry
<1> QED BY <1>11 DEF Book!Next, Book!Place, BookOfOrders, BookEntry

LEMMA NextRefinesBook ==
  ASSUME Placed, [Next]_vars
  PROVE  Book!Next \/ BookOfOrders' = BookOfOrders
<1>1. RowsStay
  BY GrownViews
<1>2. \A d \in Committed : row'[d].amount = row[d].amount
  BY <1>1 DEF RowsStay
<1>3. CASE UNCHANGED vars
  BY <1>3 DEF vars, BookOfOrders, BookEntry, Committed, Inserted
<1>4. ASSUME NEW c \in Calls,
             Begin(c) \/ FindExisting(c) \/ ReadUsedAmounts(c) \/ FindWhenFull(c)
               \/ InsertNothing(c) \/ FindAfterInsert(c)
      PROVE  BookOfOrders' = BookOfOrders
  <2>1. row' = row
    BY <1>4 DEF Begin, FindExisting, ReadUsedAmounts, FindWhenFull, InsertNothing,
                FindAfterInsert
  <2> QED BY <1>2, <2>1, SameRows, BookStays
<1>5. ASSUME NEW c \in Calls, ActivateInserted(c) PROVE Book!Next
  BY <1>5, CommitPlaces
<1>6. ASSUME NEW c \in Calls, InsertCandidate(c) PROVE BookOfOrders' = BookOfOrders
  <2>1. /\ row' = [row EXCEPT ![c] = [amount |-> candidate[c], status |-> "created"]]
        /\ row[c] = NoRow /\ row \in [Calls -> Row \cup {NoRow}]
    BY <1>6 DEF InsertCandidate, Placed, CallsMatchRows, TypeOK
  <2>2. row'[c].status = "created" /\ \A d \in Calls : d # c => row'[d] = row[d]
    BY <2>1
  <2>3. Committed' = Committed
    BY <1>1, <2>1, <2>2 DEF Committed, Inserted
  <2> QED BY <1>2, <2>3, BookStays
<1>7. ASSUME NEW c \in Calls, DecideOrder(c) PROVE BookOfOrders' = BookOfOrders
  <2>1. /\ row[c] # NoRow /\ row[c].status = "waiting_payment"
        /\ row' = [row EXCEPT ![c].status = "decided"] /\ TypeOK
    BY <1>7 DEF DecideOrder, Placed
  <2>2. row'[c].status = "decided" /\ \A d \in Calls : d # c => row'[d] = row[d]
    BY <2>1, StatusChanges
  <2>3. Inserted' = Inserted
    BY <2>1, StatusChanges
  <2>4. Committed' = Committed
    BY <2>1, <2>2, <2>3 DEF Committed, Inserted
  <2> QED BY <1>2, <2>4, BookStays
<1>8. ASSUME NEW c \in Calls, Abort(c) PROVE BookOfOrders' = BookOfOrders
  <2>1. /\ row' = IF pc[c] = "activate" THEN [row EXCEPT ![c] = NoRow] ELSE row
        /\ row \in [Calls -> Row \cup {NoRow}]
    BY <1>8 DEF Abort, Placed, TypeOK
  <2>2. \A d \in Calls : row'[d] = row[d] \/ row'[d] = NoRow
    BY <2>1
  <2>3. Committed' = Committed
    BY <1>1, <2>2 DEF RowsStay, Committed, Inserted
  <2> QED BY <1>2, <2>3, BookStays
<1> QED BY <1>3, <1>4, <1>5, <1>6, <1>7, <1>8 DEF Next, CreateOrGet

(* Concurrent creation implements the order book: orders appear as if placed *)
(* one at a time, each with the lowest amount free at that moment.           *)
THEOREM CreationImplementsOrderBook == Spec => ImplementsOrderBook
<1>1. Init => Book!Init
  BY DEF Init, Book!Init, Committed, Inserted
<1>2. Placed /\ [Next]_vars => [Book!Next]_(Book!vars)
  BY NextRefinesBook DEF Book!vars, BookOfOrders, BookEntry
<1> QED BY <1>1, <1>2, PlacedInvariant, PTL DEF Spec, ImplementsOrderBook, Book!Spec
=============================================================================
