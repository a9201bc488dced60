------------------------- MODULE PaymentReadingProofs -------------------------
(***************************************************************************)
(* Reading the chain, for any orders, transfers and pages, any number of   *)
(* confirmations and any lag of the nodes.                                 *)
(*                                                                         *)
(* Everything that is read is final, and what is final does not change any *)
(* more: Reads.  That a scan over pages skips nothing that was there when  *)
(* it began is NothingIsSkipped.                                           *)
(***************************************************************************)
EXTENDS PaymentReading, FiniteSetTheorems, WellFoundedInduction, TLAPS

IndexIsFinal == \A x \in history \cup events : Final(x)

ScanIsFinal ==
  /\ \A x \in scan.txs : Final(x)
  /\ \A t \in scan.got : Final(TxidOf[t])
  /\ scan.cursor # 0 => Final(TxidOf[scan.cursor])

DetectedIsFinal == \A t \in detected : InTime(t) /\ Final(TxidOf[t])

(* What a finality check has found out.                                      *)
CheckIsTrue ==
  /\ pc = "inspect" => check.transfer \in detected
  /\ check.height # 0 => pc = "inspect" /\ check.height = Height(check.transfer)

ToldIsDeep ==
  \A t \in Transfers :
    told[t] > 0 => t \in detected /\ told[t] <= solid - Height(t) + 1

PagesHaveRoom == pc = "history" => scan.pages < MaxPages /\ scan.txs = {}

Reads ==
  /\ TypeOK
  /\ IndexIsFinal
  /\ ScanIsFinal
  /\ DetectedIsFinal
  /\ CheckIsTrue
  /\ ToldIsDeep
  /\ PagesHaveRoom

-----------------------------------------------------------------------------
LEMMA TypesOfTransfers ==
  ASSUME NEW t \in Transfers
  PROVE  TxidOf[t] \in Txids /\ PaysFor[t] \in Orders \cup {NoOrder} /\ t \in Nat \ {0}
BY TransfersAreInTxids, TransfersPayOrders DEF Transfers

LEMMA Windows ==
  ASSUME NEW o \in Orders
  PROVE  Opens[o] \in Nat \ {0} /\ Expires[o] \in Nat /\ Opens[o] < Expires[o]
BY WindowsAreOpen

LEMMA Bounds ==
  /\ MaxHeight \in Nat /\ MaxFaults \in Nat /\ MaxPages \in Nat \ {0}
  /\ RequiredConfirmations \in Nat \ {0} /\ PageSize \in Nat \ {0}
BY BoundsAreNatural, LimitsArePositive

(* The least element of a set of numbers.                                    *)
LEMMA LeastElement ==
  ASSUME NEW T \in SUBSET Nat, T # {}
  PROVE  \E x \in T : \A y \in T : x <= y
<1> DEFINE R == {p \in Nat \X Nat : p[1] < p[2]}
<1>1. IsWellFoundedOn(R, Nat)
  BY NatLessThanWellFounded DEF OpToRel
<1>2. PICK x \in T : \A y \in T : <<y, x>> \notin R
  <2> HIDE DEF R
  <2> QED BY <1>1, WFMin
<1>3. \A y \in T : ~(y < x)
  BY <1>2
<1> QED BY <1>3

(* A page has a last entry, the oldest one.                                  *)
LEMMA PagesHaveAnEnd ==
  ASSUME TypeOK, NEW page \in SUBSET Ours, page # {}
  PROVE  \E t \in page : \A u \in page \ {t} : Newer(u, t)
<1>1. \A t \in page : t \in Nat /\ Height(t) \in Nat
  BY TypesOfTransfers, OursAreTransfers DEF TypeOK, Height
<1> DEFINE heights == {Height(t) : t \in page}
<1>2. PICK t0 \in page : \A u \in page : Height(t0) <= Height(u)
  <2>1. heights \in SUBSET Nat /\ heights # {}
    BY <1>1
  <2> HIDE DEF heights
  <2>2. PICK h \in heights : \A k \in heights : h <= k
    BY <2>1, LeastElement
  <2> QED BY <2>2 DEF heights
<1> DEFINE oldest == {t \in page : Height(t) = Height(t0)}
<1>3. oldest \in SUBSET Nat /\ oldest # {}
  BY <1>1
<1>4. PICK t \in oldest : \A u \in oldest : t <= u
  <2> HIDE DEF oldest
  <2> QED BY <1>3, LeastElement
<1>5. ASSUME NEW u \in page \ {t} PROVE Newer(u, t)
  BY <1>1, <1>2, <1>4, <1>5 DEF Newer
<1> QED BY <1>4, <1>5

-----------------------------------------------------------------------------
(* What is final stays where it is.                                          *)
FinalStays ==
  /\ solid <= solid' /\ solid' \in Nat
  /\ \A x \in Txids : Final(x) => Final(x)' /\ mined'[x] = mined[x]

LEMMA FinalIsFinal ==
  ASSUME TypeOK, [Next]_vars
  PROVE  FinalStays
<1> USE DEF TypeOK, FinalStays, Final
<1>1. ASSUME NEW xs \in SUBSET Txids, AddBlock(xs) PROVE FinalStays
  BY <1>1 DEF AddBlock
<1>2. ASSUME NEW from \in 1 .. head, Fork(from) PROVE FinalStays
  BY <1>2 DEF Fork
<1>3. CASE Solidify
  BY <1>3 DEF Solidify
<1>4. CASE UNCHANGED chain
  BY <1>4 DEF chain
<1> QED
  BY <1>1, <1>2, <1>3, <1>4 DEF Next, Step, IndexShows, ListOrders, StartScan, ReadHistory,
     FinishPage, ReadBody, ReadInfo, ReadLatestBlock, ReadEvents, HandOn, RunFails,
     CandidateLacksTimestamp, CursorIsRepeated, RefusePage, vars

(* Heights are numbers of blocks; the height of a final transfer is.         *)
LEMMA Heights ==
  ASSUME TypeOK, NEW t \in Transfers
  PROVE  /\ Height(t) \in 0 .. head
         /\ Final(TxidOf[t]) => Height(t) \in 1 .. solid
BY TypesOfTransfers DEF TypeOK, Height, Final

LEMMA FinalTransfersStay ==
  ASSUME TypeOK, FinalStays, NEW t \in Transfers, Final(TxidOf[t])
  PROVE  /\ Height(t)' = Height(t)
         /\ Final(TxidOf[t])'
         /\ InTime(t) => InTime(t)'
BY TypesOfTransfers DEF FinalStays, Height, InTime

-----------------------------------------------------------------------------
LEMMA NothingIsRead ==
  NoList \in Lists /\ NoScan \in Scans /\ NoCheck \in Checks
BY Bounds DEF NoList, NoScan, NoCheck, Lists, Scans, Checks

LEMMA InitReads == Init => Reads
<1> SUFFICES ASSUME Init PROVE Reads
  OBVIOUS
<1> USE Bounds DEF Init
<1>1. TypeOK
  BY NothingIsRead DEF TypeOK
<1>2. IndexIsFinal /\ ScanIsFinal /\ DetectedIsFinal
  BY DEF IndexIsFinal, ScanIsFinal, DetectedIsFinal, NoScan
<1>3. CheckIsTrue /\ ToldIsDeep /\ PagesHaveRoom
  BY DEF CheckIsTrue, ToldIsDeep, PagesHaveRoom, NoCheck
<1> QED BY <1>1, <1>2, <1>3 DEF Reads

LEMMA TypeStep ==
  ASSUME Reads, [Next]_vars
  PROVE  TypeOK'
<1> USE DEF TypeOK
<1>t. TypeOK
  BY DEF Reads
<1>e. ASSUME NEW next \in {"resting", "halted"}, End(next)
      PROVE  /\ pc' \in {"resting", "halted"} /\ list' \in Lists
             /\ scan' \in Scans /\ check' \in Checks
  BY <1>e, NothingIsRead DEF End
<1>g. GiveUp => pc' = "page" /\ check' \in Checks
  BY NothingIsRead DEF GiveUp
<1>1. ASSUME NEW xs \in SUBSET Txids, AddBlock(xs) PROVE TypeOK'
  BY <1>t, <1>1, Bounds DEF AddBlock, index, worker, orders
<1>2. ASSUME NEW from \in 1 .. head, Fork(from) PROVE TypeOK'
  BY <1>t, <1>2, Bounds DEF Fork, Fault, index, worker, orders
<1>3. CASE Solidify
  BY <1>t, <1>3 DEF Solidify, index, worker, orders
<1>4. ASSUME NEW x \in Txids, IndexShows(x) PROVE TypeOK'
  BY <1>t, <1>4 DEF IndexShows, InTime, chain, worker, orders
<1>5. CASE ListOrders
  <2>1. OpenOrders \subseteq Orders
    BY DEF OpenOrders
  <2>2. list' \in Lists
    BY <1>t, <1>5, <2>1, Bounds DEF ListOrders, Lists
  <2> QED BY <1>t, <1>5, <2>2 DEF ListOrders, chain, index, orders
<1>6. CASE StartScan
  <2>1. ASSUME NEW group \in SUBSET Orders, NEW single \in Orders \cup {NoOrder}, Scan(group, single)
        PROVE  pc' = "history" /\ list' \in Lists /\ scan' \in Scans /\ check' \in Checks
    BY <1>t, <2>1, NothingIsRead DEF Scan, Lists, Scans
  <2>2. list.active \in SUBSET Orders /\ list.toExpire \in SUBSET Orders
    BY <1>t DEF Lists
  <2>3. /\ pc' \in {"history", "resting", "halted"} /\ list' \in Lists
        /\ scan' \in Scans /\ check' \in Checks
    BY <1>6, <1>e, <2>1, <2>2 DEF StartScan
  <2> QED BY <1>t, <1>6, <2>3 DEF StartScan, chain, index, orders
<1>7. CASE ReadHistory
  <2> DEFINE last == CHOOSE t \in Page : \A u \in Page \ {t} : Newer(u, t)
  <2>1. Page \in SUBSET Ours
    BY DEF Page, Entries
  <2>2. Page # {} => last \in Ours
    BY <1>t, <2>1, PagesHaveAnEnd
  <2>3. {TxidOf[t] : t \in Page} \in SUBSET Txids
    BY <2>1, OursAreTransfers, TypesOfTransfers
  <2>4. scan.pages + 1 \in 0 .. MaxPages
    BY <1>t, <1>7, Bounds DEF Reads, PagesHaveRoom, ReadHistory, Scans
  <2>5. (Page # Entries) \in BOOLEAN
    OBVIOUS
  <2>6. scan' \in Scans
    BY <1>t, <1>7, <2>2, <2>3, <2>4, <2>5 DEF ReadHistory, Scans
  <2> QED BY <1>t, <1>7, <2>6 DEF ReadHistory, chain, index, orders
<1>8. ASSUME NEW x \in Txids, ReadEvents(x) PROVE TypeOK'
  <2>1. MatchingEvents(x) \subseteq Ours
    BY DEF MatchingEvents
  <2>2. scan' \in Scans
    BY <1>t, <1>8, <2>1 DEF ReadEvents, Scans
  <2> QED BY <1>t, <1>8, <2>2 DEF ReadEvents, chain, index, orders
<1>9. ASSUME NEW t \in Transfers, HandOn(t) PROVE TypeOK'
  <2>1. scan' \in Scans
    <3>1. CASE scan' = [scan EXCEPT !.got = @ \ {t}]
      BY <1>t, <3>1 DEF Scans
    <3>2. CASE PaysFor[t] \in scan.group
               /\ scan' = [scan EXCEPT !.got = @ \ {t}, !.matched = @ \cup {PaysFor[t]}]
      BY <1>t, <3>2 DEF Scans
    <3> QED BY <1>9, <3>1, <3>2 DEF HandOn, Matches
  <2>2. check' \in Checks /\ pc' \in {"page", "inspect"} /\ detected' \subseteq Ours
    BY <1>t, <1>9, NothingIsRead DEF HandOn, Matches, Checks
  <2> QED BY <1>t, <1>9, <2>1, <2>2 DEF HandOn, chain, index
<1>10. CASE FinishPage
  <2>1. /\ pc' \in {"history", "next", "halted", "resting"} /\ list' \in Lists
        /\ scan' \in Scans /\ check' \in Checks
    BY <1>t, <1>10, <1>e, NothingIsRead DEF FinishPage
  <2>2. expired' \subseteq Orders
    BY <1>t, <1>10 DEF FinishPage, Scans
  <2> QED BY <1>t, <1>10, <2>1, <2>2 DEF FinishPage, chain, index
<1>11. CASE ReadBody
  <2>1. check' \in Checks /\ pc' \in {"page", "inspect"}
    BY <1>t, <1>11, <1>g DEF ReadBody, Checks
  <2> QED BY <1>t, <1>11, <2>1 DEF ReadBody, chain, index, orders
<1>12. CASE ReadInfo
  <2>1. check.transfer \in Transfers
    BY <1>t, <1>12, OursAreTransfers DEF Reads, CheckIsTrue, ReadInfo
  <2>2. Height(check.transfer) \in 0 .. MaxHeight
    BY <1>t, <2>1, Heights, Bounds
  <2>3. check' \in Checks /\ pc' \in {"page", "inspect"}
    BY <1>t, <1>12, <1>g, <2>2 DEF ReadInfo, Checks
  <2> QED BY <1>t, <1>12, <2>3 DEF ReadInfo, chain, index, orders
<1>13. CASE ReadLatestBlock
  <2>1. /\ pc' \in {"page", "resting", "halted"} /\ list' \in Lists
        /\ scan' \in Scans /\ check' \in Checks
    BY <1>t, <1>13, <1>g, <1>e DEF ReadLatestBlock
  <2>2. check.height \in 1 .. MaxHeight
    BY <1>t, <1>13 DEF ReadLatestBlock, Checks
  <2>3. ASSUME NEW latest \in View, latest >= check.height
        PROVE  latest - check.height + 1 \in 0 .. MaxHeight
    BY <1>t, <2>2, <2>3, Bounds DEF View
  <2>4. told' \in [Transfers -> 0 .. MaxHeight]
    BY <1>t, <1>13, <2>2, <2>3 DEF ReadLatestBlock, Greater, View
  <2> QED BY <1>t, <1>13, <2>1, <2>4 DEF ReadLatestBlock, chain, index
<1>14. CASE RunFails \/ CandidateLacksTimestamp \/ CursorIsRepeated
  BY <1>t, <1>14, <1>e, Bounds DEF RunFails, CandidateLacksTimestamp, CursorIsRepeated,
     RefusePage, Fault, chain, index, orders
<1>15. CASE UNCHANGED vars
  BY <1>t, <1>15 DEF vars, chain, index, worker, orders
<1> QED
  BY <1>1, <1>2, <1>3, <1>4, <1>5, <1>6, <1>7, <1>8, <1>9, <1>10, <1>11, <1>12, <1>13, <1>14, <1>15
  DEF Next, Step

-----------------------------------------------------------------------------
(* Steps of the chain and of the index leave what was read as true as it was.*)
LEMMA WorldStep ==
  ASSUME Reads, [Next]_vars, UNCHANGED <<worker, detected, told>>,
         \A x \in history' \cup events' : x \in Txids /\ Final(x)'
  PROVE  Reads'
<1>1. TypeOK /\ TypeOK' /\ FinalStays
  BY TypeStep, FinalIsFinal DEF Reads
<1>2. IndexIsFinal'
  BY DEF IndexIsFinal
<1>3. ScanIsFinal'
  <2>1. scan.txs \subseteq Txids /\ scan.got \subseteq Transfers /\ scan.cursor \in {0} \cup Transfers
    BY <1>1, OursAreTransfers DEF TypeOK, Scans
  <2> QED BY <1>1, <2>1, FinalTransfersStay DEF Reads, ScanIsFinal, FinalStays, worker
<1>4. DetectedIsFinal'
  BY <1>1, OursAreTransfers, FinalTransfersStay DEF Reads, DetectedIsFinal, TypeOK
<1>5. CheckIsTrue'
  <2>1. pc = "inspect" => check.transfer \in Transfers /\ Final(TxidOf[check.transfer])
    BY <1>1, OursAreTransfers DEF Reads, CheckIsTrue, DetectedIsFinal, TypeOK
  <2>2. pc = "inspect" => Height(check.transfer)' = Height(check.transfer)
    BY <1>1, <2>1, FinalTransfersStay DEF worker
  <2> QED BY <2>2 DEF Reads, CheckIsTrue, worker
<1>6. ToldIsDeep'
  <2> SUFFICES ASSUME NEW t \in Transfers, told'[t] > 0
               PROVE  t \in detected' /\ told'[t] <= solid' - Height(t)' + 1
    BY DEF ToldIsDeep
  <2>1. t \in detected /\ told[t] <= solid - Height(t) + 1
    BY DEF Reads, ToldIsDeep
  <2>2. Height(t)' = Height(t) /\ Height(t) \in Nat
    BY <1>1, <2>1, FinalTransfersStay, Heights DEF Reads, DetectedIsFinal, TypeOK
  <2> QED BY <1>1, <2>1, <2>2 DEF FinalStays, TypeOK
<1>7. PagesHaveRoom'
  BY DEF Reads, PagesHaveRoom, worker
<1> QED BY <1>1, <1>2, <1>3, <1>4, <1>5, <1>6, <1>7 DEF Reads

(* A step of the worker finds the chain and the index as they are.           *)
Unmoved == UNCHANGED <<chain, index>>

LEMMA WorkerStep ==
  ASSUME Reads, [Next]_vars, Unmoved, ScanIsFinal', DetectedIsFinal', CheckIsTrue', ToldIsDeep', PagesHaveRoom'
  PROVE  Reads'
<1>1. IndexIsFinal'
  BY DEF Reads, IndexIsFinal, Final, Unmoved, chain, index
<1> QED BY <1>1, TypeStep DEF Reads

LEMMA HeightsStay ==
  ASSUME Unmoved
  PROVE  /\ solid' = solid /\ history' = history /\ events' = events
         /\ \A x : Final(x)' <=> Final(x)
         /\ \A t : Height(t)' = Height(t)
         /\ \A t : InTime(t)' <=> InTime(t)
BY DEF Unmoved, chain, index, Final, Height, InTime

LEMMA ReadsStep ==
  ASSUME Reads, [Next]_vars
  PROVE  Reads'
<1> USE DEF ScanIsFinal, DetectedIsFinal, CheckIsTrue, ToldIsDeep, PagesHaveRoom
<1>t. TypeOK /\ FinalStays
  BY FinalIsFinal DEF Reads
<1>r. IndexIsFinal /\ ScanIsFinal /\ DetectedIsFinal /\ CheckIsTrue /\ ToldIsDeep /\ PagesHaveRoom
  BY DEF Reads
<1>o. ASSUME UNCHANGED <<detected, told>>, Unmoved
      PROVE  DetectedIsFinal' /\ ToldIsDeep'
  BY <1>o, <1>r, HeightsStay
<1>n. /\ NoScan.txs = {} /\ NoScan.got = {} /\ NoScan.cursor = 0 /\ NoScan.pages = 0
      /\ NoScan \in Scans /\ NoCheck.height = 0
  BY NothingIsRead DEF NoScan, NoCheck
<1>e. ASSUME NEW next \in {"resting", "halted"}, End(next)
      PROVE  ScanIsFinal' /\ CheckIsTrue' /\ PagesHaveRoom'
  BY <1>e, <1>n DEF End
<1>1. CASE UNCHANGED <<worker, index, orders>>
  <2>1. \A x \in history' \cup events' : x \in Txids /\ Final(x)'
    BY <1>1, <1>t, <1>r DEF index, IndexIsFinal, FinalStays, TypeOK
  <2> QED BY <1>1, <2>1, WorldStep DEF orders
<1>2. ASSUME NEW x \in Txids, IndexShows(x) PROVE Reads'
  <2>1. \A y \in history' \cup events' : y \in Txids /\ Final(y)'
    BY <1>2, <1>t, <1>r DEF IndexShows, IndexIsFinal, TypeOK, chain, Final
  <2> QED BY <1>2, <2>1, WorldStep DEF IndexShows, orders
<1>3. CASE ListOrders
  <2>1. Unmoved /\ UNCHANGED <<scan, check, detected, told>> /\ pc' = "next" /\ pc = "resting"
    BY <1>3 DEF ListOrders, Unmoved, orders
  <2>2. ScanIsFinal' /\ CheckIsTrue' /\ PagesHaveRoom'
    BY <1>r, <2>1, HeightsStay
  <2> QED BY <1>o, <2>1, <2>2, WorkerStep
<1>4. CASE StartScan
  <2>1. Unmoved /\ UNCHANGED <<detected, told>> /\ pc = "next"
    BY <1>4 DEF StartScan, Unmoved, orders
  <2>2. ASSUME NEW group, NEW single, Scan(group, single)
        PROVE  ScanIsFinal' /\ CheckIsTrue' /\ PagesHaveRoom'
    <3>1. scan'.txs = {} /\ scan'.got = {} /\ scan'.cursor = 0 /\ scan'.pages = 0
      BY <1>n, <2>2 DEF Scan, Scans
    <3> QED BY <1>r, <2>1, <2>2, <3>1, Bounds DEF Scan
  <2>3. ScanIsFinal' /\ CheckIsTrue' /\ PagesHaveRoom'
    BY <1>4, <1>e, <2>2 DEF StartScan
  <2> QED BY <1>o, <2>1, <2>3, WorkerStep
<1>5. CASE ReadHistory
  <2>1. Unmoved /\ UNCHANGED <<check, detected, told>> /\ pc' = "page" /\ pc = "history"
    BY <1>5 DEF ReadHistory, Unmoved, orders
  <2>2. \A t \in Page : t \in Ours /\ Final(TxidOf[t])
    BY <1>r DEF Page, Entries, IndexIsFinal
  <2>3. Page # {} => (CHOOSE t \in Page : \A u \in Page \ {t} : Newer(u, t)) \in Page
    BY <1>t, <2>2, PagesHaveAnEnd
  <2>4. /\ scan'.txs = {TxidOf[t] : t \in Page} /\ scan'.got = scan.got
        /\ scan'.cursor # 0 => scan'.cursor \in Page
    BY <1>t, <1>5, <2>3 DEF ReadHistory, TypeOK, Scans
  <2>5. ScanIsFinal' /\ CheckIsTrue' /\ PagesHaveRoom'
    BY <1>r, <2>1, <2>2, <2>4, HeightsStay
  <2> QED BY <1>o, <2>1, <2>5, WorkerStep
<1>6. ASSUME NEW x \in Txids, ReadEvents(x) PROVE Reads'
  <2>1. Unmoved /\ UNCHANGED <<pc, check, detected, told>> /\ pc = "page"
    BY <1>6 DEF ReadEvents, Unmoved, orders
  <2>2. \A t \in MatchingEvents(x) : Final(TxidOf[t])
    BY <1>r DEF MatchingEvents, IndexIsFinal
  <2>3. /\ scan'.txs \subseteq scan.txs /\ scan'.got = scan.got \cup MatchingEvents(x)
        /\ scan'.cursor = scan.cursor
    BY <1>t, <1>6 DEF ReadEvents, TypeOK, Scans
  <2>4. ScanIsFinal' /\ CheckIsTrue' /\ PagesHaveRoom'
    BY <1>r, <2>1, <2>2, <2>3, HeightsStay
  <2> QED BY <1>o, <2>1, <2>4, WorkerStep
<1>7. ASSUME NEW t \in Transfers, HandOn(t) PROVE Reads'
  <2>1. Unmoved /\ UNCHANGED told /\ pc = "page" /\ t \in scan.got /\ pc' # "history"
    BY <1>7 DEF HandOn, Unmoved
  <2>2. scan'.txs = scan.txs /\ scan'.got \subseteq scan.got /\ scan'.cursor = scan.cursor
    BY <1>t, <1>7 DEF HandOn, TypeOK, Scans
  <2>3. ScanIsFinal' /\ PagesHaveRoom'
    BY <1>r, <2>1, <2>2, HeightsStay
  <2>4. Matches(t) => InTime(t) /\ Final(TxidOf[t])
    <3>1. ASSUME Matches(t) PROVE PaysFor[t] \in Orders /\ PaysFor[t] # NoOrder
      BY <1>t, <3>1, TransfersPayOrders DEF Matches, TypeOK, Scans
    <3>2. ASSUME Matches(t) PROVE Height(t) <= Expires[PaysFor[t]] /\ Height(t) >= Opens[PaysFor[t]]
      BY <1>t, <3>1, <3>2, Windows, Heights DEF Matches, UpTo, Lesser, TypeOK, Lists
    <3> QED BY <1>r, <2>1, <3>1, <3>2 DEF Matches, InTime
  <2>5. DetectedIsFinal'
    BY <1>7, <1>r, <2>1, <2>4, HeightsStay DEF HandOn
  <2>6. detected \subseteq detected'
    BY <1>7 DEF HandOn
  <2>7. ToldIsDeep'
    BY <1>r, <2>1, <2>6, HeightsStay
  <2>8. CheckIsTrue'
    <3>1. NoCheck \in Checks /\ NoCheck.height = 0
      BY NothingIsRead DEF NoCheck
    <3>2. check.height = 0
      BY <1>r, <2>1
    <3>3. CASE UNCHANGED <<pc, check>>
      BY <2>1, <3>2, <3>3
    <3>4. CASE check' = [NoCheck EXCEPT !.transfer = t] /\ detected' = detected \cup {t}
      BY <3>1, <3>4 DEF Checks
    <3> QED BY <1>7, <3>3, <3>4 DEF HandOn
  <2> QED BY <2>1, <2>3, <2>5, <2>7, <2>8, WorkerStep
<1>8. CASE FinishPage
  <2>1. Unmoved /\ UNCHANGED <<detected, told>> /\ pc = "page"
    BY <1>8 DEF FinishPage, Unmoved
  <2>2. CASE pc' = "history" /\ UNCHANGED <<scan, check>> /\ scan.pages < MaxPages /\ scan.txs = {}
    <3>1. ScanIsFinal' /\ CheckIsTrue' /\ PagesHaveRoom'
      BY <1>r, <2>1, <2>2, HeightsStay
    <3> QED BY <1>o, <2>1, <3>1, WorkerStep
  <2>3. CASE End("halted")
    BY <1>e, <1>o, <2>1, <2>3, WorkerStep
  <2>4. CASE pc' = "next" /\ scan' = NoScan /\ UNCHANGED check
    <3>1. ScanIsFinal' /\ CheckIsTrue' /\ PagesHaveRoom'
      BY <1>n, <1>r, <2>1, <2>4
    <3> QED BY <1>o, <2>1, <3>1, WorkerStep
  <2> QED BY <1>8, <2>2, <2>3, <2>4 DEF FinishPage
<1>9. ASSUME ReadBody \/ ReadInfo PROVE Reads'
  <2>1. Unmoved /\ UNCHANGED <<scan, detected, told>> /\ pc = "inspect" /\ pc' \in {"inspect", "page"}
    BY <1>9 DEF ReadBody, ReadInfo, GiveUp, Unmoved, orders
  <2>2. ScanIsFinal' /\ PagesHaveRoom'
    BY <1>r, <2>1, HeightsStay
  <2>3. \/ check' = NoCheck /\ pc' = "page"
        \/ /\ pc' = "inspect" /\ check'.transfer = check.transfer
           /\ check'.height \in {check.height, Height(check.transfer)}
    BY <1>t, <1>9, <2>1 DEF ReadBody, ReadInfo, GiveUp, TypeOK, Checks
  <2>4. CheckIsTrue'
    BY <1>n, <1>r, <2>1, <2>3, HeightsStay
  <2> QED BY <1>o, <2>1, <2>2, <2>4, WorkerStep
<1>10. CASE ReadLatestBlock
  <2>1. Unmoved /\ UNCHANGED detected /\ pc = "inspect" /\ check.height # 0
    BY <1>10 DEF ReadLatestBlock, Unmoved
  <2>2. CASE End("resting") /\ UNCHANGED told
    BY <1>e, <1>o, <2>1, <2>2, WorkerStep
  <2>3. ASSUME NEW latest \in View, latest >= check.height,
               told' = [told EXCEPT ![check.transfer] = Greater(@, latest - check.height + 1)],
               GiveUp, UNCHANGED <<list, scan>>
        PROVE  Reads'
    <3>1. ScanIsFinal' /\ PagesHaveRoom' /\ CheckIsTrue' /\ DetectedIsFinal'
      BY <1>n, <1>r, <2>1, <2>3, HeightsStay DEF GiveUp
    <3>2. /\ check.transfer \in detected /\ check.transfer \in Transfers
          /\ check.height = Height(check.transfer) /\ check.height \in Nat
          /\ latest \in Nat /\ latest <= solid /\ solid \in Nat
      BY <1>t, <1>r, <2>1, <2>3, OursAreTransfers DEF View, TypeOK, Checks
    <3>3. ToldIsDeep'
      <4> SUFFICES ASSUME NEW t \in Transfers, told'[t] > 0
                   PROVE  t \in detected /\ told'[t] <= solid - Height(t) + 1
        BY <2>1, HeightsStay
      <4>1. CASE t # check.transfer
        BY <1>t, <1>r, <2>3, <4>1 DEF TypeOK
      <4>2. CASE t = check.transfer
        <5>1. told[t] \in Nat /\ told'[t] = Greater(told[t], latest - check.height + 1)
          BY <1>t, <2>3, <4>2 DEF TypeOK
        <5>2. told[t] > 0 => told[t] <= solid - Height(t) + 1
          BY <1>r
        <5>3. Height(t) = check.height
          BY <3>2, <4>2
        <5> QED BY <2>3, <3>2, <4>2, <5>1, <5>2, <5>3 DEF Greater
      <4> QED BY <4>1, <4>2
    <3> QED BY <2>1, <3>1, <3>3, WorkerStep
  <2> QED BY <1>10, <2>2, <2>3 DEF ReadLatestBlock
<1>11. CASE RunFails \/ CandidateLacksTimestamp \/ CursorIsRepeated
  <2>1. Unmoved /\ UNCHANGED <<detected, told>> /\ (End("resting") \/ End("halted"))
    BY <1>11 DEF RunFails, CandidateLacksTimestamp, CursorIsRepeated, RefusePage,
       Unmoved, orders
  <2> QED BY <1>e, <1>o, <2>1, WorkerStep
<1>12. ASSUME NEW xs \in SUBSET Txids, AddBlock(xs) PROVE Reads'
  BY <1>1, <1>12 DEF AddBlock
<1>13. ASSUME NEW from \in 1 .. head, Fork(from) PROVE Reads'
  BY <1>1, <1>13 DEF Fork
<1>14. CASE Solidify
  BY <1>1, <1>14 DEF Solidify
<1>15. CASE UNCHANGED vars
  BY <1>1, <1>15 DEF vars
<1> QED
  BY <1>2, <1>3, <1>4, <1>5, <1>6, <1>7, <1>8, <1>9, <1>10, <1>11, <1>12, <1>13, <1>14, <1>15
  DEF Next, Step

LEMMA AlwaysReads == Spec => []Reads
<1>1. Reads /\ [Next]_vars => Reads'
  BY ReadsStep
<1> QED BY InitReads, <1>1, PTL DEF Spec

(* Every variable keeps its type: what the worker has read are transfers to  *)
(* the shop and transactions of the chain.                                   *)
THEOREM ReadingTypeOK == Spec => []TypeOK
<1>1. Reads => TypeOK
  BY DEF Reads
<1> QED BY <1>1, AlwaysReads, PTL

-----------------------------------------------------------------------------
(* The feed, as the settlement sees it.                                      *)
DepthOf(t) == IF InTime(t) /\ Final(TxidOf[t]) THEN solid - Height(t) + 1 ELSE 0
Depths == [t \in Transfers |-> DepthOf(t)]

LEMMA DepthsAreNumbers ==
  ASSUME TypeOK, NEW t \in Transfers
  PROVE  DepthOf(t) \in Nat /\ (DepthOf(t) > 0 <=> InTime(t) /\ Final(TxidOf[t]))
BY Heights DEF DepthOf, TypeOK

LEMMA FeedDeepens ==
  ASSUME TypeOK, TypeOK', FinalStays, UNCHANGED <<detected, told>>
  PROVE  Feed!Deepen
<1>1. ASSUME NEW t \in Transfers PROVE DepthOf(t)' \in Nat /\ DepthOf(t)' >= DepthOf(t)
  <2>1. DepthOf(t)' \in Nat /\ DepthOf(t) \in Nat
    <3>1. Final(TxidOf[t])' => Height(t)' \in 1 .. solid' /\ solid' \in Nat
      BY DEF TypeOK, Height, Final
    <3> QED BY <3>1, DepthsAreNumbers DEF DepthOf
  <2>2. CASE InTime(t) /\ Final(TxidOf[t])
    <3>1. InTime(t)' /\ Final(TxidOf[t])' /\ Height(t)' = Height(t) /\ Height(t) \in Nat
      BY <2>2, FinalTransfersStay, Heights
    <3> QED BY <2>1, <2>2, <3>1 DEF DepthOf, FinalStays, TypeOK
  <2>3. CASE ~(InTime(t) /\ Final(TxidOf[t]))
    BY <2>1, <2>3 DEF DepthOf
  <2> QED BY <2>2, <2>3
<1>2. Depths' \in [Transfers -> Nat] /\ \A t \in Transfers : Depths'[t] >= Depths[t]
  BY <1>1 DEF Depths
<1> QED BY <1>2 DEF Feed!Deepen, Depths, DepthOf

(* For any chain, index and nodes, the worker hands on only transfers that   *)
(* are on the chain for good, in the window of their order, and never tells  *)
(* more confirmations of one than it has: TronGridUsdtPaymentDetector and    *)
(* TronReadPaymentFinalityVerifier implement what the settlement relies on.  *)
THEOREM ReadingImplementsFeed == Spec => ImplementsFeed
<1> DEFINE feed == <<Depths, detected, told>>
<1>1. Init => Feed!Init
  <2> SUFFICES ASSUME Init PROVE Feed!Init
    OBVIOUS
  <2>1. ASSUME NEW t \in Transfers PROVE ~Final(TxidOf[t])
    BY <2>1, TypesOfTransfers DEF Init, Final
  <2> QED BY <2>1 DEF Feed!Init, Init
<1>2. Reads /\ [Next]_vars => [Feed!Next]_feed
  <2> SUFFICES ASSUME Reads, [Next]_vars PROVE [Feed!Next]_feed
    OBVIOUS
  <2>t. TypeOK /\ TypeOK' /\ Reads' /\ FinalStays
    BY ReadsStep, FinalIsFinal DEF Reads
  <2>1. CASE UNCHANGED <<detected, told>>
    BY <2>t, <2>1, FeedDeepens DEF Feed!Next
  <2>d. Unmoved => Depths' = Depths
    BY HeightsStay DEF Depths, DepthOf
  <2>2. ASSUME NEW t \in Transfers, HandOn(t) PROVE [Feed!Next]_feed
    <3>1. Unmoved /\ UNCHANGED told
      BY <2>2 DEF HandOn, Unmoved
    <3>2. CASE UNCHANGED detected
      BY <2>1, <3>1, <3>2
    <3>3. CASE detected' = detected \cup {t}
      <4>1. (InTime(t) /\ Final(TxidOf[t]))'
        BY <2>t, <3>3 DEF Reads, DetectedIsFinal
      <4>2. InTime(t) /\ Final(TxidOf[t])
        BY <3>1, <4>1, HeightsStay
      <4>3. Depths[t] > 0
        BY <2>t, <4>2, DepthsAreNumbers DEF Depths
      <4>4. Feed!Detect(t)
        BY <2>d, <3>1, <3>3, <4>3 DEF Feed!Detect, Depths, DepthOf
      <4> QED BY <4>4 DEF Feed!Next
    <3> QED BY <2>2, <3>2, <3>3 DEF HandOn
  <2>3. CASE ReadLatestBlock
    <3> DEFINE t == check.transfer
    <3>1. Unmoved /\ UNCHANGED detected /\ pc = "inspect" /\ check.height # 0
      BY <2>3 DEF ReadLatestBlock, Unmoved
    <3>2. CASE UNCHANGED told
      BY <2>1, <3>1, <3>2
    <3>3. ASSUME NEW latest \in View, latest >= check.height,
                 told' = [told EXCEPT ![t] = Greater(@, latest - check.height + 1)]
          PROVE  [Feed!Next]_feed
      <4> DEFINE d == latest - check.height + 1
      <4>1. /\ t \in detected /\ t \in Transfers /\ told[t] \in Nat
            /\ InTime(t) /\ Final(TxidOf[t])
            /\ check.height = Height(t) /\ check.height \in Nat
            /\ latest \in Nat /\ latest <= solid /\ solid \in Nat
        BY <2>t, <3>1, <3>3, OursAreTransfers
        DEF Reads, CheckIsTrue, DetectedIsFinal, View, TypeOK, Checks
      <4>2. Depths[t] = solid - Height(t) + 1
        BY <4>1 DEF Depths, DepthOf
      <4>3. d \in Nat \ {0} /\ d <= Depths[t] /\ Depths[t] \in Nat
        BY <3>3, <4>1, <4>2
      <4>4. CASE d > told[t]
        <5>1. Greater(told[t], d) = d
          BY <4>1, <4>3, <4>4 DEF Greater
        <5>2. told' = [told EXCEPT ![t] = d]
          BY <2>t, <3>3, <5>1 DEF TypeOK
        <5>3. Feed!Tell(t, d) /\ d \in 1 .. Depths[t]
          BY <2>d, <3>1, <4>1, <4>3, <4>4, <5>2 DEF Feed!Tell, Depths, DepthOf
        <5> QED BY <4>1, <5>3 DEF Feed!Next, Depths, DepthOf
      <4>5. CASE d <= told[t]
        <5>1. told' = told
          BY <2>t, <3>3, <4>1, <4>3, <4>5 DEF Greater, TypeOK
        <5> QED BY <2>1, <3>1, <5>1
      <4> QED BY <4>1, <4>3, <4>4, <4>5
    <3> QED BY <2>3, <3>2, <3>3 DEF ReadLatestBlock
  <2> QED
    BY <2>1, <2>2, <2>3 DEF Next, Step, AddBlock, Fork, Solidify, IndexShows, ListOrders, StartScan,
       ReadHistory, FinishPage, ReadBody, ReadInfo, ReadEvents, RunFails,
       CandidateLacksTimestamp, CursorIsRepeated, RefusePage, vars, orders
<1> QED BY <1>1, <1>2, AlwaysReads, PTL DEF Spec, ImplementsFeed, Feed!Spec, Depths, DepthOf

-----------------------------------------------------------------------------
(* A scan over pages, while the index changes.                               *)

Scanning == pc \in {"history", "page", "inspect"} /\ scan.single # NoOrder

PromptIsShown == \A t \in prompt : Shown(t) /\ InTime(t)

ExpiredIsOver == \A o \in expired : Expires[o] <= head

(* An order is scanned alone only when its deadline had passed by the clock  *)
(* of the run.                                                               *)
ScanIsLate ==
  /\ list.clock <= head
  /\ \A o \in list.toExpire : Expires[o] <= list.clock
  /\ Scanning => scan.group = {scan.single} /\ Expires[scan.single] <= list.clock

(* What the next pages may still bring.                                      *)
Ahead(t) == (pc = "history" \/ scan.more) /\ (scan.cursor # 0 => Newer(scan.cursor, t))

(* A prompt payment of the order that is scanned is matched, read or ahead.  *)
NothingIsSkipped ==
  Scanning =>
    \A t \in prompt :
      PaysFor[t] = scan.single =>
        scan.single \in scan.matched \/ t \in scan.got \/ TxidOf[t] \in scan.txs \/ Ahead(t)

Kept ==
  /\ PromptIsShown
  /\ ExpiredIsOver
  /\ ScanIsLate
  /\ NothingIsSkipped
  /\ PromptPaymentsAreKept

(* A transfer that did not fit on the page is older than all that did.       *)
LEMMA PageSkipsNothing ==
  ASSUME TypeOK, NEW t \in Entries \ Page, NEW last \in Page
  PROVE  Newer(last, t)
<1>1. Entries \subseteq Ours /\ Page \subseteq Entries
  BY DEF Entries, Page
<1>2. \A u \in Entries : u \in Transfers /\ u \in Nat /\ Height(u) \in Nat
  BY <1>1, OursAreTransfers, TypesOfTransfers, Heights DEF TypeOK
<1> DEFINE Before(u) == {v \in Entries : Newer(v, u)}
<1>3. \A u : IsFiniteSet(Before(u)) /\ Cardinality(Before(u)) \in Nat
  <2>1. IsFiniteSet(Transfers)
    BY TransfersAreInTxids, FS_Interval DEF Transfers
  <2>2. \A u : Before(u) \in SUBSET Transfers
    BY <1>2
  <2> HIDE DEF Before
  <2> QED BY <2>1, <2>2, FS_Subset, FS_CardinalityType
<1>4. SUFFICES ASSUME Newer(t, last) PROVE FALSE
  <2>1. t # last /\ t \in Entries /\ last \in Entries
    BY <1>1
  <2> QED BY <1>2, <1>4, <2>1 DEF Newer
<1>5. Before(t) \subseteq Before(last)
  BY <1>1, <1>2, <1>4 DEF Newer
<1>6. Cardinality(Before(t)) <= Cardinality(Before(last))
  <2> HIDE DEF Before
  <2> QED BY <1>3, <1>5, FS_Subset
<1>7. Cardinality(Before(last)) < PageSize
  BY DEF Page
<1>8. Cardinality(Before(t)) < PageSize
  <2> HIDE DEF Before
  <2> QED BY <1>3, <1>6, <1>7, Bounds
<1> QED BY <1>8 DEF Page

LEMMA InitKept == Init => Kept
BY DEF Init, Kept, PromptIsShown, ExpiredIsOver, ScanIsLate, Scanning, NothingIsSkipped,
   PromptPaymentsAreKept, NoList

(* What was shown stays shown, in the block that it was in.                  *)
LEMMA PromptStays ==
  ASSUME Reads, PromptIsShown, [Next]_vars, history \subseteq history', events \subseteq events',
         NEW t \in prompt
  PROVE  /\ t \in Ours /\ t \in Transfers /\ Final(TxidOf[t])
         /\ Shown(t)' /\ InTime(t)' /\ Height(t)' = Height(t)
<1>1. TypeOK /\ FinalStays
  BY FinalIsFinal DEF Reads
<1>2. t \in Ours /\ t \in Transfers /\ Shown(t) /\ InTime(t)
  BY <1>1, OursAreTransfers DEF TypeOK, PromptIsShown
<1>3. Final(TxidOf[t])
  BY <1>2 DEF Reads, IndexIsFinal, Shown
<1> QED BY <1>1, <1>2, <1>3, FinalTransfersStay DEF Shown

LEMMA KeptStep ==
  ASSUME Reads, Kept, [Next]_vars
  PROVE  Kept'
<1> USE DEF PromptIsShown, ExpiredIsOver, ScanIsLate, NothingIsSkipped, PromptPaymentsAreKept
<1>t. TypeOK /\ TypeOK' /\ Reads' /\ FinalStays
  BY ReadsStep, FinalIsFinal DEF Reads
<1>k. /\ PromptIsShown /\ ExpiredIsOver /\ ScanIsLate /\ NothingIsSkipped /\ PromptPaymentsAreKept
      /\ head \in Nat /\ head' \in Nat
  BY <1>t DEF Kept, TypeOK
(* Steps of the chain and of the index.                                      *)
<1>w. ASSUME UNCHANGED <<worker, expired>>, head <= head',
             history \subseteq history', events \subseteq events', prompt \subseteq prompt',
             \A t \in prompt' \ prompt :
               /\ t \in Ours /\ Shown(t)' /\ InTime(t)' /\ head < Expires[PaysFor[t]]
      PROVE  Kept'
  <2>1. PromptIsShown'
    BY <1>k, <1>w, PromptStays
  <2>2. \A o \in expired : o \in Orders /\ Expires[o] \in Nat
    BY <1>t, Windows DEF TypeOK
  <2>3. ExpiredIsOver'
    BY <1>k, <1>w, <2>2
  <2>4. ScanIsLate'
    BY <1>k, <1>t, <1>w DEF TypeOK, Lists, worker, Scanning
  <2>5. \A t \in prompt' \ prompt : t \in Transfers /\ PaysFor[t] \in Orders /\ Expires[PaysFor[t]] \in Nat
    BY <1>w, OursAreTransfers, TypesOfTransfers, Windows DEF InTime
  <2>6. PromptPaymentsAreKept'
    BY <1>k, <1>w, <2>2, <2>5
  <2>7. NothingIsSkipped'
    <3> SUFFICES ASSUME Scanning, NEW t \in prompt', PaysFor[t] = scan.single
                 PROVE  scan.single \in scan.matched \/ t \in scan.got \/ TxidOf[t] \in scan.txs \/ Ahead(t)'
      BY <1>w DEF worker, Scanning
    <3>1. t \in prompt
      BY <1>k, <1>t, <1>w, <2>5 DEF TypeOK, Lists
    <3>2. Height(t)' = Height(t)
      BY <1>k, <1>w, <3>1, PromptStays
    <3>3. scan.cursor # 0 => Height(scan.cursor)' = Height(scan.cursor)
      <4>1. scan.cursor # 0 => scan.cursor \in Transfers /\ Final(TxidOf[scan.cursor])
        BY <1>t, OursAreTransfers DEF Reads, ScanIsFinal, TypeOK, Scans
      <4>2. scan.cursor # 0 => mined[TxidOf[scan.cursor]]' = mined[TxidOf[scan.cursor]]
        BY <1>t, <1>w, <4>1, TypesOfTransfers DEF FinalStays, worker
      <4> QED BY <1>w, <4>2 DEF Height, worker
    <3>4. Ahead(t) => Ahead(t)'
      BY <1>w, <3>2, <3>3 DEF Ahead, Newer, worker
    <3> QED BY <1>k, <3>1, <3>4
  <2> QED BY <2>1, <2>3, <2>4, <2>6, <2>7 DEF Kept
<1>1. ASSUME NEW xs \in SUBSET Txids, AddBlock(xs) PROVE Kept'
  BY <1>t, <1>1, <1>w DEF AddBlock, TypeOK, index, orders
<1>2. ASSUME NEW from \in 1 .. head, Fork(from) PROVE Kept'
  BY <1>t, <1>2, <1>w DEF Fork, TypeOK, index, orders
<1>3. CASE Solidify
  BY <1>t, <1>3, <1>w DEF Solidify, TypeOK, index, orders
<1>4. ASSUME NEW x \in Txids, IndexShows(x) PROVE Kept'
  <2>1. /\ UNCHANGED <<worker, expired, chain>> /\ prompt \subseteq prompt'
        /\ history \subseteq history' /\ events \subseteq events'
    BY <1>4 DEF IndexShows, orders
  <2>2. \A t \in prompt' \ prompt :
          TxidOf[t] \in history' \cap events' /\ InTime(t) /\ head < Expires[PaysFor[t]]
    BY <1>4 DEF IndexShows
  <2>3. \A t : (InTime(t)' <=> InTime(t)) /\ head' = head
    BY <2>1 DEF chain, InTime, Height
  <2> QED BY <1>k, <1>w, <2>1, <2>2, <2>3 DEF Shown, InTime
(* Steps of the worker.                                                      *)
<1>u. ASSUME Unmoved PROVE PromptIsShown' /\ prompt' = prompt /\ head' = head
  BY <1>k, <1>u, HeightsStay DEF Unmoved, index, chain, Shown
<1>x. ASSUME Unmoved, UNCHANGED expired, ScanIsLate', NothingIsSkipped' PROVE Kept'
  BY <1>k, <1>u, <1>x DEF Kept
<1>n. NoScan.single = NoOrder /\ NoList.clock = 0 /\ NoList.toExpire = {}
  BY DEF NoScan, NoList
<1>e. ASSUME NEW next \in {"resting", "halted"}, End(next), Unmoved
      PROVE  ScanIsLate' /\ NothingIsSkipped'
  BY <1>e, <1>k, <1>n, <1>u DEF End, Scanning
<1>5. CASE ListOrders
  <2>1. Unmoved /\ UNCHANGED expired /\ pc' = "next"
    BY <1>5 DEF ListOrders, Unmoved, orders
  <2>2. list'.clock = head /\ \A o \in list'.toExpire : Expires[o] <= head
    BY <1>5 DEF ListOrders
  <2> QED BY <1>x, <1>u, <1>k, <2>1, <2>2 DEF Scanning
<1>6. CASE StartScan
  <2>1. Unmoved /\ UNCHANGED expired /\ pc = "next"
    BY <1>6 DEF StartScan, Unmoved, orders
  <2>2. ASSUME NEW group \in SUBSET Orders, NEW single, Scan(group, single),
               single # NoOrder => single \in list.toExpire /\ group = {single}
        PROVE  ScanIsLate' /\ NothingIsSkipped'
    <3>1. /\ list'.clock = list.clock /\ list'.toExpire \subseteq list.toExpire
          /\ scan'.group = group /\ scan'.single = single /\ scan'.cursor = 0 /\ pc' = "history"
      BY <1>t, <2>2 DEF Scan, TypeOK, Lists, NoScan
    <3>2. ScanIsLate'
      BY <1>k, <1>u, <2>1, <2>2, <3>1 DEF Scanning
    <3>3. NothingIsSkipped'
      BY <3>1 DEF Ahead
    <3> QED BY <3>2, <3>3
  <2>3. list.active \in SUBSET Orders /\ list.toExpire \in SUBSET Orders
    BY <1>t DEF TypeOK, Lists
  <2>4. ScanIsLate' /\ NothingIsSkipped'
    BY <1>6, <1>e, <2>1, <2>2, <2>3 DEF StartScan
  <2> QED BY <1>x, <2>1, <2>4
<1>7. CASE ReadHistory
  <2> DEFINE last == CHOOSE t \in Page : \A u \in Page \ {t} : Newer(u, t)
  <2>1. Unmoved /\ UNCHANGED <<expired, list>> /\ pc = "history" /\ pc' = "page"
    BY <1>7 DEF ReadHistory, Unmoved, orders
  <2>2. /\ UNCHANGED <<scan.group, scan.single, scan.matched, scan.got>>
        /\ scan'.txs = {TxidOf[t] : t \in Page} /\ scan'.more = (Page # Entries)
        /\ scan'.cursor = IF Page = {} THEN 0 ELSE last
    BY <1>7, <1>t DEF ReadHistory, TypeOK, Scans
  <2>3. ScanIsLate'
    BY <1>k, <1>u, <2>1, <2>2 DEF Scanning
  <2>4. ASSUME Scanning, NEW t \in prompt, PaysFor[t] = scan.single
        PROVE  scan.single \in scan.matched \/ t \in scan.got \/ TxidOf[t] \in scan'.txs \/ Ahead(t)'
    <3>1. CASE scan.single \in scan.matched \/ t \in scan.got
      BY <3>1
    <3>2. CASE Ahead(t)
      <4>1. t \in Ours /\ t \in Transfers /\ Shown(t) /\ InTime(t) /\ scan.single \in Orders
        BY <1>k, <1>t, <2>4, OursAreTransfers DEF TypeOK, Scans, Scanning
      <4>2. Height(t) \in Nat /\ Expires[scan.single] \in Nat
        BY <1>t, <4>1, Heights, Windows DEF TypeOK
      <4>3. scan.group = {scan.single} /\ Height(t) >= Opens[scan.single] /\ Height(t) <= UpTo(scan.single)
        BY <1>k, <1>t, <2>4, <4>1, <4>2 DEF InTime, UpTo, Lesser, TypeOK, Lists
      <4>4. t \in Entries
        BY <3>2, <4>1, <4>3 DEF Entries, Ahead, Shown
      <4>5. ASSUME t \notin Page, Page # {} PROVE last \in Page /\ Newer(last, t)
        <5>1. Page \in SUBSET Ours
          BY DEF Page, Entries
        <5>2. last \in Page
          BY <1>t, <4>5, <5>1, PagesHaveAnEnd
        <5> QED BY <1>t, <4>4, <4>5, <5>2, PageSkipsNothing
      <4>6. \A u : Height(u)' = Height(u)
        BY <2>1, HeightsStay
      <4>7. \A u : Newer(u, t)' <=> Newer(u, t)
        BY <4>6 DEF Newer
      <4>8. ASSUME t \notin Page PROVE Ahead(t)'
        <5>1. scan'.more = TRUE
          BY <2>2, <4>4, <4>8
        <5>2. scan'.cursor # 0 => Newer(scan'.cursor, t)
          BY <2>2, <4>5, <4>8
        <5>3. scan'.cursor # 0 => Newer(scan.cursor, t)'
          BY <5>2, <4>6 DEF Newer
        <5> QED BY <5>1, <5>3 DEF Ahead
      <4> QED BY <2>2, <4>8
    <3> QED BY <1>k, <1>t, <2>1, <2>4, <3>1, <3>2 DEF Reads, PagesHaveRoom
  <2>5. NothingIsSkipped'
    BY <1>u, <2>1, <2>2, <2>4 DEF Scanning
  <2> QED BY <1>x, <2>1, <2>3, <2>5
<1>8. ASSUME NEW x \in Txids, ReadEvents(x) PROVE Kept'
  <2>1. Unmoved /\ UNCHANGED <<expired, list, pc>>
    BY <1>8 DEF ReadEvents, Unmoved, orders
  <2>2. /\ UNCHANGED <<scan.group, scan.single, scan.matched, scan.cursor, scan.more>>
        /\ scan'.txs = scan.txs \ {x} /\ scan'.got = scan.got \cup MatchingEvents(x)
    BY <1>8, <1>t DEF ReadEvents, TypeOK, Scans
  <2>3. ScanIsLate'
    BY <1>k, <1>u, <2>1, <2>2 DEF Scanning
  <2>4. \A t \in prompt : TxidOf[t] = x => t \in MatchingEvents(x)
    BY <1>k, <1>t DEF MatchingEvents, Shown, TypeOK
  <2>5. \A t : Ahead(t) => Ahead(t)'
    BY <2>1, <2>2, HeightsStay DEF Ahead, Newer
  <2>6. NothingIsSkipped'
    BY <1>k, <1>u, <2>1, <2>2, <2>4, <2>5 DEF Scanning
  <2> QED BY <1>x, <2>1, <2>3, <2>6
<1>9. ASSUME NEW u \in Transfers, HandOn(u) PROVE Kept'
  <2>1. Unmoved /\ UNCHANGED <<expired, list>> /\ pc = "page" /\ pc' \in {"page", "inspect"}
    BY <1>9 DEF HandOn, Unmoved
  <2>2. /\ UNCHANGED <<scan.group, scan.single, scan.txs, scan.cursor, scan.more>>
        /\ scan'.got = scan.got \ {u} /\ scan.matched \subseteq scan'.matched
        /\ Matches(u) => PaysFor[u] \in scan'.matched
    BY <1>9, <1>t DEF HandOn, TypeOK, Scans
  <2>3. ScanIsLate'
    BY <1>k, <1>u, <2>1, <2>2 DEF Scanning
  <2>4. ASSUME Scanning, u \in prompt, PaysFor[u] = scan.single PROVE Matches(u)
    <3>1. u \in Ours /\ InTime(u) /\ scan.single \in Orders
      BY <1>k, <1>t, <2>4 DEF TypeOK, Scans, Scanning
    <3>2. Height(u) \in Nat /\ Expires[scan.single] \in Nat /\ Opens[scan.single] \in Nat
      BY <1>t, <3>1, Heights, Windows DEF TypeOK
    <3> QED BY <1>k, <1>t, <2>4, <3>1, <3>2 DEF InTime, Matches, UpTo, Lesser, TypeOK, Lists
  <2>5. \A t : Ahead(t) => Ahead(t)'
    BY <2>1, <2>2, HeightsStay DEF Ahead, Newer
  <2>6. NothingIsSkipped'
    BY <1>k, <1>u, <2>1, <2>2, <2>4, <2>5 DEF Scanning
  <2> QED BY <1>x, <2>1, <2>3, <2>6
<1>10. CASE FinishPage
  <2>1. Unmoved /\ pc = "page" /\ scan.txs = {} /\ scan.got = {}
    BY <1>10 DEF FinishPage, Unmoved
  <2>2. CASE scan.more /\ pc' = "history" /\ UNCHANGED <<list, scan, expired>>
    <3>1. \A t : Ahead(t) => Ahead(t)'
      BY <2>1, <2>2, HeightsStay DEF Ahead, Newer
    <3>2. ScanIsLate' /\ NothingIsSkipped'
      BY <1>k, <1>u, <2>1, <2>2, <3>1 DEF Scanning
    <3> QED BY <1>x, <2>1, <2>2, <3>2
  <2>3. CASE End("halted") /\ UNCHANGED expired
    BY <1>e, <1>x, <2>1, <2>3
  <2>4. CASE /\ ~scan.more /\ pc' = "next" /\ scan' = NoScan /\ UNCHANGED list
             /\ expired' = expired \cup {o \in {scan.single} \ {NoOrder} : scan.matched = {} /\ ~Detected(o)}
    <3>1. ScanIsLate' /\ NothingIsSkipped'
      BY <1>k, <1>u, <2>1, <2>4 DEF Scanning
    <3>2. ASSUME NEW o \in expired' \ expired
          PROVE  Expires[o] <= head /\ \A t \in prompt : PaysFor[t] # o
      <4>1. o = scan.single /\ Scanning /\ scan.matched = {} /\ o \in Orders
        BY <1>t, <2>1, <2>4 DEF Scanning, TypeOK, Scans
      <4>2. Expires[o] <= list.clock /\ list.clock <= head /\ list.clock \in Nat /\ Expires[o] \in Nat
        BY <1>k, <1>t, <4>1, Windows DEF TypeOK, Lists
      <4>3. \A t \in prompt : PaysFor[t] # o
        BY <1>k, <2>1, <2>4, <4>1 DEF Ahead
      <4> QED BY <1>k, <4>2, <4>3
    <3>3. ExpiredIsOver' /\ PromptPaymentsAreKept'
      BY <1>k, <1>u, <2>1, <3>2
    <3> QED BY <1>u, <2>1, <3>1, <3>3 DEF Kept
  <2> QED BY <1>10, <2>2, <2>3, <2>4 DEF FinishPage
<1>11. ASSUME ReadBody \/ ReadInfo PROVE Kept'
  <2>1. Unmoved /\ UNCHANGED <<list, scan, expired>> /\ pc = "inspect" /\ pc' \in {"inspect", "page"}
    BY <1>11 DEF ReadBody, ReadInfo, GiveUp, Unmoved, orders
  <2>2. \A t : Ahead(t) => Ahead(t)'
    BY <2>1, HeightsStay DEF Ahead, Newer
  <2>3. ScanIsLate' /\ NothingIsSkipped'
    BY <1>k, <1>u, <2>1, <2>2 DEF Scanning
  <2> QED BY <1>x, <2>1, <2>3
<1>12. CASE ReadLatestBlock
  <2>1. Unmoved /\ UNCHANGED expired /\ pc = "inspect"
    BY <1>12 DEF ReadLatestBlock, Unmoved
  <2>2. CASE End("resting")
    BY <1>e, <1>x, <2>1, <2>2
  <2>3. CASE GiveUp /\ UNCHANGED <<list, scan>>
    <3>1. \A t : Ahead(t) => Ahead(t)'
      BY <2>1, <2>3, HeightsStay DEF Ahead, Newer, GiveUp
    <3>2. ScanIsLate' /\ NothingIsSkipped'
      BY <1>k, <1>u, <2>1, <2>3, <3>1 DEF Scanning, GiveUp
    <3> QED BY <1>x, <2>1, <3>2
  <2> QED BY <1>12, <2>2, <2>3 DEF ReadLatestBlock
<1>13. CASE RunFails \/ CandidateLacksTimestamp \/ CursorIsRepeated
  <2>1. Unmoved /\ UNCHANGED expired /\ (End("resting") \/ End("halted"))
    BY <1>13 DEF RunFails, CandidateLacksTimestamp, CursorIsRepeated, RefusePage,
       Unmoved, orders
  <2> QED BY <1>e, <1>x, <2>1
<1>14. CASE UNCHANGED vars
  BY <1>k, <1>14, <1>w DEF vars, chain, index, orders
<1> QED
  BY <1>1, <1>2, <1>3, <1>4, <1>5, <1>6, <1>7, <1>8, <1>9, <1>10, <1>11, <1>12, <1>13, <1>14
  DEF Next, Step

(* However the index fills while a scan over many pages goes on, no page     *)
(* skips a transfer: an order never expires whose payment both endpoints had *)
(* shown before its deadline (scanOrders, getPage, expireOrder).             *)
THEOREM PagesKeepPromptPayments == Spec => []PromptPaymentsAreKept
<1>1. Reads /\ Kept /\ [Next]_vars => Kept'
  BY KeptStep
<1>2. Kept => PromptPaymentsAreKept
  BY DEF Kept
<1> QED BY InitKept, <1>1, <1>2, AlwaysReads, PTL DEF Spec
=============================================================================
