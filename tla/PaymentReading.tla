---------------------------- MODULE PaymentReading ----------------------------
(***************************************************************************)
(* How a reconciliation worker reads the chain: the pages of a candidate   *)
(* scan (TronGridUsdtPaymentDetector), which Reconciliation takes at once, *)
(* and the reads of a finality check (TronReadPaymentFinalityVerifier over *)
(* HttpTronPaymentEvidenceReader), which it takes as one answer.           *)
(*                                                                         *)
(* Every HTTP request is a step.  Between two of them the chain grows and  *)
(* forks, blocks become final, and the two endpoints of the index catch up,*)
(* each at its own pace; every request may be served by another node, some *)
(* blocks behind.  Time is counted in blocks: block n has timestamp n.     *)
(***************************************************************************)
EXTENDS Integers, FiniteSets

CONSTANTS
  Orders,
  NoOrder,
  Opens,        \* createdAt of each order
  Expires,      \* quoteExpiresAt of each order
  Txids,
  NumTransfers, \* Transfer events on the chain
  TxidOf,
  PaysFor,      \* the order whose amount a transfer has, or none
  Ours,         \* those of the USDT contract to the destination of the shop
  PageSize,     \* history entries in a page
  MaxPages,     \* RECONCILIATION_MAX_PAGES: a longer history is fatal
  RequiredConfirmations,
  MaxLag,       \* blocks a solidified node may be behind the others
  LastPayment,  \* bound: the last block with a transfer in it
  MaxHeight,    \* bound: the last block
  MaxFaults     \* bound: forks, failed requests, restarts

Transfers == 1 .. NumTransfers

ASSUME TransfersAreInTxids == NumTransfers \in Nat /\ TxidOf \in [Transfers -> Txids]
ASSUME TransfersPayOrders == PaysFor \in [Transfers -> Orders \cup {NoOrder}] /\ NoOrder \notin Orders
ASSUME OursAreTransfers == Ours \subseteq Transfers
ASSUME WindowsAreOpen == \A o \in Orders : Opens[o] \in Nat \ {0} /\ Expires[o] \in Nat /\ Expires[o] > Opens[o]
ASSUME LimitsArePositive == {PageSize, MaxPages, RequiredConfirmations} \subseteq Nat \ {0}
ASSUME BoundsAreNatural == {MaxLag, LastPayment, MaxHeight, MaxFaults} \subseteq Nat
ASSUME ChainGoesOnLongEnough == LastPayment + RequiredConfirmations + MaxLag <= MaxHeight + 1

VARIABLES
  head, solid,  \* heights of the latest block and of the latest final one
  mined,        \* the block of each transaction, 0 while it is in none
  history,      \* transactions in the transfer history of the destination
  events,       \* transactions whose events the index has
  prompt,       \* history: transfers both endpoints showed before the deadline
  pc,           \* what the worker does next
  list,         \* the local variables of runOnce
  scan,         \* those of scanOrders and the detector
  check,        \* those of inspect and the evidence reader
  detected,     \* transfers whose candidate observation was applied
  told,         \* the most confirmations applied of each transfer
  expired,      \* orders that were expired
  faults        \* history: faults so far

chain == <<head, solid, mined>>
index == <<history, events, prompt>>
orders == <<detected, told, expired>>
worker == <<pc, list, scan, check>>
vars == <<chain, index, worker, orders, faults>>

NoList == [clock |-> 0, toExpire |-> {}, active |-> {}]
NoScan == [group |-> {}, single |-> NoOrder, matched |-> {}, pages |-> 0, cursor |-> 0,
           more |-> FALSE, txs |-> {}, got |-> {}]
NoCheck == [transfer |-> 0, body |-> FALSE, height |-> 0]

Init ==
  /\ head = 0 /\ solid = 0
  /\ mined = [x \in Txids |-> 0]
  /\ history = {} /\ events = {} /\ prompt = {}
  /\ pc = "resting" /\ list = NoList /\ scan = NoScan /\ check = NoCheck
  /\ detected = {}
  /\ told = [t \in Transfers |-> 0]
  /\ expired = {}
  /\ faults = 0

Fault == faults < MaxFaults /\ faults' = faults + 1
Lesser(a, b) == IF a <= b THEN a ELSE b
Greater(a, b) == IF a >= b THEN a ELSE b
-----------------------------------------------------------------------------
(* The chain and its index.                                                  *)

Height(t) == mined[TxidOf[t]]
Final(x) == mined[x] \in 1 .. solid
Shown(t) == TxidOf[t] \in history \cap events

AddBlock(xs) ==
  /\ head < MaxHeight
  /\ \A x \in xs : mined[x] = 0
  /\ xs # {} => head < LastPayment
  /\ head' = head + 1
  /\ mined' = [x \in Txids |-> IF x \in xs THEN head + 1 ELSE mined[x]]
  /\ UNCHANGED <<solid, index, worker, orders, faults>>

(* Blocks that are not final yet are replaced by others, without the         *)
(* transactions that were in them.                                           *)
Fork(from) ==
  /\ from > solid
  /\ Fault
  /\ \E x \in Txids : mined[x] >= from
  /\ mined' = [x \in Txids |-> IF mined[x] >= from THEN 0 ELSE mined[x]]
  /\ UNCHANGED <<head, solid, index, worker, orders>>

Solidify ==
  /\ solid < head
  /\ solid' = solid + 1
  /\ UNCHANGED <<head, mined, index, worker, orders, faults>>

(* Both endpoints show only what is confirmed (only_confirmed).              *)
InTime(t) == /\ t \in Ours /\ PaysFor[t] # NoOrder
             /\ Height(t) >= Opens[PaysFor[t]] /\ Height(t) <= Expires[PaysFor[t]]

IndexShows(x) ==
  /\ Final(x)
  /\ \/ x \notin history /\ history' = history \cup {x} /\ UNCHANGED events
     \/ x \notin events /\ events' = events \cup {x} /\ UNCHANGED history
  /\ prompt' = prompt \cup {t \in Transfers : /\ TxidOf[t] \in history' \cap events'
                                            /\ InTime(t) /\ head < Expires[PaysFor[t]]}
  /\ UNCHANGED <<chain, worker, orders, faults>>
-----------------------------------------------------------------------------
(* runOnce.                                                                  *)

(* A run that is over, for whatever reason, forgets what it has read.  After *)
(* a fatal error none follows.                                               *)
End(next) == pc' = next /\ list' = NoList /\ scan' = NoScan /\ check' = NoCheck

Detected(o) == \E t \in detected : PaysFor[t] = o
Settled(o) == \E t \in Transfers : PaysFor[t] = o /\ told[t] >= RequiredConfirmations

(* Mutant: an order whose payment was detected is not looked at again.       *)
WaitingOrders == {o \in Orders : Opens[o] <= head /\ o \notin expired /\ ~Detected(o)}

OpenOrders == {o \in Orders : Opens[o] <= head /\ o \notin expired /\ ~Settled(o)}

ListOrders ==
  LET late == {o \in OpenOrders : Expires[o] <= head /\ ~Detected(o)}
  IN  /\ pc = "resting" /\ OpenOrders # {}
      /\ pc' = "next"
      /\ list' = [clock |-> head, toExpire |-> late, active |-> OpenOrders \ late]
      /\ UNCHANGED <<chain, index, scan, check, orders, faults>>

Scan(group, single) ==
  /\ pc' = "history"
  /\ list' = [list EXCEPT !.toExpire = @ \ group, !.active = @ \ group]
  /\ scan' = [NoScan EXCEPT !.group = group, !.single = single]
  /\ UNCHANGED check

(* An overdue order is scanned alone, the others together.                   *)
StartScan ==
  /\ pc = "next"
  /\ \/ \E o \in list.toExpire : Scan({o}, o)
     \/ list.toExpire = {} /\ list.active # {} /\ Scan(list.active, NoOrder)
     \/ list.toExpire = {} /\ list.active = {} /\ End("resting")
  /\ UNCHANGED <<chain, index, orders, faults>>

(* The end of an order's window as far as the scan is concerned.             *)
UpTo(o) == Lesser(list.clock, Expires[o])

(* listIncomingUsdtTransfers: the transfers in the window of the group, the  *)
(* newest first, from the cursor on.                                         *)
Newer(t, u) == Height(t) > Height(u) \/ (Height(t) = Height(u) /\ t > u)

Entries ==
  {t \in Ours :
     /\ TxidOf[t] \in history
     /\ \E o \in scan.group : Height(t) >= Opens[o]
     /\ \E o \in scan.group : Height(t) <= UpTo(o)
     /\ scan.cursor # 0 => Newer(scan.cursor, t)}

Page == {t \in Entries : Cardinality({u \in Entries : Newer(u, t)}) < PageSize}

ReadHistory ==
  /\ pc = "history" /\ pc' = "page"
  /\ scan' = [scan EXCEPT !.pages = @ + 1,
                          !.txs = {TxidOf[t] : t \in Page},
                          !.cursor = IF Page = {} THEN 0
                                     ELSE CHOOSE t \in Page : \A u \in Page \ {t} : Newer(u, t),
                          !.more = Page # Entries]
  /\ UNCHANGED <<chain, index, list, check, orders, faults>>

(* Mutant: the other events of the transaction are taken along.              *)
AllEvents(x) == IF x \in events THEN {t \in Transfers : TxidOf[t] = x} ELSE {}

(* listTransactionEvents: what the index has of the transaction, without the *)
(* transfers of other tokens and to others.                                  *)
MatchingEvents(x) == IF x \in events THEN {t \in Ours : TxidOf[t] = x} ELSE {}

ReadEvents(x) ==
  /\ pc = "page" /\ x \in scan.txs
  /\ scan' = [scan EXCEPT !.txs = @ \ {x}, !.got = @ \cup MatchingEvents(x)]
  /\ UNCHANGED <<chain, index, pc, list, check, orders, faults>>

(* When the page has been read, its transfers are matched with the orders of *)
(* the group, each within its own window, and checked for finality unless    *)
(* their order is settled.                                                   *)
Matches(t) ==
  /\ t \in Ours /\ PaysFor[t] \in scan.group
  /\ Height(t) \in Opens[PaysFor[t]] .. UpTo(PaysFor[t])

HandOn(t) ==
  /\ pc = "page" /\ scan.txs = {} /\ t \in scan.got
  /\ \/ /\ ~Matches(t)
        /\ scan' = [scan EXCEPT !.got = @ \ {t}]
        /\ UNCHANGED <<pc, check, detected>>
     \/ /\ Matches(t)
        /\ scan' = [scan EXCEPT !.got = @ \ {t}, !.matched = @ \cup {PaysFor[t]}]
        /\ detected' = detected \cup {t}
        /\ IF Settled(PaysFor[t]) THEN UNCHANGED <<pc, check>>
           ELSE pc' = "inspect" /\ check' = [NoCheck EXCEPT !.transfer = t]
  /\ UNCHANGED <<chain, index, list, told, expired, faults>>

(* Mutant: a page without a match is taken for the last one.                 *)
FinishPageWhenEmpty ==
  /\ pc = "page" /\ scan.txs = {} /\ scan.got = {}
  /\ \/ /\ scan.more /\ scan.matched # {} /\ scan.pages < MaxPages
        /\ pc' = "history" /\ UNCHANGED <<list, scan, check, expired>>
     \/ /\ scan.more /\ scan.matched # {} /\ scan.pages = MaxPages
        /\ End("halted") /\ UNCHANGED expired
     \/ /\ ~scan.more \/ scan.matched = {}
        /\ pc' = "next" /\ scan' = NoScan /\ UNCHANGED <<list, check>>
        /\ expired' = expired \cup {o \in {scan.single} \ {NoOrder} : scan.matched = {} /\ ~Detected(o)}
  /\ UNCHANGED <<chain, index, detected, told, faults>>

(* The next page, if there is one and it may be read; otherwise an overdue   *)
(* order that nothing matched is expired.                                    *)
FinishPage ==
  /\ pc = "page" /\ scan.txs = {} /\ scan.got = {}
  /\ \/ /\ scan.more /\ scan.pages < MaxPages
        /\ pc' = "history" /\ UNCHANGED <<list, scan, check, expired>>
     \/ /\ scan.more /\ scan.pages = MaxPages
        /\ End("halted") /\ UNCHANGED expired
     \/ /\ ~scan.more
        /\ pc' = "next" /\ scan' = NoScan /\ UNCHANGED <<list, check>>
        /\ expired' = expired \cup {o \in {scan.single} \ {NoOrder} : scan.matched = {} /\ ~Detected(o)}
  /\ UNCHANGED <<chain, index, detected, told, faults>>
-----------------------------------------------------------------------------
(* inspect: body and information of the transaction are read side by side,   *)
(* then the latest block, all of them in the solidified view.                *)

(* Mutant: the reads go to the head.                                         *)
HeadView == {head}

(* How far the solidified node that happens to answer has got.               *)
View == {s \in 0 .. solid : s + MaxLag >= solid}

Sees(s) == Height(check.transfer) \in 1 .. s
GiveUp == pc' = "page" /\ check' = NoCheck

ReadBody ==
  /\ pc = "inspect" /\ ~check.body
  /\ \E s \in View :
       \/ Sees(s) /\ check' = [check EXCEPT !.body = TRUE] /\ UNCHANGED pc
       \/ ~Sees(s) /\ GiveUp
  /\ UNCHANGED <<chain, index, list, scan, orders, faults>>

ReadInfo ==
  /\ pc = "inspect" /\ check.height = 0
  /\ \E s \in View :
       \/ Sees(s) /\ check' = [check EXCEPT !.height = Height(check.transfer)] /\ UNCHANGED pc
       \/ ~Sees(s) /\ GiveUp
  /\ UNCHANGED <<chain, index, list, scan, orders, faults>>

(* A latest block below that of the transaction makes the run throw.         *)
ReadLatestBlock ==
  /\ pc = "inspect" /\ check.body /\ check.height # 0
  /\ \E latest \in View :
       \/ latest < check.height /\ End("resting") /\ UNCHANGED told
       \/ /\ latest >= check.height
          /\ told' = [told EXCEPT ![check.transfer] = Greater(@, latest - check.height + 1)]
          /\ GiveUp /\ UNCHANGED <<list, scan>>
  /\ UNCHANGED <<chain, index, detected, expired, faults>>

(* A request that fails, or a process that dies, ends the run; the next one  *)
(* starts with the first page.                                               *)
RunFails ==
  /\ pc \notin {"resting", "halted"}
  /\ Fault
  /\ End("resting")
  /\ UNCHANGED <<chain, index, orders>>

(* What the page lacks is no read error and is not retried: it ends the loop.*)
RefusePage == Fault /\ End("halted") /\ UNCHANGED <<chain, index, orders>>

CandidateLacksTimestamp ==
  pc = "page" /\ scan.txs = {} /\ scan.got # {} /\ RefusePage

CursorIsRepeated ==
  pc = "page" /\ scan.txs = {} /\ scan.got = {} /\ scan.more /\ RefusePage

Step ==
  \/ ListOrders \/ StartScan \/ ReadHistory \/ FinishPage
  \/ ReadBody \/ ReadInfo \/ ReadLatestBlock
  \/ \E x \in Txids : ReadEvents(x)
  \/ \E t \in Transfers : HandOn(t)

Next ==
  \/ \E xs \in SUBSET Txids : AddBlock(xs)
  \/ \E from \in 1 .. head : Fork(from)
  \/ Solidify
  \/ \E x \in Txids : IndexShows(x)
  \/ Step \/ RunFails \/ CandidateLacksTimestamp \/ CursorIsRepeated

Spec == Init /\ [][Next]_vars

(* The loop runs for ever, and blocks follow each other and become final.    *)
Fairness == WF_vars(Step) /\ WF_vars(AddBlock({})) /\ WF_vars(Solidify)

FairSpec == Spec /\ Fairness
-----------------------------------------------------------------------------
(* Properties.                                                               *)

Lists == [clock : 0 .. MaxHeight, toExpire : SUBSET Orders, active : SUBSET Orders]

Scans ==
  [group : SUBSET Orders, single : Orders \cup {NoOrder}, matched : SUBSET Orders,
   pages : 0 .. MaxPages, cursor : {0} \cup Ours, more : BOOLEAN,
   txs : SUBSET Txids, got : SUBSET Ours]

Checks == [transfer : {0} \cup Ours, body : BOOLEAN, height : 0 .. MaxHeight]

TypeOK ==
  /\ head \in 0 .. MaxHeight /\ solid \in 0 .. head
  /\ mined \in [Txids -> 0 .. head]
  /\ history \subseteq Txids /\ events \subseteq Txids /\ prompt \subseteq Ours
  /\ pc \in {"resting", "next", "history", "page", "inspect", "halted"}
  /\ list \in Lists /\ scan \in Scans /\ check \in Checks
  /\ detected \subseteq Ours
  /\ told \in [Transfers -> 0 .. MaxHeight]
  /\ expired \subseteq Orders
  /\ faults \in 0 .. MaxFaults

(* What a worker reads is what the settlement relies on: only transfers to   *)
(* the shop, in the window of the order whose amount they have and final, are*)
(* candidates, and no more confirmations are told than there are.            *)
Feed == INSTANCE PaymentFeed WITH
  depth <- [t \in Transfers |->
              IF InTime(t) /\ Final(TxidOf[t]) THEN solid - Height(t) + 1 ELSE 0]

ImplementsFeed == Feed!Spec

(* Reconciliation reads all pages of a scan at once.  Page by page, while the*)
(* index changes, an order still never expires when the index showed its     *)
(* payment before its deadline.                                              *)
PromptPaymentsAreKept == \A t \in prompt : PaysFor[t] \notin expired

(* A payment that the index shows is confirmed in the end, however often a   *)
(* node is behind, unless the order expired before or a fatal error has ended*)
(* the loop: a history longer than a scan may be, or a page it refuses.      *)
ShownPaymentsAreConfirmed ==
  \A t \in Ours :
    Shown(t) /\ InTime(t) ~> Settled(PaysFor[t]) \/ PaysFor[t] \in expired \/ pc = "halted"
=============================================================================
