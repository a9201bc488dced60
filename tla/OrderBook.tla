------------------------------ MODULE OrderBook ------------------------------
(***************************************************************************)
(* What creating purchase orders promises: orders are placed one at a time,*)
(* each under a key of its own.  A USDT order takes the lowest amount at or*)
(* above its price that no USDT order ever took, within the offset the     *)
(* shop allows, so that a transfer of that amount can only mean this order.*)
(***************************************************************************)
EXTENDS Integers

CONSTANTS
  Keys,       \* idempotency keys
  Payloads,   \* what is ordered: customer, package, price and payment terms
  PriceOf,    \* quoted amount of a payload
  AssetOf,    \* "USDT" or "TRX"
  MaxOffset   \* usdtAttributionMaxOffsetAtomic

VARIABLE book  \* the orders placed

vars == <<book>>

Amounts(p) ==
  PriceOf[p] .. (IF AssetOf[p] = "USDT" THEN PriceOf[p] + MaxOffset ELSE PriceOf[p])

Taken == {r.amount : r \in {s \in book : AssetOf[s.payload] = "USDT"}}

Place(k, p, a) ==
  /\ \A r \in book : r.key # k
  /\ AssetOf[p] = "USDT" => a \notin Taken /\ PriceOf[p] .. (a - 1) \subseteq Taken
  /\ book' = book \cup {[key |-> k, payload |-> p, amount |-> a]}

Init == book = {}

Next == \E k \in Keys, p \in Payloads : \E a \in Amounts(p) : Place(k, p, a)

Spec == Init /\ [][Next]_vars
=============================================================================
