---------------------------- MODULE CountAccount ----------------------------
(***************************************************************************)
(* What the product promises about a customer's count balance, without     *)
(* payments, providers or workers: a purchase adds its count once, an      *)
(* Energy use takes its cost out of the available count when it is         *)
(* accepted, and the taken cost is afterwards spent or given back, once.   *)
(***************************************************************************)
EXTENDS Naturals

CONSTANTS
  Users,        \* customers
  Purchases,    \* package purchases
  Uses,         \* Energy uses
  BuyerOf,      \* the customer of each purchase
  CountOf,      \* the count a purchase adds
  SpenderOf,    \* the customer of each use
  Costs         \* the costs a use may have

VARIABLES
  available,    \* count each customer can still use
  credited,     \* purchases whose count was added
  hold,         \* what became of each use: none, held, spent or returned
  cost          \* the cost each accepted use was accepted at, 0 before

vars == <<available, credited, hold, cost>>

Init ==
  /\ available = [u \in Users |-> 0]
  /\ credited = {}
  /\ hold = [x \in Uses |-> "none"]
  /\ cost = [x \in Uses |-> 0]

Credit(p) ==
  /\ p \notin credited
  /\ credited' = credited \cup {p}
  /\ available' = [available EXCEPT ![BuyerOf[p]] = @ + CountOf[p]]
  /\ UNCHANGED <<hold, cost>>

Hold(x, c) ==
  /\ hold[x] = "none"
  /\ available[SpenderOf[x]] >= c
  /\ hold' = [hold EXCEPT ![x] = "held"]
  /\ cost' = [cost EXCEPT ![x] = c]
  /\ available' = [available EXCEPT ![SpenderOf[x]] = @ - c]
  /\ UNCHANGED credited

Spend(x) ==
  /\ hold[x] = "held"
  /\ hold' = [hold EXCEPT ![x] = "spent"]
  /\ UNCHANGED <<available, credited, cost>>

GiveBack(x) ==
  /\ hold[x] = "held"
  /\ hold' = [hold EXCEPT ![x] = "returned"]
  /\ available' = [available EXCEPT ![SpenderOf[x]] = @ + cost[x]]
  /\ UNCHANGED <<credited, cost>>

Next ==
  \/ \E p \in Purchases : Credit(p)
  \/ \E x \in Uses, c \in Costs : Hold(x, c)
  \/ \E x \in Uses : Spend(x) \/ GiveBack(x)

Spec == Init /\ [][Next]_vars
=============================================================================
