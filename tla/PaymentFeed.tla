------------------------------ MODULE PaymentFeed ------------------------------
(***************************************************************************)
(* What the settlement of payments relies on, whatever node or index was   *)
(* asked and however the chain forked before it was final: a candidate is  *)
(* a transfer that is on the chain for good, and nobody is ever told more  *)
(* confirmations of it than there are.                                     *)
(***************************************************************************)
EXTENDS Naturals

CONSTANT Transfers   \* transfers that match the terms of an order

VARIABLES
  depth,     \* final blocks from that of the transfer on, 0 before it is final
  detected,  \* transfers handed on as candidates
  told       \* the most confirmations told of each, 0 before any were

Init ==
  /\ depth = [t \in Transfers |-> 0]
  /\ detected = {}
  /\ told = [t \in Transfers |-> 0]

(* What is final only gets deeper.                                           *)
Deepen ==
  /\ depth' \in [Transfers -> Nat]
  /\ \A t \in Transfers : depth'[t] >= depth[t]
  /\ UNCHANGED <<detected, told>>

Detect(t) ==
  /\ depth[t] > 0
  /\ detected' = detected \cup {t}
  /\ UNCHANGED <<depth, told>>

Tell(t, d) ==
  /\ t \in detected
  /\ d <= depth[t] /\ d > told[t]
  /\ told' = [told EXCEPT ![t] = d]
  /\ UNCHANGED <<depth, detected>>

Next ==
  \/ Deepen
  \/ \E t \in Transfers : Detect(t) \/ \E d \in 1 .. depth[t] : Tell(t, d)

Spec == Init /\ [][Next]_<<depth, detected, told>>
=============================================================================
