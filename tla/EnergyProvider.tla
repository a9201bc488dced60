---------------------------- MODULE EnergyProvider ----------------------------
(***************************************************************************)
(* What the EnergyProvider interface promises of one idempotency key, and  *)
(* EnergyUsageService relies on: however often a delivery is created,      *)
(* looked up or resumed, Energy is delegated once at most, the provider    *)
(* decides once, completed means delegated, and the order is told what was *)
(* decided.                                                                *)
(*                                                                         *)
(* It does not promise that nothing is delegated after a failure, which    *)
(* the own pool does not keep (FailureIsFinal of OwnPool).                 *)
(***************************************************************************)
VARIABLES
  delegated,  \* the external attempts that have succeeded
  result,     \* what the provider has decided
  told        \* the status of the order's delivery

Init ==
  /\ delegated = {}
  /\ result = "open"
  /\ told = "open"

Delegate ==
  /\ delegated = {}
  /\ \E attempt \in delegated' : delegated' = {attempt}
  /\ UNCHANGED <<result, told>>

Decide ==
  /\ result = "open"
  /\ \/ result' = "completed" /\ delegated # {}
     \/ result' = "failed"
  /\ UNCHANGED <<delegated, told>>

Tell ==
  /\ told = "open"
  /\ result # "open"
  /\ told' = result
  /\ UNCHANGED <<delegated, result>>

Next == Delegate \/ Decide \/ Tell

Spec == Init /\ [][Next]_<<delegated, result, told>>
=============================================================================
