------------------------------ MODULE EnergyLease ------------------------------
(***************************************************************************)
(* What reclaiming promises: the Energy of a delivered order is lent.  It  *)
(* stays with the recipient until its lease is over and is taken back at   *)
(* most once: a second undelegation of the same amount would take Energy   *)
(* that another order has delegated to the same recipient.                 *)
(***************************************************************************)
EXTENDS Naturals

CONSTANT Sources   \* completed delegations

VARIABLES
  lent,      \* delegated
  due,       \* the lease is over
  returned   \* how often the network has taken the Energy back

Init ==
  /\ lent = {}
  /\ due = {}
  /\ returned = [s \in Sources |-> 0]

(* A delegation may be due at once: the lease counts from its broadcast.     *)
Lend(s) ==
  /\ s \notin lent
  /\ lent' = lent \cup {s}
  /\ due' \in {due, due \cup {s}}
  /\ UNCHANGED returned

LeasesEnd ==
  /\ due \subseteq due'
  /\ due' \subseteq lent
  /\ UNCHANGED <<lent, returned>>

Return(s) ==
  /\ s \in due
  /\ returned[s] = 0
  /\ returned' = [returned EXCEPT ![s] = 1]
  /\ UNCHANGED <<lent, due>>

Next == LeasesEnd \/ \E s \in Sources : Lend(s) \/ Return(s)

Spec == Init /\ [][Next]_<<lent, due, returned>>
=============================================================================
