---------------------------- MODULE MCEnergyReclaim ----------------------------
(* A source the signer refuses and one that comes after it.                  *)
EXTENDS EnergyReclaim

OnlyTheFirst == {1}
=============================================================================
