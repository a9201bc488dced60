------------------------------- MODULE MCOwnPool -------------------------------
(* Two processes that work on one order at once.                             *)
EXTENDS OwnPool, TLC

ProcessesAreAlike == Permutations(Processes)
=============================================================================
