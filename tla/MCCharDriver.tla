----------------------------- MODULE MCCharDriver -----------------------------
(* Instance of CharDriver: every driver of the repository, two programs.   *)
EXTENDS CharDriver, TLC

CONSTANTS p1, p2
MCPrograms == {p1, p2}
MCDrivers  == DOMAIN Code
Symmetry   == Permutations(MCPrograms)
=============================================================================
