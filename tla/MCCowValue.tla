------------------------------ MODULE MCCowValue ------------------------------
(* CowValue for TLC.  The Values of the program are interchangeable. *)
EXTENDS CowValue, TLC

Symmetry == Permutations(Vars)
===============================================================================
