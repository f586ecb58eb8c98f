------------------------------ MODULE MCCowThreads ------------------------------
(* CowThreads for TLC.  Threads and blocks are interchangeable. *)
EXTENDS CowThreads, TLC

Symmetry == Permutations(Threads) \cup Permutations(Blocks)
===============================================================================
