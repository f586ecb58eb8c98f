------------------------------- MODULE MCServer -------------------------------
(* ServerProgram for TLC: what may fail in a run. *)
EXTENDS ServerProgram

NoFaults == {}
AllFaults == {"accept", "thread"}
===============================================================================
