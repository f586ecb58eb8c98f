--------------------------- MODULE MCMethodRegistry ---------------------------
(* MethodRegistry for TLC. *)
EXTENDS MethodRegistry

===============================================================================
