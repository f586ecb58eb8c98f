------------------------------- MODULE MCRuntime -------------------------------
(* Runtime for TLC. *)
EXTENDS Runtime

MCCodes == {"InternalError"}

(* The calls that change the registry, and the one that holds the mutex    *)
(* longest; MCMethodRegistry has all of them.                              *)
MCUses ==
  {c \in RegisterCalls : ValidArguments(c) /\ c.allowOverwrite}
    \cup {c \in Calls : c.op = "unregisterMethod" /\ c.name \in Names}
    \cup {c \in Calls : c.op = "listMethods"}
===============================================================================
