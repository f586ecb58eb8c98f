----------------------------- MODULE MCDispatcher -----------------------------
(* Dispatcher for TLC. *)
EXTENDS Dispatcher

(* A handler may well throw an RpcError with a code dispatch() also uses. *)
MCCodes == {"InternalError", "MethodNotFound"}
===============================================================================
