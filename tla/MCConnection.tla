----------------------------- MODULE MCConnection -----------------------------
(* Connection for TLC, with the client program or any other client. *)
EXTENDS ClientSession
===============================================================================
