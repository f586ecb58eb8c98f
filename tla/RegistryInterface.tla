--------------------------- MODULE RegistryInterface ---------------------------
(***************************************************************************)
(* The public interface of skitter::registry::MethodRegistry               *)
(* (include/skitr/registry/method_registry.h): the calls a thread may make *)
(* and the results it may get.  AtomicRegistry.tla says when a result is   *)
(* right, MethodRegistry.tla how the code computes it.                     *)
(***************************************************************************)
EXTENDS FiniteSets, Naturals

CONSTANTS
  Threads,       \* the threads that share the registry
  Names,         \* non-empty method names
  Handlers,      \* callable std::function objects
  EmptyName,     \* the empty string
  EmptyHandler,  \* a default-constructed std::function
  Absent         \* "no entry": what methods maps an unregistered name to

(* The two arguments registerMethod rejects are none of those it stores,   *)
(* and the map is finite.                                                  *)
ASSUME RegistryAssumption ==
  /\ IsFiniteSet(Names)
  /\ EmptyName \notin Names
  /\ EmptyHandler \notin Handlers
  /\ Absent \notin Handlers

-------------------------------------------------------------------------------
(* A call: the operation and its arguments, those it does not take fixed. *)
RegisterCalls ==
  [op : {"registerMethod"}, name : Names \cup {EmptyName},
   handler : Handlers \cup {EmptyHandler}, allowOverwrite : BOOLEAN]

LookupCalls ==
  [op : {"hasMethod", "getHandler", "unregisterMethod"}, name : Names \cup {EmptyName},
   handler : {EmptyHandler}, allowOverwrite : {FALSE}]

QueryCalls ==
  [op : {"listMethods", "size"}, name : {EmptyName},
   handler : {EmptyHandler}, allowOverwrite : {FALSE}]

Calls  == RegisterCalls \cup LookupCalls \cup QueryCalls
NoCall ==
  [op |-> "none", name |-> EmptyName, handler |-> EmptyHandler, allowOverwrite |-> FALSE]

ValidArguments(c) == c.name # EmptyName /\ c.handler # EmptyHandler

(* A result: not there yet, a returned value, or the exception thrown. *)
Pending     == <<"pending">>
Returned(v) == <<"returned", v>>
Threw(e)    == <<"threw", e>>

ResultOf(c, r) ==
  \/ /\ c.op \in {"registerMethod", "hasMethod", "unregisterMethod"}
     /\ r \in {"returned"} \X BOOLEAN
  \/ c.op = "registerMethod" /\ r = Threw("invalid_argument")
  \/ c.op = "getHandler" /\ r \in {"returned"} \X Handlers
  \/ c.op = "getHandler" /\ r = Threw("runtime_error")
  \/ c.op = "listMethods" /\ r \in {"returned"} \X SUBSET Names
  \/ c.op = "size" /\ r \in {"returned"} \X Nat

-------------------------------------------------------------------------------
(* The map m from names to handlers. *)
Maps          == [Names -> Handlers \cup {Absent}]
Bound(m, n)   == n \in Names /\ m[n] # Absent
Registered(m) == { n \in Names : m[n] # Absent }
Store(m, n, h) == [k \in Names |-> IF k = n THEN h ELSE m[k]]
===============================================================================
