---------------------------- MODULE AtomicRegistry ----------------------------
(***************************************************************************)
(* What MethodRegistry promises the threads that share it: each operation  *)
(* takes effect at one instant between its call and its return, and its    *)
(* result is the one the map had at that instant.  MethodRegistry.tla, the *)
(* mutex-based implementation, is shown to implement this module.          *)
(***************************************************************************)
EXTENDS RegistryInterface

VARIABLES
  methods,  \* the map from names to handlers
  phase,    \* phase[t]: "idle", "called" or "done"
  call,     \* call[t]: the operation t is executing, with its arguments
  ret       \* ret[t]: what the operation returned or threw

vars == <<methods, phase, call, ret>>

Init ==
  /\ methods = [n \in Names |-> Absent]
  /\ phase = [t \in Threads |-> "idle"]
  /\ call = [t \in Threads |-> NoCall]
  /\ ret = [t \in Threads |-> Pending]

Invoke(t, c) ==
  /\ phase[t] = "idle"
  /\ phase' = [phase EXCEPT ![t] = "called"]
  /\ call' = [call EXCEPT ![t] = c]
  /\ UNCHANGED <<methods, ret>>

(* The instant at which t's operation op happens: the map becomes m and   *)
(* the operation will return (or throw) r.                                *)
TakesEffect(t, op, m, r) ==
  /\ phase[t] = "called"
  /\ call[t].op = op
  /\ methods' = m
  /\ ret' = [ret EXCEPT ![t] = r]
  /\ phase' = [phase EXCEPT ![t] = "done"]
  /\ UNCHANGED call

RegisterMethod(t) ==
  LET c == call[t] IN
  \/ /\ ~ValidArguments(c)
     /\ TakesEffect(t, "registerMethod", methods, Threw("invalid_argument"))
  \/ /\ ValidArguments(c)
     /\ Bound(methods, c.name)
     /\ ~c.allowOverwrite
     /\ TakesEffect(t, "registerMethod", methods, Returned(FALSE))
  \/ /\ ValidArguments(c)
     /\ Bound(methods, c.name) => c.allowOverwrite
     /\ TakesEffect(t, "registerMethod", Store(methods, c.name, c.handler), Returned(TRUE))

HasMethod(t) ==
  TakesEffect(t, "hasMethod", methods, Returned(Bound(methods, call[t].name)))

GetHandler(t) ==
  LET n == call[t].name IN
  \/ /\ Bound(methods, n)
     /\ TakesEffect(t, "getHandler", methods, Returned(methods[n]))
  \/ /\ ~Bound(methods, n)
     /\ TakesEffect(t, "getHandler", methods, Threw("runtime_error"))

UnregisterMethod(t) ==
  LET n == call[t].name IN
  TakesEffect(t, "unregisterMethod", Store(methods, n, Absent), Returned(Bound(methods, n)))

ListMethods(t) ==
  TakesEffect(t, "listMethods", methods, Returned(Registered(methods)))

Size(t) ==
  TakesEffect(t, "size", methods, Returned(Cardinality(Registered(methods))))

Return(t) ==
  /\ phase[t] = "done"
  /\ phase' = [phase EXCEPT ![t] = "idle"]
  /\ call' = [call EXCEPT ![t] = NoCall]
  /\ ret' = [ret EXCEPT ![t] = Pending]
  /\ UNCHANGED methods

Next ==
  \E t \in Threads :
    \/ \E c \in Calls : Invoke(t, c)
    \/ RegisterMethod(t)
    \/ HasMethod(t)
    \/ GetHandler(t)
    \/ UnregisterMethod(t)
    \/ ListMethods(t)
    \/ Size(t)
    \/ Return(t)

Spec == Init /\ [][Next]_vars
===============================================================================
