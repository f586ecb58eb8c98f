-------------------------------- MODULE Runtime --------------------------------
(***************************************************************************)
(* Dispatcher::dispatch (src/runtime/dispatcher.cpp) on top of the         *)
(* MethodRegistry as it is implemented: dispatch() calls hasMethod and     *)
(* getHandler, whose steps are those of MethodRegistry.tla, and acts on    *)
(* what they return only after they have unlocked.  Every thread may       *)
(* dispatch requests or call the registry itself, and a handler may call   *)
(* the registry in the middle of a dispatch.                               *)
(*                                                                         *)
(* stage[t], the place of thread t in dispatch(), is that of pc in         *)
(* Dispatcher.tla; pc[t] is its place in the registry.                     *)
(***************************************************************************)
EXTENDS MethodRegistry

CONSTANTS
  Ids,   \* the ids of requests
  NoId,  \* the id of a notification
  Codes, \* the error codes handlers put in the RpcErrors they throw
  Uses   \* bound: the calls the program and the handlers make of the registry

ASSUME RuntimeAssumption == NoId \notin Ids /\ Uses \subseteq Calls

VARIABLES
  stage,
  req,      \* req[t]: the request being dispatched
  handler,  \* handler[t]: the local copy of the handler
  nested,   \* nested[t]: the handler has made its call of the registry
  res,      \* res[t]: the response
  seen      \* history: what req[t].method has been bound to since dispatch() began

dispatchVars == <<stage, req, handler, nested, res, seen>>
registryVars == vars
runtimeVars  == <<registryVars, dispatchVars>>

-------------------------------------------------------------------------------
Requests  == [method : Names \cup {EmptyName}, id : Ids \cup {NoId}]
NoRequest == [method |-> EmptyName, id |-> NoId]

(* Responses are those of Dispatcher.tla. *)
Response(result, error, id) == [result |-> result, error |-> error, id |-> id]
OwnError(code, id) == Response(<<"none">>, <<"own", code>>, id)
NoResponse         == Response(<<"none">>, <<"none">>, NoId)

LookupCall(op, n) == [op |-> op, name |-> n, handler |-> EmptyHandler, allowOverwrite |-> FALSE]

RuntimeInit ==
  /\ Init
  /\ stage = [t \in Threads |-> "idle"]
  /\ req = [t \in Threads |-> NoRequest]
  /\ handler = [t \in Threads |-> Absent]
  /\ nested = [t \in Threads |-> FALSE]
  /\ res = [t \in Threads |-> NoResponse]
  /\ seen = [t \in Threads |-> {}]

-------------------------------------------------------------------------------
Dispatch(t, r) ==
  /\ pc[t] = "idle" /\ stage[t] = "idle"
  /\ stage' = [stage EXCEPT ![t] = "check"]
  /\ req' = [req EXCEPT ![t] = r]
  /\ seen' = [seen EXCEPT ![t] = {IF Bound(methods, r.method) THEN methods[r.method] ELSE Absent}]
  /\ UNCHANGED <<registryVars, handler, nested, res>>

(* The thread is at "at", outside the registry, and answers r. *)
Answer(t, at, r) ==
  /\ stage[t] = at
  /\ stage' = [stage EXCEPT ![t] = "done"]
  /\ res' = [res EXCEPT ![t] = r]
  /\ UNCHANGED <<req, handler, nested, seen>>

EmptyMethod(t) ==
  /\ req[t].method = EmptyName
  /\ Answer(t, "check", OwnError("InvalidRequest", req[t].id))
  /\ UNCHANGED registryVars

CallHasMethod(t) ==
  /\ stage[t] = "check"
  /\ req[t].method # EmptyName
  /\ Invoke(t, LookupCall("hasMethod", req[t].method))
  /\ UNCHANGED dispatchVars

HasMethodReturns(t) ==
  /\ stage[t] = "check"
  /\ Return(t)
  /\ \/ /\ ret[t] = Returned(FALSE)
        /\ Answer(t, "check", OwnError("MethodNotFound", req[t].id))
     \/ /\ ret[t] = Returned(TRUE)
        /\ stage' = [stage EXCEPT ![t] = "lookup"]
        /\ UNCHANGED <<req, handler, nested, res, seen>>

CallGetHandler(t) ==
  /\ stage[t] = "lookup"
  /\ Invoke(t, LookupCall("getHandler", req[t].method))
  /\ UNCHANGED dispatchVars

GetHandlerReturns(t) ==
  /\ stage[t] = "lookup"
  /\ Return(t)
  /\ \/ /\ ret[t] = Threw("runtime_error")
        /\ Answer(t, "lookup", OwnError("InternalError", req[t].id))
     \/ /\ ret[t] # Threw("runtime_error")
        /\ stage' = [stage EXCEPT ![t] = "run"]
        /\ handler' = [handler EXCEPT ![t] = ret[t][2]]
        /\ UNCHANGED <<req, nested, res, seen>>

(* A handler calls the registry, once: the bound nested. *)
HandlerCalls(t, c) ==
  /\ stage[t] = "run"
  /\ ~nested[t]
  /\ Invoke(t, c)
  /\ nested' = [nested EXCEPT ![t] = TRUE]
  /\ UNCHANGED <<stage, req, handler, res, seen>>

(* It returns a value, throws an RpcError, or throws something else. *)
HandlerEnds(t) ==
  LET h == handler[t] IN
  /\ pc[t] = "idle"
  /\ \/ Answer(t, "run", Response(<<"value", h>>, <<"none">>, req[t].id))
     \/ \E c \in Codes : Answer(t, "run", Response(<<"none">>, <<"thrown", h, c>>, req[t].id))
     \/ Answer(t, "run", Response(<<"none">>, <<"unhandled", h>>, req[t].id))
  /\ UNCHANGED registryVars

DispatchReturns(t) ==
  /\ stage[t] = "done"
  /\ stage' = [stage EXCEPT ![t] = "idle"]
  /\ req' = [req EXCEPT ![t] = NoRequest]
  /\ handler' = [handler EXCEPT ![t] = Absent]
  /\ nested' = [nested EXCEPT ![t] = FALSE]
  /\ res' = [res EXCEPT ![t] = NoResponse]
  /\ seen' = [seen EXCEPT ![t] = {}]
  /\ UNCHANGED registryVars

-------------------------------------------------------------------------------
(* A call made by the program or by a handler, not by dispatch(). *)
DirectCall(t, c) ==
  /\ stage[t] = "idle"
  /\ Invoke(t, c)
  /\ UNCHANGED dispatchVars

DirectReturn(t) ==
  /\ stage[t] \in {"idle", "run"}
  /\ Return(t)
  /\ UNCHANGED dispatchVars

(* A step inside the registry; the dispatches under way see its effect. *)
RegistryStep(t) ==
  /\ pc[t] # "return"
  /\ Step(t)
  /\ seen' = [u \in Threads |->
                IF stage[u] # "idle" /\ Bound(methods', req[u].method)
                  THEN seen[u] \cup {methods'[req[u].method]}
                ELSE IF stage[u] # "idle" THEN seen[u] \cup {Absent}
                ELSE seen[u]]
  /\ UNCHANGED <<stage, req, handler, nested, res>>

ThreadStep(t) ==
  \/ EmptyMethod(t)
  \/ CallHasMethod(t) \/ HasMethodReturns(t)
  \/ CallGetHandler(t) \/ GetHandlerReturns(t)
  \/ HandlerEnds(t)
  \/ RegistryStep(t)
  \/ DirectReturn(t)

RuntimeNext ==
  \E t \in Threads :
    \/ ThreadStep(t)
    \/ DispatchReturns(t)
    \/ \E r \in Requests : Dispatch(t, r)
    \/ \E c \in Uses : DirectCall(t, c) \/ HandlerCalls(t, c)

(* Threads run and handlers end; nobody has to call anything. *)
RuntimeSpec ==
  /\ RuntimeInit
  /\ [][RuntimeNext]_runtimeVars
  /\ \A t \in Threads : WF_runtimeVars(ThreadStep(t))

-------------------------------------------------------------------------------
(* For the callers of dispatch(), a call of the registry has happened once *)
(* its result is computed, although dispatch() does not know it yet.       *)
Knows(t, at) == stage[t] = at /\ ret[t] # Pending

StageSeen ==
  [t \in Threads |->
     CASE Knows(t, "check")  -> IF ret[t] = Returned(TRUE) THEN "lookup" ELSE "done"
       [] Knows(t, "lookup") -> IF ret[t] = Threw("runtime_error") THEN "done" ELSE "run"
       [] OTHER              -> stage[t]]

HandlerSeen ==
  [t \in Threads |->
     IF Knows(t, "lookup") /\ StageSeen[t] = "run" THEN ret[t][2] ELSE handler[t]]

ResponseSeen ==
  [t \in Threads |->
     CASE Knows(t, "check") /\ StageSeen[t] = "done"  -> OwnError("MethodNotFound", req[t].id)
       [] Knows(t, "lookup") /\ StageSeen[t] = "done" -> OwnError("InternalError", req[t].id)
       [] OTHER                                       -> res[t]]

OnAtomicRegistry ==
  INSTANCE Dispatcher WITH
    Workers <- Threads, pc <- StageSeen, handler <- HandlerSeen, res <- ResponseSeen

(* On the registry with its lock, dispatch() behaves as it does on a       *)
(* registry whose operations happen at one instant: what Dispatcher.tla    *)
(* shows of its answers holds of the real thing (dispatcher.cpp:22, 31).   *)
DispatchesAtomically == OnAtomicRegistry!Spec

(* A dispatch comes to its end, whatever its handler does with the         *)
(* registry, once the other threads leave the registry alone: nothing but  *)
(* their use of the mutex can hold it up, for handlers run when getHandler *)
(* has let it go ("callers can invoke without lock",                       *)
(* method_registry.cpp:38; dispatcher.cpp:22, 31-32).                      *)
DispatchEnds ==
  \A t \in Threads :
    <>[](\A u \in Threads \ {t} : pc[u] = "idle")
      => (stage[t] = "check" ~> stage[t] = "done")
===============================================================================
