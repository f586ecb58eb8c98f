------------------------------ MODULE Dispatcher ------------------------------
(***************************************************************************)
(* skitter::runtime::Dispatcher (src/runtime/dispatcher.cpp): the threads  *)
(* that serve connections call dispatch() concurrently on one registry.    *)
(* dispatch() asks the registry twice, hasMethod and then getHandler, and  *)
(* runs the copy of the handler it got without any lock.  In between,      *)
(* other threads (or the handlers themselves) register, overwrite and      *)
(* unregister methods.  Each registry operation is one step here:          *)
(* MethodRegistry.tla shows that this is what its callers see.             *)
(*                                                                         *)
(* pc[w], the place of worker w in dispatch():                             *)
(*   idle      not in dispatch()                                           *)
(*   check     called; the method name not looked at yet                   *)
(*   lookup    hasMethod said yes                                          *)
(*   run       running the handler getHandler returned                     *)
(*   done      response built, not returned yet                            *)
(***************************************************************************)
EXTENDS Naturals

CONSTANTS
  Workers,    \* the threads that call dispatch()
  Names,      \* non-empty method names
  Handlers,   \* callable handlers
  EmptyName,  \* the empty string
  Absent,     \* no entry, no handler
  Ids,        \* the ids of requests
  NoId,       \* the id of a notification
  Codes       \* the error codes handlers put in the RpcErrors they throw

ASSUME DispatcherAssumption ==
  /\ EmptyName \notin Names
  /\ Absent \notin Handlers
  /\ NoId \notin Ids

VARIABLES
  methods,  \* the registry
  pc,
  req,      \* req[w]: the request being dispatched
  handler,  \* handler[w]: the local copy of the handler
  res,      \* res[w]: the response
  seen      \* history: what req[w].method has been bound to since dispatch() began

vars == <<methods, pc, req, handler, res, seen>>

-------------------------------------------------------------------------------
Requests == [method : Names \cup {EmptyName}, id : Ids \cup {NoId}]
NoRequest == [method |-> EmptyName, id |-> NoId]

(* The two optionals of an RpcResponse: a value is what a handler computed; *)
(* an error is dispatch()'s own, or the RpcError a handler threw.           *)
NoResult      == <<"none">>
ValueOf(h)    == <<"value", h>>
NoError       == <<"none">>
Own(code)     == <<"own", code>>
Thrown(h, c)  == <<"thrown", h, c>>
(* Own error of the two catch clauses that turn what a handler threw into  *)
(* an InternalError.                                                       *)
Unhandled(h)  == <<"unhandled", h>>

Results == {NoResult} \cup {ValueOf(h) : h \in Handlers}
Errors  == {NoError} \cup {Own(c) : c \in {"InvalidRequest", "MethodNotFound", "InternalError"}}
             \cup {Unhandled(h) : h \in Handlers}
             \cup UNION {{Thrown(h, c) : c \in Codes} : h \in Handlers}

Responses  == [result : Results, error : Errors, id : Ids \cup {NoId}]
NoResponse == [result |-> NoResult, error |-> NoError, id |-> NoId]

Binding(n) == IF n \in Names THEN methods[n] ELSE Absent

Init ==
  /\ methods \in [Names -> Handlers \cup {Absent}]
  /\ pc = [w \in Workers |-> "idle"]
  /\ req = [w \in Workers |-> NoRequest]
  /\ handler = [w \in Workers |-> Absent]
  /\ res = [w \in Workers |-> NoResponse]
  /\ seen = [w \in Workers |-> {}]

-------------------------------------------------------------------------------
Dispatch(w, r) ==
  /\ pc[w] = "idle"
  /\ pc' = [pc EXCEPT ![w] = "check"]
  /\ req' = [req EXCEPT ![w] = r]
  /\ seen' = [seen EXCEPT ![w] = {Binding(r.method)}]
  /\ UNCHANGED <<methods, handler, res>>

(* Mutant of Reply: the response is built without the id of the request. *)
ReplyWithoutId(w, at, result, error) ==
  /\ pc[w] = at
  /\ pc' = [pc EXCEPT ![w] = "done"]
  /\ res' = [res EXCEPT ![w] = [result |-> result, error |-> error, id |-> NoId]]
  /\ UNCHANGED <<methods, req, handler, seen>>

(* return RpcResponse{result, error, req.id} from place "at". *)
Reply(w, at, result, error) ==
  /\ pc[w] = at
  /\ pc' = [pc EXCEPT ![w] = "done"]
  /\ res' = [res EXCEPT ![w] = [result |-> result, error |-> error, id |-> req[w].id]]
  /\ UNCHANGED <<methods, req, handler, seen>>

EmptyMethod(w) ==
  /\ req[w].method = EmptyName
  /\ Reply(w, "check", NoResult, Own("InvalidRequest"))

(* hasMethod returned true. *)
HasMethod(w) ==
  /\ pc[w] = "check"
  /\ req[w].method # EmptyName
  /\ Binding(req[w].method) # Absent
  /\ pc' = [pc EXCEPT ![w] = "lookup"]
  /\ UNCHANGED <<methods, req, handler, res, seen>>

(* Mutant of MethodNotFound: the test of hasMethod is inverted. *)
MethodNotFoundInverted(w) ==
  /\ req[w].method # EmptyName
  /\ Binding(req[w].method) # Absent
  /\ Reply(w, "check", NoResult, Own("MethodNotFound"))

MethodNotFound(w) ==
  /\ req[w].method # EmptyName
  /\ Binding(req[w].method) = Absent
  /\ Reply(w, "check", NoResult, Own("MethodNotFound"))

(* Mutants of GetHandler: the handler of some entry, not of the one asked  *)
(* for; the entry dereferenced without checking that it is there.          *)
GetSomeHandler(w) ==
  /\ pc[w] = "lookup"
  /\ \E n \in Names :
       /\ methods[n] # Absent
       /\ handler' = [handler EXCEPT ![w] = methods[n]]
  /\ pc' = [pc EXCEPT ![w] = "run"]
  /\ UNCHANGED <<methods, req, res, seen>>

GetHandlerUnchecked(w) ==
  /\ pc[w] = "lookup"
  /\ handler' = [handler EXCEPT ![w] = Binding(req[w].method)]
  /\ pc' = [pc EXCEPT ![w] = "run"]
  /\ UNCHANGED <<methods, req, res, seen>>

GetHandler(w) ==
  /\ pc[w] = "lookup"
  /\ Binding(req[w].method) # Absent
  /\ handler' = [handler EXCEPT ![w] = Binding(req[w].method)]
  /\ pc' = [pc EXCEPT ![w] = "run"]
  /\ UNCHANGED <<methods, req, res, seen>>

(* Mutant of MethodGone: getHandler throws whatever it finds. *)
AlwaysGone(w) == Reply(w, "lookup", NoResult, Own("InternalError"))

(* getHandler throws std::runtime_error when the method has gone in the    *)
(* meantime; dispatch() catches it like an exception of the handler.       *)
MethodGone(w) ==
  /\ Binding(req[w].method) = Absent
  /\ Reply(w, "lookup", NoResult, Own("InternalError"))

HandlerReturns(w) == Reply(w, "run", ValueOf(handler[w]), NoError)

HandlerThrowsRpcError(w, c) == Reply(w, "run", NoResult, Thrown(handler[w], c))

(* catch (const std::exception&) and catch (...) *)
HandlerThrows(w) == Reply(w, "run", NoResult, Unhandled(handler[w]))

(* The caller takes the response; the locals of dispatch() are gone. *)
Return(w) ==
  /\ pc[w] = "done"
  /\ pc' = [pc EXCEPT ![w] = "idle"]
  /\ req' = [req EXCEPT ![w] = NoRequest]
  /\ handler' = [handler EXCEPT ![w] = Absent]
  /\ res' = [res EXCEPT ![w] = NoResponse]
  /\ seen' = [seen EXCEPT ![w] = {}]
  /\ UNCHANGED methods

(* Some thread, a handler included, makes b the binding of n. *)
Bind(n, b) ==
  /\ methods' = [methods EXCEPT ![n] = b]
  /\ seen' = [w \in Workers |->
                IF pc[w] # "idle" /\ req[w].method = n THEN seen[w] \cup {b} ELSE seen[w]]
  /\ UNCHANGED <<pc, req, handler, res>>

RegisterMethod(n, h, allowOverwrite) ==
  /\ methods[n] = Absent \/ allowOverwrite
  /\ Bind(n, h)

UnregisterMethod(n) == Bind(n, Absent)

-------------------------------------------------------------------------------
Step(w) ==
  \/ EmptyMethod(w)
  \/ HasMethod(w)
  \/ MethodNotFound(w)
  \/ GetHandler(w)
  \/ MethodGone(w)
  \/ HandlerReturns(w)
  \/ \E c \in Codes : HandlerThrowsRpcError(w, c)
  \/ HandlerThrows(w)
  \/ Return(w)

Environment ==
  \E n \in Names :
    \/ UnregisterMethod(n)
    \/ \E h \in Handlers, b \in BOOLEAN : RegisterMethod(n, h, b)

Next ==
  \/ \E w \in Workers : Step(w) \/ \E r \in Requests : Dispatch(w, r)
  \/ Environment

Spec == Init /\ [][Next]_vars

-------------------------------------------------------------------------------
Places == {"idle", "check", "lookup", "run", "done"}

TypeOK ==
  /\ methods \in [Names -> Handlers \cup {Absent}]
  /\ pc \in [Workers -> Places]
  /\ req \in [Workers -> Requests]
  /\ handler \in [Workers -> Handlers \cup {Absent}]
  /\ res \in [Workers -> Responses]
  /\ seen \in [Workers -> SUBSET (Handlers \cup {Absent})]

(* dispatch() returns a response that satisfies RpcResponse::isValid, with *)
(* the id of the request it answers (message.h:29-46), on every path.      *)
AnswerIsValid ==
  \A w \in Workers : pc[w] = "done" =>
    /\ (res[w].result # NoResult) # (res[w].error # NoError)
    /\ res[w].id = req[w].id

(* The handler that produced the answer, by returning or by throwing, was  *)
(* registered under the requested name at some instant of this dispatch:   *)
(* never a handler of another method or of an earlier call, even though    *)
(* it runs unlocked while the registry changes (dispatcher.cpp:31-32).     *)
HandlerWasRegistered ==
  \A w \in Workers, h \in Handlers :
    /\ pc[w] = "done"
    /\ \/ res[w].result = ValueOf(h)
       \/ res[w].error = Unhandled(h)
       \/ \E c \in Codes : res[w].error = Thrown(h, c)
    => h \in seen[w]

(* dispatch() says "Method not found" only of a name that had no entry at  *)
(* some instant of the dispatch (dispatcher.cpp:22-28).                    *)
NotFoundWasMissing ==
  \A w \in Workers :
    pc[w] = "done" /\ res[w].error = Own("MethodNotFound") => Absent \in seen[w]

(* A request that ends with an error of dispatch() itself although the     *)
(* name was registered during the dispatch met a registry that changed     *)
(* under it: the binding was both there and missing between its first and  *)
(* its last step (dispatcher.cpp:22, 31).  On a quiet registry a           *)
(* registered method is always run.                                        *)
OwnErrorMeansChange ==
  \A w \in Workers :
    /\ pc[w] = "done"
    /\ \/ res[w].error = Own("InternalError")
       \/ res[w].error = Own("MethodNotFound") /\ seen[w] # {Absent}
    => Absent \in seen[w] /\ seen[w] \cap Handlers # {}
===============================================================================
