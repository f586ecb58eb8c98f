--------------------------- MODULE DispatcherProofs ---------------------------
(***************************************************************************)
(* Theorems about Dispatcher, for any sets of workers, names, handlers,    *)
(* ids and codes.  What dispatch() says at the end rests on what its       *)
(* history of bindings says at every place on the way: the history always  *)
(* holds the current binding, and once hasMethod has said yes it holds a   *)
(* handler.                                                                *)
(***************************************************************************)
EXTENDS Dispatcher, TLAPS

HistoryInv ==
  \A w \in Workers :
    /\ pc[w] # "idle" => Binding(req[w].method) \in seen[w]
    /\ pc[w] = "lookup" => seen[w] \cap Handlers # {}
    /\ pc[w] = "run" => handler[w] \in seen[w] \cap Handlers

IInv ==
  /\ TypeOK
  /\ HistoryInv
  /\ AnswerIsValid
  /\ HandlerWasRegistered
  /\ NotFoundWasMissing
  /\ OwnErrorMeansChange

-------------------------------------------------------------------------------
LEMMA BindingType == TypeOK => \A n : Binding(n) \in Handlers \cup {Absent}
BY DEF TypeOK, Binding

LEMMA Initially == Init => IInv
BY DEF Init, IInv, TypeOK, HistoryInv, AnswerIsValid, HandlerWasRegistered,
       NotFoundWasMissing, OwnErrorMeansChange, Places, Requests, NoRequest, Responses,
       NoResponse, Results, Errors

LEMMA DispatchStep ==
  ASSUME IInv, NEW w \in Workers, NEW r \in Requests, Dispatch(w, r)
  PROVE  IInv'
BY BindingType
   DEF IInv, TypeOK, HistoryInv, AnswerIsValid, HandlerWasRegistered, NotFoundWasMissing,
       OwnErrorMeansChange, Places, Dispatch, Binding, Requests

(* A reply is right if its response is, at the place it is sent from.      *)
LEMMA ReplyStep ==
  ASSUME IInv, NEW w \in Workers, NEW at \in Places \ {"idle", "done"},
         NEW result \in Results, NEW error \in Errors, Reply(w, at, result, error),
         (result # NoResult) # (error # NoError),
         \A h \in Handlers :
           (\/ result = ValueOf(h) \/ error = Unhandled(h)
            \/ \E c \in Codes : error = Thrown(h, c)) => h \in seen[w],
         error = Own("MethodNotFound") => Absent \in seen[w],
         error = Own("InternalError") => Absent \in seen[w] /\ seen[w] \cap Handlers # {}
  PROVE  IInv'
<1>1. TypeOK'
  BY DEF IInv, TypeOK, Reply, Places, Requests, Responses
<1>2. HistoryInv'
  BY DEF IInv, TypeOK, HistoryInv, Reply, Binding, Places
<1>3. AnswerIsValid'
  BY DEF IInv, TypeOK, AnswerIsValid, Reply, Places
<1>4. HandlerWasRegistered'
  BY DEF IInv, TypeOK, HandlerWasRegistered, Reply, Places
<1>5. NotFoundWasMissing'
  BY DEF IInv, TypeOK, NotFoundWasMissing, Reply, Places
<1>6. OwnErrorMeansChange'
  <2> SUFFICES ASSUME NEW v \in Workers, pc'[v] = "done",
                      \/ res'[v].error = Own("InternalError")
                      \/ res'[v].error = Own("MethodNotFound") /\ seen'[v] # {Absent}
               PROVE  Absent \in seen'[v] /\ seen'[v] \cap Handlers # {}
    BY DEF OwnErrorMeansChange
  <2>1. CASE v = w
    <3>1. res'[w].error = error /\ seen'[w] = seen[w]
      BY DEF Reply, IInv, TypeOK
    <3>2. seen[w] \in SUBSET (Handlers \cup {Absent})
      BY DEF IInv, TypeOK
    <3> QED
      BY <2>1, <3>1, <3>2
  <2>2. CASE v # w
    BY <2>2 DEF Reply, IInv, TypeOK, OwnErrorMeansChange
  <2> QED
    BY <2>1, <2>2
<1> QED
  BY <1>1, <1>2, <1>3, <1>4, <1>5, <1>6 DEF IInv

(* The facts ReplyStep needs of each kind of reply. *)
LEMMA Variants ==
  /\ \A h \in Handlers : ValueOf(h) \in Results /\ ValueOf(h) # NoResult
  /\ \A h \in Handlers : Unhandled(h) \in Errors /\ Unhandled(h) # NoError
  /\ \A h \in Handlers, c \in Codes : Thrown(h, c) \in Errors /\ Thrown(h, c) # NoError
  /\ \A c \in {"InvalidRequest", "MethodNotFound", "InternalError"} :
       Own(c) \in Errors /\ Own(c) # NoError
  /\ \A c, d : Own(c) = Own(d) => c = d
  /\ \A g, h : ValueOf(g) = ValueOf(h) => g = h
  /\ \A g, h : Unhandled(g) = Unhandled(h) => g = h
  /\ \A g, h, c, d : Thrown(g, c) = Thrown(h, d) => g = h
  /\ \A g, h, c, d : /\ Own(c) # Unhandled(h) /\ Own(c) # Thrown(h, d)
                     /\ Unhandled(g) # Thrown(h, d)
  /\ \A h, c : NoError # Unhandled(h) /\ NoError # Thrown(h, c) /\ NoResult # ValueOf(h)
  /\ NoResult \in Results /\ NoError \in Errors
<1>1. /\ \A c, d : Own(c) = Own(d) => c = d
      /\ \A g, h : ValueOf(g) = ValueOf(h) => g = h
      /\ \A g, h : Unhandled(g) = Unhandled(h) => g = h
      /\ \A g, h, c, d : Thrown(g, c) = Thrown(h, d) => g = h
  BY DEF Own, ValueOf, Unhandled, Thrown
<1>2. \A g, h, c, d : /\ Own(c) # Unhandled(h) /\ Own(c) # Thrown(h, d)
                      /\ Unhandled(g) # Thrown(h, d)
  BY DEF Own, Unhandled, Thrown
<1>3. /\ \A h, c : NoError # Unhandled(h) /\ NoError # Thrown(h, c) /\ NoResult # ValueOf(h)
      /\ \A c : NoError # Own(c)
  BY DEF NoError, NoResult, Unhandled, Thrown, ValueOf, Own
<1>4. /\ \A h \in Handlers : ValueOf(h) \in Results
      /\ \A h \in Handlers : Unhandled(h) \in Errors
      /\ \A c \in {"InvalidRequest", "MethodNotFound", "InternalError"} : Own(c) \in Errors
      /\ NoResult \in Results /\ NoError \in Errors
  BY DEF Results, Errors
<1>5. ASSUME NEW h \in Handlers, NEW c \in Codes
      PROVE  Thrown(h, c) \in Errors
  BY DEF Errors
<1> QED
  BY <1>1, <1>2, <1>3, <1>4, <1>5

LEMMA OwnErrorStep ==
  ASSUME IInv, NEW w \in Workers, EmptyMethod(w) \/ MethodNotFound(w) \/ MethodGone(w)
  PROVE  IInv'
<1>1. /\ pc[w] # "idle" => Binding(req[w].method) \in seen[w]
      /\ pc[w] = "lookup" => seen[w] \cap Handlers # {}
  BY DEF IInv, HistoryInv
<1>2. CASE EmptyMethod(w)
  BY <1>2, Variants, ReplyStep DEF EmptyMethod, Places
<1>3. CASE MethodNotFound(w)
  <2>1. Absent \in seen[w]
    BY <1>1, <1>3 DEF MethodNotFound, Reply
  <2> QED
    BY <1>3, <2>1, Variants, ReplyStep DEF MethodNotFound, Places
<1>4. CASE MethodGone(w)
  <2>1. Absent \in seen[w] /\ seen[w] \cap Handlers # {}
    BY <1>1, <1>4 DEF MethodGone, Reply
  <2> QED
    BY <1>4, <2>1, Variants, ReplyStep DEF MethodGone, Places
<1> QED
  BY <1>2, <1>3, <1>4

LEMMA HandlerStep ==
  ASSUME IInv, NEW w \in Workers,
         \/ HandlerReturns(w) \/ HandlerThrows(w)
         \/ \E c \in Codes : HandlerThrowsRpcError(w, c)
  PROVE  IInv'
<1>1. handler[w] \in Handlers /\ handler[w] \in seen[w]
  BY DEF IInv, HistoryInv, HandlerReturns, HandlerThrows, HandlerThrowsRpcError, Reply
<1>2. CASE HandlerReturns(w)
  BY <1>1, <1>2, Variants, ReplyStep DEF HandlerReturns, Places
<1>3. CASE HandlerThrows(w)
  BY <1>1, <1>3, Variants, ReplyStep DEF HandlerThrows, Places
<1>4. ASSUME NEW c \in Codes, HandlerThrowsRpcError(w, c)
      PROVE  IInv'
  BY <1>1, <1>4, Variants, ReplyStep DEF HandlerThrowsRpcError, Places
<1> QED
  BY <1>2, <1>3, <1>4

LEMMA LookupStep ==
  ASSUME IInv, NEW w \in Workers, HasMethod(w) \/ GetHandler(w)
  PROVE  IInv'
<1>1. Binding(req[w].method) \in Handlers \cap seen[w]
  BY BindingType DEF IInv, HistoryInv, HasMethod, GetHandler
<1>2. CASE HasMethod(w)
  BY <1>1, <1>2
     DEF IInv, TypeOK, HistoryInv, AnswerIsValid, HandlerWasRegistered, NotFoundWasMissing,
         OwnErrorMeansChange, Places, HasMethod, Binding
<1>3. CASE GetHandler(w)
  BY <1>1, <1>3
     DEF IInv, TypeOK, HistoryInv, AnswerIsValid, HandlerWasRegistered, NotFoundWasMissing,
         OwnErrorMeansChange, Places, GetHandler, Binding
<1> QED
  BY <1>2, <1>3

LEMMA ReturnStep ==
  ASSUME IInv, NEW w \in Workers, Return(w)
  PROVE  IInv'
BY DEF IInv, TypeOK, HistoryInv, AnswerIsValid, HandlerWasRegistered, NotFoundWasMissing,
       OwnErrorMeansChange, Places, Return, Binding, Requests, NoRequest, Responses,
       NoResponse, Results, Errors

(* The history of every dispatch on n takes in the new binding; the others *)
(* do not mind.                                                            *)
LEMMA BindStep ==
  ASSUME IInv, NEW n \in Names, NEW b \in Handlers \cup {Absent}, Bind(n, b)
  PROVE  IInv'
<1>1. /\ \A w \in Workers : seen[w] \subseteq seen'[w]
      /\ \A w \in Workers : seen'[w] \subseteq Handlers \cup {Absent}
      /\ \A w \in Workers : pc[w] # "idle" /\ req[w].method = n => b \in seen'[w]
      /\ \A w \in Workers : ~(pc[w] # "idle" /\ req[w].method = n) => seen'[w] = seen[w]
  BY DEF Bind, IInv, TypeOK
<1>2. TypeOK'
  BY <1>1 DEF IInv, TypeOK, Bind
<1>3. HistoryInv'
  BY <1>1 DEF IInv, TypeOK, HistoryInv, Bind, Binding
<1>4. AnswerIsValid' /\ HandlerWasRegistered' /\ NotFoundWasMissing'
  BY <1>1 DEF IInv, AnswerIsValid, HandlerWasRegistered, NotFoundWasMissing, Bind
<1>5. OwnErrorMeansChange'
  <2> SUFFICES ASSUME NEW w \in Workers, pc'[w] = "done",
                      \/ res'[w].error = Own("InternalError")
                      \/ res'[w].error = Own("MethodNotFound") /\ seen'[w] # {Absent}
               PROVE  Absent \in seen'[w] /\ seen'[w] \cap Handlers # {}
    BY DEF OwnErrorMeansChange
  <2>1. pc[w] = "done" /\ res'[w] = res[w]
    BY DEF Bind
  <2>2. CASE res[w].error = Own("InternalError")
    BY <1>1, <2>1, <2>2 DEF IInv, OwnErrorMeansChange
  <2>3. CASE res[w].error = Own("MethodNotFound") /\ seen'[w] # {Absent}
    <3>1. Absent \in seen'[w]
      BY <1>1, <2>1, <2>3 DEF IInv, NotFoundWasMissing
    <3> QED
      BY <1>1, <2>3, <3>1
  <2> QED
    BY <2>1, <2>2, <2>3
<1> QED
  BY <1>2, <1>3, <1>4, <1>5 DEF IInv

LEMMA Inductive == IInv /\ [Next]_vars => IInv'
<1> SUFFICES ASSUME IInv, [Next]_vars
             PROVE  IInv'
  OBVIOUS
<1>1. ASSUME NEW w \in Workers, Step(w)
      PROVE  IInv'
  BY <1>1, OwnErrorStep, HandlerStep, LookupStep, ReturnStep DEF Step
<1>2. ASSUME NEW w \in Workers, NEW r \in Requests, Dispatch(w, r)
      PROVE  IInv'
  BY <1>2, DispatchStep
<1>3. CASE Environment
  BY <1>3, BindStep DEF Environment, UnregisterMethod, RegisterMethod
<1>4. CASE UNCHANGED vars
  BY <1>4 DEF vars, IInv, TypeOK, HistoryInv, AnswerIsValid, HandlerWasRegistered,
         NotFoundWasMissing, OwnErrorMeansChange, Binding
<1> QED
  BY <1>1, <1>2, <1>3, <1>4 DEF Next

LEMMA Invariance == Spec => []IInv
BY Initially, Inductive, PTL DEF Spec

(* Every variable keeps its type: in particular a worker never runs        *)
(* anything but a callable handler (dispatcher.cpp:31-32).                 *)
THEOREM TypeCorrect == Spec => []TypeOK
BY Invariance, PTL DEF IInv

(* dispatch() answers every request with a valid response that carries the *)
(* id of the request, on each of its six paths (dispatcher.cpp:13-57).     *)
THEOREM ValidAnswers == Spec => []AnswerIsValid
BY Invariance, PTL DEF IInv

(* Whatever happens to the registry meanwhile, only a handler registered   *)
(* under the requested name during the dispatch runs                       *)
(* (dispatcher.cpp:22-32).                                                 *)
THEOREM RightHandler == Spec => []HandlerWasRegistered
BY Invariance, PTL DEF IInv

(* "Method not found" is said of missing names only (dispatcher.cpp:22).   *)
THEOREM HonestNotFound == Spec => []NotFoundWasMissing
BY Invariance, PTL DEF IInv

(* dispatch() fails on its own account only when the registry changed      *)
(* under it (dispatcher.cpp:22, 31).                                       *)
THEOREM OwnErrors == Spec => []OwnErrorMeansChange
BY Invariance, PTL DEF IInv
===============================================================================
