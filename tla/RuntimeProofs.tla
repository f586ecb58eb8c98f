----------------------------- MODULE RuntimeProofs -----------------------------
(***************************************************************************)
(* Theorems about MethodRegistry, for any sets of threads, names and       *)
(* handlers, and then about Runtime, which is a registry with its lock and *)
(* so has its invariant.                                                   *)
(*                                                                         *)
(* The registry: the inductive invariant is TypeOK, the mutex invariant,   *)
(* the validity of the iterators and what the place of a thread says of    *)
(* its call; linearizability follows because nothing that another thread   *)
(* may do disturbs the facts a thread relies on between its steps.         *)
(*                                                                         *)
(* The runtime: dispatch(), as its callers see it, is that of Dispatcher:  *)
(* each of the two calls of the registry takes effect when its result is   *)
(* computed, inside the critical section, and not when dispatch() learns   *)
(* it.                                                                     *)
(***************************************************************************)
EXTENDS Runtime, FiniteSetTheorems, TLAPS

(* What the place of a thread says of the operation it executes. *)
PlaceInv ==
  /\ ret = [t \in Threads |-> ret[t]]
  /\ \A t \in Threads :
       /\ pc[t] = "idle" => call[t] = NoCall
       /\ pc[t] # "idle" => call[t] \in Calls
       /\ pc[t] = "validate" => call[t].op = "registerMethod"
       /\ pc[t] \in {"found", "missing"} => call[t].op \in {"registerMethod", "getHandler"}
       /\ /\ pc[t] \in {"lock", "locked", "found", "missing"}
          /\ call[t].op = "registerMethod"
          => ValidArguments(call[t])
       /\ pc[t] \in {"unlock", "return"} => ResultOf(call[t], ret[t])
       /\ pc[t] \notin {"unlock", "return"} => ret[t] = Pending
       /\ pc[t] \in {"idle", "validate", "lock"} => out[t] = {}

IInv ==
  /\ TypeOK
  /\ PlaceInv
  /\ MutualExclusion
  /\ IteratorsValid
  /\ ListIsSnapshot

-------------------------------------------------------------------------------
(* The fields of a call. *)
LEMMA CallFields ==
  /\ \A c \in Calls :
       /\ c.op \in {"registerMethod", "hasMethod", "getHandler", "unregisterMethod",
                    "listMethods", "size"}
       /\ c.name \in Names \cup {EmptyName}
       /\ c.handler \in Handlers \cup {EmptyHandler}
       /\ c.allowOverwrite \in BOOLEAN
  /\ NoCall.op = "none"
BY DEF Calls, RegisterCalls, LookupCalls, QueryCalls, NoCall

(* Writing an entry keeps the map a map and changes that entry only. *)
LEMMA StoreFacts ==
  ASSUME NEW m \in Maps, NEW n, NEW h \in Handlers \cup {Absent}
  PROVE  /\ Store(m, n, h) \in Maps
         /\ \A k \in Names : k # n => Store(m, n, h)[k] = m[k]
         /\ n \in Names => Store(m, n, h)[n] = h
BY DEF Maps, Store

(* size() of a finite map is a natural number. *)
LEMMA SizeIsNat == \A m : Cardinality(Registered(m)) \in Nat
<1>1. \A m : IsFiniteSet(Registered(m))
  BY RegistryAssumption, FS_Subset DEF Registered
<1> QED
  BY <1>1, FS_CardinalityType

-------------------------------------------------------------------------------
LEMMA Initially == Init => IInv
BY NoThreadAssumption
   DEF Init, IInv, TypeOK, PlaceInv, MutualExclusion, IteratorsValid, ListIsSnapshot,
       InCriticalSection, Maps, Places, Bound, Registered

LEMMA InvokeStep ==
  ASSUME IInv, NEW t \in Threads, NEW c \in Calls, Invoke(t, c)
  PROVE  IInv'
BY CallFields
   DEF IInv, TypeOK, PlaceInv, MutualExclusion, IteratorsValid, ListIsSnapshot,
       InCriticalSection, Places, Invoke, Goto

LEMMA RejectStep ==
  ASSUME IInv, NEW t \in Threads, RejectArguments(t)
  PROVE  IInv'
BY CallFields
   DEF IInv, TypeOK, PlaceInv, MutualExclusion, IteratorsValid, ListIsSnapshot,
       InCriticalSection, Places, RejectArguments, Goto, ResultOf

LEMMA AcceptStep ==
  ASSUME IInv, NEW t \in Threads, AcceptArguments(t)
  PROVE  IInv'
BY CallFields
   DEF IInv, TypeOK, PlaceInv, MutualExclusion, IteratorsValid, ListIsSnapshot,
       InCriticalSection, Places, AcceptArguments, Goto

LEMMA LockStep ==
  ASSUME IInv, NEW t \in Threads, Lock(t)
  PROVE  IInv'
BY CallFields, NoThreadAssumption
   DEF IInv, TypeOK, PlaceInv, MutualExclusion, IteratorsValid, ListIsSnapshot,
       InCriticalSection, Places, Lock, Goto

LEMMA FindStep ==
  ASSUME IInv, NEW t \in Threads, Find(t)
  PROVE  IInv'
BY CallFields
   DEF IInv, TypeOK, PlaceInv, MutualExclusion, IteratorsValid, ListIsSnapshot,
       InCriticalSection, Places, Find, Goto

(* Any step that ends an operation inside its critical section: the map it *)
(* leaves matters to no other thread, since none is in there with it.      *)
LEMMA FinishStep ==
  ASSUME IInv, NEW t \in Threads, NEW op, NEW at \in {"locked", "found", "missing"},
         NEW m \in Maps, NEW r, Finish(t, op, at, m, r), ResultOf(call[t], r)
  PROVE  IInv'
BY CallFields
   DEF IInv, TypeOK, PlaceInv, MutualExclusion, IteratorsValid, ListIsSnapshot,
       InCriticalSection, Places, Finish, Goto

LEMMA PushStep ==
  ASSUME IInv, NEW t \in Threads, NEW n \in Names, PushName(t, n)
  PROVE  IInv'
BY CallFields
   DEF IInv, TypeOK, PlaceInv, MutualExclusion, IteratorsValid, ListIsSnapshot,
       InCriticalSection, Places, PushName, Registered

LEMMA UnlockStep ==
  ASSUME IInv, NEW t \in Threads, Unlock(t)
  PROVE  IInv'
BY CallFields, NoThreadAssumption
   DEF IInv, TypeOK, PlaceInv, MutualExclusion, IteratorsValid, ListIsSnapshot,
       InCriticalSection, Places, Unlock, Goto

LEMMA ReturnStep ==
  ASSUME IInv, NEW t \in Threads, Return(t)
  PROVE  IInv'
BY CallFields
   DEF IInv, TypeOK, PlaceInv, MutualExclusion, IteratorsValid, ListIsSnapshot,
       InCriticalSection, Places, Return, Goto

-------------------------------------------------------------------------------
(* Every operation that ends in its critical section satisfies FinishStep. *)
LEMMA OperationStep ==
  ASSUME IInv, NEW t \in Threads,
         \/ KeepExisting(t) \/ Overwrite(t) \/ Emplace(t) \/ HasMethod(t) \/ CopyHandler(t)
         \/ ThrowMissing(t) \/ Erase(t) \/ EndOfList(t) \/ Size(t)
  PROVE  IInv'
<1> DEFINE c == call[t]
<1>1. /\ methods \in Maps
      /\ c \in Calls \cup {NoCall}
      /\ out[t] \in SUBSET Names
      /\ pc[t] \in {"locked", "found", "missing"} /\ c.op = "registerMethod"
           => ValidArguments(c)
      /\ pc[t] = "found" => Bound(methods, c.name)
  BY DEF IInv, TypeOK, PlaceInv, IteratorsValid
<1>2. CASE KeepExisting(t)
  <2>1. ResultOf(c, Returned(FALSE))
    BY <1>2 DEF KeepExisting, Finish, ResultOf, Returned
  <2> QED
    BY <1>1, <1>2, <2>1, FinishStep DEF KeepExisting
<1>3. CASE Overwrite(t)
  <2>1. ResultOf(c, Returned(TRUE))
    BY <1>3 DEF Overwrite, Finish, ResultOf, Returned
  <2>2. Store(methods, c.name, c.handler) \in Maps
    BY <1>1, <1>3, CallFields, StoreFacts
       DEF Overwrite, Finish, Goto, ValidArguments, NoCall
  <2> QED
    BY <1>3, <2>1, <2>2, FinishStep DEF Overwrite
<1>4. CASE Emplace(t)
  <2>1. ResultOf(c, Returned(TRUE))
    BY <1>4 DEF Emplace, Finish, ResultOf, Returned
  <2>2. Store(methods, c.name, c.handler) \in Maps
    BY <1>1, <1>4, CallFields, StoreFacts
       DEF Emplace, Finish, Goto, ValidArguments, NoCall
  <2> QED
    BY <1>1, <1>4, <2>1, <2>2, FinishStep DEF Emplace
<1>5. CASE HasMethod(t)
  <2>1. ResultOf(c, Returned(Bound(methods, c.name)))
    BY <1>5 DEF HasMethod, Finish, ResultOf, Returned, Bound
  <2> QED
    BY <1>1, <1>5, <2>1, FinishStep DEF HasMethod
<1>6. CASE CopyHandler(t)
  <2>1. methods[c.name] \in Handlers
    BY <1>1, <1>6 DEF CopyHandler, Finish, Goto, Maps, Bound
  <2>2. ResultOf(c, Returned(methods[c.name]))
    BY <1>6, <2>1 DEF CopyHandler, Finish, ResultOf, Returned
  <2> QED
    BY <1>1, <1>6, <2>2, FinishStep DEF CopyHandler
<1>7. CASE ThrowMissing(t)
  <2>1. ResultOf(c, Threw("runtime_error"))
    BY <1>7 DEF ThrowMissing, Finish, ResultOf
  <2> QED
    BY <1>1, <1>7, <2>1, FinishStep DEF ThrowMissing
<1>8. CASE Erase(t)
  <2>1. ResultOf(c, Returned(Bound(methods, c.name)))
    BY <1>8 DEF Erase, Finish, ResultOf, Returned, Bound
  <2>2. Store(methods, c.name, Absent) \in Maps
    BY <1>1, StoreFacts
  <2> QED
    BY <1>8, <2>1, <2>2, FinishStep DEF Erase
<1>9. CASE EndOfList(t)
  <2>1. ResultOf(c, Returned(out[t]))
    BY <1>1, <1>9 DEF EndOfList, Finish, ResultOf, Returned
  <2> QED
    BY <1>1, <1>9, <2>1, FinishStep DEF EndOfList
<1>10. CASE Size(t)
  <2>1. ResultOf(c, Returned(Cardinality(Registered(methods))))
    BY <1>10, SizeIsNat DEF Size, Finish, ResultOf, Returned
  <2> QED
    BY <1>1, <1>10, <2>1, FinishStep DEF Size
<1> QED
  BY <1>2, <1>3, <1>4, <1>5, <1>6, <1>7, <1>8, <1>9, <1>10

LEMMA Inductive == IInv /\ [Next]_vars => IInv'
<1> SUFFICES ASSUME IInv, [Next]_vars
             PROVE  IInv'
  OBVIOUS
<1>1. ASSUME NEW t \in Threads, NEW c \in Calls, Invoke(t, c)
      PROVE  IInv'
  BY <1>1, InvokeStep
<1>2. ASSUME NEW t \in Threads, Step(t)
      PROVE  IInv'
  BY <1>2, RejectStep, AcceptStep, LockStep, FindStep, OperationStep, PushStep, UnlockStep,
     ReturnStep DEF Step
<1>3. CASE UNCHANGED vars
  BY <1>3 DEF vars, IInv, TypeOK, PlaceInv, MutualExclusion, IteratorsValid,
     ListIsSnapshot, InCriticalSection
<1> QED
  BY <1>1, <1>2, <1>3 DEF Next

(* IInv holds in every reachable state of the registry, whatever the       *)
(* number of threads, names and handlers.                                  *)
THEOREM Invariance == Spec => []IInv
BY Initially, Inductive, PTL DEF Spec

(* Every variable keeps its type; in particular no handler that cannot be  *)
(* called gets into methods_ (method_registry.cpp:12-14).                  *)
THEOREM TypeCorrect == Spec => []TypeOK
BY Invariance, PTL DEF IInv

(* No two threads are inside methods_ at the same time                     *)
(* (method_registry.cpp:16, 28, 33, 42, 47, 55).                           *)
THEOREM Exclusion == Spec => []MutualExclusion
BY Invariance, PTL DEF IInv

(* An iterator is never used after the entry it stands for changed         *)
(* (method_registry.cpp:17-24, 34-38).                                     *)
THEOREM IteratorSafety == Spec => []IteratorsValid
BY Invariance, PTL DEF IInv

(* listMethods returns one snapshot (method_registry.cpp:46-52).           *)
THEOREM ListSnapshot == Spec => []ListIsSnapshot
BY Invariance, PTL DEF IInv

-------------------------------------------------------------------------------
(* The refinement.  A step that stays on one side of the instant an        *)
(* operation takes effect is invisible to the abstract registry.           *)
LEMMA SamePhase ==
  ASSUME TypeOK, NEW t \in Threads, NEW from \in Places, NEW to \in Places,
         Goto(t, from, to),
         from # "idle" /\ to # "idle",
         from \in {"unlock", "return"} <=> to \in {"unlock", "return"}
  PROVE  PhaseOf' = PhaseOf
BY DEF TypeOK, Goto, PhaseOf, Places

(* An operation whose result is computed by this step takes effect in it.  *)
LEMMA DonePhase ==
  ASSUME TypeOK, NEW t \in Threads, NEW from \in {"validate", "locked", "found", "missing"},
         NEW to \in {"unlock", "return"}, Goto(t, from, to)
  PROVE  PhaseOf[t] = "called" /\ PhaseOf' = [PhaseOf EXCEPT ![t] = "done"]
BY DEF TypeOK, Goto, PhaseOf, Places

LEMMA FinishTakesEffect ==
  ASSUME TypeOK, NEW t \in Threads, NEW op, NEW at \in {"locked", "found", "missing"},
         NEW m, NEW r, Finish(t, op, at, m, r)
  PROVE  Atomic!TakesEffect(t, op, m, r)
<1>1. PhaseOf[t] = "called" /\ PhaseOf' = [PhaseOf EXCEPT ![t] = "done"]
  BY DonePhase DEF Finish
<1> QED
  BY <1>1 DEF Finish, Atomic!TakesEffect

(* The instance has its own copy of the interface, with the same meaning.  *)
LEMMA SameInterface ==
  /\ Atomic!NoCall = NoCall
  /\ Atomic!Calls = Calls
  /\ Atomic!Pending = Pending
  /\ \A v : Atomic!Returned(v) = Returned(v)
  /\ \A e : Atomic!Threw(e) = Threw(e)
  /\ \A c : Atomic!ValidArguments(c) <=> ValidArguments(c)
  /\ \A m, n : Atomic!Bound(m, n) = Bound(m, n)
  /\ \A m, n, h : Atomic!Store(m, n, h) = Store(m, n, h)
  /\ \A m : Atomic!Registered(m) = Registered(m)
<1>1. /\ Atomic!NoCall = NoCall
      /\ Atomic!Calls = Calls
      /\ Atomic!Pending = Pending
  BY DEF Atomic!NoCall, NoCall, Atomic!Calls, Calls, Atomic!RegisterCalls, RegisterCalls,
         Atomic!LookupCalls, LookupCalls, Atomic!QueryCalls, QueryCalls, Atomic!Pending, Pending
<1>2. /\ \A v : Atomic!Returned(v) = Returned(v)
      /\ \A e : Atomic!Threw(e) = Threw(e)
      /\ \A c : Atomic!ValidArguments(c) <=> ValidArguments(c)
  BY DEF Atomic!Returned, Returned, Atomic!Threw, Threw, Atomic!ValidArguments, ValidArguments
<1>3. \A m, n : Atomic!Bound(m, n) = Bound(m, n)
  BY DEF Atomic!Bound, Bound
<1>4. \A m, n, h : Atomic!Store(m, n, h) = Store(m, n, h)
  BY DEF Atomic!Store, Store
<1>5. \A m : Atomic!Registered(m) = Registered(m)
  BY DEF Atomic!Registered, Registered
<1> QED
  BY <1>1, <1>2, <1>3, <1>4, <1>5

LEMMA SameCardinality ==
  \A m : Atomic!Cardinality(Atomic!Registered(m)) = Cardinality(Registered(m))
BY SameInterface DEF Atomic!Cardinality, Cardinality, Atomic!IsFiniteSet, IsFiniteSet

LEMMA InitRefines == Init => Atomic!Init
BY SameInterface DEF Init, Atomic!Init, PhaseOf

LEMMA InvokeRefines ==
  ASSUME TypeOK, NEW t \in Threads, NEW c \in Calls, Invoke(t, c)
  PROVE  Atomic!Invoke(t, c)
BY SameInterface DEF TypeOK, Invoke, Goto, Atomic!Invoke, PhaseOf, Places

LEMMA ReturnRefines ==
  ASSUME TypeOK, NEW t \in Threads, Return(t)
  PROVE  Atomic!Return(t)
BY SameInterface DEF TypeOK, Return, Goto, Atomic!Return, PhaseOf, Places

LEMMA RejectRefines ==
  ASSUME IInv, NEW t \in Threads, RejectArguments(t)
  PROVE  Atomic!RegisterMethod(t)
<1>1. PhaseOf[t] = "called" /\ PhaseOf' = [PhaseOf EXCEPT ![t] = "done"]
  BY DonePhase DEF RejectArguments, IInv
<1>2. call[t].op = "registerMethod"
  BY DEF RejectArguments, Goto, IInv, PlaceInv
<1> QED
  BY <1>1, <1>2, SameInterface DEF RejectArguments, Atomic!RegisterMethod, Atomic!TakesEffect

LEMMA RegisterRefines ==
  ASSUME IInv, NEW t \in Threads, KeepExisting(t) \/ Overwrite(t) \/ Emplace(t)
  PROVE  Atomic!RegisterMethod(t)
<1> DEFINE c == call[t]
<1>1. /\ TypeOK
      /\ pc[t] \in {"found", "missing"} /\ c.op = "registerMethod" => ValidArguments(c)
      /\ pc[t] = "found" => Bound(methods, c.name)
      /\ pc[t] = "missing" => ~Bound(methods, c.name)
  BY DEF IInv, PlaceInv, IteratorsValid
<1>2. CASE KeepExisting(t)
  <2>1. Atomic!TakesEffect(t, "registerMethod", methods, Returned(FALSE))
    BY <1>1, <1>2, FinishTakesEffect DEF KeepExisting
  <2> QED
    BY <1>1, <1>2, <2>1, SameInterface DEF KeepExisting, Finish, Goto, Atomic!RegisterMethod
<1>3. CASE Overwrite(t)
  <2>1. Atomic!TakesEffect(t, "registerMethod", Store(methods, c.name, c.handler),
                           Returned(TRUE))
    BY <1>1, <1>3, FinishTakesEffect DEF Overwrite
  <2> QED
    BY <1>1, <1>3, <2>1, SameInterface DEF Overwrite, Finish, Goto, Atomic!RegisterMethod
<1>4. CASE Emplace(t)
  <2>1. ~Bound(methods, c.name) /\ ValidArguments(c)
    BY <1>1, <1>4 DEF Emplace, Finish, Goto
  <2>2. Finish(t, "registerMethod", "missing", Store(methods, c.name, c.handler),
               Returned(TRUE))
    BY <1>4, <2>1 DEF Emplace
  <2>3. Atomic!TakesEffect(t, "registerMethod", Store(methods, c.name, c.handler),
                           Returned(TRUE))
    BY <1>1, <2>2, FinishTakesEffect
  <2> QED
    BY <2>1, <2>3, SameInterface DEF Atomic!RegisterMethod
<1> QED
  BY <1>2, <1>3, <1>4

LEMMA GetHandlerRefines ==
  ASSUME IInv, NEW t \in Threads, CopyHandler(t) \/ ThrowMissing(t)
  PROVE  Atomic!GetHandler(t)
<1> DEFINE n == call[t].name
<1>1. /\ TypeOK
      /\ pc[t] = "found" => Bound(methods, n)
      /\ pc[t] = "missing" => ~Bound(methods, n)
  BY DEF IInv, IteratorsValid
<1>2. CASE CopyHandler(t)
  <2>1. Atomic!TakesEffect(t, "getHandler", methods, Returned(methods[n]))
    BY <1>1, <1>2, FinishTakesEffect DEF CopyHandler
  <2> QED
    BY <1>1, <1>2, <2>1, SameInterface DEF CopyHandler, Finish, Goto, Atomic!GetHandler
<1>3. CASE ThrowMissing(t)
  <2>1. Atomic!TakesEffect(t, "getHandler", methods, Threw("runtime_error"))
    BY <1>1, <1>3, FinishTakesEffect DEF ThrowMissing
  <2> QED
    BY <1>1, <1>3, <2>1, SameInterface DEF ThrowMissing, Finish, Goto, Atomic!GetHandler
<1> QED
  BY <1>2, <1>3

(* The list is complete (the loop has ended) and holds registered names    *)
(* only (ListIsSnapshot): it is the set of the registered names.           *)
LEMMA ListRefines ==
  ASSUME IInv, NEW t \in Threads, EndOfList(t)
  PROVE  Atomic!ListMethods(t)
<1>1. out[t] = Registered(methods)
  BY DEF EndOfList, Finish, Goto, IInv, ListIsSnapshot
<1>2. Atomic!TakesEffect(t, "listMethods", methods, Returned(out[t]))
  BY FinishTakesEffect DEF EndOfList, IInv
<1> QED
  BY <1>1, <1>2, SameInterface DEF Atomic!ListMethods

LEMMA StepRefines ==
  ASSUME IInv, [Next]_vars
  PROVE  [Atomic!Next]_(Atomic!vars)
<1>1. TypeOK
  BY DEF IInv
<1>2. ASSUME NEW t \in Threads, NEW c \in Calls, Invoke(t, c)
      PROVE  Atomic!Next
  BY <1>1, <1>2, InvokeRefines, SameInterface DEF Atomic!Next
<1>3. ASSUME NEW t \in Threads, Step(t)
      PROVE  [Atomic!Next]_(Atomic!vars)
  <2>1. CASE RejectArguments(t)
    BY <2>1, RejectRefines DEF Atomic!Next
  <2>2. CASE AcceptArguments(t)
    <3>1. PhaseOf' = PhaseOf
      BY <1>1, <2>2, SamePhase DEF AcceptArguments, Places
    <3> QED
      BY <2>2, <3>1 DEF AcceptArguments, Atomic!vars
  <2>3. CASE Lock(t)
    <3>1. PhaseOf' = PhaseOf
      BY <1>1, <2>3, SamePhase DEF Lock, Places
    <3> QED
      BY <2>3, <3>1 DEF Lock, Atomic!vars
  <2>4. CASE Find(t)
    <3>1. PhaseOf' = PhaseOf
      BY <1>1, <2>4, SamePhase DEF Find, Places
    <3> QED
      BY <2>4, <3>1 DEF Find, Atomic!vars
  <2>5. CASE KeepExisting(t) \/ Overwrite(t) \/ Emplace(t)
    BY <2>5, RegisterRefines DEF Atomic!Next
  <2>6. CASE HasMethod(t)
    <3>1. Atomic!HasMethod(t)
      BY <1>1, <2>6, FinishTakesEffect, SameInterface DEF HasMethod, Atomic!HasMethod
    <3> QED
      BY <3>1 DEF Atomic!Next
  <2>7. CASE CopyHandler(t) \/ ThrowMissing(t)
    BY <2>7, GetHandlerRefines DEF Atomic!Next
  <2>8. CASE Erase(t)
    <3>1. Atomic!UnregisterMethod(t)
      BY <1>1, <2>8, FinishTakesEffect, SameInterface DEF Erase, Atomic!UnregisterMethod
    <3> QED
      BY <3>1 DEF Atomic!Next
  <2>9. CASE \E n \in Names : PushName(t, n)
    BY <2>9 DEF PushName, Atomic!vars, PhaseOf
  <2>10. CASE EndOfList(t)
    BY <2>10, ListRefines DEF Atomic!Next
  <2>11. CASE Size(t)
    <3>1. Atomic!Size(t)
      BY <1>1, <2>11, FinishTakesEffect, SameCardinality, SameInterface DEF Size, Atomic!Size
    <3> QED
      BY <3>1 DEF Atomic!Next
  <2>12. CASE Unlock(t)
    <3>1. PhaseOf' = PhaseOf
      BY <1>1, <2>12, SamePhase DEF Unlock, Places
    <3> QED
      BY <2>12, <3>1 DEF Unlock, Atomic!vars
  <2>13. CASE Return(t)
    BY <1>1, <2>13, ReturnRefines DEF Atomic!Next
  <2> QED
    BY <1>3, <2>1, <2>2, <2>3, <2>4, <2>5, <2>6, <2>7, <2>8, <2>9, <2>10, <2>11, <2>12,
       <2>13 DEF Step
<1>4. CASE UNCHANGED vars
  BY <1>4 DEF vars, Atomic!vars, PhaseOf
<1> QED
  BY <1>2, <1>3, <1>4, SameInterface DEF Next

(* The locked registry implements the atomic one: whatever the threads     *)
(* call and however they interleave, they see what they would if every     *)
(* operation were one indivisible step ("Thread-safe method registration", *)
(* README.md:26).                                                          *)
THEOREM Refinement == Spec => Linearizable
BY InitRefines, StepRefines, Invariance, PTL
   DEF Spec, Linearizable, Atomic!Spec

-------------------------------------------------------------------------------
(* The runtime. *)
Stages == {"idle", "check", "lookup", "run", "done"}

DispatchTypeOK ==
  /\ stage \in [Threads -> Stages]
  /\ req \in [Threads -> Requests]
  /\ handler \in [Threads -> Handlers \cup {Absent}]
  /\ nested \in [Threads -> BOOLEAN]
  /\ res = [t \in Threads |-> res[t]]
  /\ seen = [t \in Threads |-> seen[t]]

(* The call of the registry a thread executes at each place of dispatch(). *)
CallInv ==
  \A t \in Threads :
    /\ stage[t] = "check" /\ pc[t] # "idle" =>
         /\ req[t].method # EmptyName
         /\ call[t] = LookupCall("hasMethod", req[t].method)
    /\ stage[t] = "lookup" =>
         /\ req[t].method # EmptyName
         /\ pc[t] # "idle" => call[t] = LookupCall("getHandler", req[t].method)
    /\ stage[t] = "done" => pc[t] = "idle"

(* What a name is bound to. *)
BindingIn(m, n) == IF Bound(m, n) THEN m[n] ELSE Absent

HistoryInv ==
  \A t \in Threads : stage[t] # "idle" => BindingIn(methods, req[t].method) \in seen[t]

DispatchInv == DispatchTypeOK /\ CallInv /\ HistoryInv

RuntimeInv == IInv /\ DispatchInv

-------------------------------------------------------------------------------
(* dispatch() calls the registry as any thread may.                        *)
LEMMA LookupIsCall ==
  \A op \in {"hasMethod", "getHandler"}, n \in Names \cup {EmptyName} :
    LookupCall(op, n) \in Calls
BY DEF LookupCall, Calls, LookupCalls

(* What the fields of a request can be.                                    *)
LEMMA RequestFields ==
  /\ \A r \in Requests : r.method \in Names \cup {EmptyName} /\ r.id \in Ids \cup {NoId}
  /\ NoRequest \in Requests
BY DEF Requests, NoRequest

(* Results of different kinds are different.                               *)
LEMMA ResultVariants ==
  /\ \A v : Returned(v)[2] = v
  /\ \A v : Returned(v) # Pending
  /\ \A v, e : Returned(v) # Threw(e)
  /\ \A e : Threw(e) # Pending
  /\ Returned(TRUE) # Returned(FALSE)
BY DEF Returned, Pending, Threw

-------------------------------------------------------------------------------
(* A step of the runtime is one of its registry, or leaves the registry    *)
(* alone.                                                                  *)
LEMMA StepOfRegistry ==
  ASSUME DispatchTypeOK, [RuntimeNext]_runtimeVars
  PROVE  [Next]_vars
<1>1. CASE UNCHANGED runtimeVars
  BY <1>1 DEF runtimeVars, registryVars
<1>2. ASSUME NEW t \in Threads, ThreadStep(t)
      PROVE  [Next]_vars
  <2>1. req[t].method \in Names \cup {EmptyName}
    BY RequestFields DEF DispatchTypeOK
  <2>2. CASE CallHasMethod(t) \/ CallGetHandler(t)
    BY <2>1, <2>2, LookupIsCall DEF CallHasMethod, CallGetHandler, Next
  <2>3. CASE HasMethodReturns(t) \/ GetHandlerReturns(t) \/ DirectReturn(t)
    BY <2>3 DEF HasMethodReturns, GetHandlerReturns, DirectReturn, Next, Step
  <2>4. CASE RegistryStep(t)
    BY <2>4 DEF RegistryStep, Next
  <2>5. CASE EmptyMethod(t) \/ HandlerEnds(t)
    BY <2>5 DEF EmptyMethod, HandlerEnds, registryVars
  <2> QED
    BY <1>2, <2>2, <2>3, <2>4, <2>5 DEF ThreadStep
<1>3. ASSUME NEW t \in Threads, DispatchReturns(t)
      PROVE  [Next]_vars
  BY <1>3 DEF DispatchReturns, registryVars
<1>4. ASSUME NEW t \in Threads, NEW r \in Requests, Dispatch(t, r)
      PROVE  [Next]_vars
  BY <1>4 DEF Dispatch, registryVars
<1>5. ASSUME NEW t \in Threads, NEW c \in Uses, DirectCall(t, c) \/ HandlerCalls(t, c)
      PROVE  [Next]_vars
  BY <1>5, RuntimeAssumption DEF DirectCall, HandlerCalls, Next
<1> QED
  BY <1>1, <1>2, <1>3, <1>4, <1>5 DEF RuntimeNext

(* What a thread at check or lookup got from the registry.                 *)
LEMMA ResultsOfLookups ==
  ASSUME IInv, CallInv, NEW t \in Threads
  PROVE  /\ pc[t] \notin {"unlock", "return"} => ret[t] = Pending
         /\ stage[t] = "check" /\ pc[t] \in {"unlock", "return"}
              => ret[t] = Returned(TRUE) \/ ret[t] = Returned(FALSE)
         /\ stage[t] = "lookup" /\ pc[t] \in {"unlock", "return"}
              => \/ ret[t] = Threw("runtime_error")
                 \/ \E h \in Handlers : ret[t] = Returned(h)
<1>1. /\ pc[t] \notin {"unlock", "return"} => ret[t] = Pending
      /\ pc[t] \in {"unlock", "return"} => ResultOf(call[t], ret[t])
  BY DEF IInv, PlaceInv
<1>2. ASSUME stage[t] = "check", pc[t] \in {"unlock", "return"}
      PROVE  ret[t] = Returned(TRUE) \/ ret[t] = Returned(FALSE)
  <2>1. call[t] = LookupCall("hasMethod", req[t].method)
    BY <1>2 DEF CallInv
  <2>2. call[t].op = "hasMethod"
    BY <2>1 DEF LookupCall
  <2>3. ret[t] \in {"returned"} \X BOOLEAN
    BY <1>1, <1>2, <2>2 DEF ResultOf
  <2>4. PICK b \in BOOLEAN : ret[t] = <<"returned", b>>
    BY <2>3
  <2> QED
    BY <2>4 DEF Returned
<1>3. ASSUME stage[t] = "lookup", pc[t] \in {"unlock", "return"}
      PROVE  \/ ret[t] = Threw("runtime_error")
             \/ \E h \in Handlers : ret[t] = Returned(h)
  <2>1. call[t] = LookupCall("getHandler", req[t].method)
    BY <1>3 DEF CallInv
  <2>2. call[t].op = "getHandler"
    BY <2>1 DEF LookupCall
  <2>3. ret[t] \in {"returned"} \X Handlers \/ ret[t] = Threw("runtime_error")
    BY <1>1, <1>3, <2>2 DEF ResultOf
  <2> QED
    BY <2>3 DEF Returned
<1> QED
  BY <1>1, <1>2, <1>3

(* A step inside the registry: the thread stays in its call.               *)
LEMMA StaysInside ==
  ASSUME IInv, NEW t \in Threads, Step(t), pc[t] # "return"
  PROVE  /\ call' = call
         /\ pc[t] # "idle"
         /\ pc'[t] # "idle"
         /\ \A u \in Threads \ {t} : pc'[u] = pc[u] /\ ret'[u] = ret[u]
<1> USE DEF IInv, TypeOK, Goto
<1>1. ASSUME NEW op, NEW at \in {"locked", "found", "missing"}, NEW m, NEW r,
             Finish(t, op, at, m, r)
      PROVE  /\ call' = call
             /\ pc[t] # "idle"
             /\ pc'[t] # "idle"
             /\ \A u \in Threads \ {t} : pc'[u] = pc[u] /\ ret'[u] = ret[u]
  BY <1>1 DEF Finish, PlaceInv
<1>2. CASE RejectArguments(t) \/ AcceptArguments(t) \/ Lock(t) \/ Find(t) \/ Unlock(t)
  BY <1>2 DEF RejectArguments, AcceptArguments, Lock, Find, Unlock, PlaceInv
<1>3. CASE \E n \in Names : PushName(t, n)
  BY <1>3 DEF PushName
<1>4. CASE KeepExisting(t) \/ Overwrite(t) \/ Emplace(t)
  BY <1>1, <1>4 DEF KeepExisting, Overwrite, Emplace
<1>5. CASE HasMethod(t) \/ CopyHandler(t) \/ ThrowMissing(t) \/ Erase(t)
  BY <1>1, <1>5 DEF HasMethod, CopyHandler, ThrowMissing, Erase
<1>6. CASE EndOfList(t) \/ Size(t)
  BY <1>1, <1>6 DEF EndOfList, Size
<1>7. ~Return(t)
  BY DEF Return
<1> QED
  BY <1>2, <1>3, <1>4, <1>5, <1>6, <1>7 DEF Step

-------------------------------------------------------------------------------
LEMMA RuntimeInitially == RuntimeInit => RuntimeInv
BY Initially, RequestFields
   DEF RuntimeInit, RuntimeInv, DispatchInv, DispatchTypeOK, CallInv, HistoryInv, Stages

LEMMA DispatchPreserves ==
  ASSUME RuntimeInv, NEW t \in Threads, NEW r \in Requests, Dispatch(t, r)
  PROVE  DispatchInv'
<1> USE DEF RuntimeInv, DispatchInv, Dispatch, registryVars, vars
<1>1. DispatchTypeOK'
  BY DEF DispatchTypeOK, Stages
<1>2. CallInv'
  BY DEF DispatchTypeOK, CallInv
<1>3. HistoryInv'
  BY DEF DispatchTypeOK, HistoryInv, BindingIn
<1> QED
  BY <1>1, <1>2, <1>3

(* A dispatch that goes on, in the same registry.                          *)
LEMMA AnswerPreserves ==
  ASSUME RuntimeInv, NEW t \in Threads, NEW at \in {"check", "lookup", "run"}, NEW r,
         Answer(t, at, r), methods' = methods, pc'[t] = "idle",
         \A u \in Threads \ {t} : pc'[u] = pc[u] /\ call'[u] = call[u]
  PROVE  DispatchInv'
<1> USE DEF RuntimeInv, DispatchInv, Answer
<1>1. DispatchTypeOK'
  BY DEF DispatchTypeOK, Stages
<1>2. CallInv'
  BY DEF DispatchTypeOK, CallInv
<1>3. HistoryInv'
  BY DEF DispatchTypeOK, HistoryInv, BindingIn
<1> QED
  BY <1>1, <1>2, <1>3

(* A call of the registry, or its return, elsewhere in dispatch() or not   *)
(* by dispatch() at all.                                                   *)
LEMMA OutsideLookup ==
  ASSUME RuntimeInv, NEW t \in Threads, stage[t] \in {"idle", "run"},
         methods' = methods, stage' = stage, req' = req, handler' = handler,
         nested' \in [Threads -> BOOLEAN], res' = res, seen' = seen,
         \A u \in Threads \ {t} : pc'[u] = pc[u] /\ call'[u] = call[u]
  PROVE  DispatchInv'
<1> USE DEF RuntimeInv, DispatchInv
<1>1. DispatchTypeOK'
  BY DEF DispatchTypeOK
<1>2. CallInv'
  BY DEF CallInv
<1>3. HistoryInv'
  BY DEF HistoryInv, BindingIn
<1> QED
  BY <1>1, <1>2, <1>3

LEMMA LookupCallsPreserve ==
  ASSUME RuntimeInv, NEW t \in Threads, CallHasMethod(t) \/ CallGetHandler(t)
  PROVE  DispatchInv'
<1> USE DEF RuntimeInv, DispatchInv, CallHasMethod, CallGetHandler, dispatchVars, Invoke, Goto
<1>1. DispatchTypeOK'
  BY DEF DispatchTypeOK
<1>2. CallInv'
  BY DEF CallInv, IInv, TypeOK
<1>3. HistoryInv'
  BY DEF HistoryInv, BindingIn
<1> QED
  BY <1>1, <1>2, <1>3

LEMMA LookupReturnsPreserve ==
  ASSUME RuntimeInv, NEW t \in Threads, HasMethodReturns(t) \/ GetHandlerReturns(t)
  PROVE  DispatchInv'
<1>1. /\ pc[t] = "return" /\ pc'[t] = "idle"
      /\ methods' = methods
      /\ \A u \in Threads \ {t} : pc'[u] = pc[u] /\ call'[u] = call[u]
  BY DEF RuntimeInv, IInv, TypeOK, HasMethodReturns, GetHandlerReturns, Return, Goto
<1>2. CASE \E at \in {"check", "lookup"}, r \in {OwnError("MethodNotFound", req[t].id),
                                                OwnError("InternalError", req[t].id)} :
             Answer(t, at, r)
  BY <1>1, <1>2, AnswerPreserves
<1>3. CASE /\ stage[t] = "check"
           /\ stage' = [stage EXCEPT ![t] = "lookup"]
           /\ UNCHANGED <<req, handler, nested, res, seen>>
  <2>1. DispatchTypeOK'
    BY <1>3 DEF RuntimeInv, DispatchInv, DispatchTypeOK, Stages
  <2>2. CallInv'
    BY <1>1, <1>3 DEF RuntimeInv, DispatchInv, DispatchTypeOK, CallInv
  <2>3. HistoryInv'
    BY <1>1, <1>3 DEF RuntimeInv, DispatchInv, DispatchTypeOK, HistoryInv, BindingIn
  <2> QED
    BY <2>1, <2>2, <2>3 DEF DispatchInv
<1>4. CASE /\ stage[t] = "lookup"
           /\ ret[t] # Threw("runtime_error")
           /\ stage' = [stage EXCEPT ![t] = "run"]
           /\ handler' = [handler EXCEPT ![t] = ret[t][2]]
           /\ UNCHANGED <<req, nested, res, seen>>
  <2>1. ret[t][2] \in Handlers
    BY <1>1, <1>4, ResultsOfLookups, ResultVariants DEF RuntimeInv, DispatchInv
  <2>2. DispatchTypeOK'
    BY <1>4, <2>1 DEF RuntimeInv, DispatchInv, DispatchTypeOK, Stages
  <2>3. CallInv'
    BY <1>1, <1>4 DEF RuntimeInv, DispatchInv, DispatchTypeOK, CallInv
  <2>4. HistoryInv'
    BY <1>1, <1>4 DEF RuntimeInv, DispatchInv, DispatchTypeOK, HistoryInv, BindingIn
  <2> QED
    BY <2>2, <2>3, <2>4 DEF DispatchInv
<1> QED
  BY <1>2, <1>3, <1>4 DEF HasMethodReturns, GetHandlerReturns

LEMMA ReturnPreserves ==
  ASSUME RuntimeInv, NEW t \in Threads, DispatchReturns(t)
  PROVE  DispatchInv'
<1> USE DEF RuntimeInv, DispatchInv, DispatchReturns, registryVars, vars
<1>1. DispatchTypeOK'
  BY RequestFields DEF DispatchTypeOK, Stages
<1>2. CallInv'
  BY DEF DispatchTypeOK, CallInv
<1>3. HistoryInv'
  BY DEF DispatchTypeOK, HistoryInv, BindingIn
<1> QED
  BY <1>1, <1>2, <1>3

(* The dispatches under way record what a step of the registry leaves.     *)
LEMMA RegistryStepPreserves ==
  ASSUME RuntimeInv, NEW t \in Threads, RegistryStep(t)
  PROVE  DispatchInv'
<1>1. /\ call' = call
      /\ pc[t] # "idle"
      /\ pc'[t] # "idle"
      /\ \A u \in Threads \ {t} : pc'[u] = pc[u]
  BY StaysInside DEF RuntimeInv, RegistryStep
<1>2. UNCHANGED <<stage, req, handler, nested, res>>
  BY DEF RegistryStep
<1>3. DispatchTypeOK'
  BY <1>2 DEF RuntimeInv, DispatchInv, DispatchTypeOK, RegistryStep
<1>4. CallInv'
  BY <1>1, <1>2 DEF RuntimeInv, DispatchInv, CallInv
<1>5. HistoryInv'
  BY <1>2 DEF HistoryInv, BindingIn, RegistryStep
<1> QED
  BY <1>3, <1>4, <1>5 DEF DispatchInv

LEMMA RuntimeInductive == RuntimeInv /\ [RuntimeNext]_runtimeVars => RuntimeInv'
<1> SUFFICES ASSUME RuntimeInv, [RuntimeNext]_runtimeVars
             PROVE  RuntimeInv'
  OBVIOUS
<1>1. IInv'
  BY StepOfRegistry, Inductive DEF RuntimeInv, DispatchInv
<1>2. ASSUME NEW t \in Threads, ThreadStep(t)
      PROVE  DispatchInv'
  <2>1. CASE EmptyMethod(t)
    <3>1. pc[t] = "idle"
      BY <2>1 DEF EmptyMethod, Answer, RuntimeInv, DispatchInv, CallInv
    <3> QED
      BY <2>1, <3>1, AnswerPreserves DEF EmptyMethod, registryVars, vars
  <2>2. CASE CallHasMethod(t) \/ CallGetHandler(t)
    BY <2>2, LookupCallsPreserve
  <2>3. CASE HasMethodReturns(t) \/ GetHandlerReturns(t)
    BY <2>3, LookupReturnsPreserve
  <2>4. CASE HandlerEnds(t)
    <3>1. \E r : Answer(t, "run", r)
      BY <2>4 DEF HandlerEnds
    <3> QED
      BY <2>4, <3>1, AnswerPreserves DEF HandlerEnds, registryVars, vars
  <2>5. CASE RegistryStep(t)
    BY <2>5, RegistryStepPreserves
  <2>6. CASE DirectReturn(t)
    <3>1. /\ methods' = methods
          /\ \A u \in Threads \ {t} : pc'[u] = pc[u] /\ call'[u] = call[u]
      BY <2>6 DEF DirectReturn, Return, Goto, RuntimeInv, IInv, TypeOK
    <3> QED
      BY <2>6, <3>1, OutsideLookup
         DEF DirectReturn, dispatchVars, RuntimeInv, DispatchInv, DispatchTypeOK
  <2> QED
    BY <1>2, <2>1, <2>2, <2>3, <2>4, <2>5, <2>6 DEF ThreadStep
<1>3. ASSUME NEW t \in Threads, NEW c \in Uses, DirectCall(t, c) \/ HandlerCalls(t, c)
      PROVE  DispatchInv'
  <2>1. /\ methods' = methods
        /\ \A u \in Threads \ {t} : pc'[u] = pc[u] /\ call'[u] = call[u]
    BY <1>3 DEF DirectCall, HandlerCalls, Invoke, Goto, RuntimeInv, IInv, TypeOK
  <2>2. stage[t] \in {"idle", "run"} /\ UNCHANGED <<stage, req, handler, res, seen>>
    BY <1>3 DEF DirectCall, HandlerCalls, dispatchVars
  <2>3. nested' \in [Threads -> BOOLEAN]
    BY <1>3 DEF DirectCall, HandlerCalls, dispatchVars, RuntimeInv, DispatchInv, DispatchTypeOK
  <2> QED
    BY <2>1, <2>2, <2>3, OutsideLookup
<1>4. ASSUME UNCHANGED runtimeVars
      PROVE  DispatchInv'
  <2>1. /\ UNCHANGED <<methods, pc, call>>
        /\ UNCHANGED <<stage, req, handler, nested, res, seen>>
    BY <1>4 DEF runtimeVars, registryVars, vars, dispatchVars
  <2>2. DispatchTypeOK'
    BY <2>1 DEF RuntimeInv, DispatchInv, DispatchTypeOK
  <2>3. CallInv'
    BY <2>1 DEF RuntimeInv, DispatchInv, CallInv
  <2>4. HistoryInv'
    BY <2>1 DEF RuntimeInv, DispatchInv, HistoryInv, BindingIn
  <2> QED
    BY <2>2, <2>3, <2>4 DEF DispatchInv
<1>5. ASSUME RuntimeNext
      PROVE  DispatchInv'
  <2>1. PICK t \in Threads :
          \/ ThreadStep(t)
          \/ DispatchReturns(t)
          \/ \E r \in Requests : Dispatch(t, r)
          \/ \E c \in Uses : DirectCall(t, c) \/ HandlerCalls(t, c)
    BY <1>5 DEF RuntimeNext
  <2>2. CASE DispatchReturns(t)
    BY <2>2, ReturnPreserves
  <2>3. CASE \E r \in Requests : Dispatch(t, r)
    BY <2>3, DispatchPreserves
  <2> QED
    BY <1>2, <1>3, <2>1, <2>2, <2>3
<1>6. DispatchInv'
  BY <1>4, <1>5
<1> QED
  BY <1>1, <1>6 DEF RuntimeInv

LEMMA RuntimeInvariance == RuntimeSpec => []RuntimeInv
BY RuntimeInitially, RuntimeInductive, PTL DEF RuntimeSpec

(* While threads dispatch requests and handlers call the registry from     *)
(* inside a dispatch, the registry is used as MethodRegistry says, so all  *)
(* that was shown of it above holds here                                   *)
(* (dispatcher.cpp:22, 31-32).                                             *)
THEOREM RuntimeIsRegistry == RuntimeSpec => Spec
<1>1. RuntimeInit => Init
  BY DEF RuntimeInit
<1>2. RuntimeInv /\ [RuntimeNext]_runtimeVars => [Next]_vars
  BY StepOfRegistry DEF RuntimeInv, DispatchInv
<1> QED
  BY <1>1, <1>2, RuntimeInvariance, PTL DEF RuntimeSpec, Spec

-------------------------------------------------------------------------------
(* The refinement.  What the callers of dispatch() see of a thread is      *)
(* where it is, or where it will be when it learns the result that the     *)
(* registry has computed for it.                                           *)
ViewsOK ==
  /\ StageSeen = [t \in Threads |-> StageSeen[t]]
  /\ HandlerSeen = [t \in Threads |-> HandlerSeen[t]]
  /\ ResponseSeen = [t \in Threads |-> ResponseSeen[t]]
  /\ \A t \in Threads :
       /\ ret[t] = Pending \/ stage[t] \notin {"check", "lookup"} =>
            StageSeen[t] = stage[t] /\ HandlerSeen[t] = handler[t] /\ ResponseSeen[t] = res[t]
       /\ stage[t] = "check" /\ ret[t] = Returned(TRUE) =>
            StageSeen[t] = "lookup" /\ HandlerSeen[t] = handler[t] /\ ResponseSeen[t] = res[t]
       /\ stage[t] = "check" /\ ret[t] = Returned(FALSE) =>
            /\ StageSeen[t] = "done"
            /\ HandlerSeen[t] = handler[t]
            /\ ResponseSeen[t] = OwnError("MethodNotFound", req[t].id)
       /\ \A h \in Handlers : stage[t] = "lookup" /\ ret[t] = Returned(h) =>
            StageSeen[t] = "run" /\ HandlerSeen[t] = h /\ ResponseSeen[t] = res[t]
       /\ stage[t] = "lookup" /\ ret[t] = Threw("runtime_error") =>
            /\ StageSeen[t] = "done"
            /\ HandlerSeen[t] = handler[t]
            /\ ResponseSeen[t] = OwnError("InternalError", req[t].id)

LEMMA Views == ViewsOK
<1>1. /\ StageSeen = [t \in Threads |-> StageSeen[t]]
      /\ HandlerSeen = [t \in Threads |-> HandlerSeen[t]]
      /\ ResponseSeen = [t \in Threads |-> ResponseSeen[t]]
  BY DEF StageSeen, HandlerSeen, ResponseSeen
<1> SUFFICES ASSUME NEW t \in Threads
             PROVE  ViewsOK!4!(t)
  BY <1>1 DEF ViewsOK
<1>2. ASSUME ret[t] = Pending \/ stage[t] \notin {"check", "lookup"}
      PROVE  StageSeen[t] = stage[t] /\ HandlerSeen[t] = handler[t] /\ ResponseSeen[t] = res[t]
  BY <1>2 DEF StageSeen, HandlerSeen, ResponseSeen, Knows
<1>3. ASSUME stage[t] = "check", ret[t] = Returned(TRUE)
      PROVE  StageSeen[t] = "lookup" /\ HandlerSeen[t] = handler[t] /\ ResponseSeen[t] = res[t]
  BY <1>3, ResultVariants DEF StageSeen, HandlerSeen, ResponseSeen, Knows
<1>4. ASSUME stage[t] = "check", ret[t] = Returned(FALSE)
      PROVE  /\ StageSeen[t] = "done"
             /\ HandlerSeen[t] = handler[t]
             /\ ResponseSeen[t] = OwnError("MethodNotFound", req[t].id)
  BY <1>4, ResultVariants DEF StageSeen, HandlerSeen, ResponseSeen, Knows
<1>5. ASSUME NEW h \in Handlers, stage[t] = "lookup", ret[t] = Returned(h)
      PROVE  StageSeen[t] = "run" /\ HandlerSeen[t] = h /\ ResponseSeen[t] = res[t]
  BY <1>5, ResultVariants DEF StageSeen, HandlerSeen, ResponseSeen, Knows
<1>6. ASSUME stage[t] = "lookup", ret[t] = Threw("runtime_error")
      PROVE  /\ StageSeen[t] = "done"
             /\ HandlerSeen[t] = handler[t]
             /\ ResponseSeen[t] = OwnError("InternalError", req[t].id)
  BY <1>6, ResultVariants DEF StageSeen, HandlerSeen, ResponseSeen, Knows
<1> QED
  BY <1>2, <1>3, <1>4, <1>5, <1>6

(* The thread u is seen as before.                                         *)
Unmoved(u) ==
  /\ StageSeen'[u] = StageSeen[u]
  /\ HandlerSeen'[u] = HandlerSeen[u]
  /\ ResponseSeen'[u] = ResponseSeen[u]

LEMMA SameView ==
  ASSUME NEW u \in Threads, ret'[u] = ret[u], stage'[u] = stage[u], req'[u] = req[u],
         handler'[u] = handler[u], res'[u] = res[u]
  PROVE  Unmoved(u)
BY DEF Unmoved, StageSeen, HandlerSeen, ResponseSeen, Knows

LEMMA AllUnmoved ==
  ASSUME methods' = methods, req' = req, seen' = seen, \A u \in Threads : Unmoved(u)
  PROVE  UNCHANGED OnAtomicRegistry!vars
<1>1. ViewsOK /\ ViewsOK'
  BY Views, PTL
<1> QED
  BY <1>1 DEF ViewsOK, Unmoved, OnAtomicRegistry!vars

(* A thread that is seen to answer replies, for the abstract dispatcher.   *)
LEMMA ReplySeen ==
  ASSUME NEW t \in Threads, NEW at, NEW result, NEW error,
         StageSeen[t] = at, StageSeen'[t] = "done", HandlerSeen'[t] = HandlerSeen[t],
         ResponseSeen'[t] = Response(result, error, req[t].id),
         methods' = methods, req' = req, seen' = seen,
         \A u \in Threads \ {t} : Unmoved(u)
  PROVE  OnAtomicRegistry!Reply(t, at, result, error)
<1>1. ViewsOK /\ ViewsOK'
  BY Views, PTL
<1>2. StageSeen' = [StageSeen EXCEPT ![t] = "done"]
  BY <1>1 DEF ViewsOK, Unmoved
<1>3. HandlerSeen' = HandlerSeen
  BY <1>1 DEF ViewsOK, Unmoved
<1>4. ResponseSeen' = [ResponseSeen EXCEPT ![t] = Response(result, error, req[t].id)]
  BY <1>1 DEF ViewsOK, Unmoved
<1> QED
  BY <1>2, <1>3, <1>4 DEF OnAtomicRegistry!Reply, Response

(* dispatch() begins, with the binding its method has now.                 *)
LEMMA DispatchSeen ==
  ASSUME RuntimeInv, NEW t \in Threads, NEW r \in Requests, Dispatch(t, r)
  PROVE  OnAtomicRegistry!Dispatch(t, r)
<1>1. ViewsOK /\ ViewsOK'
  BY Views, PTL
<1>2. /\ stage' = [stage EXCEPT ![t] = "check"] /\ stage[t] = "idle" /\ stage'[t] = "check"
      /\ req' = [req EXCEPT ![t] = r]
      /\ methods' = methods /\ ret' = ret /\ handler' = handler /\ res' = res
      /\ ret[t] = Pending
  BY ResultsOfLookups
     DEF Dispatch, registryVars, vars, RuntimeInv, DispatchInv, DispatchTypeOK
<1>3. /\ StageSeen[t] = "idle" /\ StageSeen'[t] = "check"
      /\ HandlerSeen'[t] = HandlerSeen[t] /\ ResponseSeen'[t] = ResponseSeen[t]
  BY <1>1, <1>2 DEF ViewsOK
<1>4. \A u \in Threads \ {t} : Unmoved(u)
  BY <1>2, SameView DEF RuntimeInv, DispatchInv, DispatchTypeOK
<1>5. StageSeen' = [StageSeen EXCEPT ![t] = "check"]
  BY <1>1, <1>3, <1>4 DEF ViewsOK, Unmoved
<1>6. HandlerSeen' = HandlerSeen /\ ResponseSeen' = ResponseSeen
  BY <1>1, <1>3, <1>4 DEF ViewsOK, Unmoved
<1>7. seen' = [seen EXCEPT ![t] = {OnAtomicRegistry!Binding(r.method)}]
  BY RegistryAssumption DEF Dispatch, Bound, OnAtomicRegistry!Binding
<1> QED
  BY <1>2, <1>3, <1>5, <1>6, <1>7 DEF OnAtomicRegistry!Dispatch

LEMMA EmptyMethodSeen ==
  ASSUME RuntimeInv, NEW t \in Threads, EmptyMethod(t)
  PROVE  OnAtomicRegistry!EmptyMethod(t)
<1>1. ViewsOK /\ ViewsOK'
  BY Views, PTL
<1>2. pc[t] = "idle" /\ ret[t] = Pending /\ ret' = ret
  BY ResultsOfLookups
     DEF EmptyMethod, Answer, registryVars, vars, RuntimeInv, DispatchInv, CallInv
<1>3. /\ stage[t] = "check" /\ stage'[t] = "done"
      /\ res'[t] = OwnError("InvalidRequest", req[t].id)
      /\ UNCHANGED <<methods, req, handler, seen>>
      /\ \A u \in Threads \ {t} : stage'[u] = stage[u] /\ res'[u] = res[u]
  BY DEF EmptyMethod, Answer, registryVars, vars, RuntimeInv, DispatchInv, DispatchTypeOK
<1>4. \A u \in Threads \ {t} : Unmoved(u)
  BY <1>2, <1>3, SameView
<1>5. /\ StageSeen[t] = "check" /\ StageSeen'[t] = "done"
      /\ HandlerSeen'[t] = HandlerSeen[t]
      /\ ResponseSeen'[t] = OwnError("InvalidRequest", req[t].id)
  BY <1>1, <1>2, <1>3 DEF ViewsOK
<1>6. OnAtomicRegistry!Reply(t, "check", <<"none">>, <<"own", "InvalidRequest">>)
  BY <1>3, <1>4, <1>5, ReplySeen DEF OwnError
<1> QED
  BY <1>6 DEF EmptyMethod, OnAtomicRegistry!EmptyMethod, OnAtomicRegistry!NoResult,
              OnAtomicRegistry!Own

(* Calling the registry is not seen, and neither is learning its result.   *)
LEMMA CallsUnseen ==
  ASSUME NEW t \in Threads,
         \/ CallHasMethod(t) \/ CallGetHandler(t)
         \/ \E c \in Uses : DirectCall(t, c) \/ HandlerCalls(t, c)
  PROVE  UNCHANGED OnAtomicRegistry!vars
<1>1. UNCHANGED <<methods, ret, stage, req, handler, res, seen>>
  BY DEF CallHasMethod, CallGetHandler, DirectCall, HandlerCalls, Invoke, dispatchVars
<1> QED
  BY <1>1, SameView, AllUnmoved

LEMMA ReturnsUnseen ==
  ASSUME RuntimeInv, NEW t \in Threads,
         HasMethodReturns(t) \/ GetHandlerReturns(t) \/ DirectReturn(t)
  PROVE  UNCHANGED OnAtomicRegistry!vars
<1>1. ViewsOK /\ ViewsOK'
  BY Views, PTL
<1>2. /\ pc[t] = "return"
      /\ ret' = [ret EXCEPT ![t] = Pending]
      /\ ret'[t] = Pending
      /\ methods' = methods
  BY DEF HasMethodReturns, GetHandlerReturns, DirectReturn, Return, Goto, RuntimeInv, IInv,
         PlaceInv
<1>3. /\ req' = req /\ seen' = seen
      /\ \A u \in Threads \ {t} : /\ ret'[u] = ret[u] /\ stage'[u] = stage[u]
                                  /\ handler'[u] = handler[u] /\ res'[u] = res[u]
  <2>1. \A u \in Threads \ {t} : ret'[u] = ret[u]
    BY <1>2 DEF RuntimeInv, IInv, PlaceInv
  <2>2. CASE HasMethodReturns(t)
    BY <2>1, <2>2
       DEF HasMethodReturns, Answer, RuntimeInv, DispatchInv, DispatchTypeOK
  <2>3. CASE GetHandlerReturns(t)
    BY <2>1, <2>3
       DEF GetHandlerReturns, Answer, RuntimeInv, DispatchInv, DispatchTypeOK
  <2>4. CASE DirectReturn(t)
    BY <2>1, <2>4 DEF DirectReturn, dispatchVars
  <2> QED
    BY <2>2, <2>3, <2>4
<1>4. Unmoved(t)
  <2>1. CASE HasMethodReturns(t)
    <3>1. CASE ret[t] = Returned(FALSE)
      <4>1. /\ stage[t] = "check" /\ stage'[t] = "done"
            /\ handler'[t] = handler[t]
            /\ res'[t] = OwnError("MethodNotFound", req[t].id)
        BY <2>1, <3>1, ResultVariants
           DEF HasMethodReturns, Answer, RuntimeInv, DispatchInv, DispatchTypeOK
      <4> QED
        BY <1>1, <1>2, <3>1, <4>1 DEF ViewsOK, Unmoved
    <3>2. CASE ret[t] = Returned(TRUE)
      <4>1. /\ stage[t] = "check" /\ stage'[t] = "lookup"
            /\ handler'[t] = handler[t] /\ res'[t] = res[t]
        BY <2>1, <3>2, ResultVariants
           DEF HasMethodReturns, RuntimeInv, DispatchInv, DispatchTypeOK
      <4> QED
        BY <1>1, <1>2, <3>2, <4>1 DEF ViewsOK, Unmoved
    <3> QED
      BY <2>1, <3>1, <3>2 DEF HasMethodReturns
  <2>2. CASE GetHandlerReturns(t)
    <3>1. CASE ret[t] = Threw("runtime_error")
      <4>1. /\ stage[t] = "lookup" /\ stage'[t] = "done"
            /\ handler'[t] = handler[t]
            /\ res'[t] = OwnError("InternalError", req[t].id)
        BY <2>2, <3>1
           DEF GetHandlerReturns, Answer, RuntimeInv, DispatchInv, DispatchTypeOK
      <4> QED
        BY <1>1, <1>2, <3>1, <4>1 DEF ViewsOK, Unmoved
    <3>2. CASE ret[t] # Threw("runtime_error")
      <4>1. PICK h \in Handlers : ret[t] = Returned(h)
        BY <1>2, <2>2, <3>2, ResultsOfLookups DEF GetHandlerReturns, RuntimeInv, DispatchInv
      <4>2. /\ stage[t] = "lookup" /\ stage'[t] = "run"
            /\ handler'[t] = h /\ res'[t] = res[t]
        BY <2>2, <3>2, <4>1, ResultVariants
           DEF GetHandlerReturns, RuntimeInv, DispatchInv, DispatchTypeOK
      <4> QED
        BY <1>1, <1>2, <4>1, <4>2 DEF ViewsOK, Unmoved
    <3> QED
      BY <3>1, <3>2
  <2>3. CASE DirectReturn(t)
    <3>1. /\ stage[t] \notin {"check", "lookup"}
          /\ stage'[t] = stage[t] /\ handler'[t] = handler[t] /\ res'[t] = res[t]
      BY <2>3 DEF DirectReturn, dispatchVars
    <3> QED
      BY <1>1, <3>1 DEF ViewsOK, Unmoved
  <2> QED
    BY <2>1, <2>2, <2>3
<1>5. \A u \in Threads : Unmoved(u)
  BY <1>3, <1>4, SameView
<1> QED
  BY <1>2, <1>3, <1>5, AllUnmoved

LEMMA HandlerEndsSeen ==
  ASSUME RuntimeInv, NEW t \in Threads, HandlerEnds(t)
  PROVE  \/ OnAtomicRegistry!HandlerReturns(t)
         \/ \E c \in Codes : OnAtomicRegistry!HandlerThrowsRpcError(t, c)
         \/ OnAtomicRegistry!HandlerThrows(t)
<1>1. ViewsOK /\ ViewsOK'
  BY Views, PTL
<1>2. UNCHANGED <<methods, ret>> /\ ret[t] = Pending
  BY ResultsOfLookups DEF HandlerEnds, registryVars, vars, RuntimeInv, DispatchInv
<1>3. ASSUME NEW result, NEW error, Answer(t, "run", Response(result, error, req[t].id))
      PROVE  /\ OnAtomicRegistry!Reply(t, "run", result, error)
             /\ HandlerSeen[t] = handler[t]
  <2>1. /\ stage[t] = "run" /\ stage'[t] = "done"
        /\ res'[t] = Response(result, error, req[t].id)
        /\ UNCHANGED <<req, handler, seen>>
        /\ \A u \in Threads \ {t} : stage'[u] = stage[u] /\ res'[u] = res[u]
    BY <1>3 DEF Answer, RuntimeInv, DispatchInv, DispatchTypeOK
  <2>2. \A u \in Threads \ {t} : Unmoved(u)
    BY <1>2, <2>1, SameView
  <2>3. /\ StageSeen[t] = "run" /\ StageSeen'[t] = "done"
        /\ HandlerSeen[t] = handler[t] /\ HandlerSeen'[t] = handler[t]
        /\ ResponseSeen'[t] = Response(result, error, req[t].id)
    BY <1>1, <1>2, <2>1 DEF ViewsOK
  <2> QED
    BY <1>2, <2>1, <2>2, <2>3, ReplySeen
<1>4. CASE Answer(t, "run", Response(<<"value", handler[t]>>, <<"none">>, req[t].id))
  <2>1. OnAtomicRegistry!Reply(t, "run", <<"value", handler[t]>>, <<"none">>)
    BY <1>3, <1>4
  <2> QED
    BY <1>3, <1>4, <2>1
       DEF OnAtomicRegistry!HandlerReturns, OnAtomicRegistry!ValueOf, OnAtomicRegistry!NoError
<1>5. ASSUME NEW c \in Codes,
             Answer(t, "run", Response(<<"none">>, <<"thrown", handler[t], c>>, req[t].id))
      PROVE  OnAtomicRegistry!HandlerThrowsRpcError(t, c)
  <2>1. OnAtomicRegistry!Reply(t, "run", <<"none">>, <<"thrown", handler[t], c>>)
    BY <1>3, <1>5
  <2> QED
    BY <1>3, <1>5, <2>1
       DEF OnAtomicRegistry!HandlerThrowsRpcError, OnAtomicRegistry!Thrown,
           OnAtomicRegistry!NoResult
<1>6. CASE Answer(t, "run", Response(<<"none">>, <<"unhandled", handler[t]>>, req[t].id))
  <2>1. OnAtomicRegistry!Reply(t, "run", <<"none">>, <<"unhandled", handler[t]>>)
    BY <1>3, <1>6
  <2> QED
    BY <1>3, <1>6, <2>1
       DEF OnAtomicRegistry!HandlerThrows, OnAtomicRegistry!Unhandled,
           OnAtomicRegistry!NoResult
<1> QED
  BY <1>4, <1>5, <1>6 DEF HandlerEnds

LEMMA ReturnSeen ==
  ASSUME RuntimeInv, NEW t \in Threads, DispatchReturns(t)
  PROVE  OnAtomicRegistry!Return(t)
<1>1. ViewsOK /\ ViewsOK'
  BY Views, PTL
<1>2. /\ stage[t] = "done" /\ stage'[t] = "idle"
      /\ handler'[t] = Absent /\ res'[t] = NoResponse
      /\ UNCHANGED <<methods, ret>>
  BY DEF DispatchReturns, registryVars, vars, RuntimeInv, DispatchInv, DispatchTypeOK
<1>3. \A u \in Threads \ {t} : Unmoved(u)
  <2>1. \A u \in Threads \ {t} :
          /\ stage'[u] = stage[u] /\ req'[u] = req[u]
          /\ handler'[u] = handler[u] /\ res'[u] = res[u]
    BY DEF DispatchReturns, RuntimeInv, DispatchInv, DispatchTypeOK
  <2> QED
    BY <1>2, <2>1, SameView
<1>4. /\ StageSeen[t] = "done" /\ StageSeen'[t] = "idle"
      /\ HandlerSeen'[t] = Absent /\ ResponseSeen'[t] = NoResponse
  BY <1>1, <1>2 DEF ViewsOK
<1>5. /\ StageSeen' = [StageSeen EXCEPT ![t] = "idle"]
      /\ HandlerSeen' = [HandlerSeen EXCEPT ![t] = Absent]
  BY <1>1, <1>3, <1>4 DEF ViewsOK, Unmoved
<1>6. ResponseSeen' = [ResponseSeen EXCEPT ![t] = NoResponse]
  BY <1>1, <1>3, <1>4 DEF ViewsOK, Unmoved
<1>7. /\ OnAtomicRegistry!NoResponse = NoResponse
      /\ OnAtomicRegistry!NoRequest = NoRequest
  BY DEF OnAtomicRegistry!NoResponse, NoResponse, Response, OnAtomicRegistry!NoResult,
         OnAtomicRegistry!NoError, OnAtomicRegistry!NoRequest, NoRequest
<1> QED
  BY <1>2, <1>4, <1>5, <1>6, <1>7 DEF DispatchReturns, OnAtomicRegistry!Return

-------------------------------------------------------------------------------
(* The steps of the registry.                                              *)

(* Only t is seen to move, and only if it is in a lookup of dispatch().    *)
LEMMA OthersUnmoved ==
  ASSUME RuntimeInv, NEW t \in Threads, RegistryStep(t)
  PROVE  /\ \A u \in Threads \ {t} : Unmoved(u)
         /\ ret'[t] = ret[t] \/ stage[t] \notin {"check", "lookup"} => Unmoved(t)
<1>1. ViewsOK /\ ViewsOK'
  BY Views, PTL
<1>2. /\ UNCHANGED <<stage, req, handler, res>>
      /\ \A u \in Threads \ {t} : ret'[u] = ret[u]
  BY StaysInside DEF RegistryStep, RuntimeInv
<1>3. ret'[t] = ret[t] => Unmoved(t)
  BY <1>2, SameView
<1>4. stage[t] \notin {"check", "lookup"} => Unmoved(t)
  BY <1>1, <1>2 DEF ViewsOK, Unmoved
<1> QED
  BY <1>2, <1>3, <1>4, SameView

(* A step that does not write the registry adds nothing to the histories.  *)
LEMMA QuietHistory ==
  ASSUME RuntimeInv, NEW t \in Threads, RegistryStep(t), methods' = methods
  PROVE  seen' = seen
<1>1. seen' = [u \in Threads |->
                IF stage[u] # "idle" THEN seen[u] \cup {BindingIn(methods, req[u].method)}
                ELSE seen[u]]
  BY DEF RegistryStep, BindingIn
<1>2. \A u \in Threads : seen'[u] = seen[u]
  BY <1>1 DEF RuntimeInv, DispatchInv, HistoryInv
<1> QED
  BY <1>1, <1>2 DEF RuntimeInv, DispatchInv, DispatchTypeOK

LEMMA QuietStep ==
  ASSUME RuntimeInv, NEW t \in Threads, RegistryStep(t), methods' = methods,
         ret'[t] = ret[t] \/ stage[t] \notin {"check", "lookup"}
  PROVE  UNCHANGED OnAtomicRegistry!vars
<1>1. \A u \in Threads : Unmoved(u)
  BY OthersUnmoved
<1>2. seen' = seen /\ req' = req
  BY QuietHistory DEF RegistryStep
<1> QED
  BY <1>1, <1>2, AllUnmoved

(* A write of one entry, by a thread that is not in a lookup.              *)
LEMMA WriteSeen ==
  ASSUME RuntimeInv, NEW t \in Threads, RegistryStep(t), stage[t] \notin {"check", "lookup"},
         NEW n \in Names, NEW b \in Handlers \cup {Absent}, methods' = Store(methods, n, b)
  PROVE  OnAtomicRegistry!Bind(n, b)
<1>1. ViewsOK /\ ViewsOK'
  BY Views, PTL
<1>2. \A u \in Threads : Unmoved(u)
  BY OthersUnmoved
<1>3. StageSeen' = StageSeen /\ HandlerSeen' = HandlerSeen /\ ResponseSeen' = ResponseSeen
  BY <1>1, <1>2 DEF ViewsOK, Unmoved
<1>4. methods' = [methods EXCEPT ![n] = b]
  BY DEF Store, RuntimeInv, IInv, TypeOK, Maps
<1>5. \A u \in Threads : StageSeen[u] # "idle" <=> stage[u] # "idle"
  BY DEF StageSeen, Knows
<1>6. /\ BindingIn(methods', n) = b
      /\ \A k : k # n => BindingIn(methods', k) = BindingIn(methods, k)
  BY <1>4 DEF BindingIn, Bound, RuntimeInv, IInv, TypeOK, Maps
<1>7. seen' = [u \in Threads |->
                IF stage[u] # "idle" THEN seen[u] \cup {BindingIn(methods', req[u].method)}
                ELSE seen[u]]
  BY DEF RegistryStep, BindingIn
<1>8. \A u \in Threads : stage[u] # "idle" => BindingIn(methods, req[u].method) \in seen[u]
  BY DEF RuntimeInv, DispatchInv, HistoryInv
<1>9. \A u \in Threads :
        seen'[u] = IF stage[u] # "idle" /\ req[u].method = n THEN seen[u] \cup {b} ELSE seen[u]
  BY <1>6, <1>7, <1>8
<1>10. seen' = [u \in Threads |->
                 IF StageSeen[u] # "idle" /\ req[u].method = n THEN seen[u] \cup {b}
                 ELSE seen[u]]
  BY <1>5, <1>7, <1>9
<1> QED
  BY <1>3, <1>4, <1>10 DEF OnAtomicRegistry!Bind, RegistryStep

(* Which operations dispatch() itself waits for.                           *)
LEMMA WaitsForLookup ==
  ASSUME RuntimeInv, NEW t \in Threads, pc[t] # "idle"
  PROVE  /\ stage[t] = "check" => /\ call[t].op = "hasMethod"
                                  /\ call[t].name = req[t].method
                                  /\ req[t].method # EmptyName
         /\ stage[t] = "lookup" => /\ call[t].op = "getHandler"
                                   /\ call[t].name = req[t].method
                                   /\ req[t].method # EmptyName
<1>1. /\ stage[t] = "check" => /\ call[t] = LookupCall("hasMethod", req[t].method)
                               /\ req[t].method # EmptyName
      /\ stage[t] = "lookup" => /\ call[t] = LookupCall("getHandler", req[t].method)
                                /\ req[t].method # EmptyName
  BY DEF RuntimeInv, DispatchInv, CallInv
<1>2. \A op, n : LookupCall(op, n).op = op /\ LookupCall(op, n).name = n
  BY DEF LookupCall
<1> QED
  BY <1>1, <1>2

(* The steps that every operation has, and the operations that dispatch()  *)
(* does not call and that only read.                                       *)
LEMMA ReadsUnseen ==
  ASSUME RuntimeInv, NEW t \in Threads, RegistryStep(t),
         \/ RejectArguments(t) \/ AcceptArguments(t) \/ Lock(t) \/ Find(t) \/ Unlock(t)
         \/ KeepExisting(t) \/ EndOfList(t) \/ Size(t) \/ \E n \in Names : PushName(t, n)
  PROVE  UNCHANGED OnAtomicRegistry!vars
<1>1. methods' = methods
  BY DEF RejectArguments, AcceptArguments, Lock, Find, Unlock, KeepExisting, EndOfList, Size,
         PushName, Finish
<1>2. CASE \/ AcceptArguments(t) \/ Lock(t) \/ Find(t) \/ Unlock(t)
           \/ \E n \in Names : PushName(t, n)
  <2>1. ret' = ret
    BY <1>2 DEF AcceptArguments, Lock, Find, Unlock, PushName
  <2> QED
    BY <1>1, <2>1, QuietStep
<1>3. CASE RejectArguments(t) \/ KeepExisting(t) \/ EndOfList(t) \/ Size(t)
  <2>1. pc[t] # "idle"
    BY <1>3 DEF RejectArguments, KeepExisting, EndOfList, Size, Finish, Goto
  <2>2. call[t].op \in {"registerMethod", "listMethods", "size"}
    BY <1>3 DEF RejectArguments, KeepExisting, EndOfList, Size, Finish, Goto, RuntimeInv,
                IInv, PlaceInv
  <2>3. stage[t] \notin {"check", "lookup"}
    BY <2>1, <2>2, WaitsForLookup
  <2> QED
    BY <1>1, <2>3, QuietStep
<1> QED
  BY <1>2, <1>3

LEMMA WritesSeen ==
  ASSUME RuntimeInv, NEW t \in Threads, RegistryStep(t),
         Overwrite(t) \/ Emplace(t) \/ Erase(t)
  PROVE  [OnAtomicRegistry!Environment]_(OnAtomicRegistry!vars)
<1> DEFINE c == call[t]
<1>1. pc[t] # "idle" /\ c.op \in {"registerMethod", "unregisterMethod"}
  BY DEF Overwrite, Emplace, Erase, Finish, Goto
<1>2. stage[t] \notin {"check", "lookup"}
  BY <1>1, WaitsForLookup
<1>3. c \in Calls
  BY <1>1 DEF RuntimeInv, IInv, PlaceInv
<1>4. CASE Overwrite(t) \/ Emplace(t)
  <2>1. pc[t] \in {"found", "missing"} /\ c.op = "registerMethod"
    BY <1>4 DEF Overwrite, Emplace, Finish, Goto
  <2>2. c.name \in Names /\ c.handler \in Handlers
    BY <1>3, <2>1, CallFields DEF RuntimeInv, IInv, PlaceInv, ValidArguments
  <2>3. methods' = Store(methods, c.name, c.handler)
    BY <1>4 DEF Overwrite, Emplace, Finish, Goto, RuntimeInv, IInv, IteratorsValid
  <2>4. OnAtomicRegistry!Bind(c.name, c.handler)
    BY <1>2, <2>2, <2>3, WriteSeen
  <2>5. OnAtomicRegistry!RegisterMethod(c.name, c.handler, TRUE)
    BY <2>4 DEF OnAtomicRegistry!RegisterMethod
  <2> QED
    BY <2>2, <2>5 DEF OnAtomicRegistry!Environment
<1>5. CASE Erase(t)
  <2>1. methods' = Store(methods, c.name, Absent)
    BY <1>5 DEF Erase, Finish
  <2>2. CASE c.name \in Names
    <3>1. OnAtomicRegistry!Bind(c.name, Absent)
      BY <1>2, <2>1, <2>2, WriteSeen
    <3> QED
      BY <2>2, <3>1 DEF OnAtomicRegistry!Environment, OnAtomicRegistry!UnregisterMethod
  <2>3. CASE c.name \notin Names
    <3>1. methods' = methods
      BY <2>1, <2>3 DEF Store, RuntimeInv, IInv, TypeOK, Maps
    <3> QED
      BY <1>2, <3>1, QuietStep
  <2> QED
    BY <2>2, <2>3
<1> QED
  BY <1>4, <1>5

(* hasMethod has looked: this is the instant dispatch() checks the name.   *)
LEMMA HasMethodSeen ==
  ASSUME RuntimeInv, NEW t \in Threads, RegistryStep(t), HasMethod(t)
  PROVE  \/ OnAtomicRegistry!HasMethod(t)
         \/ OnAtomicRegistry!MethodNotFound(t)
         \/ UNCHANGED OnAtomicRegistry!vars
<1> DEFINE n == req[t].method
<1>1. /\ pc[t] = "locked" /\ call[t].op = "hasMethod"
      /\ methods' = methods
      /\ ret'[t] = Returned(Bound(methods, call[t].name))
  BY DEF HasMethod, Finish, Goto, RuntimeInv, IInv, PlaceInv
<1>2. UNCHANGED <<stage, req, handler, res, seen>>
  BY <1>1, QuietHistory DEF RegistryStep
<1>3. CASE stage[t] = "check"
  <2>1. call[t].name = n /\ n # EmptyName
    BY <1>1, <1>3, WaitsForLookup
  <2>2. ViewsOK /\ ViewsOK'
    BY Views, PTL
  <2>3. ret[t] = Pending
    BY <1>1, ResultsOfLookups DEF RuntimeInv, DispatchInv
  <2>4. StageSeen[t] = "check" /\ HandlerSeen[t] = handler[t] /\ ResponseSeen[t] = res[t]
    BY <1>3, <2>2, <2>3 DEF ViewsOK
  <2>5. \A u \in Threads \ {t} : Unmoved(u)
    BY OthersUnmoved
  <2>6. CASE Bound(methods, n)
    <3>1. ret'[t] = Returned(TRUE)
      BY <1>1, <2>1, <2>6
    <3>2. StageSeen'[t] = "lookup" /\ HandlerSeen'[t] = handler[t] /\ ResponseSeen'[t] = res[t]
      BY <1>2, <1>3, <2>2, <3>1 DEF ViewsOK
    <3>3. /\ StageSeen' = [StageSeen EXCEPT ![t] = "lookup"]
          /\ HandlerSeen' = HandlerSeen
          /\ ResponseSeen' = ResponseSeen
      BY <2>2, <2>4, <2>5, <3>2 DEF ViewsOK, Unmoved
    <3>4. OnAtomicRegistry!Binding(n) # Absent
      BY <2>6 DEF Bound, OnAtomicRegistry!Binding
    <3> QED
      BY <1>1, <1>2, <2>1, <2>4, <3>3, <3>4 DEF OnAtomicRegistry!HasMethod
  <2>7. CASE ~Bound(methods, n)
    <3>1. ret'[t] = Returned(FALSE)
      BY <1>1, <2>1, <2>7 DEF Bound
    <3>2. /\ StageSeen'[t] = "done" /\ HandlerSeen'[t] = handler[t]
          /\ ResponseSeen'[t] = OwnError("MethodNotFound", req[t].id)
      BY <1>2, <1>3, <2>2, <3>1 DEF ViewsOK
    <3>3. OnAtomicRegistry!Reply(t, "check", <<"none">>, <<"own", "MethodNotFound">>)
      BY <1>1, <1>2, <2>4, <2>5, <3>2, ReplySeen DEF OwnError
    <3>4. OnAtomicRegistry!Binding(n) = Absent
      BY <2>7 DEF Bound, OnAtomicRegistry!Binding
    <3> QED
      BY <2>1, <3>3, <3>4
         DEF OnAtomicRegistry!MethodNotFound, OnAtomicRegistry!NoResult, OnAtomicRegistry!Own
  <2> QED
    BY <2>6, <2>7
<1>4. CASE stage[t] # "check"
  <2>1. stage[t] # "lookup"
    BY <1>1, WaitsForLookup
  <2> QED
    BY <1>1, <1>4, <2>1, QuietStep
<1> QED
  BY <1>3, <1>4

(* getHandler has copied the handler or found it gone.                     *)
LEMMA GetHandlerSeen ==
  ASSUME RuntimeInv, NEW t \in Threads, RegistryStep(t), CopyHandler(t) \/ ThrowMissing(t)
  PROVE  \/ OnAtomicRegistry!GetHandler(t)
         \/ OnAtomicRegistry!MethodGone(t)
         \/ UNCHANGED OnAtomicRegistry!vars
<1> DEFINE n == req[t].method
<1>1. /\ pc[t] \in {"found", "missing"} /\ call[t].op = "getHandler"
      /\ methods' = methods
      /\ CopyHandler(t) => pc[t] = "found" /\ ret'[t] = Returned(methods[call[t].name])
      /\ ThrowMissing(t) => pc[t] = "missing" /\ ret'[t] = Threw("runtime_error")
  BY DEF CopyHandler, ThrowMissing, Finish, Goto, RuntimeInv, IInv, PlaceInv
<1>2. UNCHANGED <<stage, req, handler, res, seen>>
  BY <1>1, QuietHistory DEF RegistryStep
<1>3. CASE stage[t] = "lookup"
  <2>1. call[t].name = n /\ n # EmptyName
    BY <1>1, <1>3, WaitsForLookup
  <2>2. ViewsOK /\ ViewsOK'
    BY Views, PTL
  <2>3. ret[t] = Pending
    BY <1>1, ResultsOfLookups DEF RuntimeInv, DispatchInv
  <2>4. StageSeen[t] = "lookup" /\ HandlerSeen[t] = handler[t] /\ ResponseSeen[t] = res[t]
    BY <1>3, <2>2, <2>3 DEF ViewsOK
  <2>5. \A u \in Threads \ {t} : Unmoved(u)
    BY OthersUnmoved
  <2>6. CASE CopyHandler(t)
    <3>1. n \in Names /\ methods[n] # Absent /\ methods[n] \in Handlers
      BY <1>1, <2>1, <2>6 DEF RuntimeInv, IInv, TypeOK, Maps, IteratorsValid, Bound
    <3>2. ret'[t] = Returned(methods[n])
      BY <1>1, <2>1, <2>6
    <3>3. /\ StageSeen'[t] = "run" /\ HandlerSeen'[t] = methods[n]
          /\ ResponseSeen'[t] = res[t]
      BY <1>2, <1>3, <2>2, <3>1, <3>2 DEF ViewsOK
    <3>4. /\ StageSeen' = [StageSeen EXCEPT ![t] = "run"]
          /\ HandlerSeen' = [HandlerSeen EXCEPT ![t] = methods[n]]
          /\ ResponseSeen' = ResponseSeen
      BY <2>2, <2>4, <2>5, <3>3 DEF ViewsOK, Unmoved
    <3>5. OnAtomicRegistry!Binding(n) = methods[n]
      BY <3>1 DEF OnAtomicRegistry!Binding
    <3> QED
      BY <1>1, <1>2, <2>4, <3>1, <3>4, <3>5 DEF OnAtomicRegistry!GetHandler
  <2>7. CASE ThrowMissing(t)
    <3>1. OnAtomicRegistry!Binding(n) = Absent
      BY <1>1, <2>1, <2>7 DEF RuntimeInv, IInv, IteratorsValid, Bound,
                              OnAtomicRegistry!Binding
    <3>2. ret'[t] = Threw("runtime_error")
      BY <1>1, <2>7
    <3>3. /\ StageSeen'[t] = "done" /\ HandlerSeen'[t] = handler[t]
          /\ ResponseSeen'[t] = OwnError("InternalError", req[t].id)
      BY <1>2, <1>3, <2>2, <3>2 DEF ViewsOK
    <3>4. OnAtomicRegistry!Reply(t, "lookup", <<"none">>, <<"own", "InternalError">>)
      BY <1>1, <1>2, <2>4, <2>5, <3>3, ReplySeen DEF OwnError
    <3> QED
      BY <3>1, <3>4
         DEF OnAtomicRegistry!MethodGone, OnAtomicRegistry!NoResult, OnAtomicRegistry!Own
  <2> QED
    BY <2>6, <2>7
<1>4. CASE stage[t] # "lookup"
  <2>1. stage[t] # "check"
    BY <1>1, WaitsForLookup
  <2> QED
    BY <1>1, <1>4, <2>1, QuietStep
<1> QED
  BY <1>3, <1>4

LEMMA RegistryStepSeen ==
  ASSUME RuntimeInv, NEW t \in Threads, RegistryStep(t)
  PROVE  [OnAtomicRegistry!Next]_(OnAtomicRegistry!vars)
<1>1. Step(t) /\ ~Return(t)
  BY DEF RegistryStep, Return, Goto
<1>2. CASE Overwrite(t) \/ Emplace(t) \/ Erase(t)
  BY <1>2, WritesSeen DEF OnAtomicRegistry!Next
<1>3. CASE HasMethod(t)
  BY <1>3, HasMethodSeen DEF OnAtomicRegistry!Next, OnAtomicRegistry!Step
<1>4. CASE CopyHandler(t) \/ ThrowMissing(t)
  BY <1>4, GetHandlerSeen DEF OnAtomicRegistry!Next, OnAtomicRegistry!Step
<1> QED
  BY <1>1, <1>2, <1>3, <1>4, ReadsUnseen DEF Step

-------------------------------------------------------------------------------
LEMMA RuntimeInitSeen == RuntimeInit => OnAtomicRegistry!Init
<1> SUFFICES ASSUME RuntimeInit
             PROVE  OnAtomicRegistry!Init
  OBVIOUS
<1>1. ViewsOK
  BY Views
<1>2. \A t \in Threads : StageSeen[t] = "idle" /\ HandlerSeen[t] = Absent
                         /\ ResponseSeen[t] = NoResponse
  BY <1>1 DEF ViewsOK, RuntimeInit, Init
<1>3. /\ StageSeen = [t \in Threads |-> "idle"]
      /\ HandlerSeen = [t \in Threads |-> Absent]
      /\ ResponseSeen = [t \in Threads |-> NoResponse]
  BY <1>1, <1>2 DEF ViewsOK
<1>4. /\ OnAtomicRegistry!NoResponse = NoResponse
      /\ OnAtomicRegistry!NoRequest = NoRequest
  BY DEF OnAtomicRegistry!NoResponse, NoResponse, Response, OnAtomicRegistry!NoResult,
         OnAtomicRegistry!NoError, OnAtomicRegistry!NoRequest, NoRequest
<1> QED
  BY <1>3, <1>4 DEF RuntimeInit, Init, OnAtomicRegistry!Init

LEMMA RuntimeStepSeen ==
  ASSUME RuntimeInv, [RuntimeNext]_runtimeVars
  PROVE  [OnAtomicRegistry!Next]_(OnAtomicRegistry!vars)
<1>1. ASSUME NEW t \in Threads, ThreadStep(t)
      PROVE  [OnAtomicRegistry!Next]_(OnAtomicRegistry!vars)
  <2>1. CASE EmptyMethod(t)
    BY <2>1, EmptyMethodSeen DEF OnAtomicRegistry!Next, OnAtomicRegistry!Step
  <2>2. CASE CallHasMethod(t) \/ CallGetHandler(t)
    BY <2>2, CallsUnseen
  <2>3. CASE HasMethodReturns(t) \/ GetHandlerReturns(t) \/ DirectReturn(t)
    BY <2>3, ReturnsUnseen
  <2>4. CASE HandlerEnds(t)
    BY <2>4, HandlerEndsSeen DEF OnAtomicRegistry!Next, OnAtomicRegistry!Step
  <2>5. CASE RegistryStep(t)
    BY <2>5, RegistryStepSeen
  <2> QED
    BY <1>1, <2>1, <2>2, <2>3, <2>4, <2>5 DEF ThreadStep
<1>2. ASSUME NEW t \in Threads, DispatchReturns(t)
      PROVE  OnAtomicRegistry!Next
  BY <1>2, ReturnSeen DEF OnAtomicRegistry!Next, OnAtomicRegistry!Step
<1>3. ASSUME NEW t \in Threads, NEW r \in Requests, Dispatch(t, r)
      PROVE  OnAtomicRegistry!Next
  BY <1>3, DispatchSeen DEF OnAtomicRegistry!Next, OnAtomicRegistry!Requests, Requests
<1>4. ASSUME NEW t \in Threads, NEW c \in Uses, DirectCall(t, c) \/ HandlerCalls(t, c)
      PROVE  UNCHANGED OnAtomicRegistry!vars
  BY <1>4, CallsUnseen
<1>5. CASE UNCHANGED runtimeVars
  <2>1. UNCHANGED <<methods, ret, stage, req, handler, res, seen>>
    BY <1>5 DEF runtimeVars, registryVars, vars, dispatchVars
  <2> QED
    BY <2>1, SameView, AllUnmoved
<1> QED
  BY <1>1, <1>2, <1>3, <1>4, <1>5 DEF RuntimeNext

(* dispatch() with its two calls of a locked registry answers as it does   *)
(* when hasMethod and getHandler are each one indivisible step, whatever   *)
(* the other threads and the handlers do with the registry meanwhile       *)
(* (dispatcher.cpp:22, 31).                                                *)
THEOREM RuntimeRefinement == RuntimeSpec => DispatchesAtomically
BY RuntimeInitSeen, RuntimeStepSeen, RuntimeInvariance, PTL
   DEF RuntimeSpec, DispatchesAtomically, OnAtomicRegistry!Spec

-------------------------------------------------------------------------------
(* The theorems about Dispatcher, for the dispatcher that callers see.     *)
Seen ==
  INSTANCE DispatcherProofs WITH
    Workers <- Threads, pc <- StageSeen, handler <- HandlerSeen, res <- ResponseSeen

(* The two instances of Dispatcher are one.                                *)
LEMMA SameInit == OnAtomicRegistry!Init => Seen!Init
BY DEF OnAtomicRegistry!Init, Seen!Init, OnAtomicRegistry!NoResponse, Seen!NoResponse,
       OnAtomicRegistry!NoResult, Seen!NoResult, OnAtomicRegistry!NoError, Seen!NoError,
       OnAtomicRegistry!NoRequest, Seen!NoRequest

LEMMA SameStep ==
  ASSUME [OnAtomicRegistry!Next]_(OnAtomicRegistry!vars)
  PROVE  [Seen!Next]_(Seen!vars)
<1>1. /\ OnAtomicRegistry!NoResult = Seen!NoResult /\ OnAtomicRegistry!NoError = Seen!NoError
      /\ \A c : OnAtomicRegistry!Own(c) = Seen!Own(c)
      /\ \A h : /\ OnAtomicRegistry!ValueOf(h) = Seen!ValueOf(h)
                /\ OnAtomicRegistry!Unhandled(h) = Seen!Unhandled(h)
      /\ \A h, c : OnAtomicRegistry!Thrown(h, c) = Seen!Thrown(h, c)
      /\ \A n : OnAtomicRegistry!Binding(n) = Seen!Binding(n)
  BY DEF OnAtomicRegistry!NoResult, Seen!NoResult, OnAtomicRegistry!NoError, Seen!NoError,
         OnAtomicRegistry!Own, Seen!Own, OnAtomicRegistry!ValueOf, Seen!ValueOf,
         OnAtomicRegistry!Unhandled, Seen!Unhandled, OnAtomicRegistry!Thrown, Seen!Thrown,
         OnAtomicRegistry!Binding, Seen!Binding
<1>2. ASSUME NEW w, NEW at, NEW result, NEW error, OnAtomicRegistry!Reply(w, at, result, error)
      PROVE  Seen!Reply(w, at, result, error)
  BY <1>2 DEF OnAtomicRegistry!Reply, Seen!Reply
<1>3. ASSUME NEW w \in Threads, OnAtomicRegistry!Step(w)
      PROVE  Seen!Step(w)
  <2>1. CASE OnAtomicRegistry!EmptyMethod(w)
    <3>1. Seen!EmptyMethod(w)
      BY <1>1, <1>2, <2>1 DEF OnAtomicRegistry!EmptyMethod, Seen!EmptyMethod
    <3> QED
      BY <3>1 DEF Seen!Step
  <2>2. CASE OnAtomicRegistry!HasMethod(w)
    <3>1. Seen!HasMethod(w)
      BY <1>1, <2>2 DEF OnAtomicRegistry!HasMethod, Seen!HasMethod
    <3> QED
      BY <3>1 DEF Seen!Step
  <2>3. CASE OnAtomicRegistry!MethodNotFound(w)
    <3>1. Seen!MethodNotFound(w)
      BY <1>1, <1>2, <2>3 DEF OnAtomicRegistry!MethodNotFound, Seen!MethodNotFound
    <3> QED
      BY <3>1 DEF Seen!Step
  <2>4. CASE OnAtomicRegistry!GetHandler(w)
    <3>1. Seen!GetHandler(w)
      BY <1>1, <2>4 DEF OnAtomicRegistry!GetHandler, Seen!GetHandler
    <3> QED
      BY <3>1 DEF Seen!Step
  <2>5. CASE OnAtomicRegistry!MethodGone(w)
    <3>1. Seen!MethodGone(w)
      BY <1>1, <1>2, <2>5 DEF OnAtomicRegistry!MethodGone, Seen!MethodGone
    <3> QED
      BY <3>1 DEF Seen!Step
  <2>6. CASE OnAtomicRegistry!HandlerReturns(w)
    <3>1. Seen!HandlerReturns(w)
      BY <1>1, <1>2, <2>6 DEF OnAtomicRegistry!HandlerReturns, Seen!HandlerReturns
    <3> QED
      BY <3>1 DEF Seen!Step
  <2>7. ASSUME NEW c \in Codes, OnAtomicRegistry!HandlerThrowsRpcError(w, c)
        PROVE  Seen!Step(w)
    <3>1. Seen!HandlerThrowsRpcError(w, c)
      BY <1>1, <1>2, <2>7
         DEF OnAtomicRegistry!HandlerThrowsRpcError, Seen!HandlerThrowsRpcError
    <3> QED
      BY <3>1 DEF Seen!Step
  <2>8. CASE OnAtomicRegistry!HandlerThrows(w)
    <3>1. Seen!HandlerThrows(w)
      BY <1>1, <1>2, <2>8 DEF OnAtomicRegistry!HandlerThrows, Seen!HandlerThrows
    <3> QED
      BY <3>1 DEF Seen!Step
  <2>9. CASE OnAtomicRegistry!Return(w)
    <3>1. Seen!Return(w)
      BY <1>1, <2>9
         DEF OnAtomicRegistry!Return, Seen!Return, OnAtomicRegistry!NoRequest, Seen!NoRequest,
             OnAtomicRegistry!NoResponse, Seen!NoResponse
    <3> QED
      BY <3>1 DEF Seen!Step
  <2> QED
    BY <1>3, <2>1, <2>2, <2>3, <2>4, <2>5, <2>6, <2>7, <2>8, <2>9 DEF OnAtomicRegistry!Step
<1>4. ASSUME NEW w \in Threads, NEW r \in OnAtomicRegistry!Requests, OnAtomicRegistry!Dispatch(w, r)
      PROVE  Seen!Dispatch(w, r) /\ r \in Seen!Requests
  BY <1>1, <1>4
     DEF OnAtomicRegistry!Dispatch, Seen!Dispatch, OnAtomicRegistry!Requests, Seen!Requests
<1>5. CASE OnAtomicRegistry!Environment
  <2>1. \A n, b : OnAtomicRegistry!Bind(n, b) => Seen!Bind(n, b)
    BY DEF OnAtomicRegistry!Bind, Seen!Bind
  <2> QED
    BY <1>5, <2>1
       DEF OnAtomicRegistry!Environment, Seen!Environment,
           OnAtomicRegistry!UnregisterMethod, Seen!UnregisterMethod,
           OnAtomicRegistry!RegisterMethod, Seen!RegisterMethod, Seen!Next
<1>6. CASE UNCHANGED OnAtomicRegistry!vars
  BY <1>6 DEF OnAtomicRegistry!vars, Seen!vars
<1> QED
  BY <1>3, <1>4, <1>5, <1>6 DEF OnAtomicRegistry!Next, Seen!Next

LEMMA SeenAnswers ==
  RuntimeSpec => [](/\ Seen!AnswerIsValid /\ Seen!HandlerWasRegistered
                    /\ Seen!NotFoundWasMissing /\ Seen!OwnErrorMeansChange)
<1>1. Seen!DispatcherAssumption
  BY RegistryAssumption, RuntimeAssumption DEF Seen!DispatcherAssumption
<1>2. RuntimeSpec => Seen!Spec
  BY RuntimeInitSeen, RuntimeStepSeen, SameInit, SameStep, RuntimeInvariance, PTL
     DEF RuntimeSpec, Seen!Spec
<1>3. /\ Seen!Spec => []Seen!AnswerIsValid
      /\ Seen!Spec => []Seen!HandlerWasRegistered
      /\ Seen!Spec => []Seen!NotFoundWasMissing
      /\ Seen!Spec => []Seen!OwnErrorMeansChange
  BY <1>1, Seen!ValidAnswers, Seen!RightHandler, Seen!HonestNotFound, Seen!OwnErrors
<1> QED
  BY <1>2, <1>3, PTL

(* The same, of the response dispatch() has built when it returns: it has  *)
(* a result or an error, and the id of its request; the handler that gave  *)
(* it was registered under the requested name in the meantime; "Method not *)
(* found" is said of a name that was missing, and an InternalError of      *)
(* dispatch() itself means that the entry went away under it.              *)
AnswersAreRight ==
  \A t \in Threads : stage[t] = "done" =>
    /\ res[t].result = <<"none">> <=> res[t].error # <<"none">>
    /\ res[t].id = req[t].id
    /\ \A h \in Handlers :
         \/ res[t].result = <<"value", h>>
         \/ res[t].error = <<"unhandled", h>>
         \/ \E c \in Codes : res[t].error = <<"thrown", h, c>>
         => h \in seen[t]
    /\ res[t].error = <<"own", "MethodNotFound">> => Absent \in seen[t]
    /\ res[t].error = <<"own", "InternalError">> =>
         Absent \in seen[t] /\ seen[t] \cap Handlers # {}

(* On the registry as it is implemented, with other threads and handlers   *)
(* changing it between the two lookups, dispatch() returns nothing but     *)
(* right answers (dispatcher.cpp:13-57).                                   *)
THEOREM AnswersOverLockedRegistry == RuntimeSpec => []AnswersAreRight
<1>1. ASSUME RuntimeInv, Seen!AnswerIsValid, Seen!HandlerWasRegistered,
             Seen!NotFoundWasMissing, Seen!OwnErrorMeansChange
      PROVE  AnswersAreRight
  <2> SUFFICES ASSUME NEW t \in Threads, stage[t] = "done"
               PROVE  AnswersAreRight!(t)!2
    BY DEF AnswersAreRight
  <2>1. StageSeen[t] = "done" /\ ResponseSeen[t] = res[t]
    BY Views DEF ViewsOK
  <2>2. /\ res[t].result = <<"none">> <=> res[t].error # <<"none">>
        /\ res[t].id = req[t].id
    BY <1>1, <2>1 DEF Seen!AnswerIsValid, Seen!NoResult, Seen!NoError
  <2>3. ASSUME NEW h \in Handlers,
               \/ res[t].result = <<"value", h>>
               \/ res[t].error = <<"unhandled", h>>
               \/ \E c \in Codes : res[t].error = <<"thrown", h, c>>
        PROVE  h \in seen[t]
    BY <1>1, <2>1, <2>3
       DEF Seen!HandlerWasRegistered, Seen!ValueOf, Seen!Unhandled, Seen!Thrown
  <2>4. res[t].error = <<"own", "MethodNotFound">> => Absent \in seen[t]
    BY <1>1, <2>1 DEF Seen!NotFoundWasMissing, Seen!Own
  <2>5. res[t].error = <<"own", "InternalError">> =>
          Absent \in seen[t] /\ seen[t] \cap Handlers # {}
    BY <1>1, <2>1 DEF Seen!OwnErrorMeansChange, Seen!Own
  <2> QED
    BY <2>2, <2>3, <2>4, <2>5
<1> QED
  BY <1>1, SeenAnswers, RuntimeInvariance, PTL
===============================================================================
