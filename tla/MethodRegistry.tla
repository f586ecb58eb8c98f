---------------------------- MODULE MethodRegistry ----------------------------
(***************************************************************************)
(* skitter::registry::MethodRegistry as src/registry/method_registry.cpp   *)
(* implements it: an unordered_map guarded by one std::mutex that every    *)
(* operation takes with a lock_guard.  The reads and the writes inside a   *)
(* critical section are steps of their own, so that another thread could   *)
(* come between them if the mutex let it: an iterator returned by find is  *)
(* used in a later step, and listMethods reads the map entry by entry.     *)
(*                                                                         *)
(* pc[t], the place of thread t:                                           *)
(*   idle      outside the registry                                        *)
(*   validate  in registerMethod, before the lock_guard                    *)
(*   lock      waiting for mutex_                                          *)
(*   locked    mutex_ taken, methods_ not read yet (or being listed)       *)
(*   found     holding an iterator to the entry of call[t].name            *)
(*   missing   find returned end()                                         *)
(*   unlock    result computed, the lock_guard not destroyed yet           *)
(*   return    outside the critical section, result not delivered yet      *)
(***************************************************************************)
EXTENDS RegistryInterface

CONSTANT NoThread  \* the owner of a free mutex
ASSUME NoThreadAssumption == NoThread \notin Threads

VARIABLES
  methods,  \* methods_
  mutex,    \* the owner of mutex_
  pc,
  call,     \* call[t]: the operation t is executing, with its arguments
  ret,      \* ret[t]: its result, once computed
  out       \* out[t]: the vector listMethods is filling

vars == <<methods, mutex, pc, call, ret, out>>

Init ==
  /\ methods = [n \in Names |-> Absent]
  /\ mutex = NoThread
  /\ pc = [t \in Threads |-> "idle"]
  /\ call = [t \in Threads |-> NoCall]
  /\ ret = [t \in Threads |-> Pending]
  /\ out = [t \in Threads |-> {}]

-------------------------------------------------------------------------------
Goto(t, from, to) ==
  /\ pc[t] = from
  /\ pc' = [pc EXCEPT ![t] = to]

Invoke(t, c) ==
  /\ Goto(t, "idle", IF c.op = "registerMethod" THEN "validate" ELSE "lock")
  /\ call' = [call EXCEPT ![t] = c]
  /\ UNCHANGED <<methods, mutex, ret, out>>

(* registerMethod throws before it takes the lock. *)
RejectArguments(t) ==
  /\ ~ValidArguments(call[t])
  /\ Goto(t, "validate", "return")
  /\ ret' = [ret EXCEPT ![t] = Threw("invalid_argument")]
  /\ UNCHANGED <<methods, mutex, call, out>>

(* Mutant of AcceptArguments: the arguments are not validated. *)
AcceptAnyArguments(t) ==
  /\ Goto(t, "validate", "lock")
  /\ UNCHANGED <<methods, mutex, call, ret, out>>

AcceptArguments(t) ==
  /\ ValidArguments(call[t])
  /\ Goto(t, "validate", "lock")
  /\ UNCHANGED <<methods, mutex, call, ret, out>>

(* Mutants of Lock: no operation locks; unregisterMethod does not lock. *)
LockNothing(t) ==
  /\ Goto(t, "lock", "locked")
  /\ mutex' = t
  /\ UNCHANGED <<methods, call, ret, out>>

LockNotInUnregister(t) ==
  /\ mutex = NoThread \/ call[t].op = "unregisterMethod"
  /\ Goto(t, "lock", "locked")
  /\ mutex' = t
  /\ UNCHANGED <<methods, call, ret, out>>

(* The constructor of lock_guard blocks until mutex_ is free. *)
Lock(t) ==
  /\ mutex = NoThread
  /\ Goto(t, "lock", "locked")
  /\ mutex' = t
  /\ UNCHANGED <<methods, call, ret, out>>

(* auto it = methods_.find(name) *)
Find(t) ==
  /\ call[t].op \in {"registerMethod", "getHandler"}
  /\ Goto(t, "locked", IF Bound(methods, call[t].name) THEN "found" ELSE "missing")
  /\ UNCHANGED <<methods, mutex, call, ret, out>>

(* t's operation op is at pc "at"; it leaves the map as m and its result is r. *)
Finish(t, op, at, m, r) ==
  /\ call[t].op = op
  /\ Goto(t, at, "unlock")
  /\ methods' = m
  /\ ret' = [ret EXCEPT ![t] = r]
  /\ UNCHANGED <<mutex, call, out>>

KeepExisting(t) ==
  /\ ~call[t].allowOverwrite
  /\ Finish(t, "registerMethod", "found", methods, Returned(FALSE))

(* it->second = std::move(handler) *)
Overwrite(t) ==
  LET c == call[t] IN
  /\ c.allowOverwrite
  /\ Finish(t, "registerMethod", "found", Store(methods, c.name, c.handler), Returned(TRUE))

(* methods_.emplace(name, handler) leaves an existing entry alone, and its *)
(* own result is not looked at.                                            *)
Emplace(t) ==
  LET c == call[t] IN
  Finish(t, "registerMethod", "missing",
         IF Bound(methods, c.name) THEN methods ELSE Store(methods, c.name, c.handler),
         Returned(TRUE))

HasMethod(t) ==
  Finish(t, "hasMethod", "locked", methods, Returned(Bound(methods, call[t].name)))

(* return it->second *)
CopyHandler(t) ==
  Finish(t, "getHandler", "found", methods, Returned(methods[call[t].name]))

(* Mutant of ThrowMissing: the exception leaves the mutex locked. *)
ThrowWithoutUnlock(t) ==
  /\ call[t].op = "getHandler"
  /\ Goto(t, "missing", "return")
  /\ ret' = [ret EXCEPT ![t] = Threw("runtime_error")]
  /\ UNCHANGED <<methods, mutex, call, out>>

ThrowMissing(t) ==
  Finish(t, "getHandler", "missing", methods, Threw("runtime_error"))

(* Mutant of Erase: methods_.erase(name) >= 0 *)
EraseSaysTrue(t) ==
  LET n == call[t].name IN
  Finish(t, "unregisterMethod", "locked", Store(methods, n, Absent), Returned(TRUE))

(* methods_.erase(name) > 0 *)
Erase(t) ==
  LET n == call[t].name IN
  Finish(t, "unregisterMethod", "locked", Store(methods, n, Absent), Returned(Bound(methods, n)))

(* One turn of the loop of listMethods: the order of an unordered_map is   *)
(* any order.                                                              *)
PushName(t, n) ==
  /\ call[t].op = "listMethods"
  /\ pc[t] = "locked"
  /\ n \in Registered(methods) \ out[t]
  /\ out' = [out EXCEPT ![t] = @ \cup {n}]
  /\ UNCHANGED <<methods, mutex, pc, call, ret>>

EndOfList(t) ==
  /\ Registered(methods) \subseteq out[t]
  /\ Finish(t, "listMethods", "locked", methods, Returned(out[t]))

Size(t) ==
  Finish(t, "size", "locked", methods, Returned(Cardinality(Registered(methods))))

(* Mutant of Unlock: the caller of getHandler is left with the mutex. *)
UnlockNotInGetHandler(t) ==
  /\ Goto(t, "unlock", "return")
  /\ mutex' = IF call[t].op = "getHandler" THEN mutex ELSE NoThread
  /\ UNCHANGED <<methods, call, ret, out>>

(* The lock_guard is destroyed, on the normal path and when getHandler     *)
(* throws.                                                                 *)
Unlock(t) ==
  /\ Goto(t, "unlock", "return")
  /\ mutex' = NoThread
  /\ UNCHANGED <<methods, call, ret, out>>

(* The caller has its result (or catches the exception) and moves on. *)
Return(t) ==
  /\ Goto(t, "return", "idle")
  /\ call' = [call EXCEPT ![t] = NoCall]
  /\ ret' = [ret EXCEPT ![t] = Pending]
  /\ out' = [out EXCEPT ![t] = {}]
  /\ UNCHANGED <<methods, mutex>>

-------------------------------------------------------------------------------
(* The steps of a call in progress. *)
Step(t) ==
  \/ RejectArguments(t)
  \/ AcceptArguments(t)
  \/ Lock(t)
  \/ Find(t)
  \/ KeepExisting(t)
  \/ Overwrite(t)
  \/ Emplace(t)
  \/ HasMethod(t)
  \/ CopyHandler(t)
  \/ ThrowMissing(t)
  \/ Erase(t)
  \/ \E n \in Names : PushName(t, n)
  \/ EndOfList(t)
  \/ Size(t)
  \/ Unlock(t)
  \/ Return(t)

Next == \E t \in Threads : Step(t) \/ \E c \in Calls : Invoke(t, c)

Spec == Init /\ [][Next]_vars

(* A thread that runs inside the registry keeps running: nothing in there  *)
(* blocks but the mutex.  std::mutex promises no fairness between waiters, *)
(* and threads are free not to call: there is no fairness on Invoke.       *)
FairSpec == Spec /\ \A t \in Threads : WF_vars(Step(t))

-------------------------------------------------------------------------------
Places == {"idle", "validate", "lock", "locked", "found", "missing", "unlock", "return"}

(* Types of the variables.  A handler that cannot be called never gets     *)
(* into methods_ ("Handler must be valid", method_registry.cpp:13).        *)
TypeOK ==
  /\ methods \in Maps
  /\ mutex \in Threads \cup {NoThread}
  /\ pc \in [Threads -> Places]
  /\ call \in [Threads -> Calls \cup {NoCall}]
  /\ \A t \in Threads : ret[t] = Pending \/ ResultOf(call[t], ret[t])
  /\ out \in [Threads -> SUBSET Names]

InCriticalSection(t) == pc[t] \in {"locked", "found", "missing", "unlock"}

(* Only the owner of mutex_ is inside a critical section: no two threads   *)
(* are ever in methods_ together, whatever operations they execute.        *)
MutualExclusion == \A t \in Threads : InCriticalSection(t) => mutex = t

(* The iterator a thread got from find is still right when it is used:     *)
(* the entry it points to has not been erased, and an entry it did not     *)
(* find has not been added by someone else (method_registry.cpp:17-24,     *)
(* 34-38).                                                                 *)
IteratorsValid ==
  \A t \in Threads :
    /\ pc[t] = "found"   => Bound(methods, call[t].name)
    /\ pc[t] = "missing" => ~Bound(methods, call[t].name)

(* While listMethods copies the names, every name it has copied is still   *)
(* registered: the list it returns is one snapshot of the registry.        *)
ListIsSnapshot ==
  \A t \in Threads : pc[t] = "locked" => out[t] \subseteq Registered(methods)

(* What the abstract registry sees: an operation has taken effect once its *)
(* result is known.                                                        *)
PhaseOf ==
  [t \in Threads |-> CASE pc[t] = "idle"                  -> "idle"
                       [] pc[t] \in {"unlock", "return"}  -> "done"
                       [] OTHER                           -> "called"]

Atomic == INSTANCE AtomicRegistry WITH phase <- PhaseOf

(* Every behaviour of the locked registry is one of the atomic registry:   *)
(* concurrent calls have the results they would have one after the other,  *)
(* in an order that respects when they were made ("Thread-safe method      *)
(* registration", README.md:26).                                           *)
Linearizable == Atomic!Spec

(* The mutex is never kept: whoever takes it gives it back, on every path  *)
(* including the exception of getHandler.                                  *)
LockIsReleased == \A t \in Threads : (mutex = t) ~> (mutex # t)
===============================================================================
