----------------------------- MODULE PrivateValues -----------------------------
(***************************************************************************)
(* What threads that hold copies of one skitter::core::Value may count on: *)
(* every thread has an array of its own, and a write is one step that no   *)
(* other thread sees.  CowThreads.tla is the implementation.               *)
(***************************************************************************)
CONSTANTS
  Threads,
  Slots,    \* the indices of an array
  Numbers,  \* what threads write
  Initial,  \* what a new array holds
  Nothing   \* no array

VARIABLE value  \* value[t]: the array of thread t

Init == value = [t \in Threads |-> Nothing]

Create(t) ==
  /\ value[t] = Nothing
  /\ value' = [value EXCEPT ![t] = [s \in Slots |-> Initial]]

Give(t, u) ==
  /\ value[t] # Nothing /\ value[u] = Nothing
  /\ value' = [value EXCEPT ![u] = value[t]]

Drop(t) == value' = [value EXCEPT ![t] = Nothing]

Write(t, s, n) ==
  /\ value[t] # Nothing
  /\ value' = [value EXCEPT ![t][s] = n]

Next ==
  \E t \in Threads :
    \/ Create(t)
    \/ Drop(t)
    \/ \E u \in Threads : Give(t, u)
    \/ \E s \in Slots, n \in Numbers : Write(t, s, n)

Spec == Init /\ [][Next]_value
===============================================================================
