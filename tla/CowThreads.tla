------------------------------- MODULE CowThreads -------------------------------
(***************************************************************************)
(* Threads that hold copies of one array Value, as the handlers of two     *)
(* connections do that keep a Value they were given (src/core/value.cpp).  *)
(* The copies share a block and its reference count, which is atomic; a    *)
(* Value itself is used by its own thread only, a block has no lock, and   *)
(* ensureUniqueArray (ensureUniqueObject is the same) tests, clones and    *)
(* swaps in steps that other threads come between.  The items are scalars. *)
(*                                                                         *)
(* Steps interleave.  unique() is a relaxed load, so the C++ standard      *)
(* knows of no order between what another thread read before it let go of  *)
(* a block and what is written here after the count was seen to be 1; the  *)
(* decrement releases and the writes depend on the load, which is an order *)
(* on the machines there are.                                              *)
(*                                                                         *)
(* pc[t], the place of thread t:                                           *)
(*   idle     outside                                                      *)
(*   test     before ptr.unique()                                          *)
(*   clone    copying the items of the block                               *)
(*   swap     before the assignment to ptr                                 *)
(*   release  before the count of the old block goes down                  *)
(*   write    holding the reference asArray() has returned                 *)
(***************************************************************************)
EXTENDS Naturals, FiniteSets

CONSTANTS
  Threads,
  Blocks,   \* bound: the blocks the heap has room for
  MaxSlots, \* bound: the size of the array
  Numbers,  \* what threads write
  Initial,  \* what a new array holds
  Freed,    \* what a block holds that is not in use
  None      \* no block, and no array

ASSUME CowThreadsAssumption ==
  /\ IsFiniteSet(Threads)
  /\ MaxSlots \in Nat \ {0}
  /\ None \notin Blocks
  /\ Freed \notin Numbers \cup {Initial}
  /\ None \notin [1 .. MaxSlots -> Numbers \cup {Initial, Freed}]

VARIABLES
  block,   \* block[b]: the items of block b
  count,   \* count[b]: its reference count, 0 if it is free
  pc,
  to,      \* to[t]: the block the Value of thread t points to
  spare,   \* spare[t]: the other block ensureUniqueArray has a pointer to
  copied,  \* copied[t]: how many items have been copied into it
  goal     \* goal[t]: the slot and the number thread t writes

vars == <<block, count, pc, to, spare, copied, goal>>

-------------------------------------------------------------------------------
Slots == 1 .. MaxSlots
Items == Numbers \cup {Initial, Freed}
Goals == Slots \X Numbers
Array(i) == [s \in Slots |-> i]
NoGoal == <<0, Initial>>

Init ==
  /\ block = [b \in Blocks |-> Array(Freed)]
  /\ count = [b \in Blocks |-> 0]
  /\ pc = [t \in Threads |-> "idle"]
  /\ to = [t \in Threads |-> None]
  /\ spare = [t \in Threads |-> None]
  /\ copied = [t \in Threads |-> 0]
  /\ goal = [t \in Threads |-> NoGoal]

Goes(t, from, place) ==
  /\ pc[t] = from
  /\ pc' = [pc EXCEPT ![t] = place]

(* setArray, or the promotion of Null: make_shared *)
Create(t) ==
  /\ Goes(t, "idle", "idle")
  /\ to[t] = None
  /\ \E b \in Blocks :
       /\ count[b] = 0
       /\ count' = [count EXCEPT ![b] = 1]
       /\ block' = [block EXCEPT ![b] = Array(Initial)]
       /\ to' = [to EXCEPT ![t] = b]
  /\ UNCHANGED <<spare, copied, goal>>

(* Thread t copies its Value, and u takes the copy. *)
Give(t, u) ==
  /\ Goes(t, "idle", "idle")
  /\ pc[u] = "idle"
  /\ to[t] # None /\ to[u] = None
  /\ count' = [count EXCEPT ![to[t]] = @ + 1]
  /\ to' = [to EXCEPT ![u] = to[t]]
  /\ UNCHANGED <<block, spare, copied, goal>>

(* setNull or the destructor, up to the release of the block *)
Drop(t) ==
  /\ Goes(t, "idle", "release")
  /\ to[t] # None
  /\ spare' = [spare EXCEPT ![t] = to[t]]
  /\ to' = [to EXCEPT ![t] = None]
  /\ UNCHANGED <<block, count, copied, goal>>

(* asArray()[g[1]].setInt(g[2]) *)
BeginWrite(t, g) ==
  /\ Goes(t, "idle", "test")
  /\ to[t] # None
  /\ goal' = [goal EXCEPT ![t] = g]
  /\ UNCHANGED <<block, count, to, spare, copied>>

Unique(t) ==
  /\ Goes(t, "test", "write")
  /\ count[to[t]] = 1
  /\ UNCHANGED <<block, count, to, spare, copied, goal>>

(* Mutant of Shared: the pointer is given up before the items are copied. *)
SharedLetGo(t) ==
  /\ Goes(t, "test", "clone")
  /\ count[to[t]] # 1
  /\ \E b \in Blocks :
       /\ count[b] = 0
       /\ count' = [count EXCEPT ![b] = 1, ![to[t]] = @ - 1]
       /\ spare' = [spare EXCEPT ![t] = b]
  /\ copied' = [copied EXCEPT ![t] = 0]
  /\ UNCHANGED <<block, to, goal>>

(* The clone begins: make_shared of a copy of the array. *)
Shared(t) ==
  /\ Goes(t, "test", "clone")
  /\ count[to[t]] # 1
  /\ \E b \in Blocks :
       /\ count[b] = 0
       /\ count' = [count EXCEPT ![b] = 1]
       /\ spare' = [spare EXCEPT ![t] = b]
  /\ copied' = [copied EXCEPT ![t] = 0]
  /\ UNCHANGED <<block, to, goal>>

CopyItem(t) ==
  LET s == copied[t] + 1
  IN  /\ Goes(t, "clone", IF s = MaxSlots THEN "swap" ELSE "clone")
      /\ block' = [block EXCEPT ![spare[t]][s] = block[to[t]][s]]
      /\ copied' = [copied EXCEPT ![t] = s]
      /\ UNCHANGED <<count, to, spare, goal>>

(* The move assignment of a shared_ptr swaps, then lets the old block go. *)
Swap(t) ==
  /\ Goes(t, "swap", "release")
  /\ to' = [to EXCEPT ![t] = spare[t]]
  /\ spare' = [spare EXCEPT ![t] = to[t]]
  /\ UNCHANGED <<block, count, copied, goal>>

(* Mutant of Release: a block is freed by whoever finds it shared by one *)
(* other at most.                                                        *)
ReleaseEarly(t) ==
  /\ Goes(t, "release", IF to[t] = None THEN "idle" ELSE "write")
  /\ count' = [count EXCEPT ![spare[t]] = @ - 1]
  /\ block' = IF count[spare[t]] <= 2 THEN [block EXCEPT ![spare[t]] = Array(Freed)] ELSE block
  /\ spare' = [spare EXCEPT ![t] = None]
  /\ UNCHANGED <<to, copied, goal>>

(* The last pointer frees the block. *)
Release(t) ==
  /\ Goes(t, "release", IF to[t] = None THEN "idle" ELSE "write")
  /\ count' = [count EXCEPT ![spare[t]] = @ - 1]
  /\ block' = IF count[spare[t]] = 1 THEN [block EXCEPT ![spare[t]] = Array(Freed)] ELSE block
  /\ spare' = [spare EXCEPT ![t] = None]
  /\ UNCHANGED <<to, copied, goal>>

WriteItem(t) ==
  /\ Goes(t, "write", "idle")
  /\ block' = [block EXCEPT ![to[t]][goal[t][1]] = goal[t][2]]
  /\ goal' = [goal EXCEPT ![t] = NoGoal]
  /\ copied' = [copied EXCEPT ![t] = 0]
  /\ UNCHANGED <<count, to, spare>>

Next ==
  \E t \in Threads :
    \/ Create(t)
    \/ \E u \in Threads : Give(t, u)
    \/ Drop(t)
    \/ \E g \in Goals : BeginWrite(t, g)
    \/ Unique(t)
    \/ Shared(t)
    \/ CopyItem(t)
    \/ Swap(t)
    \/ Release(t)
    \/ WriteItem(t)

Spec == Init /\ [][Next]_vars

-------------------------------------------------------------------------------
TypeOK ==
  /\ block \in [Blocks -> [Slots -> Items]]
  /\ count \in [Blocks -> Nat]
  /\ pc \in [Threads -> {"idle", "test", "clone", "swap", "release", "write"}]
  /\ to \in [Threads -> Blocks \cup {None}]
  /\ spare \in [Threads -> Blocks \cup {None}]
  /\ copied \in [Threads -> 0 .. MaxSlots]
  /\ goal \in [Threads -> Goals \cup {NoGoal}]
  /\ \A t \in Threads : pc[t] \in {"clone", "swap"} => to[t] # None /\ spare[t] # None

(* A count is never lower than the pointers there are, when a thread lets  *)
(* go of a block while others clone it or let go of it too: no block is    *)
(* freed under a thread that uses it, and none is left that nobody points  *)
(* to (value.cpp:267-270).                                                 *)
CountIsExact ==
  \A b \in Blocks :
    count[b] = Cardinality({t \in Threads : to[t] = b}) + Cardinality({t \in Threads : spare[t] = b})

(* The heap is sound. *)
HeapOK == TypeOK /\ CountIsExact

(* While a thread writes into a block no other thread has a pointer to it, *)
(* to read it, to clone it or to write, however long ago the test for      *)
(* uniqueness was (value.cpp:268).                                         *)
WriterIsAlone ==
  \A t, u \in Threads :
    pc[t] = "write" /\ t # u => to[u] # to[t] /\ spare[u] # to[t]

(* Every thread has its array to itself: it finds what it wrote and never  *)
(* what another thread writes to its copy, and a clone has all items,      *)
(* whatever happens while it is made (value.cpp:261-271).                  *)
Private == INSTANCE PrivateValues WITH
  Nothing <- None,
  value <- [t \in Threads |-> IF to[t] = None THEN None ELSE block[to[t]]]

WritesArePrivate == Private!Spec
===============================================================================
