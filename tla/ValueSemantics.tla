---------------------------- MODULE ValueSemantics ----------------------------
(***************************************************************************)
(* What skitter::core::Value promises the programs that use it             *)
(* (include/skitr/core/value.h): a Value behaves like a value.  Copying    *)
(* one makes an independent copy, and an operation on a Value changes that *)
(* Value and no other, whatever was copied into or out of it.              *)
(* CowValue.tla is the implementation, which shares containers.            *)
(*                                                                         *)
(* A value is [type, to], a scalar, or [type, items], a container: items   *)
(* is a sequence for an array and a function from its keys for an object.  *)
(***************************************************************************)
EXTENDS Naturals, FiniteSets

CONSTANTS
  Vars,      \* the Values of a program
  Numbers,   \* the scalars it stores
  Kinds,     \* bound: the containers it uses, Arrays or Objects or both
  NoVar,     \* no Value
  MaxSlots   \* bound: keys are 1 .. MaxSlots, and so are the indices of arrays

VARIABLES
  value,  \* value[x]: what x holds
  held    \* the Value whose container the program keeps a reference to

vars == <<value, held>>

-------------------------------------------------------------------------------
Slots     == 1 .. MaxSlots
Null      == [type |-> "Null", to |-> 0]
Number(n) == [type |-> "Int", to |-> n]
Empty     == [s \in {} |-> Null]

ContainerOf(k, items) == [type |-> k, items |-> items]

(* What v holds as a container of kind k, empty if it is not one. *)
ItemsOf(v, k) == IF v.type = k THEN v.items ELSE Empty

(* v as a container of kind k with slot s set to w. *)
With(v, k, s, w) ==
  ContainerOf(k, [t \in DOMAIN ItemsOf(v, k) \cup {s} |-> IF t = s THEN w ELSE ItemsOf(v, k)[t]])

Init ==
  /\ value = [x \in Vars |-> Null]
  /\ held = NoVar

Set(x, v) ==
  /\ value' = [value EXCEPT ![x] = v]
  /\ held' = NoVar

-------------------------------------------------------------------------------
Copy(x, y) == Set(y, value[x])

(* A container that was moved from is empty, a number is what it was. *)
Move(x, y) ==
  /\ x # y
  /\ value' = [value EXCEPT ![y] = value[x],
                            ![x] = IF @.type \in Kinds THEN ContainerOf(@.type, Empty) ELSE @]
  /\ held' = NoVar

SetNumber(x, n) == Set(x, Number(n))

SetNull(x) == Set(x, Null)

SetFrom(x, k, y) ==
  /\ value[y].type = k
  /\ Set(x, value[y])

TakeOut(x, k, s, y) ==
  /\ value[x].type = k
  /\ s \in DOMAIN value[x].items
  /\ Set(y, value[x].items[s])

PushBack(x, y) ==
  LET size == Cardinality(DOMAIN ItemsOf(value[x], "Array"))
  IN  /\ "Array" \in Kinds
      /\ size < MaxSlots
      /\ Set(x, With(value[x], "Array", size + 1, value[y]))

Assign(x, s, y) ==
  /\ "Object" \in Kinds
  /\ Set(x, With(value[x], "Object", s, value[y]))

AssignInner(x, s, t, n) ==
  LET items == ItemsOf(value[x], "Object")
      inner == IF s \in DOMAIN items THEN items[s] ELSE Null
  IN  /\ "Object" \in Kinds
      /\ Set(x, With(value[x], "Object", s, With(inner, "Object", t, Number(n))))

Write(x, k, s, n) ==
  /\ value[x].type = k
  /\ s \in DOMAIN value[x].items
  /\ Set(x, With(value[x], k, s, Number(n)))

(* asArray and asObject promote Null, and leave the program a reference. *)
Obtain(x, k) ==
  /\ value[x].type \in {"Null", k}
  /\ value' = [value EXCEPT ![x] = ContainerOf(k, ItemsOf(@, k))]
  /\ held' = x

(* A write through the reference changes the Value it came from. *)
WriteHeld(s, n) ==
  /\ held # NoVar
  /\ s \in DOMAIN value[held].items
  /\ value' = [value EXCEPT ![held] = With(@, @.type, s, Number(n))]
  /\ UNCHANGED held

Next ==
  \/ \E x, y \in Vars :
       \/ Copy(x, y)
       \/ Move(x, y)
       \/ PushBack(x, y)
       \/ \E k \in Kinds : SetFrom(x, k, y)
       \/ \E s \in Slots : Assign(x, s, y)
       \/ \E k \in Kinds, s \in Slots : TakeOut(x, k, s, y)
  \/ \E x \in Vars :
       \/ SetNull(x)
       \/ \E n \in Numbers : SetNumber(x, n)
       \/ \E k \in Kinds : Obtain(x, k)
       \/ \E s, t \in Slots, n \in Numbers : AssignInner(x, s, t, n)
       \/ \E k \in Kinds, s \in Slots, n \in Numbers : Write(x, k, s, n)
  \/ \E s \in Slots, n \in Numbers : WriteHeld(s, n)

Spec == Init /\ [][Next]_vars
===============================================================================
