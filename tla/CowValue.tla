------------------------------- MODULE CowValue -------------------------------
(***************************************************************************)
(* skitter::core::Value as src/core/value.cpp implements it: arrays and    *)
(* objects are blocks on the heap behind shared_ptrs, copying a Value      *)
(* copies the pointer, and asArray() and asObject() clone a block that is  *)
(* shared before they hand it out.  A block is freed when the last pointer *)
(* to it goes.                                                             *)
(*                                                                         *)
(* A Value is [type, to]: the number of a scalar, the block of a container *)
(* (NullPtr if it was moved from), 0 for Null.  A block maps its slots to  *)
(* Values; the variables of the program are the slots of block Stack.  An  *)
(* operation is a function from heaps to heaps.                            *)
(***************************************************************************)
EXTENDS Integers, FiniteSets, FiniteSetsExt, Functions

CONSTANTS
  Vars,            \* the Values of a program
  Numbers,         \* the scalars it stores
  Kinds,           \* bound: the containers it uses, Arrays or Objects or both
  NoVar,           \* no Value
  Temp,            \* the by-value parameter of pushBack
  MaxSlots,        \* bound: keys are 1 .. MaxSlots, and so are array indices
  MaxBlocks,       \* bound: containers alive between operations
  SelfNesting      \* whether the program does x[k] = x

ASSUME CowAssumption ==
  /\ IsFiniteSet(Vars)
  /\ Numbers \subseteq Nat
  /\ Kinds \subseteq {"Array", "Object"}
  /\ NoVar \notin Vars /\ Temp \notin Vars
  /\ MaxSlots \in Nat /\ MaxBlocks \in Nat
  /\ SelfNesting \in BOOLEAN

VARIABLES
  heap,  \* heap[b][s]: the Value in slot s of block b
  held,  \* the Value whose asArray() or asObject() gave ref
  ref,   \* the block the program keeps a reference to, or NullPtr
  seen   \* history: what the program sees, computed once a step

vars == <<heap, held, ref, seen>>

-------------------------------------------------------------------------------
Slots   == 1 .. MaxSlots
Blocks  == 1 .. MaxBlocks
Stack   == 0
NullPtr == -1

Pointer(k, b) == [type |-> k, to |-> b]
Null          == [type |-> "Null", to |-> 0]
Number(n)     == [type |-> "Int", to |-> n]
Values        == {Null} \cup {Number(n) : n \in Numbers}
                   \cup {Pointer(k, b) : k \in Kinds, b \in Blocks \cup {NullPtr}}

Empty == [s \in {} |-> Null]

Init ==
  /\ heap = [b \in {Stack} |-> [x \in Vars |-> Null]]
  /\ held = NoVar
  /\ seen = [x \in Vars |-> Null]
  /\ ref = NullPtr

-------------------------------------------------------------------------------
(* A place is where a Value is stored: a block and a slot of it. *)
Var(x)          == <<Stack, x>>
At(h, p)        == h[p[1]][p[2]]
Inside(h, p, s) == <<At(h, p).to, s>>
Places(h)       == UNION {{b} \X DOMAIN h[b] : b \in DOMAIN h}
IsContainer(v)  == v.type \in Kinds
PointsTo(v, b)  == IsContainer(v) /\ v.to = b

(* shared_ptr::use_count of the pointers to block b. *)
UseCount(h, b) == Cardinality({p \in Places(h) : PointsTo(At(h, p), b)})

(* The blocks that Values in the blocks B point to. *)
Targets(h, B) ==
  (UNION {{h[b][s].to : s \in {t \in DOMAIN h[b] : IsContainer(h[b][t])}} : b \in B})
    \ {NullPtr}

(* Blocks nothing points to are freed, and then those only they pointed to. *)
Unused(h) == DOMAIN h \ (Targets(h, DOMAIN h) \cup {Stack})
Release(h) ==
  LET freed[n \in 0 .. Cardinality(DOMAIN h)] ==
        IF n = 0 THEN h
                 ELSE LET g == freed[n - 1] IN Restrict(g, DOMAIN g \ Unused(g))
  IN  IF Unused(h) = {} THEN h ELSE freed[Cardinality(DOMAIN h)]

(* f with v at s. *)
With(f, s, v) == [t \in DOMAIN f \cup {s} |-> IF t = s THEN v ELSE f[t]]

(* Assign v to the place p, which drops what p held before. *)
Put(h, p, v) ==
  LET g == [h EXCEPT ![p[1]] = With(@, p[2], v)]
  IN  IF p[2] \in DOMAIN h[p[1]] /\ IsContainer(At(h, p)) THEN Release(g) ELSE g

(* storage_ = make_shared(items) *)
Make(h, p, k, items) ==
  LET b == Min((1 .. Cardinality(DOMAIN h)) \ DOMAIN h)
  IN  Put(With(h, b, items), p, Pointer(k, b))

(* Mutant of EnsureUnique: a shared block is not cloned. *)
CloneNothing(h, p) ==
  IF At(h, p).to = NullPtr THEN Make(h, p, At(h, p).type, Empty) ELSE h

(* ensureUniqueArray, ensureUniqueObject *)
EnsureUnique(h, p) ==
  LET v == At(h, p)
  IN  IF v.to = NullPtr THEN Make(h, p, v.type, Empty)
      ELSE IF UseCount(h, v.to) > 1 THEN Make(h, p, v.type, h[v.to])
      ELSE h

(* The non-const asArray() and asObject(), where they do not throw. *)
Accepts(h, p, k) == At(h, p).type \in {"Null", k}
As(h, p, k) ==
  EnsureUnique(IF At(h, p) = Null THEN Make(h, p, k, Empty) ELSE h, p)

(* setArray({}) or setObject({}) unless it is one already, then as above: *)
(* how pushBack and operator[] begin.                                     *)
ForceAs(h, p, k) ==
  As(IF At(h, p).type = k THEN h ELSE Make(h, p, k, Empty), p, k)

(* The items of the const asArray() and asObject(). *)
ItemsOf(h, v) == IF v.to = NullPtr THEN Empty ELSE h[v.to]

-------------------------------------------------------------------------------
(* What the program sees of heap h: pointers followed to the end, and a     *)
(* moved-from container as an empty one.  Following them MaxBlocks times is *)
(* enough as long as there are no cycles (ToStringReturns).                 *)
See(v, inner) ==
  IF ~IsContainer(v) THEN v
  ELSE [type |-> v.type, items |-> IF v.to = NullPtr THEN Empty ELSE inner[v.to]]

Contents(h) ==
  LET contents[d \in 0 .. MaxBlocks + 1] ==
        IF d = 0 THEN [b \in DOMAIN h |-> Empty]
        ELSE [b \in DOMAIN h |-> [s \in DOMAIN h[b] |-> See(h[b][s], contents[d - 1])]]
  IN  contents[MaxBlocks + 1][Stack]

(* A step that leaves the heap h and no reference: a program may not go on  *)
(* using a reference into a Value that it has copied or changed since.      *)
(* Here and below, \E g \in {h} is LET g == h, computed once by TLC.        *)
Becomes(h) ==
  \E g \in {h} :
    /\ DOMAIN g \subseteq Blocks \cup {Stack}
    /\ heap' = g
    /\ seen' = Contents(g)
    /\ held' = NoVar
    /\ ref' = NullPtr

(* y = x, the defaulted operator=: a pointer is copied, not the block. *)
Copy(x, y) == Becomes(Put(heap, Var(y), At(heap, Var(x))))

(* y = std::move(x): x keeps its type_, its shared_ptr is left empty. *)
Move(x, y) ==
  LET v == At(heap, Var(x))
      h == Put(heap, Var(y), v)
  IN  /\ x # y
      /\ Becomes(IF IsContainer(v) THEN Put(h, Var(x), Pointer(v.type, NullPtr)) ELSE h)

SetNumber(x, n) == Becomes(Put(heap, Var(x), Number(n)))

SetNull(x) == Becomes(Put(heap, Var(x), Null))

(* x.setArray(y.asArray()), x.setObject(y.asObject()): a new block of *)
(* copies, which share what they contain.                             *)
SetFrom(x, k, y) ==
  LET v == At(heap, Var(y))
  IN  /\ v.type = k
      /\ Becomes(Make(heap, Var(x), k, ItemsOf(heap, v)))

(* y = std::as_const(x).asArray()[s].  If y is x, the assignment to its    *)
(* storage_ reads the item before it lets go of the container only if both *)
(* are of one type; otherwise something else must hold the container, or   *)
(* the program has no defined meaning and is left out.                     *)
TakeOut(x, k, s, y) ==
  LET v == At(heap, Var(x))
  IN  /\ v.type = k
      /\ s \in DOMAIN ItemsOf(heap, v)
      /\ x # y \/ ItemsOf(heap, v)[s].type = k \/ UseCount(heap, v.to) > 1
      /\ Becomes(Put(heap, Var(y), ItemsOf(heap, v)[s]))

(* x.pushBack(y): y is copied into the parameter first. *)
PushBack(x, y) ==
  /\ "Array" \in Kinds
  /\ \E called \in {Put(heap, Var(Temp), At(heap, Var(y)))} :
     \E ready \in {ForceAs(called, Var(x), "Array")} :
       LET size == Cardinality(DOMAIN ready[At(ready, Var(x)).to])
           done == Put(ready, Inside(ready, Var(x), size + 1), At(ready, Var(Temp)))
       IN  /\ size < MaxSlots
           /\ Becomes(Release([done EXCEPT ![Stack] = Restrict(@, Vars)]))

(* x[s] = y: y is bound to a reference before, and copied after, operator[] *)
(* has made the object of x its own.                                       *)
Assign(x, s, y) ==
  /\ "Object" \in Kinds
  /\ x # y \/ SelfNesting
  /\ \E ready \in {ForceAs(heap, Var(x), "Object")} :
       Becomes(Put(ready, Inside(ready, Var(x), s), At(ready, Var(y))))

(* x[s][t] = n: operator[] puts a Null under a key that is not there. *)
AssignInner(x, s, t, n) ==
  /\ "Object" \in Kinds
  /\ \E outer \in {ForceAs(heap, Var(x), "Object")} :
     \E p \in {Inside(outer, Var(x), s)} :
     \E found \in {IF s \in DOMAIN outer[p[1]] THEN outer ELSE Put(outer, p, Null)} :
     \E inner \in {ForceAs(found, p, "Object")} :
       Becomes(Put(inner, Inside(inner, p, t), Number(n)))

(* x.asArray()[s].setInt(n) for an s that is there *)
Write(x, k, s, n) ==
  LET v     == At(heap, Var(x))
      ready == As(heap, Var(x), k)
  IN  /\ v.type = k
      /\ s \in DOMAIN ItemsOf(heap, v)
      /\ Becomes(Put(ready, Inside(ready, Var(x), s), Number(n)))

(* auto &ref = x.asArray() *)
Obtain(x, k) ==
  /\ Accepts(heap, Var(x), k)
  /\ \E ready \in {As(heap, Var(x), k)} :
       /\ DOMAIN ready \subseteq Blocks \cup {Stack}
       /\ heap' = ready
       /\ seen' = Contents(ready)
       /\ held' = x
       /\ ref' = At(ready, Var(x)).to

(* ref[s].setInt(n): no member function of the Value is called. *)
WriteHeld(s, n) ==
  /\ held # NoVar
  /\ s \in DOMAIN heap[ref]
  /\ heap' = Put(heap, <<ref, s>>, Number(n))
  /\ seen' = Contents(heap')
  /\ UNCHANGED <<held, ref>>

Next ==
  \/ \E x, y \in Vars :
       \/ Copy(x, y)
       \/ Move(x, y)
       \/ PushBack(x, y)
       \/ \E k \in Kinds : SetFrom(x, k, y)
       \/ \E s \in Slots : Assign(x, s, y)
       \/ \E k \in Kinds, s \in Slots : TakeOut(x, k, s, y)
  \/ \E x \in Vars :
       \/ SetNull(x)
       \/ \E n \in Numbers : SetNumber(x, n)
       \/ \E k \in Kinds : Obtain(x, k)
       \/ \E s, t \in Slots, n \in Numbers : AssignInner(x, s, t, n)
       \/ \E k \in Kinds, s \in Slots, n \in Numbers : Write(x, k, s, n)
  \/ \E s \in Slots, n \in Numbers : WriteHeld(s, n)

Spec == Init /\ [][Next]_vars

-------------------------------------------------------------------------------
Semantics == INSTANCE ValueSemantics WITH value <- seen

(* Values are well formed, type_ and storage_ agree, and no pointer is left *)
(* to a block that was freed.                                               *)
TypeOK ==
  /\ DOMAIN heap[Stack] = Vars
  /\ \A p \in Places(heap) :
       /\ At(heap, p) \in Values
       /\ IsContainer(At(heap, p)) => At(heap, p).to \in DOMAIN heap \cup {NullPtr}
  /\ held \in Vars \cup {NoVar}
  /\ held # NoVar => ref \in DOMAIN heap

(* Every operation has the effect on every Value that it would have if     *)
(* copying a Value copied all it contains: ensureUniqueArray and           *)
(* ensureUniqueObject clone whatever is shared, one level at a time, before *)
(* it is modified.                                                         *)
CopyOnWrite == Semantics!Spec

(* The blocks that a walk down from the Values of the program has reached  *)
(* after d pointers.                                                       *)
Reached ==
  LET reached[d \in 0 .. MaxBlocks + 1] ==
        IF d = 0 THEN {Stack} ELSE Targets(heap, reached[d - 1])
  IN  reached

(* "Produce a JSON-like textual representation of the Value. @return       *)
(* string containing the serialized representation" (value.h:353-354):     *)
(* toString walks down from a Value, and every such walk comes to an end,  *)
(* as no container is inside itself.                                       *)
ToStringReturns == Reached[MaxBlocks + 1] = {}

(* Nor does a block outlive the last Value of the program that has it, as  *)
(* one that is inside itself would: reference counts would keep it.        *)
NothingLeaks == ToStringReturns /\ UNION {Reached[d] : d \in 0 .. MaxBlocks} = DOMAIN heap

(* The heap is sound: no pointer dangles, no block is left over.           *)
HeapOK == TypeOK /\ NothingLeaks
===============================================================================
