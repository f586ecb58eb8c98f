--------------------------- MODULE CowThreadsProofs ---------------------------
(***************************************************************************)
(* Theorems about CowThreads, for any threads, numbers and size of the     *)
(* array, and any number of blocks.  The argument is about pointers: the   *)
(* reference count of a block is the number of pointers to it, so a block  *)
(* whose count was found to be 1, and a block that was just made, have one *)
(* pointer, and only the thread that has it could make another.            *)
(***************************************************************************)
EXTENDS CowThreads, FiniteSetTheorems, TLAPS

(* The places of ensureUniqueArray and of the write after it. *)
Writing == {"test", "clone", "swap", "write"}

(* What the place of a thread says of its pointers. *)
PlaceInv ==
  \A t \in Threads :
    /\ pc[t] \in Writing => to[t] # None
    /\ spare[t] # None <=> pc[t] \in {"clone", "swap", "release"}
    /\ pc[t] \in Writing \/ (pc[t] = "release" /\ to[t] # None) => goal[t] \in Goals
    /\ pc[t] = "clone" => copied[t] < MaxSlots
    /\ pc[t] = "swap" => copied[t] = MaxSlots

(* No other pointer than to[t], or than spare[t], leads to its block. *)
ToIsAlone(t) ==
  /\ \A u \in Threads : u # t => to[u] # to[t]
  /\ \A u \in Threads : spare[u] # to[t]

SpareIsAlone(t) ==
  /\ \A u \in Threads : u # t => spare[u] # spare[t]
  /\ \A u \in Threads : to[u] # spare[t]

AloneInv ==
  \A t \in Threads :
    /\ pc[t] \in {"clone", "swap"} => SpareIsAlone(t)
    /\ pc[t] = "write" \/ (pc[t] = "release" /\ to[t] # None) => ToIsAlone(t)

(* A clone has the items copied so far, as they are in the old block now. *)
CloneInv ==
  \A t \in Threads :
    pc[t] \in {"clone", "swap"} =>
      \A s \in 1 .. copied[t] : block[spare[t]][s] = block[to[t]][s]

IInv == TypeOK /\ PlaceInv /\ CountIsExact /\ AloneInv /\ CloneInv

-------------------------------------------------------------------------------
(* How many of the pointers f lead to block b. *)
Pointing(f, b) == Cardinality({t \in Threads : f[t] = b})

Bit(p) == IF p THEN 1 ELSE 0

(* Moving one pointer changes the counts of the block it leaves and of the *)
(* one it comes to, by one.                                                *)
LEMMA PointerMoves ==
  ASSUME NEW f, NEW g, NEW t \in Threads, NEW b,
         \A u \in Threads : u # t => g[u] = f[u]
  PROVE  /\ Pointing(f, b) \in Nat /\ Pointing(g, b) \in Nat
         /\ Pointing(g, b) + Bit(f[t] = b) = Pointing(f, b) + Bit(g[t] = b)
<1> DEFINE F == {u \in Threads : f[u] = b}
           G == {u \in Threads : g[u] = b}
           Rest == {u \in Threads \ {t} : f[u] = b}
<1>1. IsFiniteSet(F) /\ IsFiniteSet(G) /\ IsFiniteSet(Rest)
  BY CowThreadsAssumption, FS_Subset
<1>2. Cardinality(F) \in Nat /\ Cardinality(G) \in Nat /\ Cardinality(Rest) \in Nat
  BY <1>1, FS_CardinalityType
<1>3. t \notin Rest /\ Cardinality(Rest \cup {t}) = Cardinality(Rest) + 1
  BY <1>1, FS_AddElement
<1>4. Cardinality(F) = Cardinality(Rest) + Bit(f[t] = b)
  <2>1. CASE f[t] = b
    <3>1. F = Rest \cup {t}
      BY <2>1
    <3> QED
      BY <1>2, <1>3, <2>1, <3>1 DEF Bit
  <2>2. CASE f[t] # b
    <3>1. F = Rest
      BY <2>2
    <3> QED
      BY <1>2, <2>2, <3>1 DEF Bit
  <2> QED
    BY <2>1, <2>2
<1>5. Cardinality(G) = Cardinality(Rest) + Bit(g[t] = b)
  <2>1. CASE g[t] = b
    <3>1. G = Rest \cup {t}
      BY <2>1
    <3> QED
      BY <1>2, <1>3, <2>1, <3>1 DEF Bit
  <2>2. CASE g[t] # b
    <3>1. G = Rest
      BY <2>2
    <3> QED
      BY <1>2, <2>2, <3>1 DEF Bit
  <2> QED
    BY <2>1, <2>2
<1>6. Bit(f[t] = b) \in Nat /\ Bit(g[t] = b) \in Nat
  BY DEF Bit
<1> HIDE DEF F, G, Rest
<1>7. /\ Cardinality(F) \in Nat /\ Cardinality(G) \in Nat
      /\ Cardinality(G) + Bit(f[t] = b) = Cardinality(F) + Bit(g[t] = b)
  BY <1>2, <1>4, <1>5, <1>6
<1> QED
  BY <1>7 DEF Pointing, F, G

(* No pointer, one, or more. *)
LEMMA PointingFacts ==
  ASSUME NEW f, NEW b
  PROVE  /\ Pointing(f, b) \in Nat
         /\ \A t \in Threads : f[t] = b => Pointing(f, b) > 0
         /\ \A t, u \in Threads : t # u /\ f[t] = b /\ f[u] = b => Pointing(f, b) > 1
<1> DEFINE F == {u \in Threads : f[u] = b}
<1>1. IsFiniteSet(F) /\ Cardinality(F) \in Nat
  BY CowThreadsAssumption, FS_Subset, FS_CardinalityType
<1>2. ASSUME NEW t \in Threads, f[t] = b
      PROVE  /\ Cardinality(F) > 0
             /\ \A u \in Threads : u # t /\ f[u] = b => Cardinality(F) > 1
  <2>1. t \in F /\ IsFiniteSet(F \ {t}) /\ Cardinality(F \ {t}) = Cardinality(F) - 1
    BY <1>1, <1>2, FS_RemoveElement
  <2>2. Cardinality(F \ {t}) \in Nat
    BY <2>1, FS_CardinalityType
  <2>3. ASSUME NEW u \in Threads, u # t, f[u] = b
        PROVE  Cardinality(F \ {t}) # 0
    <3>1. u \in F \ {t}
      BY <2>3
    <3> QED
      BY <2>1, <3>1, FS_EmptySet
  <2> HIDE DEF F
  <2> QED
    BY <1>1, <2>1, <2>2, <2>3
<1> QED
  BY <1>1, <1>2 DEF Pointing

LEMMA CountIsPointing ==
  CountIsExact <=> \A b \in Blocks : count[b] = Pointing(to, b) + Pointing(spare, b)
BY DEF CountIsExact, Pointing

(* Nobody points to a free block, and one pointer leads to a block whose   *)
(* count is 1.                                                             *)
LEMMA CountFacts ==
  ASSUME CountIsExact
  PROVE  /\ \A b \in Blocks : count[b] = 0 => \A t \in Threads : to[t] # b /\ spare[t] # b
         /\ \A t \in Threads : to[t] \in Blocks /\ count[to[t]] = 1 => ToIsAlone(t)
         /\ \A t \in Threads : spare[t] \in Blocks /\ count[spare[t]] = 1 => SpareIsAlone(t)
         /\ \A t \in Threads : spare[t] \in Blocks => count[spare[t]] > 0
<1>1. \A b \in Blocks : count[b] = Pointing(to, b) + Pointing(spare, b)
  BY CountIsPointing
<1>2. ASSUME NEW b \in Blocks, count[b] = 0, NEW t \in Threads
      PROVE  to[t] # b /\ spare[t] # b
  BY <1>1, <1>2, PointingFacts
<1>3. ASSUME NEW t \in Threads, to[t] \in Blocks, count[to[t]] = 1
      PROVE  ToIsAlone(t)
  <2>1. Pointing(to, to[t]) = 1 /\ Pointing(spare, to[t]) = 0
    BY <1>1, <1>3, PointingFacts
  <2> QED
    BY <2>1, PointingFacts DEF ToIsAlone
<1>4. ASSUME NEW t \in Threads, spare[t] \in Blocks, count[spare[t]] = 1
      PROVE  SpareIsAlone(t)
  <2>1. Pointing(spare, spare[t]) = 1 /\ Pointing(to, spare[t]) = 0
    BY <1>1, <1>4, PointingFacts
  <2> QED
    BY <2>1, PointingFacts DEF SpareIsAlone
<1>5. ASSUME NEW t \in Threads, spare[t] \in Blocks
      PROVE  count[spare[t]] > 0
  BY <1>1, <1>5, PointingFacts
<1> QED
  BY <1>2, <1>3, <1>4, <1>5
-------------------------------------------------------------------------------
LEMMA Initially == Init => IInv
<1> SUFFICES ASSUME Init
             PROVE  IInv
  OBVIOUS
<1>1. TypeOK
  BY CowThreadsAssumption DEF Init, TypeOK, Array, Slots, Items
<1>2. PlaceInv /\ AloneInv /\ CloneInv
  BY DEF Init, PlaceInv, AloneInv, CloneInv, Writing
<1>3. ASSUME NEW b \in Blocks
      PROVE  count[b] = Pointing(to, b) + Pointing(spare, b)
  <2>1. /\ {t \in Threads : to[t] = b} = {}
        /\ {t \in Threads : spare[t] = b} = {}
    BY CowThreadsAssumption DEF Init
  <2>2. Cardinality({}) = 0
    BY FS_EmptySet
  <2> QED
    BY <2>1, <2>2 DEF Init, Pointing
<1> QED
  BY <1>1, <1>2, <1>3, CountIsPointing DEF IInv

LEMMA TypeStep ==
  ASSUME IInv, [Next]_vars
  PROVE  TypeOK'
<1>1. CASE UNCHANGED vars
  BY <1>1 DEF IInv, TypeOK, vars
<1>2. ASSUME NEW t \in Threads, Create(t)
      PROVE  TypeOK'
  BY <1>2 DEF IInv, TypeOK, Create, Goes, Array, Items, Slots
<1>3. ASSUME NEW t \in Threads, NEW u \in Threads, Give(t, u)
      PROVE  TypeOK'
  BY <1>3 DEF IInv, TypeOK, Give, Goes
<1>4. ASSUME NEW t \in Threads, Drop(t)
      PROVE  TypeOK'
  BY <1>4 DEF IInv, TypeOK, Drop, Goes
<1>5. ASSUME NEW t \in Threads, NEW g \in Goals, BeginWrite(t, g)
      PROVE  TypeOK'
  BY <1>5 DEF IInv, TypeOK, BeginWrite, Goes
<1>6. ASSUME NEW t \in Threads, Unique(t)
      PROVE  TypeOK'
  BY <1>6 DEF IInv, TypeOK, Unique, Goes
<1>7. ASSUME NEW t \in Threads, Shared(t)
      PROVE  TypeOK'
  BY <1>7, CowThreadsAssumption DEF IInv, TypeOK, PlaceInv, Writing, Shared, Goes
<1>8. ASSUME NEW t \in Threads, CopyItem(t)
      PROVE  TypeOK'
  <2>1. to[t] \in Blocks /\ spare[t] \in Blocks /\ copied[t] + 1 \in 1 .. MaxSlots
    BY <1>8, CowThreadsAssumption DEF IInv, TypeOK, PlaceInv, CopyItem, Goes
  <2>2. block[to[t]][copied[t] + 1] \in Items
    BY <2>1 DEF IInv, TypeOK, Slots
  <2>3. block' \in [Blocks -> [Slots -> Items]]
    BY <1>8, <2>1, <2>2 DEF IInv, TypeOK, CopyItem
  <2>4. copied' \in [Threads -> 0 .. MaxSlots]
    BY <1>8, <2>1 DEF IInv, TypeOK, CopyItem
  <2>5. pc' \in [Threads -> {"idle", "test", "clone", "swap", "release", "write"}]
    BY <1>8 DEF IInv, TypeOK, CopyItem, Goes
  <2> QED
    BY <1>8, <2>1, <2>3, <2>4, <2>5, CowThreadsAssumption DEF IInv, TypeOK, CopyItem, Goes
<1>9. ASSUME NEW t \in Threads, Swap(t)
      PROVE  TypeOK'
  BY <1>9 DEF IInv, TypeOK, Swap, Goes
<1>10. ASSUME NEW t \in Threads, Release(t)
       PROVE  TypeOK'
  <2>1. spare[t] \in Blocks
    BY <1>10 DEF IInv, TypeOK, PlaceInv, Release, Goes
  <2>2. count[spare[t]] \in Nat /\ count[spare[t]] > 0
    BY <2>1, CountFacts DEF IInv, TypeOK
  <2>3. count' \in [Blocks -> Nat]
    BY <1>10, <2>1, <2>2 DEF IInv, TypeOK, Release
  <2>4. block' \in [Blocks -> [Slots -> Items]]
    BY <1>10 DEF IInv, TypeOK, Release, Array, Items
  <2> QED
    BY <1>10, <2>3, <2>4 DEF IInv, TypeOK, Release, Goes
<1>11. ASSUME NEW t \in Threads, WriteItem(t)
       PROVE  TypeOK'
  <2>1. to[t] \in Blocks /\ goal[t] \in Goals
    BY <1>11 DEF IInv, TypeOK, PlaceInv, Writing, WriteItem, Goes
  <2>2. goal[t][1] \in Slots /\ goal[t][2] \in Items
    BY <2>1 DEF Goals, Items
  <2>3. block' \in [Blocks -> [Slots -> Items]]
    BY <1>11, <2>1, <2>2 DEF IInv, TypeOK, WriteItem
  <2> QED
    BY <1>11, <2>3, CowThreadsAssumption DEF IInv, TypeOK, WriteItem, Goes
<1> QED
  BY <1>1, <1>2, <1>3, <1>4, <1>5, <1>6, <1>7, <1>8, <1>9, <1>10, <1>11 DEF Next

LEMMA PlaceStep ==
  ASSUME IInv, [Next]_vars
  PROVE  PlaceInv'
<1> USE DEF IInv, TypeOK, PlaceInv, Writing, Goes
<1>1. CASE UNCHANGED vars
  BY <1>1 DEF vars
<1>2. ASSUME NEW t \in Threads,
             \/ Create(t)
             \/ \E u \in Threads : Give(t, u)
             \/ Drop(t)
             \/ \E g \in Goals : BeginWrite(t, g)
      PROVE  PlaceInv'
  BY <1>2, CowThreadsAssumption DEF Create, Give, Drop, BeginWrite
<1>3. ASSUME NEW t \in Threads, Unique(t) \/ Swap(t) \/ Release(t) \/ WriteItem(t)
      PROVE  PlaceInv'
  BY <1>3, CowThreadsAssumption DEF Unique, Swap, Release, WriteItem
<1>4. ASSUME NEW t \in Threads, Shared(t)
      PROVE  PlaceInv'
  BY <1>4, CowThreadsAssumption DEF Shared
<1>5. ASSUME NEW t \in Threads, CopyItem(t)
      PROVE  PlaceInv'
  <2>1. copied'[t] = copied[t] + 1 /\ copied[t] \in Nat /\ copied[t] < MaxSlots
    BY <1>5, CowThreadsAssumption DEF CopyItem
  <2>2. IF copied'[t] = MaxSlots THEN pc'[t] = "swap"
                                 ELSE pc'[t] = "clone" /\ copied'[t] < MaxSlots
    BY <1>5, <2>1, CowThreadsAssumption DEF CopyItem
  <2> QED
    BY <1>5, <2>2 DEF CopyItem
<1> QED
  BY <1>1, <1>2, <1>3, <1>4, <1>5 DEF Next

-------------------------------------------------------------------------------
(* Every pointer that is made or let go of is counted. *)
LEMMA CountStep ==
  ASSUME IInv, [Next]_vars
  PROVE  CountIsExact'
<1> SUFFICES ASSUME NEW b \in Blocks
             PROVE  count'[b] = Pointing(to', b) + Pointing(spare', b)
  BY DEF CountIsExact, Pointing
<1>1. /\ count[b] = Pointing(to, b) + Pointing(spare, b)
      /\ Pointing(to, b) \in Nat /\ Pointing(spare, b) \in Nat
  BY CountIsPointing, PointingFacts DEF IInv
<1>2. CASE UNCHANGED <<count, to, spare>>
  BY <1>1, <1>2 DEF Pointing
<1>3. ASSUME NEW t \in Threads, Create(t)
      PROVE  count'[b] = Pointing(to', b) + Pointing(spare', b)
  <2>1. PICK n \in Blocks : /\ count[n] = 0
                            /\ count' = [count EXCEPT ![n] = 1]
                            /\ to' = [to EXCEPT ![t] = n]
    BY <1>3 DEF Create
  <2>2. to[t] # b /\ to'[t] = n /\ spare' = spare
    BY <1>3, <2>1, CowThreadsAssumption DEF IInv, TypeOK, Create
  <2>3. Pointing(to', b) + Bit(to[t] = b) = Pointing(to, b) + Bit(n = b)
    <3>1. \A u \in Threads : u # t => to'[u] = to[u]
      BY <2>1, <2>2 DEF IInv, TypeOK
    <3>2. Pointing(to', b) + Bit(to[t] = b) = Pointing(to, b) + Bit(to'[t] = b)
      BY <3>1, PointerMoves
    <3> QED
      BY <2>2, <3>2 DEF IInv, TypeOK
  <2>4. Pointing(to', b) \in Nat
    BY PointingFacts
  <2>5. count'[b] = count[b] + Bit(n = b)
    BY <2>1 DEF IInv, TypeOK, Bit
  <2> QED
    BY <1>1, <2>2, <2>3, <2>4, <2>5 DEF Bit
<1>4. ASSUME NEW t \in Threads, NEW u \in Threads, Give(t, u)
      PROVE  count'[b] = Pointing(to', b) + Pointing(spare', b)
  <2>1. to[u] # b /\ to'[u] = to[t] /\ spare' = spare
    BY <1>4, CowThreadsAssumption DEF IInv, TypeOK, Give
  <2>2. Pointing(to', b) + Bit(to[u] = b) = Pointing(to, b) + Bit(to[t] = b)
    <3>1. \A v \in Threads : v # u => to'[v] = to[v]
      BY <1>4, <2>1 DEF IInv, TypeOK, Give
    <3>2. Pointing(to', b) + Bit(to[u] = b) = Pointing(to, b) + Bit(to'[u] = b)
      BY <3>1, PointerMoves
    <3> QED
      BY <2>1, <3>2 DEF IInv, TypeOK
  <2>3. Pointing(to', b) \in Nat
    BY PointingFacts
  <2>4. count'[b] = count[b] + Bit(to[t] = b)
    BY <1>4 DEF IInv, TypeOK, Give, Bit
  <2> QED
    BY <1>1, <2>1, <2>2, <2>3, <2>4 DEF Bit
<1>5. ASSUME NEW t \in Threads, Drop(t) \/ Swap(t)
      PROVE  count'[b] = Pointing(to', b) + Pointing(spare', b)
  <2>1. /\ to' = [to EXCEPT ![t] = spare[t]]
        /\ spare' = [spare EXCEPT ![t] = to[t]]
        /\ count' = count
    BY <1>5 DEF IInv, TypeOK, PlaceInv, Drop, Swap, Goes
  <2>2. Pointing(to', b) + Bit(to[t] = b) = Pointing(to, b) + Bit(spare[t] = b)
    <3>1. \A u \in Threads : u # t => to'[u] = to[u]
      BY <2>1 DEF IInv, TypeOK
    <3>2. Pointing(to', b) + Bit(to[t] = b) = Pointing(to, b) + Bit(to'[t] = b)
      BY <3>1, PointerMoves
    <3> QED
      BY <2>1, <3>2 DEF IInv, TypeOK
  <2>3. Pointing(spare', b) + Bit(spare[t] = b) = Pointing(spare, b) + Bit(to[t] = b)
    <3>1. \A u \in Threads : u # t => spare'[u] = spare[u]
      BY <2>1 DEF IInv, TypeOK
    <3>2. Pointing(spare', b) + Bit(spare[t] = b) = Pointing(spare, b) + Bit(spare'[t] = b)
      BY <3>1, PointerMoves
    <3> QED
      BY <2>1, <3>2 DEF IInv, TypeOK
  <2>4. Pointing(to', b) \in Nat /\ Pointing(spare', b) \in Nat
    BY PointingFacts
  <2> QED
    BY <1>1, <2>1, <2>2, <2>3, <2>4 DEF Bit
<1>6. ASSUME NEW t \in Threads, Shared(t)
      PROVE  count'[b] = Pointing(to', b) + Pointing(spare', b)
  <2>1. PICK n \in Blocks : /\ count[n] = 0
                            /\ count' = [count EXCEPT ![n] = 1]
                            /\ spare' = [spare EXCEPT ![t] = n]
    BY <1>6 DEF Shared
  <2>2. spare[t] # b /\ spare'[t] = n /\ to' = to
    BY <1>6, <2>1, CowThreadsAssumption DEF IInv, TypeOK, PlaceInv, Shared, Goes
  <2>3. Pointing(spare', b) + Bit(spare[t] = b) = Pointing(spare, b) + Bit(n = b)
    <3>1. \A u \in Threads : u # t => spare'[u] = spare[u]
      BY <2>1, <2>2 DEF IInv, TypeOK
    <3>2. Pointing(spare', b) + Bit(spare[t] = b) = Pointing(spare, b) + Bit(spare'[t] = b)
      BY <3>1, PointerMoves
    <3> QED
      BY <2>2, <3>2 DEF IInv, TypeOK
  <2>4. Pointing(spare', b) \in Nat
    BY PointingFacts
  <2>5. count'[b] = count[b] + Bit(n = b)
    BY <2>1 DEF IInv, TypeOK, Bit
  <2> QED
    BY <1>1, <2>2, <2>3, <2>4, <2>5 DEF Bit
<1>7. ASSUME NEW t \in Threads, Release(t)
      PROVE  count'[b] = Pointing(to', b) + Pointing(spare', b)
  <2>1. spare[t] \in Blocks /\ spare'[t] # b /\ to' = to
    BY <1>7, CowThreadsAssumption DEF IInv, TypeOK, PlaceInv, Release, Goes
  <2>2. Pointing(spare', b) + Bit(spare[t] = b) = Pointing(spare, b) + Bit(spare'[t] = b)
    <3>1. \A u \in Threads : u # t => spare'[u] = spare[u]
      BY <1>7 DEF IInv, TypeOK, Release
    <3> QED
      BY <3>1, PointerMoves
  <2>3. Pointing(spare', b) \in Nat
    BY PointingFacts
  <2>4. count'[b] = count[b] - Bit(spare[t] = b)
    BY <1>1, <1>7, <2>1 DEF IInv, TypeOK, Release, Bit
  <2> QED
    BY <1>1, <2>1, <2>2, <2>3, <2>4 DEF Bit
<1>8. ASSUME NEW t \in Threads,
             \/ \E g \in Goals : BeginWrite(t, g)
             \/ Unique(t) \/ CopyItem(t) \/ WriteItem(t)
      PROVE  UNCHANGED <<count, to, spare>>
  BY <1>8 DEF BeginWrite, Unique, CopyItem, WriteItem
<1> QED
  BY <1>2, <1>3, <1>4, <1>5, <1>6, <1>7, <1>8 DEF Next, vars
-------------------------------------------------------------------------------
(* A pointer of another thread to a block comes from a pointer that thread, *)
(* or the one that gives it a copy, has to that block, or leads to a block *)
(* that was free: it cannot come to a block with one pointer.              *)
LEMMA AloneStep ==
  ASSUME IInv, [Next]_vars
  PROVE  AloneInv'
<1> USE DEF AloneInv, ToIsAlone, SpareIsAlone
<1>0. /\ \A b \in Blocks : count[b] = 0 => \A t \in Threads : to[t] # b /\ spare[t] # b
      /\ \A t \in Threads : to[t] \in Blocks /\ count[to[t]] = 1 => ToIsAlone(t)
  BY CountFacts DEF IInv
<1>1. CASE UNCHANGED <<pc, to, spare>>
  BY <1>1 DEF IInv
<1>2. ASSUME NEW t \in Threads, Create(t)
      PROVE  AloneInv'
  BY <1>0, <1>2 DEF IInv, TypeOK, PlaceInv, Create, Goes
<1>3. ASSUME NEW t \in Threads, NEW u \in Threads, Give(t, u)
      PROVE  AloneInv'
  BY <1>3 DEF IInv, TypeOK, PlaceInv, Give, Goes
<1>4. ASSUME NEW t \in Threads, Drop(t)
      PROVE  AloneInv'
  BY <1>4 DEF IInv, TypeOK, PlaceInv, Writing, Drop, Goes
<1>5. ASSUME NEW t \in Threads, NEW g \in Goals, BeginWrite(t, g)
      PROVE  AloneInv'
  BY <1>5 DEF IInv, TypeOK, BeginWrite, Goes
<1>6. ASSUME NEW t \in Threads, Unique(t)
      PROVE  AloneInv'
  BY <1>0, <1>6 DEF IInv, TypeOK, PlaceInv, Writing, Unique, Goes
<1>7. ASSUME NEW t \in Threads, Shared(t)
      PROVE  AloneInv'
  BY <1>0, <1>7 DEF IInv, TypeOK, PlaceInv, Shared, Goes
<1>8. ASSUME NEW t \in Threads, CopyItem(t)
      PROVE  AloneInv'
  BY <1>8 DEF IInv, TypeOK, CopyItem, Goes
<1>9. ASSUME NEW t \in Threads, Swap(t)
      PROVE  AloneInv'
  BY <1>9 DEF IInv, TypeOK, PlaceInv, Writing, Swap, Goes
<1>10. ASSUME NEW t \in Threads, Release(t)
       PROVE  AloneInv'
  BY <1>10 DEF IInv, TypeOK, PlaceInv, Writing, Release, Goes
<1>11. ASSUME NEW t \in Threads, WriteItem(t)
       PROVE  AloneInv'
  BY <1>11 DEF IInv, TypeOK, WriteItem, Goes
<1> QED
  BY <1>1, <1>2, <1>3, <1>4, <1>5, <1>6, <1>7, <1>8, <1>9, <1>10, <1>11 DEF Next, vars

(* The blocks that change: one that was free, the clone of the thread that *)
(* copies an item, the block only the thread that lets go of it had, the   *)
(* block only the thread that writes has.  No other thread's Value or      *)
(* clone is in any of these.                                               *)
LEMMA OthersKeepTheirs ==
  ASSUME IInv, NEW t \in Threads, NEW u \in Threads, u # t,
         \/ Create(t) \/ (\E v \in Threads : Give(t, v)) \/ Drop(t)
         \/ (\E g \in Goals : BeginWrite(t, g)) \/ Unique(t) \/ Shared(t)
         \/ CopyItem(t) \/ Swap(t) \/ Release(t) \/ WriteItem(t)
  PROVE  /\ to[u] # None => block'[to[u]] = block[to[u]]
         /\ spare[u] # None => block'[spare[u]] = block[spare[u]]
<1>0. /\ \A b \in Blocks : count[b] = 0 => to[u] # b /\ spare[u] # b
      /\ spare[t] \in Blocks /\ count[spare[t]] = 1 => SpareIsAlone(t)
  BY CountFacts DEF IInv
<1>1. CASE Create(t)
  BY <1>0, <1>1 DEF IInv, TypeOK, Create
<1>2. CASE CopyItem(t)
  <2>1. SpareIsAlone(t)
    BY <1>2 DEF IInv, AloneInv, CopyItem, Goes
  <2> QED
    BY <1>2, <2>1 DEF IInv, TypeOK, SpareIsAlone, CopyItem
<1>3. CASE Release(t)
  <2>1. spare[t] \in Blocks
    BY <1>3 DEF IInv, TypeOK, PlaceInv, Release, Goes
  <2> QED
    BY <1>0, <1>3, <2>1 DEF IInv, TypeOK, SpareIsAlone, Release
<1>4. CASE WriteItem(t)
  <2>1. ToIsAlone(t)
    BY <1>4 DEF IInv, AloneInv, WriteItem, Goes
  <2> QED
    BY <1>4, <2>1 DEF IInv, TypeOK, ToIsAlone, WriteItem
<1>5. CASE ~(Create(t) \/ CopyItem(t) \/ Release(t) \/ WriteItem(t))
  <2>1. block' = block
    BY <1>5 DEF Give, Drop, BeginWrite, Unique, Shared, Swap
  <2> QED
    BY <2>1
<1> QED
  BY <1>1, <1>2, <1>3, <1>4, <1>5
(* A step of one thread leaves another where it is; it may give it a copy  *)
(* while it is outside.                                                    *)
LEMMA OthersStay ==
  ASSUME IInv, NEW t \in Threads, NEW u \in Threads, u # t,
         \/ Create(t) \/ (\E v \in Threads : Give(t, v)) \/ Drop(t)
         \/ (\E g \in Goals : BeginWrite(t, g)) \/ Unique(t) \/ Shared(t)
         \/ CopyItem(t) \/ Swap(t) \/ Release(t) \/ WriteItem(t)
  PROVE  /\ pc'[u] = pc[u] /\ spare'[u] = spare[u] /\ copied'[u] = copied[u]
         /\ pc[u] # "idle" => to'[u] = to[u]
BY DEF IInv, TypeOK, Create, Give, Drop, BeginWrite, Unique, Shared, CopyItem, Swap, Release,
       WriteItem, Goes

LEMMA CloneStep ==
  ASSUME IInv, [Next]_vars
  PROVE  CloneInv'
<1>1. CASE UNCHANGED vars
  BY <1>1 DEF IInv, CloneInv, vars
<1>2. ASSUME NEW t \in Threads,
             \/ Create(t) \/ (\E v \in Threads : Give(t, v)) \/ Drop(t)
             \/ (\E g \in Goals : BeginWrite(t, g)) \/ Unique(t) \/ Shared(t)
             \/ CopyItem(t) \/ Swap(t) \/ Release(t) \/ WriteItem(t)
      PROVE  CloneInv'
  <2> SUFFICES ASSUME NEW u \in Threads, pc'[u] \in {"clone", "swap"},
                      NEW s \in 1 .. copied'[u]
               PROVE  block'[spare'[u]][s] = block'[to'[u]][s]
    BY DEF CloneInv
  <2>1. CASE u # t
    <3>1. /\ pc[u] \in {"clone", "swap"} /\ s \in 1 .. copied[u]
          /\ spare'[u] = spare[u] /\ to'[u] = to[u]
      BY <1>2, <2>1, OthersStay
    <3>2. block'[to[u]] = block[to[u]] /\ block'[spare[u]] = block[spare[u]]
      BY <1>2, <2>1, <3>1, OthersKeepTheirs DEF IInv, TypeOK
    <3> QED
      BY <3>1, <3>2 DEF IInv, CloneInv
  <2>2. CASE u = t
    <3>1. CASE Shared(t)
      BY <2>2, <3>1 DEF IInv, TypeOK, Shared
    <3>2. CASE CopyItem(t)
      <4>1. /\ to[t] \in Blocks /\ spare[t] \in Blocks /\ to[t] # spare[t]
            /\ copied[t] \in Nat /\ copied[t] + 1 \in Slots
        BY <3>2, CowThreadsAssumption
           DEF IInv, TypeOK, PlaceInv, AloneInv, SpareIsAlone, CopyItem, Goes, Slots
      <4>2. /\ copied'[t] = copied[t] + 1 /\ to' = to /\ spare' = spare
            /\ block'[to[t]] = block[to[t]]
            /\ block'[spare[t]] =
                 [block[spare[t]] EXCEPT ![copied[t] + 1] = block[to[t]][copied[t] + 1]]
        BY <3>2, <4>1 DEF IInv, TypeOK, CopyItem
      <4>3. CASE s = copied[t] + 1
        <5>1. block'[spare[t]][s] = block[to[t]][s]
          BY <4>1, <4>2, <4>3 DEF IInv, TypeOK
        <5> QED
          BY <2>2, <4>2, <5>1
      <4>4. CASE s # copied[t] + 1
        <5>1. s \in 1 .. copied[t] /\ s \in Slots
          <6>1. s \in 1 .. copied[t] + 1
            BY <2>2, <4>2
          <6> QED
            BY <4>1, <4>4, <6>1, CowThreadsAssumption DEF Slots
        <5>2. block[spare[t]][s] = block[to[t]][s]
          BY <3>2, <5>1 DEF IInv, CloneInv, CopyItem, Goes
        <5>3. block'[spare[t]][s] = block[spare[t]][s]
          BY <4>1, <4>2, <4>4, <5>1 DEF IInv, TypeOK
        <5> QED
          BY <2>2, <4>2, <5>2, <5>3
      <4> QED
        BY <4>3, <4>4
    <3>3. ~(Create(t) \/ (\E v \in Threads : Give(t, v)) \/ Drop(t)
            \/ (\E g \in Goals : BeginWrite(t, g)) \/ Unique(t)
            \/ Swap(t) \/ Release(t) \/ WriteItem(t))
      BY <2>2 DEF IInv, TypeOK, Create, Give, Drop, BeginWrite, Unique, Swap, Release,
                  WriteItem, Goes
    <3> QED
      BY <1>2, <3>1, <3>2, <3>3
  <2> QED
    BY <2>1, <2>2
<1> QED
  BY <1>1, <1>2 DEF Next

LEMMA Inductive == IInv /\ [Next]_vars => IInv'
BY TypeStep, PlaceStep, CountStep, AloneStep, CloneStep DEF IInv

LEMMA Invariance == Spec => []IInv
<1> QED
  BY Initially, Inductive, PTL DEF Spec

(* The heap is sound: a count is the number of pointers to its block,      *)
(* whichever threads test, clone and let go of it together                 *)
(* (value.cpp:261-271).                                                    *)
THEOREM HeapSound == Spec => []HeapOK
<1>1. IInv => HeapOK
  BY DEF IInv, HeapOK
<1> QED
  BY <1>1, Invariance, PTL

(* A thread that writes has the only pointer to the block it writes into,  *)
(* however long ago it looked at the count (value.cpp:268).                *)
THEOREM WriterAlone == Spec => []WriterIsAlone
<1>1. IInv => WriterIsAlone
  BY DEF IInv, AloneInv, ToIsAlone, WriterIsAlone
<1> QED
  BY <1>1, Invariance, PTL

-------------------------------------------------------------------------------
(* The values of the threads, as PrivateValues knows them. *)
Values == [t \in Threads |-> IF to[t] = None THEN None ELSE block[to[t]]]

(* An array is not the absence of one. *)
LEMMA ArrayIsSomething ==
  ASSUME IInv, NEW t \in Threads
  PROVE  to[t] # None => to[t] \in Blocks /\ Values[t] = block[to[t]] /\ Values[t] # None
BY CowThreadsAssumption DEF IInv, TypeOK, Values, Slots, Items

(* Two functions of the threads are the same if they agree on all. *)
LEMMA SameValues ==
  ASSUME NEW t \in Threads, NEW x, Values'[t] = x,
         \A u \in Threads : u # t => Values'[u] = Values[u]
  PROVE  Values' = [Values EXCEPT ![t] = x]
BY DEF Values

LEMMA StepIsPrivate ==
  ASSUME IInv, IInv', [Next]_vars
  PROVE  [Private!Next]_Values
<1>1. CASE UNCHANGED vars
  BY <1>1 DEF Values, vars
<1>2. ASSUME NEW t \in Threads, NEW u \in Threads, u # t, to'[u] = to[u],
             \/ Create(t) \/ (\E v \in Threads : Give(t, v)) \/ Drop(t)
             \/ (\E g \in Goals : BeginWrite(t, g)) \/ Unique(t) \/ Shared(t)
             \/ CopyItem(t) \/ Swap(t) \/ Release(t) \/ WriteItem(t)
      PROVE  Values'[u] = Values[u]
  BY <1>2, OthersKeepTheirs DEF Values
<1>3. ASSUME NEW t \in Threads, Create(t)
      PROVE  Private!Next
  <2>1. Values[t] = None
    BY <1>3 DEF Create, Values
  <2>2. Values'[t] = Array(Initial)
    BY <1>3, CowThreadsAssumption DEF IInv, TypeOK, Create, Values
  <2>3. \A u \in Threads : u # t => Values'[u] = Values[u]
    BY <1>2, <1>3 DEF IInv, TypeOK, Create
  <2>4. Values' = [Values EXCEPT ![t] = Array(Initial)]
    BY <2>2, <2>3, SameValues
  <2> QED
    BY <2>1, <2>4 DEF Private!Next, Private!Create, Values, Array
<1>4. ASSUME NEW t \in Threads, NEW u \in Threads, Give(t, u)
      PROVE  Private!Next
  <2>1. to[t] \in Blocks /\ Values[t] # None /\ Values[u] = None
    BY <1>4, ArrayIsSomething DEF Give, Values
  <2>2. Values'[u] = Values[t]
    BY <1>4, <2>1, CowThreadsAssumption DEF IInv, TypeOK, Give, Values
  <2>3. \A v \in Threads : v # u => Values'[v] = Values[v]
    BY <1>4 DEF IInv, TypeOK, Give, Values
  <2>4. Values' = [Values EXCEPT ![u] = Values[t]]
    BY <2>2, <2>3, SameValues
  <2> QED
    BY <2>1, <2>4 DEF Private!Next, Private!Give, Values
<1>5. ASSUME NEW t \in Threads, Drop(t)
      PROVE  Private!Next
  <2>1. Values'[t] = None
    BY <1>5 DEF IInv, TypeOK, Drop, Values
  <2>2. \A u \in Threads : u # t => Values'[u] = Values[u]
    BY <1>5 DEF IInv, TypeOK, Drop, Values
  <2>3. Values' = [Values EXCEPT ![t] = None]
    BY <2>1, <2>2, SameValues
  <2> QED
    BY <2>3 DEF Private!Next, Private!Drop, Values
<1>6. ASSUME NEW t \in Threads,
             (\E g \in Goals : BeginWrite(t, g)) \/ Unique(t) \/ Shared(t)
      PROVE  UNCHANGED Values
  BY <1>6 DEF BeginWrite, Unique, Shared, Values
<1>7. ASSUME NEW t \in Threads, CopyItem(t)
      PROVE  UNCHANGED Values
  <2>1. SpareIsAlone(t) /\ to' = to
    BY <1>7 DEF IInv, AloneInv, CopyItem, Goes
  <2>2. \A u \in Threads : to[u] # None => block'[to[u]] = block[to[u]]
    BY <1>7, <2>1 DEF IInv, TypeOK, SpareIsAlone, CopyItem
  <2> QED
    BY <2>1, <2>2 DEF Values
<1>8. ASSUME NEW t \in Threads, Swap(t)
      PROVE  UNCHANGED Values
  <2>1. /\ to[t] \in Blocks /\ spare[t] \in Blocks
        /\ \A s \in Slots : block[spare[t]][s] = block[to[t]][s]
    BY <1>8 DEF IInv, TypeOK, PlaceInv, CloneInv, Swap, Goes, Slots
  <2>2. block[spare[t]] = block[to[t]]
    BY <2>1 DEF IInv, TypeOK
  <2>3. \A u \in Threads : Values'[u] = Values[u]
    BY <1>8, <2>1, <2>2, CowThreadsAssumption DEF IInv, TypeOK, Swap, Values
  <2> QED
    BY <2>3 DEF Values
<1>9. ASSUME NEW t \in Threads, Release(t)
      PROVE  UNCHANGED Values
  <2>1. spare[t] \in Blocks /\ to' = to
    BY <1>9 DEF IInv, TypeOK, PlaceInv, Release, Goes
  <2>2. \A u \in Threads : to[u] # None => block'[to[u]] = block[to[u]]
    <3>1. CASE count[spare[t]] = 1
      <4>1. SpareIsAlone(t)
        BY <2>1, <3>1, CountFacts DEF IInv
      <4> QED
        BY <1>9, <2>1, <4>1 DEF IInv, TypeOK, SpareIsAlone, Release
    <3>2. CASE count[spare[t]] # 1
      BY <1>9, <3>2 DEF Release
    <3> QED
      BY <3>1, <3>2
  <2> QED
    BY <2>1, <2>2 DEF Values
<1>10. ASSUME NEW t \in Threads, WriteItem(t)
       PROVE  Private!Next
  <2>0. PICK s \in Slots, n \in Numbers : goal[t] = <<s, n>>
    BY <1>10 DEF IInv, PlaceInv, Writing, WriteItem, Goes, Goals
  <2>1. to[t] \in Blocks /\ Values[t] = block[to[t]] /\ Values[t] # None
    BY <1>10, ArrayIsSomething DEF IInv, PlaceInv, Writing, WriteItem, Goes
  <2>2. Values'[t] = [Values[t] EXCEPT ![s] = n]
    <3>1. goal[t][1] = s /\ goal[t][2] = n
      BY <2>0
    <3>2. block'[to[t]] = [block[to[t]] EXCEPT ![s] = n] /\ to' = to
      BY <1>10, <2>1, <3>1 DEF IInv, TypeOK, WriteItem
    <3> QED
      BY <2>1, <3>2, CowThreadsAssumption DEF Values
  <2>3. \A u \in Threads : u # t => Values'[u] = Values[u]
    BY <1>2, <1>10 DEF WriteItem
  <2>4. Values' = [Values EXCEPT ![t][s] = n]
    BY <2>2, <2>3, SameValues DEF Values
  <2>5. Private!Write(t, s, n)
    BY <2>1, <2>4 DEF Private!Write, Values
  <2> QED
    BY <2>1, <2>5 DEF Private!Next
<1> QED
  BY <1>1, <1>3, <1>4, <1>5, <1>6, <1>7, <1>8, <1>9, <1>10 DEF Next

(* Sharing blocks implements arrays of one's own: every write is one step  *)
(* that its thread alone sees, and the clone, which takes many, is none at *)
(* all (value.cpp:261-271).                                                *)
THEOREM SharingIsPrivate == Spec => WritesArePrivate
<1>1. Init => Private!Init
  BY DEF Init, Private!Init
<1>2. IInv /\ IInv' /\ [Next]_vars => [Private!Next]_Values
  BY StepIsPrivate
<1>3. [Private!Next]_Values =>
        [Private!Next]_[t \in Threads |-> IF to[t] = None THEN None ELSE block[to[t]]]
  BY DEF Values
<1> QED
  BY <1>1, <1>2, <1>3, Invariance, PTL DEF Spec, WritesArePrivate, Private!Spec
===============================================================================
