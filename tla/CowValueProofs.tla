---------------------------- MODULE CowValueProofs ----------------------------
(***************************************************************************)
(* Theorems about CowValue, for any program, any scalars and any number of *)
(* blocks.  The argument is about heaps: every operation is put together   *)
(* from the primitives Put, Make and Release, and each of these leaves a   *)
(* good heap, if it is given one: no pointer dangles (Sound), no container *)
(* gets inside itself (Acyclic), no block is left over (Tidy).  What the   *)
(* recursive functions compute is shown with induction on sets of numbers. *)
(***************************************************************************)
EXTENDS CowValue, FiniteSetTheorems, WellFoundedInduction, TLAPS

(* What a slot may hold when B are the blocks there are.  No pointer leads *)
(* to the variables of the program.                                        *)
ValuesOver(B) ==
  {Null} \cup {Number(n) : n \in Numbers}
    \cup {Pointer(k, b) : k \in Kinds, b \in (B \ {Stack}) \cup {NullPtr}}

(* The items of a block: a finite function to values.                      *)
ItemsOver(items, B) ==
  /\ items = [s \in DOMAIN items |-> items[s]]
  /\ IsFiniteSet(DOMAIN items)
  /\ \A s \in DOMAIN items : items[s] \in ValuesOver(B)

(* No pointer dangles.                                                     *)
Sound(h) ==
  /\ h = [b \in DOMAIN h |-> h[b]]
  /\ Stack \in DOMAIN h
  /\ DOMAIN h \subseteq Nat
  /\ IsFiniteSet(DOMAIN h)
  /\ \A b \in DOMAIN h : ItemsOver(h[b], DOMAIN h)

(* g is h without some of its blocks.                                      *)
Kept(h, g) ==
  /\ DOMAIN g \subseteq DOMAIN h
  /\ \A b \in DOMAIN g : g[b] = h[b]

-------------------------------------------------------------------------------
(* Induction, for sets of numbers.                                         *)
LEMMA Least ==
  ASSUME NEW T, T \subseteq Nat, T # {}
  PROVE  \E m \in T : \A k \in T : m <= k
<1> DEFINE R == OpToRel(<, Nat)
<1>1. IsWellFoundedOn(R, Nat)
  BY NatLessThanWellFounded
<1>2. \A k, m \in Nat : k < m => <<k, m>> \in R
  BY DEF OpToRel
<1> HIDE DEF R
<1>3. PICK m \in T : \A k \in T : ~ (<<k, m>> \in R)
  BY <1>1, WFMin
<1>4. ASSUME NEW k \in T
      PROVE  m <= k
  <2>1. k \in Nat /\ m \in Nat /\ ~(k < m)
    BY <1>2, <1>3, Zenon
  <2> QED
    BY <2>1
<1> QED
  BY <1>4

LEMMA Induction ==
  ASSUME NEW S, 0 \in S, \A n \in Nat : n \in S => n + 1 \in S
  PROVE  \A n \in Nat : n \in S
<1> SUFFICES ASSUME Nat \ S # {}
             PROVE  FALSE
  OBVIOUS
<1>1. PICK m \in Nat \ S : \A k \in Nat \ S : m <= k
  BY Least
<1>2. m # 0
  OBVIOUS
<1>3. m - 1 \in Nat /\ ~(m <= m - 1)
  BY <1>2
<1>4. m - 1 \in S
  BY <1>1, <1>3
<1> QED
  BY <1>3, <1>4

-------------------------------------------------------------------------------
(* Values.                                                                 *)
LEMMA ValueFacts ==
  ASSUME NEW B
  PROVE  /\ Null \in ValuesOver(B) /\ ~IsContainer(Null)
         /\ \A n \in Numbers : Number(n) \in ValuesOver(B) /\ ~IsContainer(Number(n))
         /\ \A k \in Kinds, b \in (B \ {Stack}) \cup {NullPtr} :
              Pointer(k, b) \in ValuesOver(B) /\ IsContainer(Pointer(k, b))
         /\ \A v \in ValuesOver(B) : IsContainer(v) =>
              v.to \in (B \ {Stack}) \cup {NullPtr} /\ v = Pointer(v.type, v.to)
         /\ \A v \in ValuesOver(B) : v.type = "Null" => v = Null
<1>1. "Null" \notin Kinds /\ "Int" \notin Kinds
  BY CowAssumption
<1>2. Null \in ValuesOver(B) /\ ~IsContainer(Null)
  BY <1>1 DEF ValuesOver, IsContainer, Null
<1>3. \A n \in Numbers : Number(n) \in ValuesOver(B) /\ ~IsContainer(Number(n))
  BY <1>1 DEF ValuesOver, IsContainer, Number
<1>4. \A k \in Kinds, b \in (B \ {Stack}) \cup {NullPtr} :
        Pointer(k, b) \in ValuesOver(B) /\ IsContainer(Pointer(k, b))
  BY DEF ValuesOver, IsContainer, Pointer
<1>5. ASSUME NEW v \in ValuesOver(B), v # Null, \A n \in Numbers : v # Number(n)
      PROVE  /\ v.to \in (B \ {Stack}) \cup {NullPtr} /\ v = Pointer(v.type, v.to)
             /\ v.type \in Kinds
  <2>1. PICK k \in Kinds, b \in (B \ {Stack}) \cup {NullPtr} : v = Pointer(k, b)
    BY <1>5 DEF ValuesOver
  <2>2. v.type = k /\ v.to = b
    BY <2>1 DEF Pointer
  <2> QED
    BY <2>1, <2>2
<1>6. \A v \in ValuesOver(B) : IsContainer(v) =>
        v.to \in (B \ {Stack}) \cup {NullPtr} /\ v = Pointer(v.type, v.to)
  BY <1>2, <1>3, <1>5
<1>7. \A n : Number(n).type = "Int"
  BY DEF Number
<1>8. \A v \in ValuesOver(B) : v.type = "Null" => v = Null
  BY <1>1, <1>5, <1>7
<1> QED
  BY <1>2, <1>3, <1>4, <1>6, <1>8

(* A value is one over other blocks, if the block it points to is there.   *)
LEMMA ValueOver ==
  ASSUME NEW B, NEW C, NEW v \in ValuesOver(B), IsContainer(v) => v.to \in C \cup {NullPtr}
  PROVE  v \in ValuesOver(C)
<1>1. CASE IsContainer(v)
  <2>1. v.to \in (C \ {Stack}) \cup {NullPtr} /\ v = Pointer(v.type, v.to) /\ v.type \in Kinds
    BY <1>1, ValueFacts DEF IsContainer, Stack, NullPtr
  <2> QED
    BY <2>1, ValueFacts
<1>2. CASE ~IsContainer(v)
  BY <1>2 DEF ValuesOver, IsContainer, Pointer
<1> QED
  BY <1>1, <1>2

LEMMA ValuesGrow ==
  ASSUME NEW B, NEW C, B \subseteq C
  PROVE  ValuesOver(B) \subseteq ValuesOver(C)
BY DEF ValuesOver

-------------------------------------------------------------------------------
(* Release.                                                                *)
LEMMA TargetFacts ==
  ASSUME NEW h, NEW B, NEW b \in B, NEW s \in DOMAIN h[b], IsContainer(h[b][s]),
         h[b][s].to # NullPtr
  PROVE  h[b][s].to \in Targets(h, B)
BY DEF Targets

(* One round of freeing takes no block that a pointer leads to.            *)
Sweep(h) == Restrict(h, DOMAIN h \ Unused(h))

LEMMA SweepSound ==
  ASSUME NEW h, Sound(h)
  PROVE  Sound(Sweep(h)) /\ Kept(h, Sweep(h))
<1> DEFINE g == Sweep(h)
<1>1. /\ g = [b \in DOMAIN g |-> g[b]]
      /\ DOMAIN g = DOMAIN h \ Unused(h)
      /\ \A b \in DOMAIN g : g[b] = h[b]
  BY DEF Sweep, Restrict
<1>2. Stack \in DOMAIN g
  BY <1>1 DEF Unused, Sound
<1>3. DOMAIN g \subseteq Nat /\ IsFiniteSet(DOMAIN g)
  BY <1>1, FS_Subset DEF Sound
<1>4. ASSUME NEW b \in DOMAIN g
      PROVE  ItemsOver(g[b], DOMAIN g)
  <2>1. ItemsOver(h[b], DOMAIN h) /\ g[b] = h[b] /\ b \in DOMAIN h
    BY <1>1 DEF Sound
  <2>2. ASSUME NEW s \in DOMAIN h[b]
        PROVE  h[b][s] \in ValuesOver(DOMAIN g)
    <3>1. h[b][s] \in ValuesOver(DOMAIN h)
      BY <2>1 DEF ItemsOver
    <3>2. ASSUME IsContainer(h[b][s]), h[b][s].to # NullPtr
          PROVE  h[b][s].to \in DOMAIN g
      <4>1. h[b][s].to \in Targets(h, DOMAIN h)
        BY <2>1, <3>2, TargetFacts
      <4>2. h[b][s].to \in DOMAIN h
        BY <3>1, <3>2, ValueFacts
      <4> QED
        BY <1>1, <4>1, <4>2 DEF Unused
    <3> QED
      BY <3>1, <3>2, ValueOver
  <2> QED
    BY <2>1, <2>2 DEF ItemsOver
<1> QED
  BY <1>1, <1>2, <1>3, <1>4 DEF Sound, Kept

IsSweeping(f, h, N) == f = [n \in 0 .. N |-> IF n = 0 THEN h ELSE Sweep(f[n - 1])]

LEMMA ReleaseIs ==
  ASSUME NEW h, NEW N, N = Cardinality(DOMAIN h), \E f : IsSweeping(f, h, N)
  PROVE  \E f : /\ IsSweeping(f, h, N)
               /\ Release(h) = IF Unused(h) = {} THEN h ELSE f[N]
BY DEF Release, IsSweeping, Sweep

LEMMA SweepingExists ==
  ASSUME NEW h
  PROVE  \A N \in Nat : \E f : IsSweeping(f, h, N)
<1> DEFINE S == {N \in Nat : \E f : IsSweeping(f, h, N)}
<1>1. 0 \in S
  <2>1. IsSweeping([n \in 0 .. 0 |-> h], h, 0)
    BY DEF IsSweeping
  <2> QED
    BY <2>1
<1>2. ASSUME NEW N \in Nat, N \in S
      PROVE  N + 1 \in S
  <2>1. PICK f : IsSweeping(f, h, N)
    BY <1>2
  <2> DEFINE g == [n \in 0 .. N + 1 |-> IF n = N + 1 THEN Sweep(f[N]) ELSE f[n]]
  <2>2. ASSUME NEW n \in 0 .. N + 1
        PROVE  g[n] = IF n = 0 THEN h ELSE Sweep(g[n - 1])
    <3>1. CASE n = N + 1
      <4>1. n # 0 /\ n - 1 = N /\ N \in 0 .. N + 1 /\ N # N + 1
        BY <3>1
      <4> QED
        BY <3>1, <4>1
    <3>2. CASE n # N + 1
      <4>1. n \in 0 .. N /\ (n # 0 => n - 1 \in 0 .. N + 1 /\ n - 1 # N + 1)
        BY <3>2
      <4>2. f[n] = IF n = 0 THEN h ELSE Sweep(f[n - 1])
        BY <2>1, <4>1 DEF IsSweeping
      <4> QED
        BY <3>2, <4>1, <4>2
    <3> QED
      BY <3>1, <3>2
  <2>3. IsSweeping(g, h, N + 1)
    <3>1. g = [n \in 0 .. N + 1 |-> g[n]]
      OBVIOUS
    <3> HIDE DEF g
    <3> QED
      BY <2>2, <3>1 DEF IsSweeping
  <2> QED
    BY <2>3
<1> HIDE DEF S
<1>3. \A N \in Nat : N \in S
  BY <1>1, <1>2, Induction
<1> QED
  BY <1>3 DEF S

LEMMA SweepingSound ==
  ASSUME NEW h, Sound(h), NEW N \in Nat, NEW f, IsSweeping(f, h, N)
  PROVE  Sound(f[N]) /\ Kept(h, f[N])
<1> DEFINE S == {n \in Nat : n <= N => Sound(f[n]) /\ Kept(h, f[n])}
<1>1. \A n \in 0 .. N : f[n] = IF n = 0 THEN h ELSE Sweep(f[n - 1])
  BY DEF IsSweeping
<1>2. 0 \in S
  BY <1>1 DEF Kept
<1>3. ASSUME NEW n \in Nat, n \in S
      PROVE  n + 1 \in S
  <2> SUFFICES ASSUME n + 1 <= N
               PROVE  Sound(f[n + 1]) /\ Kept(h, f[n + 1])
    OBVIOUS
  <2>1. Sound(f[n]) /\ Kept(h, f[n])
    BY <1>3
  <2>2. n + 1 \in 0 .. N /\ n + 1 # 0 /\ (n + 1) - 1 = n
    OBVIOUS
  <2>3. f[n + 1] = Sweep(f[n])
    BY <1>1, <2>2
  <2>4. Sound(Sweep(f[n])) /\ Kept(f[n], Sweep(f[n]))
    BY <2>1, SweepSound
  <2> QED
    BY <2>1, <2>3, <2>4 DEF Kept
<1> HIDE DEF S
<1>4. N \in S
  BY <1>2, <1>3, Induction
<1> QED
  BY <1>4 DEF S

LEMMA ReleaseSound ==
  ASSUME NEW h, Sound(h)
  PROVE  Sound(Release(h)) /\ Kept(h, Release(h))
<1> DEFINE N == Cardinality(DOMAIN h)
<1>1. N \in Nat
  BY FS_CardinalityType DEF Sound
<1>2. \E f : IsSweeping(f, h, N)
  BY <1>1, SweepingExists
<1>3. PICK f : /\ IsSweeping(f, h, N)
               /\ Release(h) = IF Unused(h) = {} THEN h ELSE f[N]
  BY <1>2, ReleaseIs
<1>4. Sound(f[N]) /\ Kept(h, f[N])
  BY <1>1, <1>3, SweepingSound
<1>5. Kept(h, h)
  BY DEF Kept
<1> QED
  BY <1>3, <1>4, <1>5

-------------------------------------------------------------------------------
(* Put.                                                                    *)
Stored(h, p, v) == [h EXCEPT ![p[1]] = With(@, p[2], v)]

LEMMA StoredSound ==
  ASSUME NEW h, Sound(h), NEW p, p[1] \in DOMAIN h, NEW v \in ValuesOver(DOMAIN h)
  PROVE  /\ Sound(Stored(h, p, v))
         /\ DOMAIN Stored(h, p, v) = DOMAIN h
         /\ \A b \in DOMAIN h : b # p[1] => Stored(h, p, v)[b] = h[b]
         /\ DOMAIN Stored(h, p, v)[p[1]] = DOMAIN h[p[1]] \cup {p[2]}
         /\ Stored(h, p, v)[p[1]][p[2]] = v
         /\ \A s \in DOMAIN h[p[1]] : s # p[2] => Stored(h, p, v)[p[1]][s] = h[p[1]][s]
<1> DEFINE g == Stored(h, p, v)
           items == With(h[p[1]], p[2], v)
<1>1. /\ g = [b \in DOMAIN g |-> g[b]]
      /\ DOMAIN g = DOMAIN h
      /\ g[p[1]] = items
      /\ \A b \in DOMAIN h : b # p[1] => g[b] = h[b]
  BY DEF Stored, Sound
<1>2. /\ items = [s \in DOMAIN items |-> items[s]]
      /\ DOMAIN items = DOMAIN h[p[1]] \cup {p[2]}
      /\ items[p[2]] = v
      /\ \A s \in DOMAIN h[p[1]] : s # p[2] => items[s] = h[p[1]][s]
  BY DEF With
<1>3. ItemsOver(h[p[1]], DOMAIN h)
  BY DEF Sound
<1> HIDE DEF items
<1>4. ItemsOver(items, DOMAIN h)
  BY <1>2, <1>3, FS_AddElement DEF ItemsOver
<1> HIDE DEF g
<1>5. \A b \in DOMAIN g : ItemsOver(g[b], DOMAIN g)
  BY <1>1, <1>4 DEF Sound
<1>6. Sound(g)
  BY <1>1, <1>5 DEF Sound
<1> QED
  BY <1>1, <1>2, <1>6 DEF g

(* Putting a value somewhere frees blocks and changes no other place.      *)
LEMMA PutSound ==
  ASSUME NEW h, Sound(h), NEW p, p[1] \in DOMAIN h, NEW v \in ValuesOver(DOMAIN h)
  PROVE  LET g == Put(h, p, v) IN
         /\ Sound(g)
         /\ DOMAIN g \subseteq DOMAIN h
         /\ \A b \in DOMAIN g : b # p[1] => g[b] = h[b]
         /\ p[1] \in DOMAIN g =>
              /\ DOMAIN g[p[1]] = DOMAIN h[p[1]] \cup {p[2]}
              /\ At(g, p) = v
              /\ \A s \in DOMAIN h[p[1]] : s # p[2] => g[p[1]][s] = h[p[1]][s]
<1> DEFINE g == Put(h, p, v)
           m == Stored(h, p, v)
<1>1. g = m \/ g = Release(m)
  BY DEF Put, Stored
<1>2. /\ Sound(m)
      /\ DOMAIN m = DOMAIN h
      /\ \A b \in DOMAIN h : b # p[1] => m[b] = h[b]
      /\ DOMAIN m[p[1]] = DOMAIN h[p[1]] \cup {p[2]}
      /\ m[p[1]][p[2]] = v
      /\ \A s \in DOMAIN h[p[1]] : s # p[2] => m[p[1]][s] = h[p[1]][s]
  BY StoredSound
<1> HIDE DEF m
<1>3. Sound(g) /\ Kept(m, g)
  BY <1>1, <1>2, ReleaseSound DEF Kept
<1> HIDE DEF g
<1>4. /\ Sound(g)
      /\ DOMAIN g \subseteq DOMAIN h
      /\ \A b \in DOMAIN g : b # p[1] => g[b] = h[b]
      /\ p[1] \in DOMAIN g =>
           /\ DOMAIN g[p[1]] = DOMAIN h[p[1]] \cup {p[2]}
           /\ At(g, p) = v
           /\ \A s \in DOMAIN h[p[1]] : s # p[2] => g[p[1]][s] = h[p[1]][s]
  BY <1>2, <1>3 DEF Kept, At
<1> QED
  BY <1>4 DEF g

-------------------------------------------------------------------------------
(* The shape of a heap.  Block b leads to block c if a Value in b points   *)
(* to c.  A heap is acyclic if the blocks can be ranked so that they lead  *)
(* to blocks of higher rank only; it is tidy if there is a pointer to      *)
(* every block but the variables.                                          *)
Leads(h, b, c) == \E s \in DOMAIN h[b] : PointsTo(h[b][s], c)

Ranked(h, r) ==
  /\ r \in [DOMAIN h -> Nat]
  /\ r[Stack] = 0
  /\ \A b \in DOMAIN h \ {Stack} : r[b] > 0
  /\ \A b, c \in DOMAIN h : Leads(h, b, c) => r[b] < r[c]

Acyclic(h) == \E r : Ranked(h, r)

Tidy(h) == \A c \in DOMAIN h \ {Stack} : \E b \in DOMAIN h : Leads(h, b, c)

Good(h) == Sound(h) /\ Acyclic(h) /\ Tidy(h)

LEMMA TargetsAreLed ==
  ASSUME NEW h, NEW B, NEW c
  PROVE  c \in Targets(h, B) <=> c # NullPtr /\ \E b \in B : Leads(h, b, c)
BY DEF Targets, Leads, PointsTo

LEMMA TidyIsAllUsed ==
  ASSUME NEW h, Sound(h)
  PROVE  Tidy(h) <=> Unused(h) = {}
<1>1. \A c \in DOMAIN h : c # NullPtr
  BY DEF Sound, NullPtr
<1> QED
  BY <1>1, TargetsAreLed DEF Tidy, Unused

(* Where a pointer may lead. *)
LEMMA LeadsInto ==
  ASSUME NEW h, Sound(h), NEW b \in DOMAIN h, NEW c, c # NullPtr, Leads(h, b, c)
  PROVE  c \in DOMAIN h \ {Stack}
<1>1. PICK s \in DOMAIN h[b] : PointsTo(h[b][s], c)
  BY DEF Leads
<1>2. h[b][s] \in ValuesOver(DOMAIN h)
  BY DEF Sound, ItemsOver
<1> QED
  BY <1>1, <1>2, ValueFacts DEF PointsTo

LEMMA KeptAcyclic ==
  ASSUME NEW h, NEW r, Ranked(h, r), NEW g, Sound(g), Kept(h, g)
  PROVE  Acyclic(g)
<1> DEFINE q == [b \in DOMAIN g |-> r[b]]
<1>1. \A b \in DOMAIN g : b \in DOMAIN h /\ g[b] = h[b] /\ q[b] = r[b] /\ r[b] \in Nat
  BY DEF Kept, Ranked
<1>2. q \in [DOMAIN g -> Nat] /\ Stack \in DOMAIN g
  BY <1>1 DEF Sound
<1> HIDE DEF q
<1>3. Ranked(g, q)
  BY <1>1, <1>2 DEF Ranked, Leads
<1> QED
  BY <1>3 DEF Acyclic

(* Each round of freeing takes a block, until there is none to take; so    *)
(* that as many rounds as there are blocks are enough.                     *)
LEMMA SweepingEnds ==
  ASSUME NEW h, Sound(h), NEW N, N = Cardinality(DOMAIN h), NEW f, IsSweeping(f, h, N)
  PROVE  Unused(f[N]) = {}
<1> DEFINE S == {n \in Nat : n <= N => \/ Unused(f[n]) = {}
                                       \/ Cardinality(DOMAIN f[n]) <= N - n}
<1>1. N \in Nat
  BY FS_CardinalityType DEF Sound
<1>2. \A n \in 0 .. N : f[n] = IF n = 0 THEN h ELSE Sweep(f[n - 1])
  BY DEF IsSweeping
<1>3. 0 \in S
  <2>1. f[0] = h
    BY <1>1, <1>2
  <2> QED
    BY <1>1, <2>1
<1>4. ASSUME NEW n \in Nat, n \in S
      PROVE  n + 1 \in S
  <2> SUFFICES ASSUME n + 1 <= N
               PROVE  Unused(f[n + 1]) = {} \/ Cardinality(DOMAIN f[n + 1]) <= N - (n + 1)
    OBVIOUS
  <2> DEFINE g == f[n]
  <2>1. f[n + 1] = Sweep(g)
    <3>1. n + 1 \in 0 .. N /\ n + 1 # 0 /\ (n + 1) - 1 = n
      BY <1>1
    <3> QED
      BY <1>2, <3>1
  <2>2. Unused(g) = {} \/ Cardinality(DOMAIN g) <= N - n
    BY <1>1, <1>4
  <2>3. Sound(g)
    <3>1. IsSweeping([m \in 0 .. n |-> f[m]], h, n)
      <4>1. \A m \in 0 .. n : m \in 0 .. N /\ (m # 0 => m - 1 \in 0 .. n)
        BY <1>1
      <4> QED
        BY <1>2, <4>1 DEF IsSweeping
    <3> QED
      BY <3>1, SweepingSound
  <2> HIDE DEF g
  <2>4. DOMAIN Sweep(g) = DOMAIN g \ Unused(g)
    BY DEF Sweep, Restrict
  <2>5. CASE Unused(g) = {}
    <3>1. Sweep(g) = g
      BY <2>3, <2>5 DEF Sweep, Restrict, Sound
    <3> QED
      BY <2>1, <2>5, <3>1
  <2>6. CASE Unused(g) # {}
    <3>1. Unused(g) \subseteq DOMAIN g
      BY DEF Unused
    <3>2. IsFiniteSet(DOMAIN g)
      BY <2>3 DEF Sound
    <3>3. /\ Cardinality(DOMAIN Sweep(g)) \in Nat /\ Cardinality(DOMAIN g) \in Nat
          /\ Cardinality(DOMAIN Sweep(g)) <= Cardinality(DOMAIN g)
          /\ Cardinality(DOMAIN Sweep(g)) # Cardinality(DOMAIN g)
      BY <2>4, <2>6, <3>1, <3>2, FS_Subset, FS_CardinalityType
    <3> QED
      BY <1>1, <2>1, <2>2, <2>6, <3>3
  <2> QED
    BY <2>5, <2>6
<1> HIDE DEF S
<1>5. N \in S
  BY <1>1, <1>3, <1>4, Induction
<1>6. Unused(f[N]) = {} \/ Cardinality(DOMAIN f[N]) <= 0
  BY <1>1, <1>5 DEF S
<1>7. Sound(f[N])
  BY <1>1, SweepingSound
<1>8. Cardinality(DOMAIN f[N]) # 0 /\ Cardinality(DOMAIN f[N]) \in Nat
  BY <1>7, FS_EmptySet, FS_CardinalityType DEF Sound
<1> QED
  BY <1>6, <1>8

LEMMA ReleaseGood ==
  ASSUME NEW h, Sound(h), NEW r, Ranked(h, r)
  PROVE  Good(Release(h))
<1> DEFINE N == Cardinality(DOMAIN h)
<1>1. Sound(Release(h)) /\ Acyclic(Release(h))
  BY ReleaseSound, KeptAcyclic
<1>2. N \in Nat
  BY FS_CardinalityType DEF Sound
<1>3. \E f : IsSweeping(f, h, N)
  BY <1>2, SweepingExists
<1>4. PICK f : /\ IsSweeping(f, h, N)
               /\ Release(h) = IF Unused(h) = {} THEN h ELSE f[N]
  BY <1>3, ReleaseIs
<1>5. Unused(Release(h)) = {}
  BY <1>4, SweepingEnds
<1> QED
  BY <1>1, <1>5, TidyIsAllUsed DEF Good

(* There is a number for a new block.                                      *)
LEMMA FreshBlock ==
  ASSUME NEW h, Sound(h)
  PROVE  LET b == Min((1 .. Cardinality(DOMAIN h)) \ DOMAIN h)
         IN  b \in Nat /\ b # Stack /\ b \notin DOMAIN h
<1> DEFINE c == Cardinality(DOMAIN h)
           T == (1 .. c) \ DOMAIN h
<1>1. c \in Nat /\ IsFiniteSet(DOMAIN h)
  BY FS_CardinalityType DEF Sound
<1>2. T # {}
  <2> SUFFICES ASSUME T = {}
               PROVE  FALSE
    OBVIOUS
  <2>1. 0 .. c \subseteq DOMAIN h
    BY <1>1 DEF Sound, Stack
  <2>2. Cardinality(0 .. c) <= c
    BY <1>1, <2>1, FS_Subset
  <2>3. Cardinality(0 .. c) = c + 1
    <3>1. 0 \in Int /\ c \in Int /\ ~(0 > c) /\ c - 0 + 1 = c + 1
      BY <1>1
    <3> HIDE DEF c
    <3> QED
      BY <3>1, FS_Interval
  <2> QED
    BY <1>1, <2>2, <2>3
<1>3. T \subseteq Nat
  BY <1>1
<1> HIDE DEF T
<1>4. \E m \in T : \A k \in T : m <= k
  BY <1>2, <1>3, Least
<1>5. Min(T) \in T
  BY <1>4 DEF Min
<1> QED
  BY <1>1, <1>5 DEF T, Stack

(* A block more, with values over the blocks there are.                    *)
LEMMA WithSound ==
  ASSUME NEW h, Sound(h), NEW b \in Nat, b \notin DOMAIN h,
         NEW items, ItemsOver(items, DOMAIN h)
  PROVE  Sound(With(h, b, items))
<1> DEFINE m == With(h, b, items)
<1>1. /\ m = [a \in DOMAIN m |-> m[a]]
      /\ DOMAIN m = DOMAIN h \cup {b}
      /\ m[b] = items
      /\ \A a \in DOMAIN h : m[a] = h[a]
  BY DEF With
<1> HIDE DEF m
<1>2. DOMAIN m \subseteq Nat /\ Stack \in DOMAIN m /\ IsFiniteSet(DOMAIN m)
  BY <1>1, FS_AddElement DEF Sound
<1>3. ASSUME NEW a \in DOMAIN m
      PROVE  ItemsOver(m[a], DOMAIN m)
  <2>1. ItemsOver(m[a], DOMAIN h)
    BY <1>1 DEF Sound
  <2>2. ValuesOver(DOMAIN h) \subseteq ValuesOver(DOMAIN m)
    BY <1>1, ValuesGrow
  <2> QED
    BY <2>1, <2>2 DEF ItemsOver
<1>4. Sound(m)
  BY <1>1, <1>2, <1>3 DEF Sound
<1> QED
  BY <1>4 DEF m

(* Putting a value keeps the ranks if they rise along its pointer, and     *)
(* leaves a tidy heap if the only block without a pointer is the one it    *)
(* points to.                                                              *)
LEMMA PutGood ==
  ASSUME NEW h, Sound(h), NEW p, p[1] \in DOMAIN h, NEW v \in ValuesOver(DOMAIN h),
         NEW r, Ranked(h, r),
         \A c \in DOMAIN h : PointsTo(v, c) => r[p[1]] < r[c],
         \A c \in DOMAIN h \ {Stack} : PointsTo(v, c) \/ \E b \in DOMAIN h : Leads(h, b, c)
  PROVE  Good(Put(h, p, v))
<1> DEFINE m == Stored(h, p, v)
           drops == p[2] \in DOMAIN h[p[1]] /\ IsContainer(At(h, p))
<1>1. Put(h, p, v) = IF drops THEN Release(m) ELSE m
  BY DEF Put, Stored
<1>2. /\ Sound(m)
      /\ DOMAIN m = DOMAIN h
      /\ \A b \in DOMAIN h : b # p[1] => m[b] = h[b]
      /\ DOMAIN m[p[1]] = DOMAIN h[p[1]] \cup {p[2]}
      /\ m[p[1]][p[2]] = v
      /\ \A s \in DOMAIN h[p[1]] : s # p[2] => m[p[1]][s] = h[p[1]][s]
  BY StoredSound
<1> HIDE DEF m
<1>3. Ranked(m, r)
  <2>1. ASSUME NEW b \in DOMAIN h, NEW c \in DOMAIN h, Leads(m, b, c)
        PROVE  r[b] < r[c]
    <3>1. PICK s \in DOMAIN m[b] : PointsTo(m[b][s], c)
      BY <2>1 DEF Leads
    <3>2. CASE b = p[1] /\ s = p[2]
      BY <1>2, <3>1, <3>2
    <3>3. CASE ~(b = p[1] /\ s = p[2])
      <4>1. s \in DOMAIN h[b] /\ m[b][s] = h[b][s]
        BY <1>2, <3>1, <3>3
      <4>2. Leads(h, b, c)
        BY <3>1, <4>1 DEF Leads
      <4> QED
        BY <4>2 DEF Ranked
    <3> QED
      BY <3>2, <3>3
  <2> QED
    BY <1>2, <2>1 DEF Ranked
<1>4. CASE drops
  BY <1>1, <1>2, <1>3, <1>4, ReleaseGood
<1>5. CASE ~drops
  <2>1. ASSUME NEW c \in DOMAIN h \ {Stack}
        PROVE  \E b \in DOMAIN h : Leads(m, b, c)
    <3>1. CASE PointsTo(v, c)
      <4>1. Leads(m, p[1], c)
        BY <1>2, <3>1 DEF Leads
      <4> QED
        BY <4>1
    <3>2. ASSUME NEW b \in DOMAIN h, Leads(h, b, c)
          PROVE  Leads(m, b, c)
      <4>1. PICK s \in DOMAIN h[b] : PointsTo(h[b][s], c)
        BY <3>2 DEF Leads
      <4>2. ~(b = p[1] /\ s = p[2])
        BY <1>5, <4>1 DEF PointsTo, At
      <4>3. s \in DOMAIN m[b] /\ m[b][s] = h[b][s]
        BY <1>2, <4>1, <4>2
      <4> QED
        BY <4>1, <4>3 DEF Leads
    <3> QED
      BY <3>1, <3>2
  <2> QED
    BY <1>1, <1>2, <1>3, <1>5, <2>1 DEF Good, Acyclic, Tidy
<1> QED
  BY <1>4, <1>5

(* A scalar may be put anywhere, and anything into a variable.             *)
LEMMA PutSimpleGood ==
  ASSUME NEW h, Good(h), NEW p, p[1] \in DOMAIN h, NEW v \in ValuesOver(DOMAIN h),
         ~IsContainer(v) \/ p[1] = Stack
  PROVE  Good(Put(h, p, v))
<1>1. PICK r : Ranked(h, r)
  BY DEF Good, Acyclic
<1>2. ASSUME NEW c \in DOMAIN h, PointsTo(v, c)
      PROVE  r[p[1]] < r[c]
  <2>1. IsContainer(v) /\ v.to = c /\ p[1] = Stack
    BY <1>2 DEF PointsTo
  <2>2. c # NullPtr
    BY DEF Good, Sound, NullPtr
  <2>3. c # Stack
    BY <2>1, <2>2, ValueFacts
  <2> QED
    BY <1>1, <2>1, <2>3 DEF Ranked
<1> QED
  BY <1>1, <1>2, PutGood DEF Good, Tidy

(* A new block may hold nothing, or copies of the items of a block that    *)
(* its place leads to already.                                             *)
LEMMA MakeGood ==
  ASSUME NEW h, Good(h), NEW p, p[1] \in DOMAIN h, NEW k \in Kinds, NEW items,
         ItemsOver(items, DOMAIN h),
         \/ items = Empty
         \/ \E a \in DOMAIN h \ {Stack} :
              items = h[a] /\ (p[1] = Stack \/ Leads(h, p[1], a))
  PROVE  Good(Make(h, p, k, items))
<1> DEFINE b == Min((1 .. Cardinality(DOMAIN h)) \ DOMAIN h)
           m == With(h, b, items)
<1>1. b \in Nat /\ b # Stack /\ b \notin DOMAIN h
  BY FreshBlock DEF Good
<1>2. Make(h, p, k, items) = Put(m, p, Pointer(k, b))
  BY DEF Make
<1> HIDE DEF b
<1>3. /\ DOMAIN m = DOMAIN h \cup {b}
      /\ m[b] = items
      /\ \A a \in DOMAIN h : m[a] = h[a]
  BY <1>1 DEF With
<1>4. Sound(m)
  BY <1>1, WithSound DEF Good
<1> HIDE DEF m
<1>5. PICK r : Ranked(h, r)
  BY DEF Good, Acyclic
<1>6. \E n \in Nat : /\ r[p[1]] < n
                     /\ \A c \in DOMAIN h : Leads(m, b, c) => n < r[c]
  <2>1. CASE items = Empty
    <3>1. r[p[1]] + 1 \in Nat /\ r[p[1]] < r[p[1]] + 1
      BY <1>5 DEF Ranked
    <3>2. \A c : ~Leads(m, b, c)
      BY <1>3, <2>1 DEF Leads, Empty
    <3> QED
      BY <3>1, <3>2
  <2>2. ASSUME NEW a \in DOMAIN h \ {Stack}, items = h[a],
               p[1] = Stack \/ Leads(h, p[1], a)
        PROVE  \E n \in Nat : /\ r[p[1]] < n
                              /\ \A c \in DOMAIN h : Leads(m, b, c) => n < r[c]
    <3>1. r[a] \in Nat /\ r[p[1]] < r[a]
      BY <1>5, <2>2 DEF Ranked
    <3>2. \A c : Leads(m, b, c) => Leads(h, a, c)
      BY <1>3, <2>2 DEF Leads
    <3>3. \A c \in DOMAIN h : Leads(m, b, c) => r[a] < r[c]
      BY <1>5, <3>2 DEF Ranked
    <3> QED
      BY <3>1, <3>3
  <2> QED
    BY <2>1, <2>2
<1>7. PICK n \in Nat : /\ r[p[1]] < n
                       /\ \A c \in DOMAIN h : Leads(m, b, c) => n < r[c]
  BY <1>6
<1> DEFINE q == [a \in DOMAIN m |-> IF a = b THEN n ELSE r[a]]
<1>8. \A a \in DOMAIN m : ~Leads(m, a, b)
  <2>1. b # NullPtr
    BY <1>1 DEF NullPtr
  <2>2. ASSUME NEW a \in DOMAIN h, Leads(h, a, b)
        PROVE  FALSE
    BY <1>1, <2>1, <2>2, LeadsInto DEF Good
  <2>3. ~Leads(m, b, b)
    <3>1. \A s \in DOMAIN items : items[s] \in ValuesOver(DOMAIN h)
      BY DEF ItemsOver
    <3> QED
      BY <1>1, <1>3, <2>1, <3>1, ValueFacts DEF Leads, PointsTo
  <2> QED
    BY <1>3, <2>2, <2>3 DEF Leads
<1>9. Ranked(m, q)
  <2>1. p[1] # b /\ r[p[1]] \in Nat /\ n > 0
    BY <1>1, <1>5, <1>7 DEF Ranked
  <2>2. \A a \in DOMAIN h : q[a] = r[a] /\ r[a] \in Nat /\ a # b
    BY <1>1, <1>3, <1>5 DEF Ranked
  <2>3. q[b] = n
    BY <1>3
  <2>4. q \in [DOMAIN m -> Nat]
    BY <1>3, <2>2, <2>3
  <2> HIDE DEF q
  <2>5. Stack \in DOMAIN h
    BY DEF Good, Sound
  <2>6. q[Stack] = 0 /\ \A a \in DOMAIN m \ {Stack} : q[a] > 0
    BY <1>3, <1>5, <2>1, <2>2, <2>3, <2>5 DEF Ranked
  <2>7. ASSUME NEW a \in DOMAIN m, NEW c \in DOMAIN m, Leads(m, a, c)
        PROVE  q[a] < q[c]
    <3>1. c \in DOMAIN h
      BY <1>3, <1>8, <2>7
    <3>2. CASE a = b
      BY <1>7, <2>2, <2>3, <2>7, <3>1, <3>2
    <3>3. CASE a # b
      <4>1. a \in DOMAIN h /\ Leads(h, a, c)
        BY <1>3, <2>7, <3>3 DEF Leads
      <4> QED
        BY <1>5, <2>2, <3>1, <4>1 DEF Ranked
    <3> QED
      BY <3>2, <3>3
  <2> QED
    BY <2>4, <2>6, <2>7 DEF Ranked
<1>10. \A c : PointsTo(Pointer(k, b), c) <=> c = b
  BY ValueFacts DEF PointsTo, Pointer, IsContainer
<1>11. q[p[1]] < q[b]
  BY <1>1, <1>3, <1>7
<1> HIDE DEF q
<1>12. \A c \in DOMAIN m \ {Stack} :
         PointsTo(Pointer(k, b), c) \/ \E a \in DOMAIN m : Leads(m, a, c)
  <2> TAKE c \in DOMAIN m \ {Stack}
  <2>1. CASE c = b
    BY <1>10, <2>1
  <2>2. CASE c # b
    <3>1. PICK a \in DOMAIN h : Leads(h, a, c)
      BY <1>3, <2>2 DEF Good, Tidy
    <3> QED
      BY <1>3, <3>1 DEF Leads
  <2> QED
    BY <2>1, <2>2
<1>13. Pointer(k, b) \in ValuesOver(DOMAIN m)
  BY <1>1, <1>3, ValueFacts
<1>14. p[1] \in DOMAIN m /\ \A c \in DOMAIN m : PointsTo(Pointer(k, b), c) => q[p[1]] < q[c]
  BY <1>3, <1>10, <1>11
<1> QED
  BY <1>2, <1>4, <1>9, <1>12, <1>13, <1>14, PutGood
-------------------------------------------------------------------------------
(* What operations do at a place.                                          *)

(* Block b is not freed while the variables stay as they are.              *)
Anchored(h, b) ==
  /\ b \in DOMAIN h
  /\ b # Stack => \E x \in DOMAIN h[Stack] : PointsTo(h[Stack][x], b)

(* From h to g, only the value at p and what hangs on it changed.          *)
Edits(h, g, p) ==
  /\ Good(g)
  /\ Anchored(g, p[1])
  /\ p[1] # Stack => g[Stack] = h[Stack]
  /\ DOMAIN g[p[1]] = DOMAIN h[p[1]] \cup {p[2]}

LEMMA EditsTwice ==
  ASSUME NEW h, NEW m, NEW g, NEW p, Edits(h, m, p), Edits(m, g, p)
  PROVE  Edits(h, g, p)
BY DEF Edits

LEMMA EditsNothing ==
  ASSUME NEW h, NEW p, Good(h), Anchored(h, p[1]), p[2] \in DOMAIN h[p[1]]
  PROVE  Edits(h, h, p)
BY DEF Edits

(* The value at a place of a sound heap.                                   *)
LEMMA AtFacts ==
  ASSUME NEW h, Sound(h), NEW p, p[1] \in DOMAIN h, p[2] \in DOMAIN h[p[1]]
  PROVE  /\ At(h, p) \in ValuesOver(DOMAIN h)
         /\ IsContainer(At(h, p)) =>
              At(h, p).to \in (DOMAIN h \ {Stack}) \cup {NullPtr}
         /\ At(h, p).type = "Null" => At(h, p) = Null
<1>1. At(h, p) \in ValuesOver(DOMAIN h)
  BY DEF Sound, ItemsOver, At
<1> QED
  BY <1>1, ValueFacts

LEMMA PutEdits ==
  ASSUME NEW h, Sound(h), NEW p, Anchored(h, p[1]), NEW v \in ValuesOver(DOMAIN h),
         Good(Put(h, p, v))
  PROVE  Edits(h, Put(h, p, v), p) /\ At(Put(h, p, v), p) = v
<1> DEFINE g == Put(h, p, v)
<1>1. /\ Sound(g)
      /\ DOMAIN g \subseteq DOMAIN h
      /\ \A b \in DOMAIN g : b # p[1] => g[b] = h[b]
      /\ p[1] \in DOMAIN g =>
           DOMAIN g[p[1]] = DOMAIN h[p[1]] \cup {p[2]} /\ At(g, p) = v
  BY PutSound DEF Anchored
<1> HIDE DEF g
<1>2. Stack \in DOMAIN g
  BY <1>1 DEF Sound
<1>3. CASE p[1] = Stack
  BY <1>1, <1>2, <1>3 DEF Edits, Anchored, g
<1>4. CASE p[1] # Stack
  <2>1. g[Stack] = h[Stack]
    BY <1>1, <1>2, <1>4
  <2>2. PICK x \in DOMAIN h[Stack] : PointsTo(h[Stack][x], p[1])
    BY <1>4 DEF Anchored
  <2>3. g[Stack][x] \in ValuesOver(DOMAIN g)
    BY <1>1, <1>2, <2>1 DEF Sound, ItemsOver
  <2>4. p[1] \in DOMAIN g \cup {NullPtr}
    BY <2>1, <2>2, <2>3, ValueFacts DEF PointsTo
  <2>5. p[1] \in Nat
    BY DEF Anchored, Sound
  <2>6. p[1] \in DOMAIN g
    BY <2>4, <2>5 DEF NullPtr
  <2> QED
    BY <1>1, <2>1, <2>2, <2>6 DEF Edits, Anchored, g
<1> QED
  BY <1>3, <1>4

(* A container is unshared at p if no other place has its pointer.         *)
Only(g, p) ==
  \A b \in DOMAIN g : \A s \in DOMAIN g[b] :
    PointsTo(g[b][s], At(g, p).to) => b = p[1] /\ s = p[2]

(* There is a container at place p of g that is unshared and that nothing  *)
(* was moved from.                                                         *)
Ready(g, p, k) ==
  /\ At(g, p).type = k
  /\ At(g, p).to # NullPtr
  /\ Only(g, p)

LEMMA MakeEdits ==
  ASSUME NEW h, Good(h), NEW p, Anchored(h, p[1]), NEW k \in Kinds, NEW items,
         ItemsOver(items, DOMAIN h),
         \/ items = Empty
         \/ \E a \in DOMAIN h \ {Stack} :
              items = h[a] /\ (p[1] = Stack \/ Leads(h, p[1], a))
  PROVE  Edits(h, Make(h, p, k, items), p) /\ Ready(Make(h, p, k, items), p, k)
<1> DEFINE b == Min((1 .. Cardinality(DOMAIN h)) \ DOMAIN h)
           m == With(h, b, items)
           g == Make(h, p, k, items)
<1>1. b \in Nat /\ b # Stack /\ b \notin DOMAIN h
  BY FreshBlock DEF Good
<1>2. g = Put(m, p, Pointer(k, b))
  BY DEF Make
<1>3. Good(g)
  BY MakeGood DEF Anchored
<1> HIDE DEF b, g
<1>4. /\ DOMAIN m = DOMAIN h \cup {b}
      /\ m[b] = items
      /\ \A a \in DOMAIN h : m[a] = h[a]
  BY <1>1 DEF With
<1>5. Sound(m)
  BY <1>1, WithSound DEF Good
<1> HIDE DEF m
<1>6. Anchored(m, p[1]) /\ m[Stack] = h[Stack] /\ m[p[1]] = h[p[1]]
  BY <1>4 DEF Anchored, Good, Sound
<1>7. Pointer(k, b) \in ValuesOver(DOMAIN m)
  BY <1>1, <1>4, ValueFacts
<1>8. Edits(m, g, p) /\ At(g, p) = Pointer(k, b)
  BY <1>2, <1>3, <1>5, <1>6, <1>7, PutEdits
<1>9. Edits(h, g, p)
  BY <1>6, <1>8 DEF Edits
<1>10. At(g, p).type = k /\ At(g, p).to = b /\ b # NullPtr
  BY <1>1, <1>8 DEF Pointer, NullPtr
<1>11. ASSUME NEW a \in DOMAIN g, NEW s \in DOMAIN g[a], PointsTo(g[a][s], b),
              ~(a = p[1] /\ s = p[2])
       PROVE  FALSE
  <2>1. /\ DOMAIN g \subseteq DOMAIN m
        /\ \A c \in DOMAIN g : c # p[1] => g[c] = m[c]
        /\ p[1] \in DOMAIN g =>
             /\ DOMAIN g[p[1]] = DOMAIN m[p[1]] \cup {p[2]}
             /\ \A t \in DOMAIN m[p[1]] : t # p[2] => g[p[1]][t] = m[p[1]][t]
    BY <1>2, <1>5, <1>6, <1>7, PutSound DEF Anchored
  <2>2. s \in DOMAIN m[a] /\ g[a][s] = m[a][s]
    BY <1>11, <2>1
  <2>3. a \in DOMAIN m
    BY <2>1
  <2>4. m[a][s] \in ValuesOver(DOMAIN h)
    BY <1>4, <2>2, <2>3 DEF Good, Sound, ItemsOver
  <2>5. b \in DOMAIN h \cup {NullPtr}
    BY <1>11, <2>2, <2>4, ValueFacts DEF PointsTo
  <2> QED
    BY <1>1, <1>10, <2>5
<1>12. Only(g, p)
  BY <1>10, <1>11 DEF Only
<1> QED
  BY <1>9, <1>10, <1>12 DEF Ready, g

(* The places of a heap can be counted.                                    *)
LEMMA PlacesFinite ==
  ASSUME NEW h, Sound(h)
  PROVE  IsFiniteSet(Places(h))
<1> DEFINE S == {{b} \X DOMAIN h[b] : b \in DOMAIN h}
           f == [b \in DOMAIN h |-> {b} \X DOMAIN h[b]]
<1>1. f \in Surjection(DOMAIN h, S)
  BY DEF Surjection
<1>2. IsFiniteSet(S)
  <2> HIDE DEF f, S
  <2> QED
    BY <1>1, FS_Surjection DEF Sound
<1>3. \A b \in DOMAIN h : IsFiniteSet({b} \X DOMAIN h[b])
  BY FS_Singleton, FS_Product DEF Sound, ItemsOver
<1>4. \A T \in S : IsFiniteSet(T)
  BY <1>3
<1> QED
  BY <1>2, <1>4, FS_UNION DEF Places

(* A use count of one means what ensureUniqueArray and ensureUniqueObject  *)
(* take it to mean.                                                        *)
LEMMA CountedOnly ==
  ASSUME NEW h, Sound(h), NEW p, p[1] \in DOMAIN h, p[2] \in DOMAIN h[p[1]],
         IsContainer(At(h, p)), ~(UseCount(h, At(h, p).to) > 1)
  PROVE  Only(h, p)
<1> DEFINE c == At(h, p).to
           T == {q \in Places(h) : PointsTo(At(h, q), c)}
           me == <<p[1], p[2]>>
<1> SUFFICES ASSUME NEW b \in DOMAIN h, NEW s \in DOMAIN h[b], PointsTo(h[b][s], c)
             PROVE  b = p[1] /\ s = p[2]
  BY DEF Only
<1> DEFINE you == <<b, s>>
<1>1. me \in T /\ you \in T
  BY DEF Places, PointsTo, At
<1>2. IsFiniteSet(T)
  BY PlacesFinite, FS_Subset
<1>3. ~(Cardinality(T) > 1)
  BY DEF UseCount
<1>4. me = you => b = p[1] /\ s = p[2]
  OBVIOUS
<1> HIDE DEF T, me, you
<1>5. IsFiniteSet({me}) /\ Cardinality({me}) = 1
  BY FS_Singleton
<1>6. you \notin {me} => Cardinality({me} \cup {you}) = Cardinality({me}) + 1
  BY <1>5, FS_AddElement
<1>7. Cardinality({me} \cup {you}) <= Cardinality(T)
  BY <1>1, <1>2, FS_Subset
<1>8. Cardinality(T) \in Nat
  BY <1>2, FS_CardinalityType
<1>9. you = me
  BY <1>3, <1>5, <1>6, <1>7, <1>8
<1> QED
  BY <1>4, <1>9

LEMMA EmptyItems == ASSUME NEW B PROVE ItemsOver(Empty, B)
BY FS_EmptySet DEF ItemsOver, Empty

LEMMA EnsureUniqueEdits ==
  ASSUME NEW h, Good(h), NEW p, Anchored(h, p[1]), p[2] \in DOMAIN h[p[1]],
         NEW k \in Kinds, At(h, p).type = k
  PROVE  Edits(h, EnsureUnique(h, p), p) /\ Ready(EnsureUnique(h, p), p, k)
<1> DEFINE v == At(h, p)
<1>1. CASE v.to = NullPtr
  <2>1. EnsureUnique(h, p) = Make(h, p, k, Empty)
    BY <1>1 DEF EnsureUnique
  <2> QED
    BY <2>1, EmptyItems, MakeEdits
<1>2. CASE v.to # NullPtr /\ UseCount(h, v.to) > 1
  <2>1. EnsureUnique(h, p) = Make(h, p, k, h[v.to])
    BY <1>2 DEF EnsureUnique
  <2>2. v.to \in DOMAIN h \ {Stack}
    BY <1>2, AtFacts DEF Anchored, IsContainer, Good
  <2>3. ItemsOver(h[v.to], DOMAIN h)
    BY <2>2 DEF Good, Sound
  <2>4. Leads(h, p[1], v.to)
    BY DEF Leads, PointsTo, IsContainer, At
  <2> HIDE DEF v
  <2> QED
    BY <2>1, <2>2, <2>3, <2>4, MakeEdits
<1>3. CASE v.to # NullPtr /\ ~(UseCount(h, v.to) > 1)
  <2>1. EnsureUnique(h, p) = h
    BY <1>3 DEF EnsureUnique
  <2>2. Only(h, p)
    BY <1>3, CountedOnly DEF Good, Anchored, IsContainer
  <2> QED
    BY <1>3, <2>1, <2>2, EditsNothing DEF Ready
<1> QED
  BY <1>1, <1>2, <1>3

(* After an edit that leaves a container at p, p is a place still. *)
LEMMA EditedPlace ==
  ASSUME NEW h, NEW g, NEW p, Edits(h, g, p)
  PROVE  /\ Good(g)
         /\ Anchored(g, p[1])
         /\ p[2] \in DOMAIN g[p[1]]
BY DEF Edits

LEMMA AsEdits ==
  ASSUME NEW h, Good(h), NEW p, Anchored(h, p[1]), p[2] \in DOMAIN h[p[1]],
         NEW k \in Kinds, Accepts(h, p, k)
  PROVE  Edits(h, As(h, p, k), p) /\ Ready(As(h, p, k), p, k)
<1> DEFINE m == IF At(h, p) = Null THEN Make(h, p, k, Empty) ELSE h
<1>1. Edits(h, m, p) /\ At(m, p).type = k
  <2>1. CASE At(h, p) = Null
    BY <2>1, EmptyItems, MakeEdits DEF Ready
  <2>2. CASE At(h, p) # Null
    <3>1. At(h, p).type = k
      BY <2>2, AtFacts DEF Accepts, Anchored, Good
    <3> QED
      BY <2>2, <3>1, EditsNothing
  <2> QED
    BY <2>1, <2>2
<1>2. As(h, p, k) = EnsureUnique(m, p)
  BY DEF As
<1> HIDE DEF m
<1>3. Edits(m, EnsureUnique(m, p), p) /\ Ready(EnsureUnique(m, p), p, k)
  BY <1>1, EditedPlace, EnsureUniqueEdits
<1> QED
  BY <1>1, <1>2, <1>3, EditsTwice

LEMMA ForceAsEdits ==
  ASSUME NEW h, Good(h), NEW p, Anchored(h, p[1]), p[2] \in DOMAIN h[p[1]],
         NEW k \in Kinds
  PROVE  Edits(h, ForceAs(h, p, k), p) /\ Ready(ForceAs(h, p, k), p, k)
<1> DEFINE m == IF At(h, p).type = k THEN h ELSE Make(h, p, k, Empty)
<1>1. Edits(h, m, p) /\ Accepts(m, p, k)
  <2>1. CASE At(h, p).type = k
    BY <2>1, EditsNothing DEF Accepts
  <2>2. CASE At(h, p).type # k
    BY <2>2, EmptyItems, MakeEdits DEF Accepts, Ready
  <2> QED
    BY <2>1, <2>2
<1>2. ForceAs(h, p, k) = As(m, p, k)
  BY DEF ForceAs
<1> HIDE DEF m
<1>3. Edits(m, As(m, p, k), p) /\ Ready(As(m, p, k), p, k)
  BY <1>1, EditedPlace, AsEdits
<1> QED
  BY <1>1, <1>2, <1>3, EditsTwice

(* The inside of a container at a place, and of one of a variable.         *)
LEMMA InsideFacts ==
  ASSUME NEW h, NEW g, NEW p, NEW k \in Kinds, Edits(h, g, p), Ready(g, p, k), NEW s
  PROVE  /\ Inside(g, p, s)[1] = At(g, p).to
         /\ Inside(g, p, s)[2] = s
         /\ At(g, p).to \in DOMAIN g \ {Stack}
         /\ p[1] = Stack => Anchored(g, At(g, p).to)
<1>1. Sound(g) /\ p[1] \in DOMAIN g /\ p[2] \in DOMAIN g[p[1]]
  BY EditedPlace DEF Anchored, Good
<1>2. IsContainer(At(g, p)) /\ At(g, p).to # NullPtr
  BY DEF Ready, IsContainer
<1>3. At(g, p).to \in DOMAIN g \ {Stack}
  BY <1>1, <1>2, AtFacts
<1>4. p[1] = Stack => Anchored(g, At(g, p).to)
  BY <1>1, <1>2, <1>3 DEF Anchored, PointsTo, At
<1> QED
  BY <1>3, <1>4 DEF Inside

-------------------------------------------------------------------------------
(* What operations do to a good heap whose variables are V.                *)
Over(h, V) == Good(h) /\ DOMAIN h[Stack] = V

LEMMA VarFacts ==
  ASSUME NEW h, NEW V, Over(h, V), NEW x
  PROVE  /\ Var(x)[1] = Stack /\ Var(x)[2] = x
         /\ Anchored(h, Stack)
         /\ x \in V => At(h, Var(x)) \in ValuesOver(DOMAIN h)
<1>1. Var(x)[1] = Stack /\ Var(x)[2] = x
  BY DEF Var
<1>2. Stack \in DOMAIN h
  BY DEF Over, Good, Sound
<1>3. x \in V => At(h, Var(x)) \in ValuesOver(DOMAIN h)
  BY <1>1, <1>2, AtFacts DEF Over, Good
<1> QED
  BY <1>1, <1>2, <1>3 DEF Anchored

LEMMA PutVar ==
  ASSUME NEW h, NEW V, Over(h, V), NEW x, NEW v \in ValuesOver(DOMAIN h)
  PROVE  Over(Put(h, Var(x), v), V \cup {x})
<1>1. Good(Put(h, Var(x), v))
  BY VarFacts, PutSimpleGood DEF Over, Anchored
<1>2. Edits(h, Put(h, Var(x), v), Var(x))
  BY <1>1, VarFacts, PutEdits DEF Over, Good
<1> QED
  BY <1>2, VarFacts DEF Edits, Over

LEMMA PutInside ==
  ASSUME NEW h, NEW V, Over(h, V), NEW p, p[1] \in DOMAIN h \ {Stack},
         NEW v \in ValuesOver(DOMAIN h), ~IsContainer(v) \/ Good(Put(h, p, v))
  PROVE  /\ Over(Put(h, p, v), V)
         /\ DOMAIN Put(h, p, v) \subseteq DOMAIN h
         /\ Put(h, p, v)[Stack] = h[Stack]
<1> DEFINE g == Put(h, p, v)
<1>1. /\ Sound(g)
      /\ DOMAIN g \subseteq DOMAIN h
      /\ \A b \in DOMAIN g : b # p[1] => g[b] = h[b]
  BY PutSound DEF Over, Good
<1>0. Good(g)
  BY PutSimpleGood DEF Over
<1> HIDE DEF g
<1>2. Stack \in DOMAIN g
  BY <1>1 DEF Sound
<1>3. g[Stack] = h[Stack]
  BY <1>1, <1>2
<1> QED
  BY <1>0, <1>1, <1>3 DEF Over, g

(* asArray, asObject and what pushBack and operator[] begin with, on a     *)
(* variable: the block of its container is there, and it is no variable's. *)
LEMMA EditVar ==
  ASSUME NEW h, NEW V, Over(h, V), NEW x \in V, NEW k \in Kinds, NEW g,
         Edits(h, g, Var(x)), Ready(g, Var(x), k), NEW s
  PROVE  /\ Over(g, V)
         /\ Inside(g, Var(x), s)[1] \in DOMAIN g \ {Stack}
         /\ Inside(g, Var(x), s)[2] = s
         /\ Anchored(g, Inside(g, Var(x), s)[1])
         /\ PointsTo(g[Stack][x], At(g, Var(x)).to)
         /\ At(g, Var(x)).to # NullPtr
<1>1. Var(x)[1] = Stack /\ Var(x)[2] = x
  BY VarFacts
<1>2. Over(g, V)
  BY <1>1 DEF Edits, Over
<1>3. /\ Inside(g, Var(x), s)[1] = At(g, Var(x)).to
      /\ Inside(g, Var(x), s)[2] = s
      /\ At(g, Var(x)).to \in DOMAIN g \ {Stack}
      /\ Anchored(g, At(g, Var(x)).to)
  BY <1>1, InsideFacts
<1>4. PointsTo(g[Stack][x], At(g, Var(x)).to)
  BY <1>1 DEF Ready, PointsTo, IsContainer, At
<1> QED
  BY <1>2, <1>3, <1>4 DEF Ready

LEMMA AsVar ==
  ASSUME NEW h, NEW V, Over(h, V), NEW x \in V, NEW k \in Kinds
  PROVE  /\ Accepts(h, Var(x), k) =>
              Edits(h, As(h, Var(x), k), Var(x)) /\ Ready(As(h, Var(x), k), Var(x), k)
         /\ Edits(h, ForceAs(h, Var(x), k), Var(x))
         /\ Ready(ForceAs(h, Var(x), k), Var(x), k)
<1>1. Good(h) /\ Anchored(h, Var(x)[1]) /\ Var(x)[2] \in DOMAIN h[Var(x)[1]]
  BY VarFacts DEF Over
<1> QED
  BY <1>1, AsEdits, ForceAsEdits

LEMMA ItemsOfOver ==
  ASSUME NEW h, Sound(h), NEW v \in ValuesOver(DOMAIN h), IsContainer(v)
  PROVE  ItemsOver(ItemsOf(h, v), DOMAIN h)
<1>1. v.to \in DOMAIN h \cup {NullPtr}
  BY ValueFacts
<1> QED
  BY <1>1, EmptyItems DEF ItemsOf, Sound

(* What another variable holds may be put into a container that is not     *)
(* shared: its block is not in there, nor above there, because nothing     *)
(* but the variable leads to the container.                                *)
LEMMA PutUnshared ==
  ASSUME NEW h, NEW V, Over(h, V), NEW x \in V, NEW y \in V, x # y,
         NEW k \in Kinds, Ready(h, Var(x), k), NEW s
  PROVE  Good(Put(h, Inside(h, Var(x), s), At(h, Var(y))))
<1> DEFINE v == At(h, Var(y))
           a == At(h, Var(x)).to
           p == Inside(h, Var(x), s)
<1>1. /\ Sound(h) /\ Tidy(h) /\ Stack \in DOMAIN h
      /\ At(h, Var(x)) = h[Stack][x] /\ v = h[Stack][y] /\ x \in DOMAIN h[Stack]
      /\ y \in DOMAIN h[Stack]
      /\ p[1] = a
      /\ Var(x)[1] = Stack /\ Var(x)[2] = x
  BY DEF Over, Good, Sound, Var, At, Inside
<1>2. v \in ValuesOver(DOMAIN h) /\ At(h, Var(x)) \in ValuesOver(DOMAIN h)
  BY VarFacts
<1>3. a \in DOMAIN h \ {Stack}
  BY <1>2, ValueFacts DEF Ready, IsContainer
<1>4. ~PointsTo(v, a)
  BY <1>1 DEF Ready, Only
<1> HIDE DEF p, v
<1>5. \A b \in DOMAIN h : Leads(h, b, a) => b = Stack
  BY <1>1 DEF Ready, Only, Leads
<1>6. \A b \in DOMAIN h : ~Leads(h, b, Stack)
  BY <1>1, LeadsInto DEF Stack, NullPtr
<1>7. PICK r : Ranked(h, r)
  BY DEF Over, Good, Acyclic
<1> HIDE DEF a
<1> DEFINE q == [b \in DOMAIN h |-> IF b = Stack THEN 0 ELSE IF b = a THEN 1 ELSE r[b] + 1]
<1>8. \A b \in DOMAIN h : r[b] \in Nat /\ (b # Stack => r[b] > 0)
  BY <1>7 DEF Ranked
<1>9. /\ q \in [DOMAIN h -> Nat]
      /\ q[Stack] = 0
      /\ q[a] = 1
      /\ \A b \in DOMAIN h \ {Stack} : q[b] > 0 /\ (b # a => q[b] = r[b] + 1 /\ q[b] > 1)
  BY <1>1, <1>3, <1>8
<1> HIDE DEF q
<1>10. ASSUME NEW b \in DOMAIN h, NEW c \in DOMAIN h, Leads(h, b, c)
       PROVE  q[b] < q[c]
  <2>1. c # Stack /\ q[c] > 0
    BY <1>6, <1>9, <1>10
  <2>2. CASE b = Stack
    BY <1>9, <2>1, <2>2
  <2>3. CASE b # Stack
    <3>1. c # a
      BY <1>5, <1>10, <2>3
    <3>2. CASE b = a
      BY <1>9, <2>1, <3>1, <3>2
    <3>3. CASE b # a
      <4>1. r[b] < r[c]
        BY <1>7, <1>10 DEF Ranked
      <4> QED
        BY <1>8, <1>9, <2>1, <2>3, <3>1, <3>3, <4>1
    <3> QED
      BY <3>2, <3>3
  <2> QED
    BY <2>2, <2>3
<1>11. Ranked(h, q)
  BY <1>9, <1>10 DEF Ranked
<1>12. ASSUME NEW c \in DOMAIN h, PointsTo(v, c)
       PROVE  q[p[1]] < q[c]
  <2>1. c # NullPtr
    BY <1>1 DEF Sound, NullPtr
  <2>2. c # Stack
    BY <1>2, <1>12, <2>1, ValueFacts DEF PointsTo
  <2>3. c # a
    BY <1>4, <1>12
  <2> QED
    BY <1>1, <1>9, <2>2, <2>3
<1>13. Good(Put(h, p, v))
  BY <1>1, <1>2, <1>3, <1>11, <1>12, PutGood DEF Tidy
<1> QED
  BY <1>13 DEF p, v

(* The end of a function: its parameter goes, and the blocks only it       *)
(* pointed to.                                                             *)
LEMMA ReturnOver ==
  ASSUME NEW h, NEW V, Over(h, V), NEW W, W \subseteq V
  PROVE  Over(Release([h EXCEPT ![Stack] = Restrict(@, W)]), W)
<1> DEFINE items == Restrict(h[Stack], W)
           g == [h EXCEPT ![Stack] = items]
<1>0. Sound(h) /\ Stack \in DOMAIN h /\ W \subseteq DOMAIN h[Stack]
  BY DEF Over, Good, Sound
<1>1. /\ g = [b \in DOMAIN g |-> g[b]]
      /\ DOMAIN g = DOMAIN h
      /\ g[Stack] = items
      /\ \A b \in DOMAIN h : b # Stack => g[b] = h[b]
  BY <1>0 DEF Sound
<1>2. ItemsOver(items, DOMAIN h) /\ DOMAIN items = W
  <2>1. ItemsOver(h[Stack], DOMAIN h)
    BY <1>0 DEF Sound
  <2>2. IsFiniteSet(W)
    BY <1>0, <2>1, FS_Subset DEF ItemsOver
  <2> QED
    BY <1>0, <2>1, <2>2 DEF ItemsOver, Restrict
<1>3. \A s \in DOMAIN items : items[s] = h[Stack][s]
  BY DEF Restrict
<1> HIDE DEF items, g
<1>4. Sound(g)
  BY <1>0, <1>1, <1>2 DEF Sound
<1>5. PICK r : Ranked(h, r)
  BY DEF Over, Good, Acyclic
<1>6. Ranked(g, r)
  <2>1. \A b, c \in DOMAIN h : Leads(g, b, c) => Leads(h, b, c)
    BY <1>0, <1>1, <1>2, <1>3 DEF Leads
  <2> QED
    BY <1>1, <1>5, <2>1 DEF Ranked
<1>7. Good(Release(g)) /\ Kept(g, Release(g))
  BY <1>4, <1>6, ReleaseGood, ReleaseSound
<1>8. Stack \in DOMAIN Release(g)
  BY <1>7 DEF Good, Sound
<1>9. Over(Release(g), W)
  BY <1>1, <1>2, <1>7, <1>8 DEF Over, Kept
<1> QED
  BY <1>9 DEF g, items

-------------------------------------------------------------------------------
(* The invariant: a good heap, and a reference into a block that the      *)
(* variable it came from still points to.                                  *)
HeapInv ==
  /\ Over(heap, Vars)
  /\ DOMAIN heap \subseteq Blocks \cup {Stack}
  /\ held \in Vars \cup {NoVar}
  /\ held # NoVar => PointsTo(heap[Stack][held], ref) /\ ref # NullPtr

LEMMA HeapInvInitially == Init => HeapInv
<1> SUFFICES ASSUME Init
             PROVE  HeapInv
  OBVIOUS
<1> DEFINE B == DOMAIN heap
<1>1. heap = [b \in {Stack} |-> [x \in Vars |-> Null]] /\ held = NoVar
  BY DEF Init
<1>2. ItemsOver(heap[Stack], DOMAIN heap)
  BY <1>1, ValueFacts, CowAssumption DEF ItemsOver
<1>3. IsFiniteSet({Stack}) /\ {Stack} \subseteq Nat
  BY FS_Singleton DEF Stack
<1>4. Sound(heap)
  BY <1>1, <1>2, <1>3 DEF Sound
<1>5. \A b, c \in DOMAIN heap : ~Leads(heap, b, c)
  BY <1>1, ValueFacts DEF Leads, PointsTo
<1>6. Ranked(heap, [b \in {Stack} |-> 0])
  BY <1>1, <1>5 DEF Ranked
<1>7. Good(heap)
  BY <1>1, <1>4, <1>6 DEF Good, Acyclic, Tidy
<1> QED
  BY <1>1, <1>7 DEF HeapInv, Over

LEMMA BecomesKeepsInv ==
  ASSUME NEW h, Over(h, Vars), Becomes(h)
  PROVE  HeapInv'
BY DEF Becomes, HeapInv

(* The value of a variable.                                                *)
LEMMA VarValue ==
  ASSUME HeapInv, NEW x \in Vars
  PROVE  At(heap, Var(x)) \in ValuesOver(DOMAIN heap)
BY VarFacts DEF HeapInv

LEMMA AssignmentsKeepInv ==
  ASSUME HeapInv, NEW x \in Vars, NEW y \in Vars,
         \/ Copy(x, y) \/ Move(x, y) \/ SetNull(x)
         \/ \E n \in Numbers : SetNumber(x, n)
         \/ \E k \in Kinds : SetFrom(x, k, y)
         \/ \E k \in Kinds, s \in Slots : TakeOut(x, k, s, y)
  PROVE  HeapInv'
<1> DEFINE B == DOMAIN heap
<1>1. Over(heap, Vars) /\ Vars \cup {x} = Vars /\ Vars \cup {y} = Vars
  BY DEF HeapInv
<1>2. At(heap, Var(x)) \in ValuesOver(B) /\ At(heap, Var(y)) \in ValuesOver(B)
  BY VarValue
<1>3. \A v \in ValuesOver(B) :
        Over(Put(heap, Var(x), v), Vars) /\ Over(Put(heap, Var(y), v), Vars)
  <2> TAKE v \in ValuesOver(B)
  <2>1. Over(Put(heap, Var(x), v), Vars \cup {x}) /\ Over(Put(heap, Var(y), v), Vars \cup {y})
    BY <1>1, PutVar
  <2> QED
    BY <1>1, <2>1
<1>4. CASE Copy(x, y)
  BY <1>2, <1>3, <1>4, BecomesKeepsInv DEF Copy
<1>5. CASE Move(x, y)
  <2> DEFINE v == At(heap, Var(x))
             h == Put(heap, Var(y), v)
             g == IF IsContainer(v) THEN Put(h, Var(x), Pointer(v.type, NullPtr)) ELSE h
  <2>1. Over(h, Vars)
    BY <1>2, <1>3
  <2>2. Becomes(g)
    BY <1>5 DEF Move
  <2>3. IsContainer(v) => v.type \in Kinds
    BY DEF IsContainer
  <2> HIDE DEF h, v
  <2>4. IsContainer(v) => Over(Put(h, Var(x), Pointer(v.type, NullPtr)), Vars \cup {x})
    BY <2>1, <2>3, PutVar, ValueFacts
  <2>5. Over(g, Vars)
    BY <1>1, <2>1, <2>4
  <2> QED
    BY <2>2, <2>5, BecomesKeepsInv
<1>6. CASE SetNull(x)
  BY <1>3, <1>6, ValueFacts, BecomesKeepsInv DEF SetNull
<1>7. ASSUME NEW n \in Numbers, SetNumber(x, n)
      PROVE  HeapInv'
  BY <1>3, <1>7, ValueFacts, BecomesKeepsInv DEF SetNumber
<1>8. ASSUME NEW k \in Kinds, SetFrom(x, k, y)
      PROVE  HeapInv'
  <2> DEFINE v == At(heap, Var(y))
             g == Make(heap, Var(x), k, ItemsOf(heap, v))
  <2>1. IsContainer(v) /\ Becomes(g)
    BY <1>8 DEF SetFrom, IsContainer
  <2>2. ItemsOver(ItemsOf(heap, v), B)
    BY <1>1, <1>2, <2>1, ItemsOfOver DEF Over, Good
  <2>3. Edits(heap, g, Var(x))
    <3>1. \/ ItemsOf(heap, v) = Empty
          \/ \E a \in DOMAIN heap \ {Stack} : ItemsOf(heap, v) = heap[a]
      BY <1>2, <2>1, ValueFacts DEF ItemsOf
    <3> HIDE DEF v
    <3>2. Good(heap) /\ Anchored(heap, Var(x)[1]) /\ Var(x)[1] = Stack
      BY <1>1, VarFacts DEF Over
    <3> QED
      BY <2>2, <3>1, <3>2, MakeEdits
  <2> HIDE DEF g
  <2>4. Over(g, Vars)
    BY <1>1, <2>3, VarFacts DEF Edits, Over
  <2> QED
    BY <2>1, <2>4, BecomesKeepsInv
<1>9. ASSUME NEW k \in Kinds, NEW s \in Slots, TakeOut(x, k, s, y)
      PROVE  HeapInv'
  <2> DEFINE v == At(heap, Var(x))
             w == ItemsOf(heap, v)[s]
  <2>1. IsContainer(v) /\ s \in DOMAIN ItemsOf(heap, v) /\ Becomes(Put(heap, Var(y), w))
    BY <1>9 DEF TakeOut, IsContainer
  <2>2. ItemsOver(ItemsOf(heap, v), B)
    BY <1>1, <1>2, <2>1, ItemsOfOver DEF Over, Good
  <2>3. w \in ValuesOver(B)
    BY <2>1, <2>2 DEF ItemsOver
  <2> HIDE DEF w
  <2> QED
    BY <1>3, <2>1, <2>3, BecomesKeepsInv
<1> QED
  BY <1>4, <1>5, <1>6, <1>7, <1>8, <1>9

LEMMA PushBackKeepsInv ==
  ASSUME HeapInv, NEW x \in Vars, NEW y \in Vars, PushBack(x, y)
  PROVE  HeapInv'
<1> DEFINE called == Put(heap, Var(Temp), At(heap, Var(y)))
           ready  == ForceAs(called, Var(x), "Array")
           size   == Cardinality(DOMAIN ready[At(ready, Var(x)).to])
           p      == Inside(ready, Var(x), size + 1)
           done   == Put(ready, p, At(ready, Var(Temp)))
           All    == Vars \cup {Temp}
<1>1. "Array" \in Kinds /\ Becomes(Release([done EXCEPT ![Stack] = Restrict(@, Vars)]))
  BY DEF PushBack
<1>2. Over(called, All)
  BY VarValue, PutVar DEF HeapInv
<1> HIDE DEF called
<1>3. /\ Over(ready, All)
      /\ Ready(ready, Var(x), "Array")
      /\ p[1] \in DOMAIN ready \ {Stack}
  <2>1. Edits(called, ready, Var(x)) /\ Ready(ready, Var(x), "Array")
    BY <1>1, <1>2, AsVar
  <2> HIDE DEF ready, size
  <2> QED
    BY <1>1, <1>2, <2>1, EditVar
<1> HIDE DEF ready, size
<1>4. At(ready, Var(Temp)) \in ValuesOver(DOMAIN ready)
  BY <1>3, VarFacts
<1>5. Over(done, All)
  <2>1. Temp # x
    BY CowAssumption
  <2>2. Good(done)
    BY <1>1, <1>3, <2>1, PutUnshared
  <2> HIDE DEF p
  <2> QED
    BY <1>3, <1>4, <2>2, PutInside
<1> HIDE DEF done
<1>6. Over(Release([done EXCEPT ![Stack] = Restrict(@, Vars)]), Vars)
  BY <1>5, ReturnOver
<1> QED
  BY <1>1, <1>6, BecomesKeepsInv

LEMMA WritesKeepInv ==
  ASSUME ~SelfNesting, HeapInv, NEW x \in Vars, NEW y \in Vars, NEW s \in Slots,
         \/ Assign(x, s, y)
         \/ \E k \in Kinds, n \in Numbers : Write(x, k, s, n)
         \/ \E t \in Slots, n \in Numbers : AssignInner(x, s, t, n)
  PROVE  HeapInv'
<1>1. Over(heap, Vars)
  BY DEF HeapInv
<1>2. CASE Assign(x, s, y)
  <2> DEFINE ready == ForceAs(heap, Var(x), "Object")
             p     == Inside(ready, Var(x), s)
             g     == Put(ready, p, At(ready, Var(y)))
  <2>1. "Object" \in Kinds /\ Becomes(g)
    BY <1>2 DEF Assign
  <2>2. Edits(heap, ready, Var(x)) /\ Ready(ready, Var(x), "Object")
    BY <1>1, <2>1, AsVar
  <2> HIDE DEF ready
  <2>3. Over(ready, Vars) /\ p[1] \in DOMAIN ready \ {Stack}
    BY <1>1, <2>1, <2>2, EditVar
  <2>4. Good(g)
    BY <1>2, <2>1, <2>2, <2>3, PutUnshared DEF Assign
  <2> HIDE DEF p
  <2>5. Over(g, Vars)
    BY <2>3, <2>4, VarFacts, PutInside
  <2> QED
    BY <2>1, <2>5, BecomesKeepsInv
<1>3. ASSUME NEW k \in Kinds, NEW n \in Numbers, Write(x, k, s, n)
      PROVE  HeapInv'
  <2> DEFINE ready == As(heap, Var(x), k)
             p     == Inside(ready, Var(x), s)
             g     == Put(ready, p, Number(n))
  <2>1. Accepts(heap, Var(x), k) /\ Becomes(g)
    BY <1>3 DEF Write, Accepts
  <2>2. Edits(heap, ready, Var(x)) /\ Ready(ready, Var(x), k)
    BY <1>1, <2>1, AsVar
  <2> HIDE DEF ready
  <2>3. Over(ready, Vars) /\ p[1] \in DOMAIN ready \ {Stack}
    BY <1>1, <2>1, <2>2, EditVar
  <2> HIDE DEF p
  <2>4. Over(g, Vars)
    BY <2>3, ValueFacts, PutInside
  <2> QED
    BY <2>1, <2>4, BecomesKeepsInv
<1>4. ASSUME NEW t \in Slots, NEW n \in Numbers, AssignInner(x, s, t, n)
      PROVE  HeapInv'
  <2> DEFINE outer == ForceAs(heap, Var(x), "Object")
             p     == Inside(outer, Var(x), s)
             found == IF s \in DOMAIN outer[p[1]] THEN outer ELSE Put(outer, p, Null)
             inner == ForceAs(found, p, "Object")
             q     == Inside(inner, p, t)
             g     == Put(inner, q, Number(n))
  <2>1. "Object" \in Kinds /\ Becomes(g)
    BY <1>4 DEF AssignInner
  <2>2. Edits(heap, outer, Var(x)) /\ Ready(outer, Var(x), "Object")
    BY <1>1, <2>1, AsVar
  <2> HIDE DEF outer
  <2>3. /\ Over(outer, Vars)
        /\ p[1] # Stack /\ p[2] = s
        /\ Anchored(outer, p[1])
    BY <1>1, <2>1, <2>2, EditVar
  <2> HIDE DEF p
  <2>4. Edits(outer, found, p) \/ (found = outer /\ p[2] \in DOMAIN outer[p[1]])
    <3>1. Good(Put(outer, p, Null))
      BY <2>3, PutSimpleGood, ValueFacts DEF Over, Anchored
    <3> QED
      BY <2>3, <3>1, PutEdits, ValueFacts DEF Over, Good
  <2> HIDE DEF found
  <2>5. /\ Over(found, Vars)
        /\ Anchored(found, p[1])
        /\ p[2] \in DOMAIN found[p[1]]
    BY <2>3, <2>4 DEF Edits, Over
  <2>6. Edits(found, inner, p) /\ Ready(inner, p, "Object")
    BY <2>1, <2>5, ForceAsEdits DEF Over
  <2> HIDE DEF inner
  <2>7. Over(inner, Vars)
    BY <2>3, <2>5, <2>6 DEF Edits, Over
  <2>8. q[1] \in DOMAIN inner \ {Stack}
    BY <2>1, <2>6, InsideFacts
  <2> HIDE DEF q
  <2>9. Over(g, Vars)
    BY <2>7, <2>8, ValueFacts, PutInside
  <2> QED
    BY <2>1, <2>9, BecomesKeepsInv
<1> QED
  BY <1>2, <1>3, <1>4

LEMMA ReferencesKeepInv ==
  ASSUME HeapInv,
         \/ \E x \in Vars, k \in Kinds : Obtain(x, k)
         \/ \E s \in Slots, n \in Numbers : WriteHeld(s, n)
  PROVE  HeapInv'
<1>1. Over(heap, Vars)
  BY DEF HeapInv
<1>2. ASSUME NEW x \in Vars, NEW k \in Kinds, Obtain(x, k)
      PROVE  HeapInv'
  <2> DEFINE ready == As(heap, Var(x), k)
  <2>1. /\ Accepts(heap, Var(x), k)
        /\ DOMAIN ready \subseteq Blocks \cup {Stack}
        /\ heap' = ready /\ held' = x /\ ref' = At(ready, Var(x)).to
    BY <1>2 DEF Obtain
  <2>2. Edits(heap, ready, Var(x)) /\ Ready(ready, Var(x), k)
    BY <1>1, <2>1, AsVar
  <2> HIDE DEF ready
  <2>3. /\ Over(ready, Vars)
        /\ PointsTo(ready[Stack][x], At(ready, Var(x)).to)
        /\ At(ready, Var(x)).to # NullPtr
    BY <1>1, <2>2, EditVar
  <2> QED
    BY <2>1, <2>3 DEF HeapInv
<1>3. ASSUME NEW s \in Slots, NEW n \in Numbers, WriteHeld(s, n)
      PROVE  HeapInv'
  <2> DEFINE p == <<ref, s>>
             g == Put(heap, p, Number(n))
  <2>1. held # NoVar /\ heap' = g /\ held' = held /\ ref' = ref
    BY <1>3 DEF WriteHeld
  <2>2. held \in Vars /\ PointsTo(heap[Stack][held], ref) /\ ref # NullPtr
    BY <2>1 DEF HeapInv
  <2>3. heap[Stack][held] \in ValuesOver(DOMAIN heap)
    BY <2>2, VarValue DEF Var, At
  <2>4. ref \in DOMAIN heap \ {Stack}
    BY <2>2, <2>3, ValueFacts DEF PointsTo
  <2>5. /\ Over(g, Vars)
        /\ DOMAIN g \subseteq DOMAIN heap
        /\ g[Stack] = heap[Stack]
    <3>1. p[1] \in DOMAIN heap \ {Stack}
      BY <2>4
    <3> HIDE DEF p
    <3> QED
      BY <1>1, <3>1, ValueFacts, PutInside
  <2> HIDE DEF g
  <2> QED
    BY <2>1, <2>5 DEF HeapInv
<1> QED
  BY <1>2, <1>3

LEMMA HeapInvStep ==
  ASSUME ~SelfNesting, HeapInv, [Next]_vars
  PROVE  HeapInv'
<1>1. CASE UNCHANGED vars
  BY <1>1 DEF vars, HeapInv
<1>2. ASSUME NEW x \in Vars, NEW y \in Vars,
             \/ Copy(x, y) \/ Move(x, y) \/ PushBack(x, y)
             \/ \E k \in Kinds : SetFrom(x, k, y)
             \/ \E s \in Slots : Assign(x, s, y)
             \/ \E k \in Kinds, s \in Slots : TakeOut(x, k, s, y)
      PROVE  HeapInv'
  <2>1. CASE PushBack(x, y)
    BY <2>1, PushBackKeepsInv
  <2>2. ASSUME NEW s \in Slots, Assign(x, s, y)
        PROVE  HeapInv'
    BY <2>2, WritesKeepInv
  <2> QED
    BY <1>2, <2>1, <2>2, AssignmentsKeepInv
<1>3. ASSUME NEW x \in Vars,
             \/ SetNull(x)
             \/ \E n \in Numbers : SetNumber(x, n)
             \/ \E k \in Kinds : Obtain(x, k)
             \/ \E s, t \in Slots, n \in Numbers : AssignInner(x, s, t, n)
             \/ \E k \in Kinds, s \in Slots, n \in Numbers : Write(x, k, s, n)
      PROVE  HeapInv'
  <2>1. CASE SetNull(x) \/ \E n \in Numbers : SetNumber(x, n)
    BY <2>1, AssignmentsKeepInv
  <2>2. CASE \E k \in Kinds : Obtain(x, k)
    BY <2>2, ReferencesKeepInv
  <2>3. ASSUME NEW s \in Slots, NEW t \in Slots, NEW n \in Numbers, AssignInner(x, s, t, n)
        PROVE  HeapInv'
    BY <2>3, WritesKeepInv
  <2>4. ASSUME NEW k \in Kinds, NEW s \in Slots, NEW n \in Numbers, Write(x, k, s, n)
        PROVE  HeapInv'
    BY <2>4, WritesKeepInv
  <2> QED
    BY <1>3, <2>1, <2>2, <2>3, <2>4
<1>4. CASE \E s \in Slots, n \in Numbers : WriteHeld(s, n)
  BY <1>4, ReferencesKeepInv
<1> QED
  BY <1>1, <1>2, <1>3, <1>4 DEF Next

LEMMA HeapInvImpliesTypeOK == HeapInv => TypeOK
<1> SUFFICES ASSUME HeapInv
             PROVE  TypeOK
  OBVIOUS
<1>1. DOMAIN heap[Stack] = Vars /\ Sound(heap) /\ DOMAIN heap \subseteq Blocks \cup {Stack}
  BY DEF HeapInv, Over, Good
<1>2. ASSUME NEW p \in Places(heap)
      PROVE  /\ At(heap, p) \in Values
             /\ IsContainer(At(heap, p)) => At(heap, p).to \in DOMAIN heap \cup {NullPtr}
  <2>1. p[1] \in DOMAIN heap /\ p[2] \in DOMAIN heap[p[1]]
    BY DEF Places
  <2>2. At(heap, p) \in ValuesOver(DOMAIN heap)
    BY <1>1, <2>1, AtFacts
  <2>3. ValuesOver(DOMAIN heap) \subseteq Values
    BY <1>1 DEF ValuesOver, Values
  <2> QED
    BY <1>1, <2>1, <2>2, <2>3, AtFacts
<1>3. held # NoVar => ref \in DOMAIN heap
  <2> SUFFICES ASSUME held # NoVar
               PROVE  ref \in DOMAIN heap
    OBVIOUS
  <2>1. held \in Vars /\ PointsTo(heap[Stack][held], ref) /\ ref # NullPtr
    BY DEF HeapInv
  <2>2. heap[Stack][held] \in ValuesOver(DOMAIN heap)
    BY <2>1, VarValue DEF Var, At
  <2> QED
    BY <2>1, <2>2, ValueFacts DEF PointsTo
<1> QED
  BY <1>1, <1>2, <1>3 DEF TypeOK, HeapInv

-------------------------------------------------------------------------------
(* Reachability.  Each step down the heap leads to a higher rank, so a way *)
(* down is no longer than there are blocks; and each step up leads to a    *)
(* lower rank, so every way up ends at the variables.                      *)
IsLevels(f, M) ==
  f = [d \in 0 .. M |-> IF d = 0 THEN {Stack} ELSE Targets(heap, f[d - 1])]

LEMMA LevelsExist == \A M \in Nat : \E f : IsLevels(f, M)
<1> DEFINE S == {M \in Nat : \E f : IsLevels(f, M)}
<1>1. 0 \in S
  <2>1. IsLevels([d \in 0 .. 0 |-> {Stack}], 0)
    BY DEF IsLevels
  <2> QED
    BY <2>1
<1>2. ASSUME NEW M \in Nat, M \in S
      PROVE  M + 1 \in S
  <2>1. PICK f : IsLevels(f, M)
    BY <1>2
  <2> DEFINE g == [d \in 0 .. M + 1 |-> IF d = M + 1 THEN Targets(heap, f[M]) ELSE f[d]]
  <2>2. ASSUME NEW d \in 0 .. M + 1
        PROVE  g[d] = IF d = 0 THEN {Stack} ELSE Targets(heap, g[d - 1])
    <3>1. CASE d = M + 1
      <4>1. d # 0 /\ d - 1 = M /\ M \in 0 .. M + 1 /\ M # M + 1
        BY <3>1
      <4> QED
        BY <3>1, <4>1
    <3>2. CASE d # M + 1
      <4>1. d \in 0 .. M /\ (d # 0 => d - 1 \in 0 .. M + 1 /\ d - 1 # M + 1)
        BY <3>2
      <4>2. f[d] = IF d = 0 THEN {Stack} ELSE Targets(heap, f[d - 1])
        BY <2>1, <4>1 DEF IsLevels
      <4> QED
        BY <3>2, <4>1, <4>2
    <3> QED
      BY <3>1, <3>2
  <2>3. IsLevels(g, M + 1)
    <3>1. g = [d \in 0 .. M + 1 |-> g[d]]
      OBVIOUS
    <3> HIDE DEF g
    <3> QED
      BY <2>2, <3>1 DEF IsLevels
  <2> QED
    BY <2>3
<1> HIDE DEF S
<1>3. \A M \in Nat : M \in S
  BY <1>1, <1>2, Induction
<1> QED
  BY <1>3 DEF S

(* The blocks on level d have at least d + 1 blocks up to their rank.      *)
LEMMA LevelsAreDeep ==
  ASSUME Sound(heap), NEW r, Ranked(heap, r), NEW M \in Nat, NEW f, IsLevels(f, M)
  PROVE  \A d \in 0 .. M : \A b \in f[d] :
           /\ b \in DOMAIN heap
           /\ Cardinality({c \in DOMAIN heap : r[c] <= r[b]}) >= d + 1
<1> DEFINE Upto(b) == {c \in DOMAIN heap : r[c] <= r[b]}
           Deep(b, d) == b \in DOMAIN heap /\ Cardinality(Upto(b)) >= d + 1
           S == {d \in Nat : d <= M => \A b \in f[d] : Deep(b, d)}
<1>1. \A d \in 0 .. M : f[d] = IF d = 0 THEN {Stack} ELSE Targets(heap, f[d - 1])
  BY DEF IsLevels
<1>2. \A b \in DOMAIN heap : r[b] \in Nat
  BY DEF Ranked
<1>3. \A b : IsFiniteSet(Upto(b)) /\ Cardinality(Upto(b)) \in Nat
  BY FS_Subset, FS_CardinalityType DEF Sound
<1>4. 0 \in S
  <2>1. f[0] = {Stack} /\ Stack \in DOMAIN heap
    BY <1>1 DEF Sound
  <2>2. Stack \in Upto(Stack)
    BY <1>2, <2>1
  <2>3. Cardinality(Upto(Stack)) # 0
    BY <1>3, <2>2, FS_EmptySet
  <2> HIDE DEF Upto
  <2>4. Cardinality(Upto(Stack)) >= 0 + 1
    BY <1>3, <2>3
  <2> QED
    BY <2>1, <2>4
<1>5. ASSUME NEW d \in Nat, d \in S
      PROVE  d + 1 \in S
  <2> SUFFICES ASSUME d + 1 <= M, NEW c \in f[d + 1]
               PROVE  Deep(c, d + 1)
    OBVIOUS
  <2>1. c \in Targets(heap, f[d])
    <3>1. d + 1 \in 0 .. M /\ d + 1 # 0 /\ (d + 1) - 1 = d
      OBVIOUS
    <3> QED
      BY <1>1, <3>1
  <2>2. c # NullPtr /\ \E b \in f[d] : Leads(heap, b, c)
    BY <2>1, TargetsAreLed
  <2>3. PICK b \in f[d] : Leads(heap, b, c)
    BY <2>2
  <2>4. b \in DOMAIN heap /\ Cardinality(Upto(b)) >= d + 1
    BY <1>5
  <2>5. c \in DOMAIN heap
    BY <2>2, <2>3, <2>4, LeadsInto
  <2>6. r[b] < r[c]
    BY <2>3, <2>4, <2>5 DEF Ranked
  <2>7. Upto(b) \cup {c} \subseteq Upto(c) /\ c \notin Upto(b)
    BY <1>2, <2>4, <2>5, <2>6
  <2> HIDE DEF Upto
  <2>8. Cardinality(Upto(b) \cup {c}) = Cardinality(Upto(b)) + 1
    BY <1>3, <2>7, FS_AddElement
  <2>9. Cardinality(Upto(b) \cup {c}) <= Cardinality(Upto(c))
    BY <1>3, <2>7, FS_Subset
  <2> QED
    BY <1>3, <2>4, <2>5, <2>8, <2>9
<1> HIDE DEF S
<1>6. \A d \in Nat : d \in S
  BY <1>4, <1>5, Induction
<1>7. ASSUME NEW d \in 0 .. M, NEW b \in f[d]
      PROVE  Deep(b, d)
  <2>1. d \in S /\ d <= M
    BY <1>6
  <2> QED
    BY <2>1 DEF S
<1> QED
  BY <1>7

LEMMA HeapInvImpliesNothingLeaks == HeapInv => NothingLeaks
<1> SUFFICES ASSUME HeapInv
             PROVE  NothingLeaks
  OBVIOUS
<1> DEFINE M == MaxBlocks + 1
<1>1. M \in Nat /\ MaxBlocks \in Nat /\ M - 1 = MaxBlocks
  BY CowAssumption
<1>2. Sound(heap) /\ Tidy(heap) /\ DOMAIN heap \subseteq 0 .. MaxBlocks
  BY <1>1 DEF HeapInv, Over, Good, Blocks, Stack
<1>3. PICK r : Ranked(heap, r)
  BY DEF HeapInv, Over, Good, Acyclic
<1>4. \E f : IsLevels(f, M)
  BY <1>1, LevelsExist
<1>5. SUFFICES ASSUME NEW f, IsLevels(f, M)
               PROVE  f[M] = {} /\ UNION {f[d] : d \in 0 .. MaxBlocks} = DOMAIN heap
  BY <1>4 DEF NothingLeaks, ToStringReturns, Reached, IsLevels
<1>6. \A d \in 0 .. M : f[d] = IF d = 0 THEN {Stack} ELSE Targets(heap, f[d - 1])
  BY <1>5 DEF IsLevels
<1> HIDE DEF M
<1>7. \A d \in 0 .. M : \A b \in f[d] :
        /\ b \in DOMAIN heap
        /\ Cardinality({c \in DOMAIN heap : r[c] <= r[b]}) >= d + 1
  BY <1>1, <1>2, <1>3, <1>5, LevelsAreDeep
<1>8. f[M] = {}
  <2> SUFFICES ASSUME NEW b \in f[M]
               PROVE  FALSE
    OBVIOUS
  <2> DEFINE U == {c \in DOMAIN heap : r[c] <= r[b]}
  <2>1. M \in 0 .. M
    BY <1>1
  <2>2. Cardinality(U) >= M + 1
    BY <1>7, <2>1
  <2>3. IsFiniteSet(0 .. MaxBlocks) /\ Cardinality(0 .. MaxBlocks) = M
    <3>1. 0 \in Int /\ MaxBlocks \in Int /\ ~(0 > MaxBlocks) /\ MaxBlocks - 0 + 1 = M
      BY <1>1
    <3> QED
      BY <3>1, FS_Interval
  <2>4. U \in SUBSET (0 .. MaxBlocks)
    BY <1>2
  <2> HIDE DEF U
  <2>5. Cardinality(U) <= M /\ IsFiniteSet(U)
    BY <2>3, <2>4, FS_Subset
  <2>6. Cardinality(U) \in Nat
    BY <2>5, FS_CardinalityType
  <2> QED
    BY <1>1, <2>2, <2>5, <2>6
<1>9. ASSUME NEW b \in DOMAIN heap
      PROVE  \E d \in 0 .. MaxBlocks : b \in f[d]
  <2> DEFINE S == {n \in Nat : \A c \in DOMAIN heap :
                     r[c] <= n => \E d \in 0 .. MaxBlocks : c \in f[d]}
  <2>1. \A c \in DOMAIN heap : r[c] \in Nat /\ (c # Stack => r[c] > 0)
    BY <1>3 DEF Ranked
  <2>2. 0 \in 0 .. MaxBlocks /\ f[0] = {Stack}
    BY <1>1, <1>6
  <2>3. 0 \in S
    BY <2>1, <2>2
  <2>4. ASSUME NEW n \in Nat, n \in S
        PROVE  n + 1 \in S
    <3> SUFFICES ASSUME NEW c \in DOMAIN heap, r[c] <= n + 1, c # Stack
                 PROVE  \E d \in 0 .. MaxBlocks : c \in f[d]
      BY <2>2
    <3>1. PICK a \in DOMAIN heap : Leads(heap, a, c)
      BY <1>2 DEF Tidy
    <3>2. r[a] < r[c]
      BY <1>3, <3>1 DEF Ranked
    <3>3. r[a] <= n
      BY <2>1, <3>2
    <3>4. PICK d \in 0 .. MaxBlocks : a \in f[d]
      BY <2>4, <3>3
    <3>5. c # NullPtr
      BY <1>2 DEF NullPtr
    <3>6. c \in Targets(heap, f[d])
      BY <3>1, <3>4, <3>5, TargetsAreLed
    <3>7. d + 1 \in 0 .. M /\ d + 1 # 0 /\ (d + 1) - 1 = d
      BY <1>1
    <3>8. c \in f[d + 1]
      BY <1>6, <3>6, <3>7
    <3>9. d + 1 # M
      BY <1>8, <3>8
    <3>10. d + 1 \in 0 .. MaxBlocks
      BY <1>1, <3>7, <3>9
    <3> QED
      BY <3>8, <3>10
  <2> HIDE DEF S
  <2>5. r[b] \in S
    BY <2>1, <2>3, <2>4, Induction
  <2> QED
    BY <2>1, <2>5 DEF S
<1>10. \A d \in 0 .. MaxBlocks : f[d] \subseteq DOMAIN heap
  <2>1. \A d \in 0 .. MaxBlocks : d \in 0 .. M
    BY <1>1
  <2> QED
    BY <1>7, <2>1
<1> QED
  BY <1>8, <1>9, <1>10

(* As long as a program does not assign a Value to a member of itself,     *)
(* which is how an object comes to contain itself, no Value ever           *)
(* points to a block that was freed, type_ and storage_ agree in every one *)
(* of them, the reference asArray() or asObject() gave out leads to a      *)
(* block that is there as long as the program may use it, and every block  *)
(* is freed with the last Value that has it (value.cpp:76-96, 157-185,     *)
(* 261-283).  Of x[k] = x it is false: the object ends up inside itself.   *)
THEOREM HeapIsSound == ~SelfNesting => (Spec => []HeapOK)
<1> SUFFICES ASSUME ~SelfNesting
             PROVE  Spec => []HeapOK
  OBVIOUS
<1>1. HeapInv /\ [Next]_vars => HeapInv'
  BY HeapInvStep
<1>2. HeapInv => HeapOK
  BY HeapInvImpliesTypeOK, HeapInvImpliesNothingLeaks DEF HeapOK
<1> QED
  BY <1>1, <1>2, HeapInvInitially, PTL DEF Spec
===============================================================================
