--------------------------- MODULE CopyOnWriteProofs ---------------------------
(***************************************************************************)
(* CowValue implements ValueSemantics.  What a program sees of a block is  *)
(* the one solution of an equation over the heap (View); a change at a     *)
(* place changes what is seen of the blocks above it, and of no other.     *)
(* Every operation changes the heap at places only that one variable leads *)
(* to, and so changes what is seen of that variable and of no other.       *)
(***************************************************************************)
EXTENDS CowValueProofs

SeesAll(C, h) == C = [b \in DOMAIN h |-> [s \in DOMAIN h[b] |-> See(h[b][s], C)]]

View(h) == CHOOSE C : SeesAll(C, h)

-------------------------------------------------------------------------------
(* Two heaps show the same in a set of blocks that they have in common, if *)
(* no pointer leads out of it: by induction on the number of blocks that   *)
(* rank as high as a block.                                                *)
Above(h, r, b) == {c \in DOMAIN h : r[c] >= r[b]}

LEMMA AboveFacts ==
  ASSUME NEW h, Sound(h), NEW r, Ranked(h, r)
  PROVE  /\ \A b \in DOMAIN h : Cardinality(Above(h, r, b)) \in Nat \ {0}
         /\ \A b, c \in DOMAIN h : Leads(h, b, c) =>
              Cardinality(Above(h, r, c)) < Cardinality(Above(h, r, b))
         /\ \A b \in DOMAIN h \ {Stack} :
              Cardinality(Above(h, r, b)) < Cardinality(DOMAIN h)
<1>1. \A b : IsFiniteSet(Above(h, r, b)) /\ Cardinality(Above(h, r, b)) \in Nat
  BY FS_Subset, FS_CardinalityType DEF Above, Sound
<1>2. \A b \in DOMAIN h : r[b] \in Nat /\ (b # Stack => r[b] > r[Stack])
  BY DEF Ranked
<1>3. ASSUME NEW b \in DOMAIN h
      PROVE  Cardinality(Above(h, r, b)) # 0
  <2>1. b \in Above(h, r, b)
    BY <1>2 DEF Above
  <2> QED
    BY <1>1, <2>1, FS_EmptySet
<1>4. ASSUME NEW b \in DOMAIN h, NEW c \in DOMAIN h, r[b] < r[c]
      PROVE  Cardinality(Above(h, r, c)) < Cardinality(Above(h, r, b))
  <2>1. Above(h, r, c) \subseteq Above(h, r, b) /\ b \in Above(h, r, b) /\ b \notin Above(h, r, c)
    BY <1>2, <1>4 DEF Above
  <2>2. /\ Cardinality(Above(h, r, c)) <= Cardinality(Above(h, r, b))
        /\ Cardinality(Above(h, r, c)) # Cardinality(Above(h, r, b))
    BY <1>1, <2>1, FS_Subset
  <2> QED
    BY <1>1, <2>2
<1>5. \A b, c \in DOMAIN h : Leads(h, b, c) => r[b] < r[c]
  BY DEF Ranked
<1>6. ASSUME NEW b \in DOMAIN h \ {Stack}
      PROVE  Cardinality(Above(h, r, b)) < Cardinality(DOMAIN h)
  <2>1. Stack \in DOMAIN h
    BY DEF Sound
  <2>2. Cardinality(Above(h, r, b)) < Cardinality(Above(h, r, Stack))
    BY <1>2, <1>4, <2>1
  <2>3. Cardinality(Above(h, r, Stack)) <= Cardinality(DOMAIN h)
    BY FS_Subset DEF Above, Sound
  <2>4. Cardinality(DOMAIN h) \in Nat
    BY FS_CardinalityType DEF Sound
  <2> QED
    BY <1>1, <2>2, <2>3, <2>4
<1> QED
  BY <1>1, <1>3, <1>4, <1>5, <1>6

(* A pointer in a sound heap leads somewhere, or is null.                  *)
LEMMA SlotLeads ==
  ASSUME NEW h, Sound(h), NEW b \in DOMAIN h, NEW s \in DOMAIN h[b],
         IsContainer(h[b][s]), h[b][s].to # NullPtr
  PROVE  h[b][s].to \in DOMAIN h \ {Stack} /\ Leads(h, b, h[b][s].to)
<1>1. h[b][s] \in ValuesOver(DOMAIN h)
  BY DEF Sound, ItemsOver
<1> QED
  BY <1>1, ValueFacts DEF Leads, PointsTo

LEMMA SeeSame ==
  ASSUME NEW v, NEW C, NEW D, IsContainer(v) /\ v.to # NullPtr => C[v.to] = D[v.to]
  PROVE  See(v, C) = See(v, D)
BY DEF See

LEMMA Agree ==
  ASSUME NEW h, NEW g, Sound(g), Acyclic(g), NEW C, SeesAll(C, h), NEW D, SeesAll(D, g),
         NEW U, U \subseteq DOMAIN h \cap DOMAIN g, \A b \in U : h[b] = g[b],
         \A b \in U, c \in DOMAIN g : Leads(g, b, c) => c \in U
  PROVE  \A b \in U : C[b] = D[b]
<1>1. PICK r : Ranked(g, r)
  BY DEF Acyclic
<1> DEFINE size(b) == Cardinality(Above(g, r, b))
           S == {n \in Nat : \A b \in U : size(b) <= n => C[b] = D[b]}
<1>2. /\ \A b \in DOMAIN g : size(b) \in Nat \ {0}
      /\ \A b, c \in DOMAIN g : Leads(g, b, c) => size(c) < size(b)
  BY <1>1, AboveFacts
<1> HIDE DEF size
<1>3. 0 \in S
  BY <1>2
<1>4. ASSUME NEW n \in Nat, n \in S
      PROVE  n + 1 \in S
  <2> SUFFICES ASSUME NEW b \in U, size(b) <= n + 1
               PROVE  C[b] = D[b]
    OBVIOUS
  <2>1. ASSUME NEW s \in DOMAIN g[b]
        PROVE  See(g[b][s], C) = See(g[b][s], D)
    <3>1. ASSUME IsContainer(g[b][s]), g[b][s].to # NullPtr
          PROVE  C[g[b][s].to] = D[g[b][s].to]
      <4>1. g[b][s].to \in DOMAIN g /\ Leads(g, b, g[b][s].to)
        BY <3>1, SlotLeads
      <4>2. g[b][s].to \in U /\ size(g[b][s].to) < size(b)
        BY <1>2, <4>1
      <4>3. size(g[b][s].to) <= n
        BY <1>2, <4>1, <4>2
      <4> QED
        BY <1>4, <4>2, <4>3
    <3> QED
      BY <3>1, SeeSame
  <2>2. C[b] = [s \in DOMAIN g[b] |-> See(g[b][s], C)]
    BY DEF SeesAll
  <2>3. D[b] = [s \in DOMAIN g[b] |-> See(g[b][s], D)]
    BY DEF SeesAll
  <2> QED
    BY <2>1, <2>2, <2>3
<1>5. ASSUME NEW b \in U
      PROVE  C[b] = D[b]
  <2>1. size(b) \in Nat
    BY <1>2
  <2> HIDE DEF S
  <2>2. size(b) \in S
    BY <1>3, <1>4, <2>1, Induction
  <2> QED
    BY <2>1, <2>2 DEF S
<1> QED
  BY <1>5

-------------------------------------------------------------------------------
(* Following pointers as often as there are blocks shows everything.       *)
IsFollowing(f, h, N) ==
  f = [d \in 0 .. N |->
         IF d = 0 THEN [b \in DOMAIN h |-> Empty]
         ELSE [b \in DOMAIN h |-> [s \in DOMAIN h[b] |-> See(h[b][s], f[d - 1])]]]

LEMMA FollowingExists ==
  ASSUME NEW h
  PROVE  \A N \in Nat : \E f : IsFollowing(f, h, N)
<1> DEFINE Next1(C) == [b \in DOMAIN h |-> [s \in DOMAIN h[b] |-> See(h[b][s], C)]]
           None == [b \in DOMAIN h |-> Empty]
           S == {N \in Nat : \E f : IsFollowing(f, h, N)}
<1>1. \A f, N : IsFollowing(f, h, N)
                  <=> f = [d \in 0 .. N |-> IF d = 0 THEN None ELSE Next1(f[d - 1])]
  BY DEF IsFollowing
<1> HIDE DEF Next1, None
<1>2. 0 \in S
  <2>1. [d \in 0 .. 0 |-> None]
          = [d \in 0 .. 0 |-> IF d = 0 THEN None ELSE Next1([e \in 0 .. 0 |-> None][d - 1])]
    OBVIOUS
  <2>2. IsFollowing([d \in 0 .. 0 |-> None], h, 0)
    BY <1>1, <2>1
  <2> QED
    BY <2>2
<1>3. ASSUME NEW N \in Nat, N \in S
      PROVE  N + 1 \in S
  <2>1. PICK f : IsFollowing(f, h, N)
    BY <1>3
  <2> DEFINE g == [d \in 0 .. N + 1 |-> IF d = N + 1 THEN Next1(f[N]) ELSE f[d]]
  <2>2. ASSUME NEW d \in 0 .. N + 1
        PROVE  g[d] = IF d = 0 THEN None ELSE Next1(g[d - 1])
    <3>1. CASE d = N + 1
      <4>1. d # 0 /\ d - 1 = N /\ N \in 0 .. N + 1 /\ N # N + 1
        BY <3>1
      <4> QED
        BY <3>1, <4>1
    <3>2. CASE d # N + 1
      <4>1. d \in 0 .. N /\ (d # 0 => d - 1 \in 0 .. N + 1 /\ d - 1 # N + 1)
        BY <3>2
      <4>2. f[d] = IF d = 0 THEN None ELSE Next1(f[d - 1])
        BY <1>1, <2>1, <4>1
      <4> QED
        BY <3>2, <4>1, <4>2
    <3> QED
      BY <3>1, <3>2
  <2>3. IsFollowing(g, h, N + 1)
    <3>1. g = [d \in 0 .. N + 1 |-> g[d]]
      OBVIOUS
    <3> HIDE DEF g
    <3>2. g = [d \in 0 .. N + 1 |-> IF d = 0 THEN None ELSE Next1(g[d - 1])]
      BY <2>2, <3>1
    <3> QED
      BY <1>1, <3>2
  <2> QED
    BY <2>3
<1> HIDE DEF S
<1>4. \A N \in Nat : N \in S
  BY <1>2, <1>3, Induction
<1> QED
  BY <1>4 DEF S

LEMMA FollowingShowsAll ==
  ASSUME NEW h, Sound(h), Acyclic(h), NEW N \in Nat, Cardinality(DOMAIN h) <= N,
         NEW f, IsFollowing(f, h, N)
  PROVE  SeesAll(f[N], h)
<1>1. PICK r : Ranked(h, r)
  BY DEF Acyclic
<1> DEFINE size(b) == Cardinality(Above(h, r, b))
           S == {d \in Nat : d < N => \A b \in DOMAIN h : size(b) <= d => f[d][b] = f[d + 1][b]}
<1>2. /\ \A b \in DOMAIN h : size(b) \in Nat \ {0}
      /\ \A b, c \in DOMAIN h : Leads(h, b, c) => size(c) < size(b)
      /\ \A b \in DOMAIN h \ {Stack} : size(b) < Cardinality(DOMAIN h)
  BY <1>1, AboveFacts
<1> HIDE DEF size
<1>3. \A d \in 0 .. N :
        f[d] = IF d = 0 THEN [b \in DOMAIN h |-> Empty]
               ELSE [b \in DOMAIN h |-> [s \in DOMAIN h[b] |-> See(h[b][s], f[d - 1])]]
  BY DEF IsFollowing
<1>4. 0 \in S
  BY <1>2
<1>5. ASSUME NEW d \in Nat, d \in S
      PROVE  d + 1 \in S
  <2> SUFFICES ASSUME d + 1 < N, NEW b \in DOMAIN h, size(b) <= d + 1
               PROVE  f[d + 1][b] = f[(d + 1) + 1][b]
    OBVIOUS
  <2>1. ASSUME NEW s \in DOMAIN h[b]
        PROVE  See(h[b][s], f[d]) = See(h[b][s], f[d + 1])
    <3>1. ASSUME IsContainer(h[b][s]), h[b][s].to # NullPtr
          PROVE  f[d][h[b][s].to] = f[d + 1][h[b][s].to]
      <4>1. h[b][s].to \in DOMAIN h /\ Leads(h, b, h[b][s].to)
        BY <3>1, SlotLeads
      <4>2. size(h[b][s].to) < size(b)
        BY <1>2, <4>1
      <4>3. size(h[b][s].to) <= d /\ d < N
        BY <1>2, <4>1, <4>2
      <4> QED
        BY <1>5, <4>1, <4>3
    <3> QED
      BY <3>1, SeeSame
  <2>2. d + 1 \in 0 .. N /\ d + 1 # 0 /\ (d + 1) - 1 = d
    OBVIOUS
  <2>3. (d + 1) + 1 \in 0 .. N /\ (d + 1) + 1 # 0 /\ ((d + 1) + 1) - 1 = d + 1
    OBVIOUS
  <2>4. f[d + 1] = [c \in DOMAIN h |-> [s \in DOMAIN h[c] |-> See(h[c][s], f[d])]]
    BY <1>3, <2>2
  <2>5. f[(d + 1) + 1] = [c \in DOMAIN h |-> [s \in DOMAIN h[c] |-> See(h[c][s], f[d + 1])]]
    BY <1>3, <2>3
  <2> QED
    BY <2>1, <2>4, <2>5
<1>6. Cardinality(DOMAIN h) \in Nat \ {0}
  BY FS_CardinalityType, FS_EmptySet DEF Sound
<1>7. N - 1 \in Nat /\ N - 1 < N /\ (N - 1) + 1 = N /\ N # 0 /\ N \in 0 .. N
  BY <1>6
<1>8. ASSUME NEW c \in DOMAIN h \ {Stack}
      PROVE  f[N - 1][c] = f[N][c]
  <2>1. size(c) <= N - 1
    BY <1>2, <1>6, <1>7
  <2> HIDE DEF S
  <2>2. N - 1 \in S
    BY <1>4, <1>5, <1>7, Induction
  <2>3. \A b \in DOMAIN h : size(b) <= N - 1 => f[N - 1][b] = f[(N - 1) + 1][b]
    BY <1>7, <2>2 DEF S
  <2> QED
    BY <1>7, <2>1, <2>3
<1>9. ASSUME NEW b \in DOMAIN h, NEW s \in DOMAIN h[b]
      PROVE  See(h[b][s], f[N - 1]) = See(h[b][s], f[N])
  <2>1. ASSUME IsContainer(h[b][s]), h[b][s].to # NullPtr
        PROVE  f[N - 1][h[b][s].to] = f[N][h[b][s].to]
    BY <1>8, <2>1, SlotLeads
  <2> QED
    BY <2>1, SeeSame
<1>10. f[N] = [b \in DOMAIN h |-> [s \in DOMAIN h[b] |-> See(h[b][s], f[N - 1])]]
  BY <1>3, <1>7
<1>11. [b \in DOMAIN h |-> [s \in DOMAIN h[b] |-> See(h[b][s], f[N - 1])]]
         = [b \in DOMAIN h |-> [s \in DOMAIN h[b] |-> See(h[b][s], f[N])]]
  BY <1>9
<1> QED
  BY <1>10, <1>11 DEF SeesAll

LEMMA ViewSees ==
  ASSUME NEW h, Sound(h), Acyclic(h)
  PROVE  SeesAll(View(h), h)
<1> DEFINE N == Cardinality(DOMAIN h)
<1>1. N \in Nat
  BY FS_CardinalityType DEF Sound
<1>2. PICK f : IsFollowing(f, h, N)
  BY <1>1, FollowingExists
<1>3. SeesAll(f[N], h)
  BY <1>1, <1>2, FollowingShowsAll
<1> QED
  BY <1>3 DEF View

LEMMA ViewIsOnly ==
  ASSUME NEW h, Sound(h), Acyclic(h), NEW C, SeesAll(C, h)
  PROVE  C = View(h)
<1>1. SeesAll(View(h), h)
  BY ViewSees
<1>2. \A b \in DOMAIN h : C[b] = View(h)[b]
  BY <1>1, Agree
<1>3. C = [b \in DOMAIN h |-> C[b]] /\ View(h) = [b \in DOMAIN h |-> View(h)[b]]
  BY <1>1 DEF SeesAll
<1> QED
  BY <1>2, <1>3

(* What the program sees is what is in the variables of the view.          *)
LEMMA ContentsIsView ==
  ASSUME NEW h, Good(h), DOMAIN h \subseteq Blocks \cup {Stack}
  PROVE  Contents(h) = View(h)[Stack]
<1> DEFINE N == MaxBlocks + 1
<1>1. N \in Nat
  BY CowAssumption
<1>2. Cardinality(DOMAIN h) <= N
  <2>1. 0 \in Int /\ MaxBlocks \in Int /\ ~(0 > MaxBlocks) /\ MaxBlocks - 0 + 1 = N
    BY CowAssumption
  <2>2. DOMAIN h \in SUBSET (0 .. MaxBlocks)
    BY <2>1 DEF Blocks, Stack
  <2> HIDE DEF N
  <2>3. IsFiniteSet(0 .. MaxBlocks) /\ Cardinality(0 .. MaxBlocks) = N
    BY <2>1, FS_Interval
  <2> QED
    BY <2>2, <2>3, FS_Subset
<1>3. \E f : IsFollowing(f, h, N)
  BY <1>1, FollowingExists
<1>4. \E f : IsFollowing(f, h, N) /\ Contents(h) = f[N][Stack]
  BY <1>3 DEF Contents, IsFollowing
<1>5. PICK f : IsFollowing(f, h, N) /\ Contents(h) = f[N][Stack]
  BY <1>4
<1> HIDE DEF N
<1>6. SeesAll(f[N], h)
  BY <1>1, <1>2, <1>5, FollowingShowsAll DEF Good
<1>7. f[N] = View(h)
  BY <1>6, ViewIsOnly DEF Good
<1> QED
  BY <1>5, <1>7

-------------------------------------------------------------------------------
(* What a change shows.                                                    *)

(* From h to g, blocks came and went, and of those that stayed only the    *)
(* Value at p changed.                                                     *)
Alters(h, g, p) ==
  /\ Good(h) /\ Good(g)
  /\ p[1] \in DOMAIN h \cap DOMAIN g
  /\ \A b \in DOMAIN h \cap DOMAIN g : b # p[1] => g[b] = h[b]
  /\ DOMAIN g[p[1]] = DOMAIN h[p[1]] \cup {p[2]}
  /\ \A s \in DOMAIN h[p[1]] : s # p[2] => g[p[1]][s] = h[p[1]][s]
  /\ \A b \in DOMAIN g \ DOMAIN h :
       g[b] = Empty \/ \E a \in DOMAIN h \ {Stack} : g[b] = h[a]

LEMMA PutAlters ==
  ASSUME NEW h, Good(h), NEW p, Anchored(h, p[1]), NEW v \in ValuesOver(DOMAIN h),
         Good(Put(h, p, v))
  PROVE  Alters(h, Put(h, p, v), p) /\ At(Put(h, p, v), p) = v
<1> DEFINE g == Put(h, p, v)
<1>1. p[1] \in DOMAIN h /\ p[1] \in DOMAIN g
  BY PutEdits DEF Edits, Anchored, Good
<1>2. /\ DOMAIN g \subseteq DOMAIN h
      /\ \A b \in DOMAIN g : b # p[1] => g[b] = h[b]
      /\ p[1] \in DOMAIN g =>
           /\ DOMAIN g[p[1]] = DOMAIN h[p[1]] \cup {p[2]}
           /\ At(g, p) = v
           /\ \A s \in DOMAIN h[p[1]] : s # p[2] => g[p[1]][s] = h[p[1]][s]
  BY <1>1, PutSound DEF Good
<1>3. Good(g)
  OBVIOUS
<1> HIDE DEF g
<1>4. Alters(h, g, p) /\ At(g, p) = v
  BY <1>1, <1>2, <1>3 DEF Alters
<1> QED
  BY <1>4 DEF g

LEMMA MakeAlters ==
  ASSUME NEW h, Good(h), NEW p, Anchored(h, p[1]), NEW k \in Kinds, NEW items,
         ItemsOver(items, DOMAIN h),
         \/ items = Empty
         \/ \E a \in DOMAIN h \ {Stack} :
              items = h[a] /\ (p[1] = Stack \/ Leads(h, p[1], a))
  PROVE  LET g == Make(h, p, k, items)
         IN  /\ Alters(h, g, p)
             /\ \E b \in DOMAIN g \ {Stack} : At(g, p) = Pointer(k, b) /\ g[b] = items
<1> DEFINE b == Min((1 .. Cardinality(DOMAIN h)) \ DOMAIN h)
           m == With(h, b, items)
           g == Make(h, p, k, items)
<1>1. b \in Nat /\ b # Stack /\ b \notin DOMAIN h
  BY FreshBlock DEF Good
<1>2. g = Put(m, p, Pointer(k, b))
  BY DEF Make
<1>3. Edits(h, g, p)
  BY MakeEdits
<1> HIDE DEF b, g
<1>4. /\ DOMAIN m = DOMAIN h \cup {b}
      /\ m[b] = items
      /\ \A a \in DOMAIN h : m[a] = h[a]
  BY <1>1 DEF With
<1>5. Sound(m)
  BY <1>1, WithSound DEF Good
<1> HIDE DEF m
<1>6. p[1] \in DOMAIN h /\ p[1] \in DOMAIN m /\ p[1] \in DOMAIN g /\ p[1] # b /\ Good(g)
  BY <1>1, <1>3, <1>4 DEF Edits, Anchored
<1>7. Pointer(k, b) \in ValuesOver(DOMAIN m)
  BY <1>1, <1>4, ValueFacts
<1>8. /\ DOMAIN g \subseteq DOMAIN m
      /\ \A a \in DOMAIN g : a # p[1] => g[a] = m[a]
      /\ DOMAIN g[p[1]] = DOMAIN m[p[1]] \cup {p[2]}
      /\ At(g, p) = Pointer(k, b)
      /\ \A s \in DOMAIN m[p[1]] : s # p[2] => g[p[1]][s] = m[p[1]][s]
  BY <1>2, <1>5, <1>6, <1>7, PutSound
<1>9. b \in DOMAIN g \ {Stack}
  <2>1. At(g, p) \in ValuesOver(DOMAIN g)
    BY <1>6, <1>8, AtFacts DEF Good
  <2>2. IsContainer(At(g, p)) /\ At(g, p).to = b
    BY <1>8 DEF IsContainer, Pointer
  <2> QED
    BY <1>1, <2>1, <2>2, ValueFacts DEF NullPtr
<1>10. g[b] = items
  BY <1>4, <1>6, <1>8, <1>9
<1>11. \A a \in DOMAIN g \ DOMAIN h : a = b
  BY <1>4, <1>8
<1>12. Alters(h, g, p)
  BY <1>4, <1>6, <1>8, <1>10, <1>11 DEF Alters
<1> QED
  BY <1>8, <1>9, <1>10, <1>12 DEF g

(* If UP are the blocks above a place, nothing but them shows a change of  *)
(* it.                                                                     *)
Closed(h, UP) == \A b \in DOMAIN h \ UP, c \in UP : ~Leads(h, b, c)

LEMMA AltersView ==
  ASSUME NEW h, NEW g, NEW p, Alters(h, g, p), NEW UP, p[1] \in UP, Closed(h, UP)
  PROVE  \A b \in (DOMAIN h \cap DOMAIN g) \ UP : View(g)[b] = View(h)[b]
<1> DEFINE U == (DOMAIN h \cap DOMAIN g) \ UP
<1>1. SeesAll(View(h), h) /\ SeesAll(View(g), g) /\ Sound(h) /\ Sound(g) /\ Acyclic(g)
  BY ViewSees DEF Alters, Good
<1>2. \A b \in U : h[b] = g[b]
  BY DEF Alters
<1>3. ASSUME NEW b \in U, NEW c \in DOMAIN g, Leads(g, b, c)
      PROVE  c \in U
  <2>1. Leads(h, b, c)
    BY <1>2, <1>3 DEF Leads
  <2>2. c # NullPtr
    BY <1>1 DEF Sound, NullPtr
  <2>3. c \in DOMAIN h
    BY <1>1, <2>1, <2>2, LeadsInto
  <2> QED
    BY <2>1, <2>3 DEF Closed
<1> HIDE DEF U
<1>4. U \subseteq DOMAIN h \cap DOMAIN g
  BY DEF U
<1>5. \A b \in U : View(h)[b] = View(g)[b]
  BY <1>1, <1>2, <1>3, <1>4, Agree
<1> QED
  BY <1>5 DEF U

LEMMA SeeOutside ==
  ASSUME NEW h, NEW g, NEW p, Alters(h, g, p), NEW UP, p[1] \in UP, Closed(h, UP),
         NEW v \in ValuesOver(DOMAIN h),
         IsContainer(v) /\ v.to # NullPtr => v.to \in DOMAIN g,
         \A c \in UP : ~PointsTo(v, c)
  PROVE  See(v, View(g)) = See(v, View(h))
<1>1. ASSUME IsContainer(v), v.to # NullPtr
      PROVE  View(g)[v.to] = View(h)[v.to]
  <2>1. v.to \in DOMAIN h
    BY <1>1, ValueFacts
  <2>2. v.to \notin UP
    BY <1>1 DEF PointsTo
  <2> QED
    BY <1>1, <2>1, <2>2, AltersView
<1> QED
  BY <1>1, SeeSame

(* Variable x leads to block p[1], if it is not that of the variables, and *)
(* nothing else does.                                                      *)
Owned(h, p, x) ==
  p[1] # Stack =>
    /\ x \in DOMAIN h[Stack]
    /\ PointsTo(h[Stack][x], p[1])
    /\ Only(h, Var(x))

(* In g the program sees w at p, and all else in the block and, through x, *)
(* in the variables, as in h.                                              *)
Shows(h, g, p, x, w) ==
  /\ Owned(g, p, x)
  /\ View(g)[p[1]] = With(View(h)[p[1]], p[2], w)
  /\ p[1] # Stack =>
       /\ g[Stack] = h[Stack]
       /\ View(g)[Stack] = With(View(h)[Stack], x, [type  |-> h[Stack][x].type,
                                                     items |-> View(g)[p[1]]])

LEMMA OwnedFacts ==
  ASSUME NEW h, Good(h), NEW p, p[1] \in DOMAIN h, NEW x, Owned(h, p, x), p[1] # Stack
  PROVE  \A b \in DOMAIN h : \A s \in DOMAIN h[b] : PointsTo(h[b][s], p[1]) => b = Stack /\ s = x
<1>1. At(h, Var(x)).to = p[1]
  BY DEF Owned, PointsTo, At, Var
<1> QED
  BY <1>1 DEF Owned, Only, Var

LEMMA OwnedClosed ==
  ASSUME NEW h, Good(h), NEW p, p[1] \in DOMAIN h, NEW x, Owned(h, p, x)
  PROVE  Closed(h, {Stack, p[1]})
<1>1. \A b \in DOMAIN h : ~Leads(h, b, Stack)
  BY LeadsInto DEF Good, Stack, NullPtr
<1>2. \A b \in DOMAIN h \ {Stack} : p[1] # Stack => ~Leads(h, b, p[1])
  BY OwnedFacts DEF Leads
<1> QED
  BY <1>1, <1>2 DEF Closed

LEMMA NoSelf ==
  ASSUME NEW h, Good(h), NEW b \in DOMAIN h
  PROVE  ~Leads(h, b, b)
<1>1. PICK r : Ranked(h, r)
  BY DEF Good, Acyclic
<1>2. r[b] \in Nat /\ (Leads(h, b, b) => r[b] < r[b])
  BY <1>1 DEF Ranked
<1> QED
  BY <1>2

LEMMA AltersShows ==
  ASSUME NEW h, NEW g, NEW p, Alters(h, g, p), NEW x, Owned(h, p, x)
  PROVE  Shows(h, g, p, x, View(g)[p[1]][p[2]])
<1> DEFINE UP == {Stack, p[1]}
           w == View(g)[p[1]][p[2]]
<1>1. /\ Good(h) /\ Good(g) /\ Sound(h) /\ Sound(g)
      /\ p[1] \in DOMAIN h /\ p[1] \in DOMAIN g
      /\ Stack \in DOMAIN h /\ Stack \in DOMAIN g
  BY DEF Alters, Good, Sound
<1>2. SeesAll(View(h), h) /\ SeesAll(View(g), g)
  BY <1>1, ViewSees DEF Good
<1>3. p[1] \in UP /\ Closed(h, UP)
  BY <1>1, OwnedClosed
<1>4. ASSUME NEW b \in UP, NEW s \in DOMAIN h[b], s \in DOMAIN g[b], g[b][s] = h[b][s],
             ~PointsTo(h[b][s], p[1])
      PROVE  View(g)[b][s] = View(h)[b][s]
  <2>1. b \in DOMAIN h /\ b \in DOMAIN g
    BY <1>1
  <2>2. h[b][s] \in ValuesOver(DOMAIN h)
    BY <1>1, <2>1 DEF Sound, ItemsOver
  <2>3. IsContainer(h[b][s]) /\ h[b][s].to # NullPtr => h[b][s].to \in DOMAIN g
    BY <1>1, <1>4, <2>1, SlotLeads
  <2>4. ~PointsTo(h[b][s], Stack)
    BY <2>2, ValueFacts DEF PointsTo, Stack, NullPtr
  <2>5. \A c \in UP : ~PointsTo(h[b][s], c)
    BY <1>4, <2>4
  <2> HIDE DEF UP
  <2>6. See(h[b][s], View(g)) = See(h[b][s], View(h))
    BY <1>3, <2>2, <2>3, <2>5, SeeOutside
  <2>7. View(g)[b][s] = See(g[b][s], View(g)) /\ View(h)[b][s] = See(h[b][s], View(h))
    BY <1>2, <1>4, <2>1 DEF SeesAll
  <2> QED
    BY <1>4, <2>6, <2>7
<1>5. View(g)[p[1]] = With(View(h)[p[1]], p[2], w)
  <2>1. \A s \in DOMAIN h[p[1]] : s # p[2] => View(g)[p[1]][s] = View(h)[p[1]][s]
    <3> TAKE s \in DOMAIN h[p[1]]
    <3> HAVE s # p[2]
    <3>1. ~PointsTo(h[p[1]][s], p[1])
      BY <1>1, NoSelf DEF Leads
    <3>2. s \in DOMAIN g[p[1]] /\ g[p[1]][s] = h[p[1]][s]
      BY DEF Alters
    <3> QED
      BY <1>4, <3>1, <3>2
  <2>2. /\ View(g)[p[1]] = [s \in DOMAIN g[p[1]] |-> View(g)[p[1]][s]]
        /\ DOMAIN View(h)[p[1]] = DOMAIN h[p[1]]
    BY <1>1, <1>2 DEF SeesAll
  <2>3. DOMAIN g[p[1]] = DOMAIN h[p[1]] \cup {p[2]}
    BY DEF Alters
  <2> QED
    BY <2>1, <2>2, <2>3 DEF With
<1>6. ASSUME p[1] # Stack
      PROVE  /\ g[Stack] = h[Stack]
             /\ View(g)[Stack] = With(View(h)[Stack], x, [type  |-> h[Stack][x].type,
                                                          items |-> View(g)[p[1]]])
  <2>1. g[Stack] = h[Stack]
    BY <1>1, <1>6 DEF Alters
  <2>2. \A y \in DOMAIN h[Stack] : y # x => View(g)[Stack][y] = View(h)[Stack][y]
    BY <1>1, <1>4, <1>6, <2>1, OwnedFacts
  <2>3. x \in DOMAIN h[Stack] /\ PointsTo(h[Stack][x], p[1]) /\ p[1] # NullPtr
    BY <1>1, <1>6 DEF Owned, Sound, NullPtr
  <2>4. View(g)[Stack][x] = See(h[Stack][x], View(g))
    BY <1>1, <1>2, <2>1, <2>3 DEF SeesAll
  <2>5. View(g)[Stack][x] = [type |-> h[Stack][x].type, items |-> View(g)[p[1]]]
    BY <2>3, <2>4 DEF See, PointsTo
  <2>6. /\ View(g)[Stack] = [y \in DOMAIN h[Stack] |-> View(g)[Stack][y]]
        /\ DOMAIN View(h)[Stack] = DOMAIN h[Stack]
    BY <1>1, <1>2, <2>1 DEF SeesAll
  <2> QED
    BY <2>1, <2>2, <2>3, <2>5, <2>6 DEF With
<1>7. ASSUME p[1] # Stack
      PROVE  Owned(g, p, x)
  <2>1. g[Stack] = h[Stack] /\ x \in DOMAIN h[Stack] /\ PointsTo(h[Stack][x], p[1])
    BY <1>6, <1>7 DEF Owned
  <2>2. At(g, Var(x)).to = p[1]
    BY <2>1 DEF PointsTo, At, Var
  <2>3. ASSUME NEW b \in DOMAIN g, NEW s \in DOMAIN g[b], PointsTo(g[b][s], p[1])
        PROVE  b = Stack /\ s = x
    <3>1. b # p[1]
      BY <1>1, <2>3, NoSelf DEF Leads
    <3>2. CASE b \in DOMAIN h
      BY <1>1, <1>7, <2>3, <3>1, <3>2, OwnedFacts DEF Alters
    <3>3. CASE b \notin DOMAIN h
      <4>1. g[b] # Empty
        BY <2>3 DEF Empty
      <4>2. PICK a \in DOMAIN h \ {Stack} : g[b] = h[a]
        BY <3>3, <4>1 DEF Alters
      <4> QED
        BY <1>1, <1>7, <2>3, <4>2, OwnedFacts
    <3> QED
      BY <3>2, <3>3
  <2> QED
    BY <2>1, <2>2, <2>3 DEF Owned, Only, Var
<1> QED
  BY <1>5, <1>6, <1>7 DEF Shows, Owned

LEMMA WithFacts ==
  ASSUME NEW f, NEW s, NEW v
  PROVE  /\ With(f, s, v)[s] = v
         /\ DOMAIN With(f, s, v) = DOMAIN f \cup {s}
         /\ \A t \in DOMAIN f : t # s => With(f, s, v)[t] = f[t]
BY DEF With

LEMMA WithTwice ==
  ASSUME NEW f, NEW s, NEW v, NEW w
  PROVE  With(With(f, s, v), s, w) = With(f, s, w)
BY DEF With

LEMMA ShowsTwice ==
  ASSUME NEW h, NEW m, NEW g, NEW p, NEW x, NEW v, NEW w,
         Shows(h, m, p, x, v), Shows(m, g, p, x, w)
  PROVE  Shows(h, g, p, x, w)
<1>1. View(g)[p[1]] = With(View(h)[p[1]], p[2], w)
  <2>1. /\ View(m)[p[1]] = With(View(h)[p[1]], p[2], v)
        /\ View(g)[p[1]] = With(View(m)[p[1]], p[2], w)
    BY DEF Shows
  <2>2. With(With(View(h)[p[1]], p[2], v), p[2], w) = With(View(h)[p[1]], p[2], w)
    BY WithTwice
  <2> QED
    BY <2>1, <2>2
<1>2. ASSUME p[1] # Stack
      PROVE  /\ g[Stack] = h[Stack]
             /\ View(g)[Stack] = With(View(h)[Stack], x, [type  |-> h[Stack][x].type,
                                                          items |-> View(g)[p[1]]])
  <2> DEFINE u == [type |-> h[Stack][x].type, items |-> View(m)[p[1]]]
             z == [type |-> h[Stack][x].type, items |-> View(g)[p[1]]]
  <2>1. g[Stack] = h[Stack] /\ m[Stack] = h[Stack]
    BY <1>2 DEF Shows
  <2>2. View(m)[Stack] = With(View(h)[Stack], x, u)
    BY <1>2 DEF Shows
  <2>3. View(g)[Stack] = With(View(m)[Stack], x, z)
    BY <1>2, <2>1 DEF Shows
  <2> HIDE DEF u, z
  <2>4. With(With(View(h)[Stack], x, u), x, z) = With(View(h)[Stack], x, z)
    BY WithTwice
  <2>5. View(g)[Stack] = With(View(h)[Stack], x, z)
    BY <2>2, <2>3, <2>4
  <2> QED
    BY <2>1, <2>5 DEF z
<1> QED
  BY <1>1, <1>2 DEF Shows

LEMMA ShownAt ==
  ASSUME NEW h, NEW g, NEW p, NEW x, NEW w, Shows(h, g, p, x, w)
  PROVE  View(g)[p[1]][p[2]] = w
<1>1. View(g)[p[1]] = With(View(h)[p[1]], p[2], w)
  BY DEF Shows
<1>2. With(View(h)[p[1]], p[2], w)[p[2]] = w
  BY DEF With
<1> QED
  BY <1>1, <1>2

(* What is seen of one place.                                              *)
LEMMA SeenAt ==
  ASSUME NEW h, Good(h), NEW p, p[1] \in DOMAIN h, p[2] \in DOMAIN h[p[1]]
  PROVE  View(h)[p[1]][p[2]] = See(At(h, p), View(h))
<1>1. SeesAll(View(h), h)
  BY ViewSees DEF Good
<1> QED
  BY <1>1 DEF SeesAll, At

LEMMA SeeFacts ==
  ASSUME NEW v, NEW C
  PROVE  /\ See(v, C).type = v.type
         /\ ~IsContainer(v) => See(v, C) = v
         /\ IsContainer(v) => See(v, C) = [type  |-> v.type,
                                           items |-> IF v.to = NullPtr THEN Empty ELSE C[v.to]]
BY DEF See

LEMMA ShowsNothing ==
  ASSUME NEW h, Good(h), NEW p, p[1] \in DOMAIN h, p[2] \in DOMAIN h[p[1]],
         NEW x, Owned(h, p, x)
  PROVE  Shows(h, h, p, x, View(h)[p[1]][p[2]])
<1>1. Alters(h, h, p)
  BY DEF Alters
<1> QED
  BY <1>1, AltersShows

LEMMA PutShows ==
  ASSUME NEW h, Good(h), NEW p, Anchored(h, p[1]), NEW v \in ValuesOver(DOMAIN h),
         Good(Put(h, p, v)), NEW x, Owned(h, p, x), p[1] = Stack \/ ~PointsTo(v, p[1])
  PROVE  Shows(h, Put(h, p, v), p, x, See(v, View(h)))
<1> DEFINE g == Put(h, p, v)
           UP == {Stack, p[1]}
<1>1. Alters(h, g, p) /\ At(g, p) = v
  BY PutAlters
<1> HIDE DEF g
<1>2. Shows(h, g, p, x, View(g)[p[1]][p[2]])
  BY <1>1, AltersShows
<1>3. Good(g) /\ p[1] \in DOMAIN g /\ p[2] \in DOMAIN g[p[1]] /\ p[1] \in DOMAIN h
  BY <1>1 DEF Alters
<1>4. View(g)[p[1]][p[2]] = See(v, View(g))
  BY <1>1, <1>3, SeenAt
<1>5. IsContainer(v) /\ v.to # NullPtr => v.to \in DOMAIN g
  BY <1>1, <1>3, AtFacts DEF Good
<1>6. ~PointsTo(v, Stack)
  BY ValueFacts DEF PointsTo, Stack, NullPtr
<1>7. \A c \in UP : ~PointsTo(v, c)
  BY <1>6
<1>8. p[1] \in UP /\ Closed(h, UP)
  BY <1>3, OwnedClosed
<1> HIDE DEF UP
<1>9. See(v, View(g)) = See(v, View(h))
  BY <1>1, <1>5, <1>7, <1>8, SeeOutside
<1> QED
  BY <1>2, <1>4, <1>9 DEF g

LEMMA MakeEmptyShows ==
  ASSUME NEW h, Good(h), NEW p, Anchored(h, p[1]), NEW k \in Kinds, NEW x, Owned(h, p, x)
  PROVE  Shows(h, Make(h, p, k, Empty), p, x, [type |-> k, items |-> Empty])
<1> DEFINE g == Make(h, p, k, Empty)
<1>1. /\ Alters(h, g, p)
      /\ \E b \in DOMAIN g \ {Stack} : At(g, p) = Pointer(k, b) /\ g[b] = Empty
  BY EmptyItems, MakeAlters
<1> HIDE DEF g
<1>2. PICK b \in DOMAIN g \ {Stack} : At(g, p) = Pointer(k, b) /\ g[b] = Empty
  BY <1>1
<1>3. Good(g) /\ p[1] \in DOMAIN g /\ p[2] \in DOMAIN g[p[1]]
  BY <1>1 DEF Alters
<1>4. View(g)[b] = Empty
  <2>1. SeesAll(View(g), g)
    BY <1>3, ViewSees DEF Good
  <2> QED
    BY <1>2, <2>1 DEF SeesAll, Empty
<1>5. b # NullPtr
  BY <1>3 DEF Good, Sound, NullPtr
<1>6. See(Pointer(k, b), View(g)) = [type |-> k, items |-> Empty]
  BY <1>4, <1>5 DEF See, Pointer, IsContainer
<1>7. View(g)[p[1]][p[2]] = [type |-> k, items |-> Empty]
  BY <1>2, <1>3, <1>6, SeenAt
<1>8. Shows(h, g, p, x, View(g)[p[1]][p[2]])
  BY <1>1, AltersShows
<1> QED
  BY <1>7, <1>8 DEF g

(* A clone looks like the original.                                        *)
LEMMA MakeCopyShows ==
  ASSUME NEW h, Good(h), NEW p, Anchored(h, p[1]), NEW k \in Kinds, NEW x, Owned(h, p, x),
         NEW a \in DOMAIN h \ {Stack}, p[1] = Stack \/ Leads(h, p[1], a)
  PROVE  Shows(h, Make(h, p, k, h[a]), p, x, [type |-> k, items |-> View(h)[a]])
<1> DEFINE g == Make(h, p, k, h[a])
           UP == {Stack, p[1]}
<1>1. /\ Alters(h, g, p)
      /\ \E b \in DOMAIN g \ {Stack} : At(g, p) = Pointer(k, b) /\ g[b] = h[a]
  <2>1. ItemsOver(h[a], DOMAIN h)
    BY DEF Good, Sound
  <2> QED
    BY <2>1, MakeAlters
<1> HIDE DEF g
<1>2. PICK b \in DOMAIN g \ {Stack} : At(g, p) = Pointer(k, b) /\ g[b] = h[a]
  BY <1>1
<1>3. /\ Good(g) /\ p[1] \in DOMAIN g /\ p[2] \in DOMAIN g[p[1]] /\ p[1] \in DOMAIN h
      /\ SeesAll(View(g), g) /\ SeesAll(View(h), h)
  BY <1>1, ViewSees DEF Alters, Good
<1>4. p[1] \in UP /\ Closed(h, UP)
  BY <1>3, OwnedClosed
<1>5. a \notin UP
  BY <1>3, NoSelf
<1>6. ASSUME NEW s \in DOMAIN h[a]
      PROVE  See(h[a][s], View(g)) = See(h[a][s], View(h))
  <2>1. h[a][s] \in ValuesOver(DOMAIN h)
    BY DEF Good, Sound, ItemsOver
  <2>2. IsContainer(h[a][s]) /\ h[a][s].to # NullPtr => h[a][s].to \in DOMAIN g
    BY <1>2, <1>3, SlotLeads DEF Good
  <2>3. \A c \in UP : ~PointsTo(h[a][s], c)
    BY <1>4, <1>5 DEF Closed, Leads
  <2> HIDE DEF UP
  <2> QED
    BY <1>1, <1>4, <2>1, <2>2, <2>3, SeeOutside
<1>7. View(g)[b] = View(h)[a]
  <2>1. View(g)[b] = [s \in DOMAIN h[a] |-> See(h[a][s], View(g))]
    BY <1>2, <1>3 DEF SeesAll
  <2>2. View(h)[a] = [s \in DOMAIN h[a] |-> See(h[a][s], View(h))]
    BY <1>3 DEF SeesAll
  <2> QED
    BY <1>6, <2>1, <2>2
<1>8. b # NullPtr
  BY <1>3 DEF Good, Sound, NullPtr
<1>9. See(Pointer(k, b), View(g)) = [type |-> k, items |-> View(h)[a]]
  BY <1>7, <1>8 DEF See, Pointer, IsContainer
<1>10. View(g)[p[1]][p[2]] = [type |-> k, items |-> View(h)[a]]
  BY <1>2, <1>3, <1>9, SeenAt
<1>11. Shows(h, g, p, x, View(g)[p[1]][p[2]])
  BY <1>1, AltersShows
<1> QED
  BY <1>10, <1>11 DEF g

(* v as a container of kind k: what asArray, asObject, pushBack and        *)
(* operator[] make of a Value.                                             *)
Contain(k, v) == [type |-> k, items |-> IF v.type = k THEN v.items ELSE Empty]

LEMMA EnsureUniqueShows ==
  ASSUME NEW h, Good(h), NEW p, Anchored(h, p[1]), p[2] \in DOMAIN h[p[1]],
         NEW k \in Kinds, At(h, p).type = k, NEW x, Owned(h, p, x)
  PROVE  Shows(h, EnsureUnique(h, p), p, x, Contain(k, View(h)[p[1]][p[2]]))
<1> DEFINE v == At(h, p)
           w == View(h)[p[1]][p[2]]
<1>1. p[1] \in DOMAIN h
  BY DEF Anchored
<1>2. w = See(v, View(h)) /\ IsContainer(v)
  BY <1>1, SeenAt DEF IsContainer
<1>3. w = [type |-> k, items |-> IF v.to = NullPtr THEN Empty ELSE View(h)[v.to]]
  BY <1>2, SeeFacts
<1>4. Contain(k, w) = w
  BY <1>3 DEF Contain
<1>5. CASE v.to = NullPtr
  <2>1. EnsureUnique(h, p) = Make(h, p, k, Empty)
    BY <1>5 DEF EnsureUnique
  <2>2. w = [type |-> k, items |-> Empty]
    BY <1>3, <1>5
  <2> QED
    BY <1>4, <2>1, <2>2, MakeEmptyShows
<1>6. CASE v.to # NullPtr /\ UseCount(h, v.to) > 1
  <2>1. EnsureUnique(h, p) = Make(h, p, k, h[v.to])
    BY <1>6 DEF EnsureUnique
  <2>2. w = [type |-> k, items |-> View(h)[v.to]]
    BY <1>3, <1>6
  <2>3. v.to \in DOMAIN h \ {Stack} /\ Leads(h, p[1], v.to)
    BY <1>1, <1>2, <1>6, SlotLeads DEF Good, At
  <2> HIDE DEF v, w
  <2>4. Shows(h, Make(h, p, k, h[v.to]), p, x, [type |-> k, items |-> View(h)[v.to]])
    BY <2>3, MakeCopyShows
  <2> QED
    BY <1>4, <2>1, <2>2, <2>4 DEF w
<1>7. CASE v.to # NullPtr /\ ~(UseCount(h, v.to) > 1)
  <2>1. EnsureUnique(h, p) = h
    BY <1>7 DEF EnsureUnique
  <2> QED
    BY <1>1, <1>4, <2>1, ShowsNothing
<1> QED
  BY <1>5, <1>6, <1>7

LEMMA AsShows ==
  ASSUME NEW h, Good(h), NEW p, Anchored(h, p[1]), p[2] \in DOMAIN h[p[1]],
         NEW k \in Kinds, Accepts(h, p, k), NEW x, Owned(h, p, x)
  PROVE  Shows(h, As(h, p, k), p, x, Contain(k, View(h)[p[1]][p[2]]))
<1> DEFINE m == IF At(h, p) = Null THEN Make(h, p, k, Empty) ELSE h
           w == View(h)[p[1]][p[2]]
<1>1. As(h, p, k) = EnsureUnique(m, p)
  BY DEF As
<1>2. p[1] \in DOMAIN h /\ w = See(At(h, p), View(h)) /\ w.type = At(h, p).type
  BY SeenAt, SeeFacts DEF Anchored
<1>3. CASE At(h, p) = Null
  <2>1. m = Make(h, p, k, Empty)
    BY <1>3
  <2> DEFINE e == [type |-> k, items |-> Empty]
  <2>2. Contain(k, w) = e /\ Contain(k, e) = e
    <3>1. w.type # k
      BY <1>2, <1>3, CowAssumption DEF Null
    <3> QED
      BY <3>1 DEF Contain
  <2>3. Edits(h, m, p) /\ At(m, p).type = k /\ Shows(h, m, p, x, e)
    BY <2>1, EmptyItems, MakeEdits, MakeEmptyShows DEF Ready
  <2>4. Good(m) /\ Anchored(m, p[1]) /\ p[2] \in DOMAIN m[p[1]] /\ Owned(m, p, x)
    BY <2>3, EditedPlace DEF Shows
  <2> HIDE DEF m, e
  <2>5. View(m)[p[1]][p[2]] = e
    BY <2>3, ShownAt
  <2>6. Shows(m, EnsureUnique(m, p), p, x, Contain(k, View(m)[p[1]][p[2]]))
    BY <2>3, <2>4, EnsureUniqueShows
  <2>7. Shows(h, EnsureUnique(m, p), p, x, e)
    BY <2>2, <2>3, <2>5, <2>6, ShowsTwice
  <2> QED
    BY <1>1, <2>2, <2>7
<1>4. CASE At(h, p) # Null
  <2>1. At(h, p).type = k
    BY <1>2, <1>4, AtFacts DEF Accepts, Good
  <2> QED
    BY <1>1, <1>4, <2>1, EnsureUniqueShows
<1> QED
  BY <1>3, <1>4

LEMMA ForceAsShows ==
  ASSUME NEW h, Good(h), NEW p, Anchored(h, p[1]), p[2] \in DOMAIN h[p[1]],
         NEW k \in Kinds, NEW x, Owned(h, p, x)
  PROVE  Shows(h, ForceAs(h, p, k), p, x, Contain(k, View(h)[p[1]][p[2]]))
<1> DEFINE m == IF At(h, p).type = k THEN h ELSE Make(h, p, k, Empty)
           w == View(h)[p[1]][p[2]]
<1>1. ForceAs(h, p, k) = As(m, p, k)
  BY DEF ForceAs
<1>2. p[1] \in DOMAIN h /\ w = See(At(h, p), View(h)) /\ w.type = At(h, p).type
  BY SeenAt, SeeFacts DEF Anchored
<1>3. CASE At(h, p).type # k
  <2>1. m = Make(h, p, k, Empty)
    BY <1>3
  <2> DEFINE e == [type |-> k, items |-> Empty]
  <2>2. Contain(k, w) = e /\ Contain(k, e) = e
    BY <1>2, <1>3 DEF Contain
  <2>3. Edits(h, m, p) /\ At(m, p).type = k /\ Shows(h, m, p, x, e)
    BY <2>1, EmptyItems, MakeEdits, MakeEmptyShows DEF Ready
  <2>4. Good(m) /\ Anchored(m, p[1]) /\ p[2] \in DOMAIN m[p[1]] /\ Owned(m, p, x)
    BY <2>3, EditedPlace DEF Shows
  <2> HIDE DEF m, e
  <2>5. View(m)[p[1]][p[2]] = e
    BY <2>3, ShownAt
  <2>6. Shows(m, As(m, p, k), p, x, Contain(k, View(m)[p[1]][p[2]]))
    BY <2>3, <2>4, AsShows DEF Accepts
  <2>7. Shows(h, As(m, p, k), p, x, e)
    BY <2>2, <2>3, <2>5, <2>6, ShowsTwice
  <2> QED
    BY <1>1, <2>2, <2>7
<1>4. CASE At(h, p).type = k
  BY <1>1, <1>4, AsShows DEF Accepts
<1> QED
  BY <1>3, <1>4

-------------------------------------------------------------------------------
(* What operations on variables show.                                      *)
LEMMA OwnVar ==
  ASSUME NEW h, NEW V, Over(h, V), NEW x, NEW y
  PROVE  Owned(h, Var(x), y)
BY VarFacts DEF Owned

LEMMA SeenVar ==
  ASSUME NEW h, NEW V, Over(h, V)
  PROVE  /\ View(h)[Stack] = [y \in V |-> View(h)[Stack][y]]
         /\ \A x \in V : View(h)[Stack][x] = See(At(h, Var(x)), View(h))
<1>1. SeesAll(View(h), h) /\ Stack \in DOMAIN h /\ DOMAIN h[Stack] = V
  BY ViewSees DEF Over, Good, Sound
<1>2. View(h)[Stack] = [s \in V |-> See(h[Stack][s], View(h))]
  BY <1>1 DEF SeesAll
<1> QED
  BY <1>2 DEF At, Var

LEMMA WithVar ==
  ASSUME NEW f, NEW V, f = [y \in V |-> f[y]], NEW x \in V, NEW w
  PROVE  With(f, x, w) = [f EXCEPT ![x] = w]
BY DEF With

LEMMA ShowsVar ==
  ASSUME NEW h, NEW g, NEW x, NEW y, NEW w, Shows(h, g, Var(x), y, w)
  PROVE  View(g)[Stack] = With(View(h)[Stack], x, w)
BY DEF Shows, Var

LEMMA PutVarShows ==
  ASSUME NEW h, NEW V, Over(h, V), NEW x, NEW v \in ValuesOver(DOMAIN h)
  PROVE  /\ Over(Put(h, Var(x), v), V \cup {x})
         /\ View(Put(h, Var(x), v))[Stack] = With(View(h)[Stack], x, See(v, View(h)))
<1> DEFINE p == Var(x)
<1>1. Over(Put(h, p, v), V \cup {x})
  BY PutVar
<1>2. Owned(h, p, x) /\ p[1] = Stack /\ Anchored(h, p[1])
  BY OwnVar, VarFacts
<1>3. Shows(h, Put(h, p, v), p, x, See(v, View(h)))
  <2> HIDE DEF p
  <2> QED
    BY <1>1, <1>2, PutShows DEF Over
<1> QED
  BY <1>1, <1>3, ShowsVar

(* A container that nothing else points to is written in place.            *)
LEMMA OwnInside ==
  ASSUME NEW h, NEW V, Over(h, V), NEW x \in V, NEW k \in Kinds, Ready(h, Var(x), k), NEW s
  PROVE  /\ Owned(h, Inside(h, Var(x), s), x)
         /\ Inside(h, Var(x), s)[1] \in DOMAIN h \ {Stack}
         /\ Inside(h, Var(x), s)[2] = s
         /\ Anchored(h, Inside(h, Var(x), s)[1])
         /\ h[Stack][x].type = k
         /\ View(h)[Stack][x] = [type |-> k, items |-> View(h)[Inside(h, Var(x), s)[1]]]
         /\ DOMAIN View(h)[Inside(h, Var(x), s)[1]] = DOMAIN h[Inside(h, Var(x), s)[1]]
<1> DEFINE v == At(h, Var(x))
           p == Inside(h, Var(x), s)
<1>1. v = h[Stack][x] /\ x \in DOMAIN h[Stack] /\ v \in ValuesOver(DOMAIN h)
  BY VarFacts DEF Over, At, Var
<1>2. v.type = k /\ v.to # NullPtr /\ IsContainer(v)
  BY DEF Ready, IsContainer
<1>3. p[1] = v.to /\ p[2] = s
  BY DEF Inside
<1> HIDE DEF v, p
<1>4. v.to \in DOMAIN h \ {Stack}
  BY <1>1, <1>2, ValueFacts
<1>5. PointsTo(h[Stack][x], p[1])
  BY <1>1, <1>2, <1>3 DEF PointsTo
<1>6. Owned(h, p, x) /\ Anchored(h, p[1])
  BY <1>1, <1>3, <1>4, <1>5 DEF Owned, Ready, Anchored
<1>7. View(h)[Stack][x] = See(v, View(h))
  BY SeenVar DEF v
<1>8. View(h)[Stack][x] = [type |-> k, items |-> View(h)[v.to]]
  BY <1>2, <1>7, SeeFacts
<1>9. DOMAIN View(h)[v.to] = DOMAIN h[v.to]
  <2>1. SeesAll(View(h), h)
    BY ViewSees DEF Over, Good
  <2> QED
    BY <1>4, <2>1 DEF SeesAll
<1> QED
  BY <1>1, <1>2, <1>3, <1>4, <1>6, <1>8, <1>9 DEF p

LEMMA InsideShows ==
  ASSUME NEW h, NEW V, Over(h, V), NEW x \in V, NEW k \in Kinds, Ready(h, Var(x), k), NEW s,
         NEW g, NEW w, Shows(h, g, Inside(h, Var(x), s), x, w)
  PROVE  View(g)[Stack]
           = With(View(h)[Stack], x, [type  |-> k,
                                      items |-> With(View(h)[Stack][x].items, s, w)])
<1> DEFINE p == Inside(h, Var(x), s)
<1>1. /\ p[1] # Stack /\ p[2] = s /\ h[Stack][x].type = k
      /\ View(h)[Stack][x] = [type |-> k, items |-> View(h)[p[1]]]
  BY OwnInside
<1>2. Shows(h, g, p, x, w)
  OBVIOUS
<1> HIDE DEF p
<1>3. /\ View(g)[p[1]] = With(View(h)[p[1]], s, w)
      /\ View(g)[Stack] = With(View(h)[Stack], x, [type |-> k, items |-> View(g)[p[1]]])
  BY <1>1, <1>2 DEF Shows
<1>4. View(h)[Stack][x].items = View(h)[p[1]]
  BY <1>1
<1> QED
  BY <1>3, <1>4

(* First made ready, then written: what a program sees of x.               *)
Written(seen0, x, k, s, w) ==
  With(seen0, x, [type |-> k, items |-> With(Contain(k, seen0[x]).items, s, w)])

LEMMA ReadyInsideShows ==
  ASSUME NEW h, NEW V, Over(h, V), NEW x \in V, NEW k \in Kinds,
         NEW m, Over(m, V), Ready(m, Var(x), k),
         Shows(h, m, Var(x), x, Contain(k, View(h)[Stack][x])),
         NEW s, NEW g, NEW w, Shows(m, g, Inside(m, Var(x), s), x, w)
  PROVE  View(g)[Stack] = Written(View(h)[Stack], x, k, s, w)
<1> DEFINE c == Contain(k, View(h)[Stack][x])
           z == [type |-> k, items |-> With(c.items, s, w)]
<1>1. View(m)[Stack] = With(View(h)[Stack], x, c)
  BY ShowsVar
<1>2. View(m)[Stack][x] = c
  <2>1. With(View(h)[Stack], x, c)[x] = c
    BY DEF With
  <2> QED
    BY <1>1, <2>1
<1>3. View(g)[Stack]
        = With(View(m)[Stack], x, [type |-> k, items |-> With(View(m)[Stack][x].items, s, w)])
  BY InsideShows
<1>4. View(g)[Stack] = With(View(m)[Stack], x, z)
  BY <1>2, <1>3
<1> HIDE DEF c, z
<1>5. With(With(View(h)[Stack], x, c), x, z) = With(View(h)[Stack], x, z)
  BY WithTwice
<1>6. View(g)[Stack] = With(View(h)[Stack], x, z)
  BY <1>1, <1>4, <1>5
<1> QED
  BY <1>6 DEF Written, z, c

(* asArray, asObject, pushBack and operator[] on a variable.               *)
LEMMA AsVarShows ==
  ASSUME NEW h, NEW V, Over(h, V), NEW x \in V, NEW k \in Kinds
  PROVE  /\ Accepts(h, Var(x), k) =>
              /\ Over(As(h, Var(x), k), V)
              /\ Ready(As(h, Var(x), k), Var(x), k)
              /\ Shows(h, As(h, Var(x), k), Var(x), x, Contain(k, View(h)[Stack][x]))
         /\ Over(ForceAs(h, Var(x), k), V)
         /\ Ready(ForceAs(h, Var(x), k), Var(x), k)
         /\ Shows(h, ForceAs(h, Var(x), k), Var(x), x, Contain(k, View(h)[Stack][x]))
<1> DEFINE p == Var(x)
<1>1. p[1] = Stack /\ p[2] = x /\ Anchored(h, p[1]) /\ Owned(h, p, x)
  BY VarFacts, OwnVar
<1>2. Good(h) /\ DOMAIN h[Stack] = V
  BY DEF Over
<1>3. /\ Accepts(h, p, k) => Edits(h, As(h, p, k), p) /\ Ready(As(h, p, k), p, k)
      /\ Edits(h, ForceAs(h, p, k), p) /\ Ready(ForceAs(h, p, k), p, k)
  BY AsVar
<1> HIDE DEF p
<1>4. Accepts(h, p, k) => Shows(h, As(h, p, k), p, x, Contain(k, View(h)[p[1]][p[2]]))
  BY <1>1, <1>2, AsShows
<1>5. Shows(h, ForceAs(h, p, k), p, x, Contain(k, View(h)[p[1]][p[2]]))
  BY <1>1, <1>2, ForceAsShows
<1>6. \A g : Edits(h, g, p) => Over(g, V)
  BY <1>1, <1>2 DEF Edits, Over
<1>7. /\ Accepts(h, p, k) => Shows(h, As(h, p, k), p, x, Contain(k, View(h)[Stack][x]))
      /\ Shows(h, ForceAs(h, p, k), p, x, Contain(k, View(h)[Stack][x]))
  BY <1>1, <1>4, <1>5
<1> QED
  BY <1>3, <1>6, <1>7 DEF p

LEMMA PutInsideShows ==
  ASSUME NEW h, NEW V, Over(h, V), NEW x \in V, NEW k \in Kinds, Ready(h, Var(x), k), NEW s,
         NEW v \in ValuesOver(DOMAIN h), ~PointsTo(v, At(h, Var(x)).to),
         ~IsContainer(v) \/ Good(Put(h, Inside(h, Var(x), s), v))
  PROVE  LET p == Inside(h, Var(x), s)
         IN  Over(Put(h, p, v), V) /\ Shows(h, Put(h, p, v), p, x, See(v, View(h)))
<1> DEFINE p == Inside(h, Var(x), s)
<1>1. p[1] \in DOMAIN h \ {Stack} /\ Anchored(h, p[1]) /\ Owned(h, p, x)
  BY OwnInside
<1>2. Good(h) /\ ~PointsTo(v, p[1])
  BY DEF Over, Inside
<1>3. ~IsContainer(v) \/ Good(Put(h, p, v))
  OBVIOUS
<1> HIDE DEF p
<1>4. Good(Put(h, p, v))
  BY <1>1, <1>2, <1>3, PutSimpleGood
<1>5. Over(Put(h, p, v), V)
  BY <1>1, <1>3, PutInside
<1>6. Shows(h, Put(h, p, v), p, x, See(v, View(h)))
  BY <1>1, <1>2, <1>4, PutShows
<1> QED
  BY <1>5, <1>6 DEF p

(* One level further down: a scalar is written into a container that only  *)
(* place p leads to, where p is in a container that only x leads to.       *)
LEMMA PutDeepShows ==
  ASSUME NEW h, Good(h), NEW p, p[1] \in DOMAIN h \ {Stack}, p[2] \in DOMAIN h[p[1]],
         NEW x, Owned(h, p, x), NEW k \in Kinds, Ready(h, p, k), NEW t,
         NEW v \in ValuesOver(DOMAIN h), ~IsContainer(v)
  PROVE  Shows(h, Put(h, Inside(h, p, t), v), p, x,
               [type |-> k, items |-> With(View(h)[p[1]][p[2]].items, t, v)])
<1> DEFINE q  == Inside(h, p, t)
           X  == p[1]
           Y  == q[1]
           g  == Put(h, q, v)
           UP == {Stack, X, Y}
<1>1. Sound(h) /\ Y = At(h, p).to /\ q[2] = t
  BY DEF Good, Inside
<1>2. At(h, p) \in ValuesOver(DOMAIN h) /\ IsContainer(At(h, p)) /\ At(h, p).to # NullPtr
  BY <1>1, AtFacts DEF Ready, IsContainer
<1>3. PointsTo(h[X][p[2]], Y) /\ Y \in DOMAIN h \ {Stack}
  BY <1>1, <1>2, ValueFacts DEF PointsTo, At
<1>4. x \in DOMAIN h[Stack] /\ PointsTo(h[Stack][x], X)
  BY DEF Owned
<1>5. \A b \in DOMAIN h : \A s \in DOMAIN h[b] : PointsTo(h[b][s], X) => b = Stack /\ s = x
  BY OwnedFacts
<1>6. \A b \in DOMAIN h : \A s \in DOMAIN h[b] : PointsTo(h[b][s], Y) => b = X /\ s = p[2]
  BY <1>1 DEF Ready, Only
<1>7. X # Y
  BY <1>3, NoSelf DEF Leads
<1>8. \A b \in DOMAIN h : ~Leads(h, b, Stack)
  BY <1>1, LeadsInto DEF Stack, NullPtr
<1>9. Closed(h, UP)
  BY <1>5, <1>6, <1>8 DEF Closed, Leads
<1> HIDE DEF q, g
<1>10. Good(g)
  BY <1>3, PutSimpleGood DEF g
<1>11. /\ DOMAIN g \subseteq DOMAIN h
       /\ \A b \in DOMAIN g : b # Y => g[b] = h[b]
       /\ Y \in DOMAIN g =>
            /\ DOMAIN g[Y] = DOMAIN h[Y] \cup {t}
            /\ g[Y][t] = v
            /\ \A s \in DOMAIN h[Y] : s # t => g[Y][s] = h[Y][s]
  BY <1>1, <1>3, PutSound DEF g, At
<1>12. Stack \in DOMAIN g /\ g[Stack] = h[Stack] /\ Stack \in DOMAIN h
  BY <1>1, <1>3, <1>10, <1>11 DEF Good, Sound
<1>13. X \in DOMAIN g
  <2>1. X # NullPtr /\ IsContainer(g[Stack][x]) /\ g[Stack][x].to = X
    BY <1>1, <1>4, <1>12 DEF Sound, NullPtr, PointsTo
  <2> QED
    BY <1>4, <1>10, <1>12, <2>1, SlotLeads DEF Good
<1>14. g[X] = h[X]
  BY <1>7, <1>11, <1>13
<1>15. Y \in DOMAIN g
  <2>1. Y # NullPtr /\ IsContainer(g[X][p[2]]) /\ g[X][p[2]].to = Y
    BY <1>1, <1>2, <1>3, <1>14 DEF PointsTo
  <2> QED
    BY <1>10, <1>13, <1>14, <2>1, SlotLeads DEF Good
<1>16. Alters(h, g, q)
  BY <1>1, <1>3, <1>10, <1>11, <1>15 DEF Alters
<1>17. SeesAll(View(h), h) /\ SeesAll(View(g), g)
  BY <1>10, ViewSees DEF Good
<1>18. ASSUME NEW b \in {Stack, X, Y}, NEW s \in DOMAIN h[b], s \in DOMAIN g[b], g[b][s] = h[b][s],
              \A c \in UP : ~PointsTo(h[b][s], c)
       PROVE  View(g)[b][s] = View(h)[b][s]
  <2>1. b \in DOMAIN h /\ b \in DOMAIN g
    BY <1>3, <1>12, <1>13, <1>15
  <2>2. h[b][s] \in ValuesOver(DOMAIN h)
    BY <1>1, <2>1 DEF Sound, ItemsOver
  <2>3. IsContainer(h[b][s]) /\ h[b][s].to # NullPtr => h[b][s].to \in DOMAIN g
    BY <1>10, <1>18, <2>1, SlotLeads DEF Good
  <2>4. q[1] \in UP
    OBVIOUS
  <2> HIDE DEF UP, X, Y
  <2>5. See(h[b][s], View(g)) = See(h[b][s], View(h))
    BY <1>9, <1>16, <1>18, <2>2, <2>3, <2>4, SeeOutside
  <2>6. View(g)[b][s] = See(g[b][s], View(g)) /\ View(h)[b][s] = See(h[b][s], View(h))
    BY <1>17, <1>18, <2>1 DEF SeesAll
  <2> QED
    BY <1>18, <2>5, <2>6
<1>19. View(g)[Y] = With(View(h)[Y], t, v)
  <2>1. ASSUME NEW s \in DOMAIN h[Y], s # t
        PROVE  View(g)[Y][s] = View(h)[Y][s]
    <3>1. s \in DOMAIN g[Y] /\ g[Y][s] = h[Y][s]
      BY <1>11, <1>15, <2>1
    <3>2. ~PointsTo(h[Y][s], Stack) /\ ~PointsTo(h[Y][s], X) /\ ~PointsTo(h[Y][s], Y)
      BY <1>3, <1>5, <1>6, <1>7, <1>8 DEF Leads
    <3> QED
      BY <1>18, <3>1, <3>2
  <2>2. View(g)[Y] = [s \in DOMAIN g[Y] |-> View(g)[Y][s]] /\ DOMAIN View(h)[Y] = DOMAIN h[Y]
    BY <1>3, <1>15, <1>17 DEF SeesAll
  <2>3. View(g)[Y][t] = v
    <3>1. View(g)[Y][t] = See(g[Y][t], View(g))
      BY <1>11, <1>15, <1>17 DEF SeesAll
    <3> QED
      BY <1>11, <1>15, <3>1, SeeFacts
  <2>4. DOMAIN g[Y] = DOMAIN h[Y] \cup {t}
    BY <1>11, <1>15
  <2> QED
    BY <2>1, <2>2, <2>3, <2>4 DEF With
<1> DEFINE z == [type |-> k, items |-> View(g)[Y]]
<1>20. View(g)[X] = With(View(h)[X], p[2], z)
  <2>1. ASSUME NEW s \in DOMAIN h[X], s # p[2]
        PROVE  View(g)[X][s] = View(h)[X][s]
    <3>1. ~PointsTo(h[X][s], Stack) /\ ~PointsTo(h[X][s], X) /\ ~PointsTo(h[X][s], Y)
      BY <1>5, <1>6, <1>8, <2>1 DEF Leads
    <3> QED
      BY <1>14, <1>18, <3>1
  <2>2. View(g)[X] = [s \in DOMAIN h[X] |-> View(g)[X][s]] /\ DOMAIN View(h)[X] = DOMAIN h[X]
    BY <1>13, <1>14, <1>17 DEF SeesAll
  <2>3. View(g)[X][p[2]] = z
    <3>1. View(g)[X][p[2]] = See(At(h, p), View(g))
      BY <1>13, <1>14, <1>17 DEF SeesAll, At
    <3>2. At(h, p).type = k /\ At(h, p).to = Y
      BY <1>1 DEF Ready
    <3> QED
      BY <1>1, <1>2, <3>1, <3>2, SeeFacts
  <2> HIDE DEF z
  <2> QED
    BY <2>1, <2>2, <2>3 DEF With
<1> DEFINE u == [type |-> h[Stack][x].type, items |-> View(g)[X]]
<1>21. View(g)[Stack] = With(View(h)[Stack], x, u)
  <2>1. ASSUME NEW y \in DOMAIN h[Stack], y # x
        PROVE  View(g)[Stack][y] = View(h)[Stack][y]
    <3>1. ~PointsTo(h[Stack][y], Stack) /\ ~PointsTo(h[Stack][y], X) /\ ~PointsTo(h[Stack][y], Y)
      BY <1>5, <1>6, <1>8, <1>12, <2>1 DEF Leads
    <3> QED
      BY <1>12, <1>18, <3>1
  <2>2. /\ View(g)[Stack] = [y \in DOMAIN h[Stack] |-> View(g)[Stack][y]]
        /\ DOMAIN View(h)[Stack] = DOMAIN h[Stack]
    BY <1>12, <1>17 DEF SeesAll
  <2>3. View(g)[Stack][x] = u
    <3>1. View(g)[Stack][x] = See(h[Stack][x], View(g))
      BY <1>4, <1>12, <1>17 DEF SeesAll
    <3>2. IsContainer(h[Stack][x]) /\ h[Stack][x].to = X /\ X # NullPtr
      BY <1>1, <1>4 DEF PointsTo, Sound, NullPtr
    <3> QED
      BY <3>1, <3>2, SeeFacts
  <2> HIDE DEF u
  <2> QED
    BY <1>4, <2>1, <2>2, <2>3 DEF With
<1>22. Owned(g, p, x)
  <2>1. ASSUME NEW b \in DOMAIN g, NEW s \in DOMAIN g[b], PointsTo(g[b][s], X)
        PROVE  b = Stack /\ s = x
    <3>1. b \in DOMAIN h
      BY <1>11
    <3>2. ~(b = Y /\ s = t)
      BY <1>11, <2>1 DEF PointsTo
    <3>3. s \in DOMAIN h[b] /\ g[b][s] = h[b][s]
      BY <1>11, <3>2
    <3> QED
      BY <1>5, <2>1, <3>1, <3>3
  <2>2. x \in DOMAIN g[Stack] /\ PointsTo(g[Stack][x], X)
    BY <1>4, <1>12
  <2>3. At(g, Var(x)).to = X
    BY <2>2 DEF At, Var, PointsTo
  <2> QED
    BY <2>1, <2>2, <2>3 DEF Owned, Only, Var
<1>23. View(h)[X][p[2]].items = View(h)[Y]
  <2>1. View(h)[X][p[2]] = See(At(h, p), View(h))
    BY SeenAt
  <2> QED
    BY <1>1, <1>2, <2>1, SeeFacts
<1> HIDE DEF u, z, Y
<1>24. Shows(h, g, p, x, z)
  BY <1>12, <1>20, <1>21, <1>22 DEF Shows, u
<1>25. z = [type |-> k, items |-> With(View(h)[X][p[2]].items, t, v)]
  BY <1>19, <1>23 DEF z
<1> QED
  BY <1>24, <1>25 DEF g, q

(* When pushBack returns, its parameter goes.                              *)
LEMMA ReturnSees ==
  ASSUME NEW h, NEW V, Over(h, V), NEW W, W \subseteq V
  PROVE  View(Release([h EXCEPT ![Stack] = Restrict(@, W)]))[Stack]
           = [y \in W |-> View(h)[Stack][y]]
<1> DEFINE m == [h EXCEPT ![Stack] = Restrict(@, W)]
           g == Release(m)
<1>1. Sound(h) /\ Stack \in DOMAIN h /\ W \subseteq DOMAIN h[Stack] /\ DOMAIN h \subseteq Nat
  BY DEF Over, Good, Sound
<1>2. /\ DOMAIN m = DOMAIN h
      /\ m = [b \in DOMAIN m |-> m[b]]
      /\ m[Stack] = Restrict(h[Stack], W)
      /\ \A b \in DOMAIN h : b # Stack => m[b] = h[b]
  BY <1>1 DEF Sound
<1>3. DOMAIN m[Stack] = W /\ \A s \in W : m[Stack][s] = h[Stack][s]
  BY <1>2 DEF Restrict
<1>4. ItemsOver(m[Stack], DOMAIN h)
  <2>1. IsFiniteSet(W)
    BY <1>1, FS_Subset DEF Sound, ItemsOver
  <2> QED
    BY <1>1, <1>2, <1>3, <2>1 DEF Sound, ItemsOver, Restrict
<1>5. Over(g, W)
  BY ReturnOver
<1> HIDE DEF m, g
<1>6. Sound(m)
  BY <1>1, <1>2, <1>4 DEF Sound
<1>7. Kept(m, g)
  BY <1>6, ReleaseSound DEF g
<1>8. SeesAll(View(h), h) /\ SeesAll(View(g), g) /\ Sound(g) /\ Acyclic(g) /\ Stack \in DOMAIN g
  BY <1>5, ViewSees DEF Over, Good, Sound
<1> DEFINE U == DOMAIN g \ {Stack}
<1>9. \A b \in U : View(h)[b] = View(g)[b]
  <2>1. U \subseteq DOMAIN h \cap DOMAIN g /\ \A b \in U : h[b] = g[b]
    BY <1>2, <1>7 DEF Kept
  <2>2. \A b \in U, c \in DOMAIN g : Leads(g, b, c) => c \in U
    BY <1>8, LeadsInto DEF Sound, NullPtr
  <2> HIDE DEF U
  <2> QED
    BY <1>8, <2>1, <2>2, Agree
<1>10. ASSUME NEW s \in W
       PROVE  View(g)[Stack][s] = View(h)[Stack][s]
  <2>1. s \in DOMAIN g[Stack] /\ s \in DOMAIN h[Stack] /\ g[Stack][s] = h[Stack][s]
    BY <1>1, <1>3, <1>7, <1>8 DEF Kept
  <2>2. IsContainer(g[Stack][s]) /\ g[Stack][s].to # NullPtr => g[Stack][s].to \in U
    BY <1>8, <2>1, SlotLeads
  <2>3. See(g[Stack][s], View(g)) = See(g[Stack][s], View(h))
    BY <1>9, <2>2, SeeSame
  <2>4. View(g)[Stack][s] = See(g[Stack][s], View(g)) /\ View(h)[Stack][s] = See(h[Stack][s], View(h))
    BY <1>1, <1>8, <2>1 DEF SeesAll
  <2> QED
    BY <2>1, <2>3, <2>4
<1>11. View(g)[Stack] = [y \in W |-> View(g)[Stack][y]]
  BY <1>5, SeenVar
<1>12. View(g)[Stack] = [y \in W |-> View(h)[Stack][y]]
  BY <1>10, <1>11
<1> QED
  BY <1>12 DEF g, m

-------------------------------------------------------------------------------
(* The invariant that relates the two: seen is what the heap shows, and    *)
(* while the program holds a reference no other Value shares its block.    *)
ViewInv ==
  /\ seen = View(heap)[Stack]
  /\ held # NoVar => Only(heap, Var(held))

LEMMA ViewInvInitially == Init => ViewInv
<1> SUFFICES ASSUME Init
             PROVE  ViewInv
  OBVIOUS
<1>1. Over(heap, Vars)
  BY HeapInvInitially DEF HeapInv
<1>2. View(heap)[Stack] = [y \in Vars |-> View(heap)[Stack][y]]
  BY <1>1, SeenVar
<1>3. ASSUME NEW y \in Vars
      PROVE  View(heap)[Stack][y] = Null
  <2>1. View(heap)[Stack][y] = See(At(heap, Var(y)), View(heap))
    BY <1>1, SeenVar
  <2>2. At(heap, Var(y)) = Null
    BY DEF Init, At, Var
  <2> QED
    BY <2>1, <2>2, ValueFacts, SeeFacts
<1> QED
  BY <1>2, <1>3 DEF ViewInv, Init

(* What is seen of the variables.                                          *)
LEMMA SeenFacts ==
  ASSUME HeapInv, ViewInv
  PROVE  /\ Over(heap, Vars)
         /\ seen = [y \in Vars |-> seen[y]]
         /\ \A x \in Vars : /\ seen[x] = See(At(heap, Var(x)), View(heap))
                            /\ seen[x].type = At(heap, Var(x)).type
<1>1. Over(heap, Vars) /\ seen = View(heap)[Stack]
  BY DEF HeapInv, ViewInv
<1>2. View(heap)[Stack] = [y \in Vars |-> View(heap)[Stack][y]]
  BY <1>1, SeenVar
<1>3. \A x \in Vars : View(heap)[Stack][x] = See(At(heap, Var(x)), View(heap))
  BY <1>1, SeenVar
<1>4. \A x \in Vars : See(At(heap, Var(x)), View(heap)).type = At(heap, Var(x)).type
  BY SeeFacts
<1> QED
  BY <1>1, <1>2, <1>3, <1>4

LEMMA BecomesShows ==
  ASSUME NEW h, Over(h, Vars), Becomes(h)
  PROVE  ViewInv' /\ seen' = View(h)[Stack] /\ held' = NoVar
<1>1. DOMAIN h \subseteq Blocks \cup {Stack} /\ heap' = h /\ seen' = Contents(h) /\ held' = NoVar
  BY DEF Becomes
<1>2. Contents(h) = View(h)[Stack]
  BY <1>1, ContentsIsView DEF Over
<1> QED
  BY <1>1, <1>2 DEF ViewInv

(* A Value is assigned to a variable.                                      *)
LEMMA PutBecomes ==
  ASSUME HeapInv, ViewInv, NEW x \in Vars, NEW v \in ValuesOver(DOMAIN heap),
         Becomes(Put(heap, Var(x), v))
  PROVE  ViewInv' /\ Semantics!Set(x, See(v, View(heap)))
<1> DEFINE g == Put(heap, Var(x), v)
<1>1. Over(g, Vars \cup {x}) /\ View(g)[Stack] = With(seen, x, See(v, View(heap)))
  BY SeenFacts, PutVarShows DEF ViewInv
<1>2. Over(g, Vars) /\ Becomes(g)
  <2>1. Vars \cup {x} = Vars
    OBVIOUS
  <2> QED
    BY <1>1, <2>1
<1> HIDE DEF g
<1>3. ViewInv' /\ seen' = View(g)[Stack] /\ held' = NoVar
  BY <1>2, BecomesShows
<1>4. With(seen, x, See(v, View(heap))) = [seen EXCEPT ![x] = See(v, View(heap))]
  BY SeenFacts, WithVar
<1> QED
  BY <1>1, <1>3, <1>4 DEF Semantics!Set

(* The items of a container are seen in it.                                *)
LEMMA SeenItems ==
  ASSUME HeapInv, ViewInv, NEW x \in Vars, IsContainer(At(heap, Var(x)))
  PROVE  /\ seen[x] = [type |-> At(heap, Var(x)).type, items |-> seen[x].items]
         /\ DOMAIN seen[x].items = DOMAIN ItemsOf(heap, At(heap, Var(x)))
         /\ \A s \in DOMAIN seen[x].items :
              seen[x].items[s] = See(ItemsOf(heap, At(heap, Var(x)))[s], View(heap))
         /\ seen[x].items = IF At(heap, Var(x)).to = NullPtr THEN Empty
                            ELSE View(heap)[At(heap, Var(x)).to]
         /\ At(heap, Var(x)).to # NullPtr => At(heap, Var(x)).to \in DOMAIN heap \ {Stack}
<1> DEFINE v == At(heap, Var(x))
<1>1. seen[x] = See(v, View(heap)) /\ v \in ValuesOver(DOMAIN heap) /\ IsContainer(v)
  BY SeenFacts, VarValue
<1> HIDE DEF v
<1>2. seen[x] = [type |-> v.type, items |-> IF v.to = NullPtr THEN Empty ELSE View(heap)[v.to]]
  BY <1>1, SeeFacts
<1>3. v.to # NullPtr => v.to \in DOMAIN heap \ {Stack}
  BY <1>1, ValueFacts
<1>4. SeesAll(View(heap), heap)
  BY SeenFacts, ViewSees DEF Over, Good
<1>5. v.to # NullPtr => /\ DOMAIN View(heap)[v.to] = DOMAIN heap[v.to]
                        /\ \A s \in DOMAIN heap[v.to] :
                             View(heap)[v.to][s] = See(heap[v.to][s], View(heap))
  BY <1>3, <1>4 DEF SeesAll
<1>6. CASE v.to = NullPtr
  <2>1. seen[x] = [type |-> v.type, items |-> Empty] /\ ItemsOf(heap, v) = Empty
    BY <1>2, <1>6 DEF ItemsOf
  <2>2. DOMAIN Empty = {}
    BY DEF Empty
  <2> QED
    BY <1>6, <2>1, <2>2 DEF v
<1>7. CASE v.to # NullPtr
  <2>1. /\ seen[x] = [type |-> v.type, items |-> View(heap)[v.to]]
        /\ ItemsOf(heap, v) = heap[v.to]
    BY <1>2, <1>7 DEF ItemsOf
  <2> QED
    BY <1>3, <1>5, <1>7, <2>1 DEF v
<1> QED
  BY <1>6, <1>7

LEMMA AssignmentsImplement ==
  ASSUME HeapInv, ViewInv, NEW x \in Vars, NEW y \in Vars
  PROVE  /\ Copy(x, y) => ViewInv' /\ Semantics!Copy(x, y)
         /\ SetNull(x) => ViewInv' /\ Semantics!SetNull(x)
         /\ \A n \in Numbers : SetNumber(x, n) => ViewInv' /\ Semantics!SetNumber(x, n)
         /\ \A k \in Kinds, s \in Slots :
              TakeOut(x, k, s, y) => ViewInv' /\ Semantics!TakeOut(x, k, s, y)
<1>1. ASSUME Copy(x, y)
      PROVE  ViewInv' /\ Semantics!Copy(x, y)
  <2>1. ViewInv' /\ Semantics!Set(y, See(At(heap, Var(x)), View(heap)))
    BY <1>1, VarValue, PutBecomes DEF Copy
  <2> QED
    BY <2>1, SeenFacts DEF Semantics!Copy
<1>2. ASSUME SetNull(x)
      PROVE  ViewInv' /\ Semantics!SetNull(x)
  <2>1. ViewInv' /\ Semantics!Set(x, See(Null, View(heap)))
    BY <1>2, ValueFacts, PutBecomes DEF SetNull
  <2>2. See(Null, View(heap)) = Null /\ Null = Semantics!Null
    BY ValueFacts, SeeFacts DEF Null, Semantics!Null
  <2> QED
    BY <2>1, <2>2 DEF Semantics!SetNull
<1>3. ASSUME NEW n \in Numbers, SetNumber(x, n)
      PROVE  ViewInv' /\ Semantics!SetNumber(x, n)
  <2>1. ViewInv' /\ Semantics!Set(x, See(Number(n), View(heap)))
    BY <1>3, ValueFacts, PutBecomes DEF SetNumber
  <2>2. See(Number(n), View(heap)) = Number(n) /\ Number(n) = Semantics!Number(n)
    BY ValueFacts, SeeFacts DEF Number, Semantics!Number
  <2> QED
    BY <2>1, <2>2 DEF Semantics!SetNumber
<1>4. ASSUME NEW k \in Kinds, NEW s \in Slots, TakeOut(x, k, s, y)
      PROVE  ViewInv' /\ Semantics!TakeOut(x, k, s, y)
  <2> DEFINE v == At(heap, Var(x))
             items == ItemsOf(heap, v)
  <2>1. /\ v.type = k /\ IsContainer(v) /\ s \in DOMAIN items
        /\ Becomes(Put(heap, Var(y), items[s]))
    BY <1>4 DEF TakeOut, IsContainer
  <2>2. items[s] \in ValuesOver(DOMAIN heap)
    BY <2>1, SeenFacts, VarValue, ItemsOfOver DEF Over, Good, ItemsOver
  <2>3. ViewInv' /\ Semantics!Set(y, See(items[s], View(heap)))
    BY <2>1, <2>2, PutBecomes
  <2>4. /\ s \in DOMAIN seen[x].items
        /\ seen[x].items[s] = See(items[s], View(heap))
        /\ seen[x].type = k
    BY <2>1, SeenItems, SeenFacts
  <2> QED
    BY <2>3, <2>4 DEF Semantics!TakeOut
<1> QED
  BY <1>1, <1>2, <1>3, <1>4

LEMMA MoveImplements ==
  ASSUME HeapInv, ViewInv, NEW x \in Vars, NEW y \in Vars, Move(x, y)
  PROVE  ViewInv' /\ Semantics!Move(x, y)
<1> DEFINE v == At(heap, Var(x))
           h == Put(heap, Var(y), v)
           e == Pointer(v.type, NullPtr)
           g == IF IsContainer(v) THEN Put(h, Var(x), e) ELSE h
<1>1. x # y /\ Becomes(g) /\ v \in ValuesOver(DOMAIN heap)
  BY VarValue DEF Move
<1>2. Over(h, Vars \cup {y}) /\ View(h)[Stack] = With(seen, y, seen[x])
  <2>1. Over(heap, Vars) /\ seen = View(heap)[Stack] /\ seen[x] = See(v, View(heap))
    BY SeenFacts DEF ViewInv
  <2> HIDE DEF v
  <2>2. /\ Over(h, Vars \cup {y})
        /\ View(h)[Stack] = With(View(heap)[Stack], y, See(v, View(heap)))
    BY <1>1, <2>1, PutVarShows
  <2> QED
    BY <2>1, <2>2
<1>3. /\ seen = [z \in Vars |-> seen[z]]
      /\ seen[x].type = v.type
      /\ Vars \cup {y} = Vars /\ Vars \cup {x} = Vars
  BY SeenFacts
<1> HIDE DEF v, h
<1>4. CASE IsContainer(v)
  <2>1. e \in ValuesOver(DOMAIN h) /\ g = Put(h, Var(x), e)
    BY <1>4, ValueFacts DEF IsContainer
  <2>2. Over(g, Vars) /\ View(g)[Stack] = With(View(h)[Stack], x, See(e, View(h)))
    BY <1>2, <1>3, <2>1, PutVarShows
  <2>3. See(e, View(h)) = [type |-> v.type, items |-> Empty]
    BY <1>4 DEF See, Pointer, IsContainer
  <2> HIDE DEF g, e
  <2>4. ViewInv' /\ seen' = View(g)[Stack] /\ held' = NoVar
    BY <1>1, <2>2, BecomesShows
  <2>5. seen' = With(With(seen, y, seen[x]), x, Semantics!ContainerOf(v.type, Semantics!Empty))
    BY <1>2, <2>2, <2>3, <2>4 DEF Semantics!ContainerOf, Semantics!Empty, Empty, Null, Semantics!Null
  <2> DEFINE c == Semantics!ContainerOf(v.type, Semantics!Empty)
  <2>6. seen' = With(With(seen, y, seen[x]), x, c)
    BY <2>5
  <2>7. seen' = [seen EXCEPT ![y] = seen[x],
                             ![x] = IF @.type \in Kinds
                                      THEN Semantics!ContainerOf(@.type, Semantics!Empty) ELSE @]
    <3>1. v.type \in Kinds
      BY <1>4 DEF IsContainer
    <3>2. c = IF seen[x].type \in Kinds
                THEN Semantics!ContainerOf(seen[x].type, Semantics!Empty) ELSE seen[x]
      BY <1>3, <3>1
    <3>3. With(With(seen, y, seen[x]), x, c) = [seen EXCEPT ![y] = seen[x], ![x] = c]
      <4> HIDE DEF c
      <4> QED
        BY <1>3 DEF With
    <3>4. [seen EXCEPT ![y] = seen[x], ![x] = c]
            = [seen EXCEPT ![y] = seen[x],
                           ![x] = IF @.type \in Kinds
                                    THEN Semantics!ContainerOf(@.type, Semantics!Empty) ELSE @]
      <4> HIDE DEF c
      <4> QED
        BY <1>1, <1>3, <3>2
    <3> QED
      BY <2>6, <3>3, <3>4
  <2> QED
    BY <1>1, <2>4, <2>7 DEF Semantics!Move
<1>5. CASE ~IsContainer(v)
  <2>1. g = h
    BY <1>5
  <2>2. ViewInv' /\ seen' = With(seen, y, seen[x]) /\ held' = NoVar
    BY <1>1, <1>2, <1>3, <2>1, BecomesShows
  <2>3. seen' = [seen EXCEPT ![y] = seen[x]] /\ seen[x].type \notin Kinds
    BY <1>3, <1>5, <2>2, WithVar DEF IsContainer
  <2>4. seen' = [seen EXCEPT ![y] = seen[x],
                             ![x] = IF @.type \in Kinds
                                      THEN Semantics!ContainerOf(@.type, Semantics!Empty) ELSE @]
    BY <1>1, <1>3, <2>3
  <2> QED
    BY <1>1, <2>2, <2>4 DEF Semantics!Move
<1> QED
  BY <1>4, <1>5

LEMMA SetFromImplements ==
  ASSUME HeapInv, ViewInv, NEW x \in Vars, NEW y \in Vars, NEW k \in Kinds, SetFrom(x, k, y)
  PROVE  ViewInv' /\ Semantics!SetFrom(x, k, y)
<1> DEFINE v == At(heap, Var(y))
           p == Var(x)
           g == Make(heap, p, k, ItemsOf(heap, v))
<1>1. v.type = k /\ IsContainer(v) /\ Becomes(g) /\ seen[y].type = k
  BY SeenFacts DEF SetFrom, IsContainer
<1>2. /\ Over(heap, Vars) /\ Good(heap) /\ p[1] = Stack /\ p[2] = x
      /\ Anchored(heap, p[1]) /\ Owned(heap, p, x)
  BY SeenFacts, VarFacts, OwnVar DEF Over
<1>3. /\ seen[y] = [type |-> k, items |-> seen[y].items]
      /\ seen[y].items = IF v.to = NullPtr THEN Empty ELSE View(heap)[v.to]
      /\ v.to # NullPtr => v.to \in DOMAIN heap \ {Stack}
  BY <1>1, SeenItems
<1> HIDE DEF v, p
<1>4. Edits(heap, g, p) /\ Shows(heap, g, p, x, seen[y])
  <2>1. CASE v.to = NullPtr
    <3>1. g = Make(heap, p, k, Empty) /\ seen[y] = [type |-> k, items |-> Empty]
      BY <1>3, <2>1 DEF ItemsOf
    <3> QED
      BY <1>2, <3>1, EmptyItems, MakeEdits, MakeEmptyShows
  <2>2. CASE v.to # NullPtr
    <3>1. g = Make(heap, p, k, heap[v.to]) /\ seen[y] = [type |-> k, items |-> View(heap)[v.to]]
      BY <1>3, <2>2 DEF ItemsOf
    <3>2. v.to \in DOMAIN heap \ {Stack} /\ ItemsOver(heap[v.to], DOMAIN heap)
      BY <1>2, <1>3, <2>2 DEF Good, Sound
    <3> HIDE DEF g
    <3> QED
      BY <1>2, <3>1, <3>2, MakeEdits, MakeCopyShows
  <2> QED
    BY <2>1, <2>2
<1> HIDE DEF g
<1>5. Over(g, Vars)
  BY <1>2, <1>4 DEF Edits, Over
<1>6. View(g)[Stack] = With(seen, x, seen[y])
  BY <1>4, ShowsVar DEF p, ViewInv
<1>7. ViewInv' /\ seen' = With(seen, x, seen[y]) /\ held' = NoVar
  BY <1>1, <1>5, <1>6, BecomesShows
<1>8. With(seen, x, seen[y]) = [seen EXCEPT ![x] = seen[y]]
  BY SeenFacts, WithVar
<1> QED
  BY <1>1, <1>7, <1>8 DEF Semantics!SetFrom, Semantics!Set

(* A Value is written into the container of a variable.                    *)
LEMMA ContainIs ==
  ASSUME NEW k, NEW v
  PROVE  Contain(k, v).items = Semantics!ItemsOf(v, k)
BY DEF Contain, Semantics!ItemsOf, Empty, Semantics!Empty, Null, Semantics!Null

LEMMA WrittenIs ==
  ASSUME NEW f, f = [y \in Vars |-> f[y]], NEW x \in Vars, NEW k, NEW s, NEW w
  PROVE  Written(f, x, k, s, w) = [f EXCEPT ![x] = Semantics!With(f[x], k, s, w)]
<1> DEFINE c == [type |-> k, items |-> With(Contain(k, f[x]).items, s, w)]
<1>1. c = Semantics!With(f[x], k, s, w)
  BY ContainIs DEF With, Semantics!With, Semantics!ContainerOf
<1>2. With(f, x, c) = [f EXCEPT ![x] = c]
  BY WithVar
<1> QED
  BY <1>1, <1>2 DEF Written

LEMMA BecomesWritten ==
  ASSUME HeapInv, ViewInv, NEW x \in Vars, NEW k, NEW s, NEW w,
         NEW g, Over(g, Vars), Becomes(g), View(g)[Stack] = Written(seen, x, k, s, w)
  PROVE  ViewInv' /\ Semantics!Set(x, Semantics!With(seen[x], k, s, w))
<1>1. ViewInv' /\ seen' = Written(seen, x, k, s, w) /\ held' = NoVar
  BY BecomesShows
<1>2. Written(seen, x, k, s, w) = [seen EXCEPT ![x] = Semantics!With(seen[x], k, s, w)]
  BY SeenFacts, WrittenIs
<1> QED
  BY <1>1, <1>2 DEF Semantics!Set

LEMMA PushBackImplements ==
  ASSUME HeapInv, ViewInv, NEW x \in Vars, NEW y \in Vars, PushBack(x, y)
  PROVE  ViewInv' /\ Semantics!PushBack(x, y)
<1> DEFINE called == Put(heap, Var(Temp), At(heap, Var(y)))
           ready  == ForceAs(called, Var(x), "Array")
           size   == Cardinality(DOMAIN ready[At(ready, Var(x)).to])
           p      == Inside(ready, Var(x), size + 1)
           v      == At(ready, Var(Temp))
           done   == Put(ready, p, v)
           g      == Release([done EXCEPT ![Stack] = Restrict(@, Vars)])
           All    == Vars \cup {Temp}
           c      == Contain("Array", seen[x])
<1>1. "Array" \in Kinds /\ size < MaxSlots /\ Becomes(g)
  BY DEF PushBack
<1>2. Temp # x /\ x \in All /\ Temp \in All
  BY CowAssumption
<1>3. Over(called, All) /\ View(called)[Stack] = With(seen, Temp, seen[y])
  <2>1. Over(heap, Vars) /\ seen = View(heap)[Stack] /\ seen[y] = See(At(heap, Var(y)), View(heap))
    BY SeenFacts DEF ViewInv
  <2>2. /\ Over(called, All)
        /\ View(called)[Stack] = With(View(heap)[Stack], Temp, See(At(heap, Var(y)), View(heap)))
    BY <2>1, VarValue, PutVarShows
  <2> QED
    BY <2>1, <2>2
<1> HIDE DEF called
<1>4. seen = [z \in Vars |-> seen[z]]
  BY SeenFacts
<1>5. View(called)[Stack][x] = seen[x]
  BY <1>2, <1>3, <1>4 DEF With
<1>6. /\ Over(ready, All)
      /\ Ready(ready, Var(x), "Array")
      /\ Shows(called, ready, Var(x), x, Contain("Array", View(called)[Stack][x]))
  BY <1>1, <1>2, <1>3, AsVarShows
<1> HIDE DEF ready
<1>7. View(ready)[Stack][x] = c /\ View(ready)[Stack][Temp] = seen[y]
  <2>1. View(ready)[Stack] = With(With(seen, Temp, seen[y]), x, c)
    BY <1>3, <1>5, <1>6, ShowsVar
  <2> HIDE DEF c
  <2>2. /\ With(With(seen, Temp, seen[y]), x, c)[x] = c
        /\ With(With(seen, Temp, seen[y]), x, c)[Temp] = seen[y]
    BY <1>2 DEF With
  <2> QED
    BY <2>1, <2>2
<1> HIDE DEF size
<1>8. /\ View(ready)[Stack][x] = [type |-> "Array", items |-> View(ready)[p[1]]]
      /\ DOMAIN View(ready)[p[1]] = DOMAIN ready[p[1]]
      /\ p[1] = At(ready, Var(x)).to
  BY <1>1, <1>2, <1>6, OwnInside DEF Inside
<1>9. size = Cardinality(DOMAIN Semantics!ItemsOf(seen[x], "Array"))
  <2>1. c.items = View(ready)[p[1]]
    BY <1>7, <1>8
  <2>2. c.items = Semantics!ItemsOf(seen[x], "Array")
    BY ContainIs
  <2> QED
    BY <1>8, <2>1, <2>2 DEF size
<1>10. v \in ValuesOver(DOMAIN ready) /\ See(v, View(ready)) = seen[y]
  BY <1>2, <1>6, <1>7, VarFacts, SeenVar
<1>11. ~PointsTo(v, At(ready, Var(x)).to)
  <2>1. Stack \in DOMAIN ready /\ Temp \in DOMAIN ready[Stack] /\ v = ready[Stack][Temp]
    BY <1>2, <1>6 DEF Over, Good, Sound, At, Var
  <2>2. Only(ready, Var(x)) /\ Var(x)[2] = x
    BY <1>6 DEF Ready, Var
  <2> QED
    BY <1>2, <2>1, <2>2 DEF Only
<1>12. Good(done)
  BY <1>1, <1>2, <1>6, PutUnshared
<1>13. Over(done, All) /\ Shows(ready, done, p, x, See(v, View(ready)))
  <2> HIDE DEF v
  <2> QED
    BY <1>1, <1>2, <1>6, <1>10, <1>11, <1>12, PutInsideShows
<1> HIDE DEF done, p, v
<1>14. View(done)[Stack] = Written(With(seen, Temp, seen[y]), x, "Array", size + 1, seen[y])
  <2>1. Shows(ready, done, Inside(ready, Var(x), size + 1), x, seen[y])
    BY <1>10, <1>13 DEF p
  <2>2. View(done)[Stack] = Written(View(called)[Stack], x, "Array", size + 1, seen[y])
    BY <1>1, <1>2, <1>3, <1>6, <2>1, ReadyInsideShows
  <2> QED
    BY <1>3, <2>2
<1> DEFINE z == [type |-> "Array", items |-> With(c.items, size + 1, seen[y])]
<1>15. View(done)[Stack] = With(With(seen, Temp, seen[y]), x, z)
  BY <1>3, <1>5, <1>14 DEF Written
<1>16. Written(seen, x, "Array", size + 1, seen[y]) = With(seen, x, z)
  BY DEF Written
<1> HIDE DEF z
<1>17. Over(g, Vars) /\ View(g)[Stack] = [u \in Vars |-> View(done)[Stack][u]]
  BY <1>13, ReturnOver, ReturnSees
<1>18. View(g)[Stack] = Written(seen, x, "Array", size + 1, seen[y])
  <2>1. [u \in Vars |-> With(With(seen, Temp, seen[y]), x, z)[u]] = With(seen, x, z)
    <3>1. \A u \in Vars : With(With(seen, Temp, seen[y]), x, z)[u] = IF u = x THEN z ELSE seen[u]
      BY <1>4, CowAssumption DEF With
    <3>2. With(seen, x, z) = [u \in Vars |-> IF u = x THEN z ELSE seen[u]]
      BY <1>4 DEF With
    <3> QED
      BY <3>1, <3>2
  <2> QED
    BY <1>15, <1>16, <1>17, <2>1
<1> HIDE DEF g
<1>19. ViewInv' /\ Semantics!Set(x, Semantics!With(seen[x], "Array", size + 1, seen[y]))
  BY <1>1, <1>17, <1>18, BecomesWritten
<1> DEFINE n == Cardinality(DOMAIN Semantics!ItemsOf(seen[x], "Array"))
<1>20. /\ "Array" \in Kinds
       /\ n < MaxSlots
       /\ Semantics!Set(x, Semantics!With(seen[x], "Array", n + 1, seen[y]))
  <2>1. size = n
    BY <1>9
  <2> HIDE DEF n
  <2> QED
    BY <1>1, <1>19, <2>1
<1>21. Semantics!Cardinality(DOMAIN Semantics!ItemsOf(seen[x], "Array")) = n
  BY DEF Semantics!Cardinality, Cardinality
<1>22. Semantics!PushBack(x, y)
  BY <1>20, <1>21 DEF Semantics!PushBack
<1> QED
  BY <1>19, <1>22

LEMMA AssignImplements ==
  ASSUME ~SelfNesting, HeapInv, ViewInv, NEW x \in Vars, NEW y \in Vars, NEW s \in Slots, Assign(x, s, y)
  PROVE  ViewInv' /\ Semantics!Assign(x, s, y)
<1> DEFINE ready == ForceAs(heap, Var(x), "Object")
           p     == Inside(ready, Var(x), s)
           v     == At(ready, Var(y))
           g     == Put(ready, p, v)
<1>1. "Object" \in Kinds /\ x # y /\ Becomes(g)
  BY DEF Assign
<1>2. Over(heap, Vars) /\ View(heap)[Stack] = seen
  BY SeenFacts DEF ViewInv
<1>3. /\ Over(ready, Vars)
      /\ Ready(ready, Var(x), "Object")
      /\ Shows(heap, ready, Var(x), x, Contain("Object", View(heap)[Stack][x]))
  BY <1>1, <1>2, AsVarShows
<1> HIDE DEF ready
<1>4. v \in ValuesOver(DOMAIN ready) /\ See(v, View(ready)) = seen[y]
  <2>1. View(ready)[Stack] = With(seen, x, Contain("Object", seen[x]))
    BY <1>2, <1>3, ShowsVar
  <2>2. With(seen, x, Contain("Object", seen[x]))[y] = seen[y]
    BY <1>1, SeenFacts DEF With
  <2>3. See(v, View(ready)) = View(ready)[Stack][y]
    BY <1>3, SeenVar
  <2> QED
    BY <1>3, <2>1, <2>2, <2>3, VarFacts
<1>5. ~PointsTo(v, At(ready, Var(x)).to)
  <2>1. Stack \in DOMAIN ready /\ y \in DOMAIN ready[Stack] /\ v = ready[Stack][y]
    BY <1>3 DEF Over, Good, Sound, At, Var
  <2>2. Only(ready, Var(x)) /\ Var(x)[2] = x
    BY <1>3 DEF Ready, Var
  <2> QED
    BY <1>1, <2>1, <2>2 DEF Only
<1>6. Good(g)
  BY <1>1, <1>3, PutUnshared
<1>7. Over(g, Vars) /\ Shows(ready, g, p, x, See(v, View(ready)))
  <2> HIDE DEF v
  <2> QED
    BY <1>1, <1>3, <1>4, <1>5, <1>6, PutInsideShows
<1> HIDE DEF g, v
<1>8. View(g)[Stack] = Written(seen, x, "Object", s, seen[y])
  BY <1>1, <1>2, <1>3, <1>4, <1>7, ReadyInsideShows
<1>9. ViewInv' /\ Semantics!Set(x, Semantics!With(seen[x], "Object", s, seen[y]))
  BY <1>1, <1>7, <1>8, BecomesWritten
<1> QED
  BY <1>1, <1>9 DEF Semantics!Assign

LEMMA WriteImplements ==
  ASSUME HeapInv, ViewInv, NEW x \in Vars, NEW k \in Kinds, NEW s \in Slots, NEW n \in Numbers,
         Write(x, k, s, n)
  PROVE  ViewInv' /\ Semantics!Write(x, k, s, n)
<1> DEFINE v     == Number(n)
           ready == As(heap, Var(x), k)
           p     == Inside(ready, Var(x), s)
           g     == Put(ready, p, v)
<1>1. /\ At(heap, Var(x)).type = k /\ Accepts(heap, Var(x), k) /\ IsContainer(At(heap, Var(x)))
      /\ s \in DOMAIN ItemsOf(heap, At(heap, Var(x)))
      /\ Becomes(g)
  BY DEF Write, Accepts, IsContainer
<1>2. Over(heap, Vars) /\ View(heap)[Stack] = seen
  BY SeenFacts DEF ViewInv
<1>3. seen[x].type = k /\ s \in DOMAIN seen[x].items
  BY <1>1, SeenFacts, SeenItems
<1>4. /\ Over(ready, Vars)
      /\ Ready(ready, Var(x), k)
      /\ Shows(heap, ready, Var(x), x, Contain(k, View(heap)[Stack][x]))
  BY <1>1, <1>2, AsVarShows
<1> HIDE DEF ready
<1>5. v \in ValuesOver(DOMAIN ready) /\ ~IsContainer(v)
  BY ValueFacts
<1>6. See(v, View(ready)) = Semantics!Number(n)
  BY <1>5, SeeFacts DEF Number, Semantics!Number
<1>7. ~PointsTo(v, At(ready, Var(x)).to)
  BY <1>5 DEF PointsTo
<1> HIDE DEF v
<1>8. Over(g, Vars) /\ Shows(ready, g, p, x, See(v, View(ready)))
  BY <1>4, <1>5, <1>7, PutInsideShows
<1> HIDE DEF g
<1>9. View(g)[Stack] = Written(seen, x, k, s, Semantics!Number(n))
  BY <1>2, <1>4, <1>6, <1>8, ReadyInsideShows
<1>10. ViewInv' /\ Semantics!Set(x, Semantics!With(seen[x], k, s, Semantics!Number(n)))
  BY <1>1, <1>8, <1>9, BecomesWritten
<1> QED
  BY <1>3, <1>10 DEF Semantics!Write

LEMMA AssignInnerImplements ==
  ASSUME HeapInv, ViewInv, NEW x \in Vars, NEW s \in Slots, NEW t \in Slots, NEW n \in Numbers,
         AssignInner(x, s, t, n)
  PROVE  ViewInv' /\ Semantics!AssignInner(x, s, t, n)
<1> DEFINE v     == Number(n)
           outer == ForceAs(heap, Var(x), "Object")
           p     == Inside(outer, Var(x), s)
           found == IF s \in DOMAIN outer[p[1]] THEN outer ELSE Put(outer, p, Null)
           inner == ForceAs(found, p, "Object")
           g     == Put(inner, Inside(inner, p, t), v)
           items == Semantics!ItemsOf(seen[x], "Object")
           i     == IF s \in DOMAIN items THEN items[s] ELSE Semantics!Null
<1>1. "Object" \in Kinds /\ Becomes(g)
  BY DEF AssignInner
<1>2. Over(heap, Vars) /\ View(heap)[Stack] = seen
  BY SeenFacts DEF ViewInv
<1>3. /\ Over(outer, Vars)
      /\ Ready(outer, Var(x), "Object")
      /\ Shows(heap, outer, Var(x), x, Contain("Object", View(heap)[Stack][x]))
  BY <1>1, <1>2, AsVarShows
<1> HIDE DEF outer
<1>4. /\ Owned(outer, p, x)
      /\ p[1] \in DOMAIN outer \ {Stack} /\ p[2] = s
      /\ Anchored(outer, p[1])
      /\ View(outer)[Stack][x] = [type |-> "Object", items |-> View(outer)[p[1]]]
      /\ DOMAIN View(outer)[p[1]] = DOMAIN outer[p[1]]
  BY <1>1, <1>3, OwnInside
<1>5. View(outer)[p[1]] = items
  <2>1. View(outer)[Stack][x] = Contain("Object", seen[x])
    <3>1. View(outer)[Stack] = With(seen, x, Contain("Object", seen[x]))
      BY <1>2, <1>3, ShowsVar
    <3> QED
      BY <3>1 DEF With
  <2>2. Contain("Object", seen[x]).items = items
    BY ContainIs
  <2>3. View(outer)[Stack][x].items = View(outer)[p[1]]
    BY <1>4
  <2> QED
    BY <2>1, <2>2, <2>3
<1> HIDE DEF p, items
<1>6. /\ Good(found) /\ Anchored(found, p[1]) /\ Owned(found, p, x)
      /\ p[2] \in DOMAIN found[p[1]]
      /\ found[Stack] = outer[Stack]
      /\ Shows(outer, found, p, x, i)
  <2>1. CASE s \in DOMAIN outer[p[1]]
    <3>1. found = outer /\ i = View(outer)[p[1]][p[2]]
      BY <1>4, <1>5, <2>1
    <3>2. Shows(outer, outer, p, x, View(outer)[p[1]][p[2]])
      BY <1>3, <1>4, <2>1, ShowsNothing DEF Over
    <3> QED
      BY <1>3, <1>4, <2>1, <3>1, <3>2 DEF Over
  <2>2. CASE s \notin DOMAIN outer[p[1]]
    <3>1. found = Put(outer, p, Null) /\ i = Null
      BY <1>4, <1>5, <2>2 DEF Null, Semantics!Null
    <3>2. Null \in ValuesOver(DOMAIN outer) /\ ~IsContainer(Null) /\ ~PointsTo(Null, p[1])
      BY ValueFacts DEF PointsTo
    <3>3. See(Null, View(outer)) = Null
      BY <3>2, SeeFacts
    <3> HIDE DEF found, i
    <3>4. Good(found)
      BY <1>3, <1>4, <3>1, <3>2, PutSimpleGood DEF Over
    <3>5. Shows(outer, found, p, x, i)
      BY <1>3, <1>4, <3>1, <3>2, <3>3, <3>4, PutShows DEF Over
    <3>6. Edits(outer, found, p)
      BY <1>3, <1>4, <3>1, <3>2, <3>4, PutEdits DEF Over, Good
    <3> QED
      BY <1>4, <3>4, <3>5, <3>6, EditedPlace DEF Shows
  <2> QED
    BY <2>1, <2>2
<1> HIDE DEF found, i
<1>7. /\ Edits(found, inner, p) /\ Ready(inner, p, "Object")
      /\ Shows(found, inner, p, x, Contain("Object", View(found)[p[1]][p[2]]))
  BY <1>1, <1>6, ForceAsEdits, ForceAsShows
<1> HIDE DEF inner
<1>8. View(found)[p[1]][p[2]] = i
  BY <1>6, ShownAt
<1>9. /\ Good(inner) /\ p[1] \in DOMAIN inner \ {Stack} /\ p[2] \in DOMAIN inner[p[1]]
      /\ inner[Stack] = outer[Stack] /\ Owned(inner, p, x)
  BY <1>4, <1>6, <1>7, EditedPlace DEF Shows, Anchored
<1>10. View(inner)[p[1]][p[2]] = Contain("Object", i)
  BY <1>7, <1>8, ShownAt
<1>11. v \in ValuesOver(DOMAIN inner) /\ ~IsContainer(v) /\ v = Semantics!Number(n)
  BY ValueFacts DEF Number, Semantics!Number
<1> DEFINE w == [type |-> "Object", items |-> With(Contain("Object", i).items, t, v)]
<1> HIDE DEF v
<1>12. Shows(inner, g, p, x, w)
  BY <1>1, <1>7, <1>9, <1>10, <1>11, PutDeepShows
<1>13. w = Semantics!With(i, "Object", t, Semantics!Number(n))
  BY <1>11, ContainIs DEF With, Semantics!With, Semantics!ContainerOf
<1>14. Over(g, Vars)
  <2>1. Over(inner, Vars)
    BY <1>3, <1>9 DEF Over
  <2>2. Inside(inner, p, t)[1] \in DOMAIN inner \ {Stack}
    BY <1>1, <1>7, InsideFacts
  <2> QED
    BY <1>11, <2>1, <2>2, PutInside
<1> HIDE DEF g, w
<1>15. Shows(outer, g, p, x, w)
  BY <1>6, <1>7, <1>8, <1>12, ShowsTwice
<1>16. View(g)[Stack] = Written(seen, x, "Object", s, w)
  BY <1>1, <1>2, <1>3, <1>15, ReadyInsideShows DEF p
<1>17. ViewInv' /\ Semantics!Set(x, Semantics!With(seen[x], "Object", s, w))
  BY <1>1, <1>14, <1>16, BecomesWritten
<1> QED
  BY <1>1, <1>13, <1>17 DEF Semantics!AssignInner, i, items

LEMMA ObtainImplements ==
  ASSUME HeapInv, ViewInv, NEW x \in Vars, NEW k \in Kinds, Obtain(x, k)
  PROVE  ViewInv' /\ Semantics!Obtain(x, k)
<1> DEFINE ready == As(heap, Var(x), k)
<1>1. /\ Accepts(heap, Var(x), k)
      /\ DOMAIN ready \subseteq Blocks \cup {Stack}
      /\ heap' = ready /\ seen' = Contents(ready) /\ held' = x
  BY DEF Obtain
<1>2. Over(heap, Vars) /\ View(heap)[Stack] = seen
  BY SeenFacts DEF ViewInv
<1>3. /\ Over(ready, Vars)
      /\ Ready(ready, Var(x), k)
      /\ Shows(heap, ready, Var(x), x, Contain(k, View(heap)[Stack][x]))
  BY <1>1, <1>2, AsVarShows
<1> HIDE DEF ready
<1>4. seen' = View(ready)[Stack]
  BY <1>1, <1>3, ContentsIsView DEF Over
<1>5. ViewInv'
  BY <1>1, <1>3, <1>4 DEF ViewInv, Ready
<1>6. seen' = With(seen, x, Contain(k, seen[x]))
  BY <1>2, <1>3, <1>4, ShowsVar
<1>7. Contain(k, seen[x]) = Semantics!ContainerOf(k, Semantics!ItemsOf(seen[x], k))
  BY ContainIs DEF Contain, Semantics!ContainerOf
<1>8. seen' = [seen EXCEPT ![x] = Contain(k, seen[x])]
  BY <1>6, SeenFacts, WithVar
<1>9. seen[x].type \in {"Null", k}
  BY <1>1, SeenFacts DEF Accepts
<1> QED
  BY <1>1, <1>5, <1>7, <1>8, <1>9 DEF Semantics!Obtain

LEMMA WriteHeldImplements ==
  ASSUME HeapInv, ViewInv, NEW s \in Slots, NEW n \in Numbers, WriteHeld(s, n)
  PROVE  ViewInv' /\ Semantics!WriteHeld(s, n)
<1> DEFINE v == Number(n)
           k == heap[Stack][held].type
           p == Inside(heap, Var(held), s)
           g == Put(heap, p, v)
<1>1. held \in Vars /\ PointsTo(heap[Stack][held], ref) /\ ref # NullPtr /\ held # NoVar
  BY DEF WriteHeld, HeapInv
<1>2. At(heap, Var(held)).to = ref /\ At(heap, Var(held)) = heap[Stack][held] /\ k \in Kinds
  BY <1>1 DEF PointsTo, IsContainer, At, Var
<1>3. p = <<ref, s>>
  BY <1>2 DEF Inside
<1>4. /\ s \in DOMAIN heap[ref]
      /\ heap' = g /\ seen' = Contents(g) /\ held' = held
  BY <1>3 DEF WriteHeld
<1>5. Over(heap, Vars) /\ View(heap)[Stack] = seen
  BY SeenFacts DEF ViewInv
<1>6. Ready(heap, Var(held), k)
  BY <1>1, <1>2 DEF ViewInv, Ready
<1>7. p[1] \in DOMAIN heap \ {Stack}
  BY <1>1, <1>2, <1>5, <1>6, OwnInside
<1>8. v \in ValuesOver(DOMAIN heap) /\ ~IsContainer(v) /\ v = Semantics!Number(n)
  BY ValueFacts DEF Number, Semantics!Number
<1>9. ~PointsTo(v, At(heap, Var(held)).to)
  BY <1>8 DEF PointsTo
<1>10. See(v, View(heap)) = v
  BY <1>8, SeeFacts
<1> HIDE DEF v
<1>11. Over(g, Vars) /\ Shows(heap, g, p, held, v)
  BY <1>1, <1>2, <1>5, <1>6, <1>8, <1>9, <1>10, PutInsideShows
<1>12. DOMAIN g \subseteq DOMAIN heap
  <2> HIDE DEF p
  <2> QED
    BY <1>5, <1>7, <1>8, PutInside
<1>13. View(g)[Stack] = With(seen, held, [type |-> k, items |-> With(seen[held].items, s, v)])
  BY <1>1, <1>2, <1>5, <1>6, <1>11, InsideShows
<1>14. seen' = View(g)[Stack]
  <2>1. DOMAIN g \subseteq Blocks \cup {Stack}
    BY <1>12 DEF HeapInv
  <2> HIDE DEF g
  <2> QED
    BY <1>4, <1>11, <2>1, ContentsIsView DEF Over
<1>15. ViewInv'
  <2>1. Only(g, Var(held))
    BY <1>7, <1>11 DEF Shows, Owned
  <2> HIDE DEF g
  <2> QED
    BY <1>4, <1>14, <2>1 DEF ViewInv
<1>16. seen[held].type = k /\ s \in DOMAIN seen[held].items
  <2>1. IsContainer(At(heap, Var(held))) /\ ItemsOf(heap, At(heap, Var(held))) = heap[ref]
    BY <1>1, <1>2 DEF IsContainer, ItemsOf
  <2> QED
    BY <1>1, <1>2, <1>4, <2>1, SeenFacts, SeenItems
<1>17. seen' = [seen EXCEPT ![held] = Semantics!With(seen[held], k, s, v)]
  <2>1. Contain(k, seen[held]).items = seen[held].items
    BY <1>16 DEF Contain
  <2>2. seen' = Written(seen, held, k, s, v)
    BY <1>13, <1>14, <2>1 DEF Written
  <2> HIDE DEF k
  <2> QED
    BY <1>1, <2>2, SeenFacts, WrittenIs
<1> HIDE DEF k, g, p
<1>18. seen' = [seen EXCEPT ![held] = Semantics!With(@, @.type, s, Semantics!Number(n))]
  BY <1>8, <1>16, <1>17
<1> QED
  BY <1>1, <1>4, <1>15, <1>16, <1>18 DEF Semantics!WriteHeld

-------------------------------------------------------------------------------
LEMMA NextImplements ==
  ASSUME ~SelfNesting, HeapInv, ViewInv, [Next]_vars
  PROVE  ViewInv' /\ [Semantics!Next]_(Semantics!vars)
<1>1. ASSUME NEW x \in Vars, NEW y \in Vars,
             \/ Copy(x, y)
             \/ Move(x, y)
             \/ PushBack(x, y)
             \/ \E k \in Kinds : SetFrom(x, k, y)
             \/ \E s \in Slots : Assign(x, s, y)
             \/ \E k \in Kinds, s \in Slots : TakeOut(x, k, s, y)
      PROVE  ViewInv' /\ Semantics!Next
  <2>1. \/ ViewInv' /\ Semantics!Copy(x, y)
        \/ ViewInv' /\ Semantics!Move(x, y)
        \/ ViewInv' /\ Semantics!PushBack(x, y)
        \/ ViewInv' /\ \E k \in Kinds : Semantics!SetFrom(x, k, y)
        \/ ViewInv' /\ \E s \in Slots : Semantics!Assign(x, s, y)
        \/ ViewInv' /\ \E k \in Kinds, s \in Slots : Semantics!TakeOut(x, k, s, y)
    BY <1>1, AssignmentsImplement, MoveImplements, PushBackImplements, SetFromImplements,
       AssignImplements
  <2> QED
    BY <2>1 DEF Semantics!Next, Slots, Semantics!Slots
<1>2. ASSUME NEW x \in Vars,
             \/ SetNull(x)
             \/ \E n \in Numbers : SetNumber(x, n)
             \/ \E k \in Kinds : Obtain(x, k)
             \/ \E s, t \in Slots, n \in Numbers : AssignInner(x, s, t, n)
             \/ \E k \in Kinds, s \in Slots, n \in Numbers : Write(x, k, s, n)
      PROVE  ViewInv' /\ Semantics!Next
  <2>1. \/ ViewInv' /\ Semantics!SetNull(x)
        \/ ViewInv' /\ \E n \in Numbers : Semantics!SetNumber(x, n)
        \/ ViewInv' /\ \E k \in Kinds : Semantics!Obtain(x, k)
        \/ ViewInv' /\ \E s, t \in Slots, n \in Numbers : Semantics!AssignInner(x, s, t, n)
        \/ ViewInv' /\ \E k \in Kinds, s \in Slots, n \in Numbers : Semantics!Write(x, k, s, n)
    BY <1>2, AssignmentsImplement, ObtainImplements, AssignInnerImplements, WriteImplements
  <2> QED
    BY <2>1 DEF Semantics!Next, Slots, Semantics!Slots
<1>3. ASSUME NEW s \in Slots, NEW n \in Numbers, WriteHeld(s, n)
      PROVE  ViewInv' /\ Semantics!Next
  BY <1>3, WriteHeldImplements DEF Semantics!Next, Slots, Semantics!Slots
<1>4. CASE UNCHANGED vars
  BY <1>4 DEF vars, Semantics!vars, ViewInv
<1> QED
  BY <1>1, <1>2, <1>3, <1>4 DEF Next

LEMMA InitImplements == Init => Semantics!Init
BY DEF Init, Semantics!Init, Null, Semantics!Null

(* CopyOnWrite: whatever a program does with its Values short of x[k] = x, *)
(* whatever they share on the heap and whatever reference it holds, each   *)
(* operation has the effect it would have if copying a Value copied all it *)
(* contains (ensureUniqueArray, ensureUniqueObject), for any number of     *)
(* Values, keys and blocks.                                                *)
THEOREM ValuesAreValues == ~SelfNesting => (Spec => CopyOnWrite)
<1> SUFFICES ASSUME ~SelfNesting
             PROVE  Spec => CopyOnWrite
  OBVIOUS
<1>1. Init => HeapInv /\ ViewInv /\ Semantics!Init
  BY HeapInvInitially, ViewInvInitially, InitImplements
<1>2. HeapInv /\ ViewInv /\ [Next]_vars
        => HeapInv' /\ ViewInv' /\ [Semantics!Next]_(Semantics!vars)
  BY HeapInvStep, NextImplements
<1> QED
  BY <1>1, <1>2, PTL DEF Spec, CopyOnWrite, Semantics!Spec
===============================================================================
