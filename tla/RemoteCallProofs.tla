--------------------------- MODULE RemoteCallProofs ---------------------------
(***************************************************************************)
(* Theorems about RemoteCall, for any requests, lines, answers and codes,  *)
(* Values and documents of any depth and width, and integers of any size.  *)
(* The argument is about trees: a conversion keeps the paths and changes   *)
(* the node at each, so that what happens to a message is what happens to  *)
(* its nodes (NodeAcross, NodeBack), and Above and Child are the inverse   *)
(* of each other.  The state of the call then adds little: line and answer *)
(* hold what was written, received and reply what is read of it (CallInv). *)
(***************************************************************************)
EXTENDS RemoteCall, SequenceTheorems, TLAPS

-------------------------------------------------------------------------------
(* The strings of the code are strings. *)
LEMMA KnownStrings ==
  /\ \A s \in Keys : s \in Strings
  /\ \A s \in Texts : s \in Strings
<1>1. Keys \cup {"0", "1"} \cup Texts \subseteq Strings
  BY JsonAssumption
<1> QED BY <1>1, Zenon

-------------------------------------------------------------------------------
(* Paths *)

(* An element is a sequence of one. *)
LEMMA Singleton ==
  ASSUME NEW S, NEW k \in S
  PROVE  <<k>> \in Seq(S) /\ Len(<<k>>) = 1 /\ <<k>>[1] = k
OBVIOUS

(* An element in front of a sequence is the head of one that is not empty. *)
LEMMA Prefixed ==
  ASSUME NEW S, NEW k \in S, NEW p \in Seq(S)
  PROVE  /\ <<k>> \o p \in Seq(S)
         /\ <<k>> \o p # <<>>
         /\ Head(<<k>> \o p) = k
         /\ Tail(<<k>> \o p) = p
<1>1. <<k>> \in Seq(S) /\ Len(<<k>>) = 1 /\ <<k>>[1] = k
  BY Singleton
<1> DEFINE q == <<k>> \o p
<1>2. /\ q \in Seq(S)
      /\ Len(q) = 1 + Len(p)
      /\ \A i \in 1 .. 1 + Len(p) : q[i] = IF i <= 1 THEN <<k>>[i] ELSE p[i - 1]
  BY <1>1, ConcatProperties
<1> HIDE DEF q
<1>3. q # <<>> /\ Head(q) = k
  BY <1>1, <1>2
<1>4. /\ Tail(q) \in Seq(S)
      /\ Len(Tail(q)) = Len(p)
      /\ \A i \in 1 .. Len(p) : Tail(q)[i] = p[i]
  BY <1>2, <1>3, HeadTailProperties
<1>5. Tail(q) = p
  BY <1>4, SeqEqual
<1> QED BY <1>2, <1>3, <1>5 DEF q

(* In particular a step in front of a path. *)
LEMMA PathOfStep ==
  ASSUME NEW k \in Strings, NEW p \in Seq(Strings)
  PROVE  /\ <<k>> \o p \in Seq(Strings)
         /\ <<k>> \o p # <<>>
         /\ Head(<<k>> \o p) = k
         /\ Tail(<<k>> \o p) = p
BY Prefixed, Zenon

(* A path that is not empty is its head in front of its tail. *)
LEMMA PathSplit ==
  ASSUME NEW q \in Seq(Strings), q # <<>>
  PROVE  Head(q) \in Strings /\ Tail(q) \in Seq(Strings) /\ q = <<Head(q)>> \o Tail(q)
<1>1. /\ Head(q) \in Strings
      /\ Tail(q) \in Seq(Strings)
      /\ Len(Tail(q)) = Len(q) - 1
      /\ \A i \in 1 .. Len(Tail(q)) : Tail(q)[i] = q[i + 1]
  BY HeadTailProperties
<1>2. <<Head(q)>> \in Seq(Strings) /\ Len(<<Head(q)>>) = 1 /\ <<Head(q)>>[1] = q[1]
  BY <1>1
<1> DEFINE r == <<Head(q)>> \o Tail(q)
<1>3. /\ r \in Seq(Strings)
      /\ Len(r) = 1 + Len(Tail(q))
      /\ \A i \in 1 .. 1 + Len(Tail(q)) : r[i] = IF i <= 1 THEN <<Head(q)>>[i] ELSE Tail(q)[i - 1]
  BY <1>1, <1>2, ConcatProperties
<1> HIDE DEF r
<1>4. r = q
  BY <1>1, <1>2, <1>3, SeqEqual
<1> QED BY <1>1, <1>4 DEF r

-------------------------------------------------------------------------------
(* Trees *)

(* A leaf is a tree without children. *)
LEMMA LeafFacts ==
  ASSUME NEW node
  PROVE  /\ IsTree(Leaf(node))
         /\ DOMAIN Leaf(node) = {<<>>}
         /\ Leaf(node)[<<>>] = node
         /\ \A k \in Strings : ~Has(Leaf(node), k)
  BY DEF Leaf, IsTree, Has

(* What is in a child, and that it is a tree. *)
LEMMA ChildFacts ==
  ASSUME NEW t, IsTree(t), NEW k \in Strings
  PROVE  /\ DOMAIN Child(t, k) = {p \in Seq(Strings) : <<k>> \o p \in DOMAIN t}
         /\ \A p \in DOMAIN Child(t, k) : Child(t, k)[p] = t[<<k>> \o p]
         /\ Has(t, k) => IsTree(Child(t, k)) /\ Child(t, k)[<<>>] = t[<<k>>]
<1> DEFINE D == {Tail(q) : q \in {r \in DOMAIN t : r # <<>> /\ Head(r) = k}}
<1>1. ASSUME NEW p \in D
      PROVE  p \in Seq(Strings) /\ <<k>> \o p \in DOMAIN t
  <2>1. PICK q \in DOMAIN t : q # <<>> /\ Head(q) = k /\ p = Tail(q)
    BY <1>1
  <2> QED BY <2>1, PathSplit DEF IsTree
<1>2. ASSUME NEW p \in Seq(Strings), <<k>> \o p \in DOMAIN t
      PROVE  p \in D
  BY <1>2, PathOfStep
<1>3. D = {p \in Seq(Strings) : <<k>> \o p \in DOMAIN t}
  BY <1>1, <1>2
<1>4. /\ DOMAIN Child(t, k) = D
      /\ \A p \in D : Child(t, k)[p] = t[<<k>> \o p]
      /\ Child(t, k) = [p \in D |-> t[<<k>> \o p]]
  BY DEF Child
<1> HIDE DEF D
<1>5. ASSUME Has(t, k)
      PROVE  <<>> \in D /\ Child(t, k)[<<>>] = t[<<k>>]
  <2>1. <<>> \in Seq(Strings) /\ <<k>> \in Seq(Strings)
    BY EmptySeq, Singleton, Zenon
  <2>2. <<k>> \o <<>> = <<k>>
    BY <2>1, ConcatEmptySeq
  <2> QED BY <1>3, <1>4, <1>5, <2>1, <2>2 DEF Has
<1>6. ASSUME Has(t, k)
      PROVE  IsTree(Child(t, k))
  BY <1>3, <1>4, <1>5, <1>6 DEF IsTree
<1> QED BY <1>3, <1>4, <1>5, <1>6

(* Two trees with the same nodes at the same paths are the same. *)
LEMMA TreesEqual ==
  ASSUME NEW s, NEW t, IsTree(s), IsTree(t), DOMAIN s = DOMAIN t,
         \A p \in DOMAIN s : s[p] = t[p]
  PROVE  s = t
  BY DEF IsTree

(* The children o of a node: at each key a tree, or none. *)
Members(o) == DOMAIN o \subseteq Strings /\ \A k \in DOMAIN o : o[k] = {} \/ \E t \in o[k] : o[k] = {t} /\ IsTree(t)

(* A node above children is a tree, and they are its children. *)
LEMMA AboveFacts ==
  ASSUME NEW node, NEW o, Members(o)
  PROVE  /\ IsTree(Above(node, o))
         /\ Above(node, o)[<<>>] = node
         /\ \A k \in Strings : Has(Above(node, o), k) <=> k \in DOMAIN o /\ o[k] # {}
         /\ \A k \in DOMAIN o : \A t \in o[k] : Child(Above(node, o), k) = t
         /\ \A p \in DOMAIN Above(node, o) : p # <<>> => Head(p) \in DOMAIN o /\ o[Head(p)] # {}
<1> DEFINE a == Above(node, o)
           B == UNION {UNION {{<<k>> \o q : q \in DOMAIN t} : t \in o[k]} : k \in DOMAIN o}
           D == {<<>>} \cup B
<1>1. a = [p \in D |-> IF p = <<>> THEN node ELSE The(o[Head(p)])[Tail(p)]]
  BY DEF Above
<1>2. ASSUME NEW p \in B
      PROVE  \E k \in DOMAIN o : \E t \in o[k] : \E q \in DOMAIN t : p = <<k>> \o q
  <2>1. PICK k \in DOMAIN o : p \in UNION {{<<k>> \o q : q \in DOMAIN t} : t \in o[k]}
    OBVIOUS
  <2>2. PICK t \in o[k] : p \in {<<k>> \o q : q \in DOMAIN t}
    BY <2>1
  <2> QED BY <2>2
<1>3. ASSUME NEW k \in DOMAIN o, NEW t \in o[k], NEW q \in DOMAIN t
      PROVE  <<k>> \o q \in B
  OBVIOUS
<1> HIDE DEF B, a
<1>4. ASSUME NEW k \in DOMAIN o, NEW t \in o[k]
      PROVE  k \in Strings /\ IsTree(t) /\ o[k] = {t} /\ The(o[k]) = t
  BY DEF Members, The
<1>5. ASSUME NEW k \in DOMAIN o, NEW t \in o[k], NEW q \in DOMAIN t
      PROVE  /\ <<k>> \o q \in DOMAIN a
             /\ <<k>> \o q \in Seq(Strings) /\ <<k>> \o q # <<>>
             /\ a[<<k>> \o q] = t[q]
  <2>1. k \in Strings /\ q \in Seq(Strings) /\ The(o[k]) = t
    BY <1>4 DEF IsTree
  <2>2. /\ <<k>> \o q \in Seq(Strings) /\ <<k>> \o q # <<>>
        /\ Head(<<k>> \o q) = k /\ Tail(<<k>> \o q) = q
    BY <2>1, PathOfStep
  <2> QED BY <1>1, <1>3, <2>1, <2>2
<1>6. ASSUME NEW p \in DOMAIN a, p # <<>>
      PROVE  \E k \in DOMAIN o : \E t \in o[k] :
               \E q \in DOMAIN t : p = <<k>> \o q /\ p \in Seq(Strings) /\ a[p] = t[q]
  <2>1. p \in B
    BY <1>1, <1>6
  <2>2. PICK k \in DOMAIN o : \E t \in o[k] : \E q \in DOMAIN t : p = <<k>> \o q
    BY <1>2, <2>1
  <2>3. PICK t \in o[k] : \E q \in DOMAIN t : p = <<k>> \o q
    BY <2>2
  <2>4. PICK q \in DOMAIN t : p = <<k>> \o q
    BY <2>3
  <2>5. p \in Seq(Strings) /\ a[p] = t[q]
    BY <1>5, <2>4
  <2> QED BY <2>4, <2>5
<1>7. IsTree(a)
  <2>1. <<>> \in Seq(Strings)
    BY EmptySeq
  <2>2. <<>> \in DOMAIN a /\ a = [p \in DOMAIN a |-> a[p]]
    BY <1>1
  <2>3. DOMAIN a \subseteq Seq(Strings)
    BY <1>6, <2>1
  <2> QED BY <2>2, <2>3 DEF IsTree
<1>8. a[<<>>] = node
  BY <1>1
<1>9. \A p \in DOMAIN a :
        p # <<>> => \E k \in DOMAIN o : \E t \in o[k] :
                      \E q \in DOMAIN t : p = <<k>> \o q /\ a[p] = t[q]
  BY <1>6
<1>10. ASSUME NEW k \in Strings, NEW p \in Seq(Strings), <<k>> \o p \in DOMAIN a
       PROVE  k \in DOMAIN o /\ \E t \in o[k] : p \in DOMAIN t
  <2>1. /\ <<k>> \o p # <<>>
        /\ Head(<<k>> \o p) = k /\ Tail(<<k>> \o p) = p
    BY PathOfStep
  <2>2. PICK l \in DOMAIN o : \E t \in o[l] : \E q \in DOMAIN t : <<k>> \o p = <<l>> \o q
    BY <1>9, <1>10, <2>1
  <2>3. PICK t \in o[l] : \E q \in DOMAIN t : <<k>> \o p = <<l>> \o q
    BY <2>2
  <2>4. PICK q \in DOMAIN t : <<k>> \o p = <<l>> \o q
    BY <2>3
  <2>5. l \in Strings /\ q \in Seq(Strings)
    BY <1>4 DEF IsTree
  <2>6. Head(<<l>> \o q) = l /\ Tail(<<l>> \o q) = q
    BY <2>5, PathOfStep
  <2> QED BY <2>1, <2>4, <2>6
<1>11. ASSUME NEW k \in Strings
       PROVE  Has(a, k) <=> k \in DOMAIN o /\ o[k] # {}
  <2>1. <<>> \in Seq(Strings) /\ <<k>> \in Seq(Strings)
    BY EmptySeq, Singleton, Zenon
  <2>2. <<k>> \o <<>> = <<k>>
    BY <2>1, ConcatEmptySeq
  <2>3. Has(a, k) => k \in DOMAIN o /\ o[k] # {}
    BY <1>10, <2>1, <2>2 DEF Has
  <2>4. ASSUME k \in DOMAIN o, NEW t \in o[k]
        PROVE  Has(a, k)
    <3>1. <<>> \in DOMAIN t
      BY <1>4, <2>4 DEF IsTree
    <3>2. <<k>> \o <<>> \in DOMAIN a
      BY <1>5, <2>4, <3>1
    <3> QED BY <2>2, <3>2 DEF Has
  <2> QED BY <2>3, <2>4
<1>12. ASSUME NEW k \in DOMAIN o, NEW t \in o[k]
       PROVE  Child(a, k) = t
  <2>1. k \in Strings /\ IsTree(t) /\ o[k] = {t}
    BY <1>4
  <2>2. Has(a, k)
    BY <1>11, <2>1
  <2> DEFINE c == Child(a, k)
  <2>3. /\ IsTree(c)
        /\ DOMAIN c = {p \in Seq(Strings) : <<k>> \o p \in DOMAIN a}
        /\ \A p \in DOMAIN c : c[p] = a[<<k>> \o p]
    BY <1>7, <2>1, <2>2, ChildFacts
  <2> HIDE DEF c
  <2>4. DOMAIN c = DOMAIN t
    BY <1>5, <1>10, <2>1, <2>3 DEF IsTree
  <2>5. \A p \in DOMAIN c : c[p] = t[p]
    BY <1>5, <2>3, <2>4
  <2> QED BY <2>1, <2>3, <2>4, <2>5, TreesEqual DEF c
<1>13. ASSUME NEW p \in DOMAIN a, p # <<>>
       PROVE  Head(p) \in DOMAIN o /\ o[Head(p)] # {}
  <2>1. Head(p) \in Strings /\ Tail(p) \in Seq(Strings) /\ <<Head(p)>> \o Tail(p) \in DOMAIN a
    BY <1>7, <1>13, PathSplit DEF IsTree
  <2> QED BY <1>10, <2>1
<1> QED BY <1>7, <1>8, <1>11, <1>12, <1>13 DEF a

-------------------------------------------------------------------------------
(* Numbers *)

(* A number in a type is in its range, and the same if it was there. *)
LEMMA WrapRange ==
  ASSUME NEW n \in Int, NEW bit \in Nat, bit > 0
  PROVE  /\ Wrap(n, bit) \in -bit .. bit - 1
         /\ n \in -bit .. bit - 1 => Wrap(n, bit) = n
<1> DEFINE M == 2 * bit
           r == (n + bit) % M
<1>1. M \in Nat /\ M > 0 /\ n + bit \in Int
  OBVIOUS
<1>2. r \in 0 .. M - 1 /\ (n + bit \in 0 .. M - 1 => r = n + bit)
  <2> HIDE DEF M
  <2> QED BY <1>1
<1> QED BY <1>1, <1>2 DEF Wrap

(* So is it with the conversion to int64_t. *)
LEMMA Int64Range ==
  ASSUME NEW n \in Int
  PROVE  /\ ToInt64(n) \in MinInt .. MaxInt
         /\ n \in MinInt .. MaxInt => ToInt64(n) = n
BY WrapRange, JsonAssumption DEF ToInt64, MinInt, MaxInt

(* The conversion to int as well. *)
LEMMA IntRange ==
  ASSUME NEW n \in Int
  PROVE  /\ ToInt(n) \in Ints
         /\ n \in Ints => ToInt(n) = n
BY WrapRange, JsonAssumption DEF ToInt, Ints

-------------------------------------------------------------------------------
(* Conversions of nodes *)

(* The node of a Value, written and read, is what JSON carries of it. *)
LEMMA NodeAcross ==
  ASSUME NEW v \in ValueNodes
  PROVE  /\ NodeReread(NodeToJson(v)) \in ParsedNodes
         /\ NodeToValue(NodeReread(NodeToJson(v))) = CarriedNode(v)
<1>1. CASE v \in [type : {"Null", "Array", "Object", "Binary", "DateTime"}]
  BY <1>1 DEF NodeToJson, NodeReread, NodeToValue, CarriedNode, ParsedNodes
<1>2. CASE v \in [type : {"Bool"}, bool : BOOLEAN]
  BY <1>2 DEF NodeToJson, NodeReread, NodeToValue, CarriedNode, ParsedNodes
<1>3. CASE v \in [type : {"Int"}, int : MinInt .. MaxInt]
  <2>1. /\ v.int \in MinInt .. MaxInt /\ v.int \in Int
        /\ v.type = "Int" /\ v = [type |-> "Int", int |-> v.int]
    BY <1>3, JsonAssumption DEF MinInt, MaxInt
  <2>2. NodeToJson(v) = [kind |-> "integer", num |-> v.int]
    BY <2>1 DEF NodeToJson
  <2>3. NodeReread(NodeToJson(v)) = [kind |-> IF v.int >= 0 THEN "unsigned" ELSE "integer", num |-> v.int]
    BY <2>1, <2>2 DEF NodeReread
  <2>4. NodeReread(NodeToJson(v)) \in ParsedNodes
    BY <2>1, <2>3 DEF ParsedNodes
  <2>5. ToInt64(v.int) = v.int
    BY <2>1, Int64Range
  <2>6. NodeToValue(NodeReread(NodeToJson(v))) = [type |-> "Int", int |-> v.int]
    BY <2>3, <2>5 DEF NodeToValue, NumberToInt
  <2> QED BY <2>1, <2>4, <2>6 DEF CarriedNode
<1>4. CASE v \in [type : {"Double"}, double : {"half", "NaN"}]
  BY <1>4 DEF NodeToJson, NodeReread, NodeToValue, CarriedNode, ParsedNodes
<1>5. CASE v \in [type : {"String"}, string : Strings]
  BY <1>5 DEF NodeToJson, NodeReread, NodeToValue, CarriedNode, ParsedNodes
<1> QED BY <1>1, <1>2, <1>3, <1>4, <1>5 DEF ValueNodes

(* A node that was parsed makes a node of a Value that JSON carries whole; *)
(* written and parsed again it is itself unless it is a number that does   *)
(* not fit.                                                                *)
LEMMA NodeBack ==
  ASSUME NEW j \in ParsedNodes
  PROVE  /\ NodeToValue(j) \in ValueNodes
         /\ CarriedNode(NodeToValue(j)) = NodeToValue(j)
         /\ NodeReread(NodeToJson(NodeToValue(j))) = j
              <=> (IsWhole(j) => j.num \in MinInt .. MaxInt)
<1>1. CASE j \in [kind : {"null", "array", "object"}]
  BY <1>1 DEF NodeToJson, NodeReread, NodeToValue, CarriedNode, ValueNodes, IsWhole
<1>2. CASE j \in [kind : {"boolean"}, bool : BOOLEAN]
  BY <1>2 DEF NodeToJson, NodeReread, NodeToValue, CarriedNode, ValueNodes, IsWhole
<1>3. CASE j \in [kind : {"integer"}, num : Int \ Nat] \/ j \in [kind : {"unsigned"}, num : Nat]
  <2>1. /\ j.num \in Int
        /\ j.kind = IF j.num >= 0 THEN "unsigned" ELSE "integer"
        /\ j = [kind |-> IF j.num >= 0 THEN "unsigned" ELSE "integer", num |-> j.num]
    BY <1>3
  <2>2. /\ ToInt64(j.num) \in MinInt .. MaxInt /\ ToInt64(j.num) \in Int
        /\ ToInt64(j.num) = j.num <=> j.num \in MinInt .. MaxInt
    BY <2>1, Int64Range, JsonAssumption DEF MinInt, MaxInt
  <2> DEFINE n == ToInt64(j.num)
  <2>3. NodeToValue(j) = [type |-> "Int", int |-> n]
    BY <2>1 DEF NodeToValue, NumberToInt
  <2> HIDE DEF n
  <2>4. NodeToJson(NodeToValue(j)) = [kind |-> "integer", num |-> n]
    BY <2>3 DEF NodeToJson
  <2>5. NodeReread(NodeToJson(NodeToValue(j)))
          = [kind |-> IF n >= 0 THEN "unsigned" ELSE "integer", num |-> n]
    BY <2>2, <2>4 DEF NodeReread, n
  <2>6. NodeReread(NodeToJson(NodeToValue(j))) = j <=> n = j.num
    BY <2>1, <2>5
  <2>7. NodeToValue(j) \in ValueNodes /\ CarriedNode(NodeToValue(j)) = NodeToValue(j)
    BY <2>2, <2>3 DEF ValueNodes, CarriedNode, n
  <2>8. IsWhole(j)
    BY <2>1 DEF IsWhole
  <2> QED BY <2>2, <2>6, <2>7, <2>8 DEF n
<1>4. CASE j \in [kind : {"float"}, double : {"half"}]
  BY <1>4 DEF NodeToJson, NodeReread, NodeToValue, CarriedNode, ValueNodes, IsWhole
<1>5. CASE j \in [kind : {"string"}, string : Strings]
  BY <1>5 DEF NodeToJson, NodeReread, NodeToValue, CarriedNode, ValueNodes, IsWhole
<1> QED BY <1>1, <1>2, <1>3, <1>4, <1>5 DEF ParsedNodes

-------------------------------------------------------------------------------
(* Conversions of trees *)

(* A child of a Value is one. *)
LEMMA ValueChild ==
  ASSUME NEW v, IsValue(v), NEW k \in Strings, Has(v, k)
  PROVE  IsValue(Child(v, k))
BY ChildFacts DEF IsValue

(* A child of a parsed document is one. *)
LEMMA ParsedChild ==
  ASSUME NEW j, IsParsed(j), NEW k \in Strings, Has(j, k)
  PROVE  IsParsed(Child(j, k))
BY ChildFacts DEF IsParsed

(* Rereading a document is rereading its members. *)
LEMMA RereadFacts ==
  ASSUME NEW j, IsTree(j)
  PROVE  /\ IsTree(Reread(j))
         /\ \A p \in DOMAIN j : Reread(j)[p] = NodeReread(j[p])
         /\ \A k \in Strings : /\ Has(Reread(j), k) <=> Has(j, k)
                               /\ Has(j, k) => Child(Reread(j), k) = Reread(Child(j, k))
<1> DEFINE r == Reread(j)
<1>1. /\ r = [p \in DOMAIN j |-> NodeReread(j[p])]
      /\ DOMAIN r = DOMAIN j
      /\ \A p \in DOMAIN j : r[p] = NodeReread(j[p])
  BY DEF Reread
<1> HIDE DEF r
<1>2. IsTree(r)
  BY <1>1 DEF IsTree
<1>3. ASSUME NEW k \in Strings
      PROVE  Has(r, k) <=> Has(j, k)
  BY <1>1 DEF Has
<1>4. ASSUME NEW k \in Strings, Has(j, k)
      PROVE  Child(r, k) = Reread(Child(j, k))
  <2>1. /\ DOMAIN Child(j, k) = {p \in Seq(Strings) : <<k>> \o p \in DOMAIN j}
        /\ \A p \in DOMAIN Child(j, k) : Child(j, k)[p] = j[<<k>> \o p]
    BY ChildFacts
  <2>2. /\ DOMAIN Child(r, k) = {p \in Seq(Strings) : <<k>> \o p \in DOMAIN r}
        /\ \A p \in DOMAIN Child(r, k) : Child(r, k)[p] = r[<<k>> \o p]
        /\ IsTree(Child(r, k))
    BY <1>2, <1>3, <1>4, ChildFacts
  <2>3. Child(r, k) = [p \in DOMAIN Child(r, k) |-> Child(r, k)[p]]
    BY <2>2 DEF IsTree
  <2>4. DOMAIN Child(r, k) = DOMAIN Child(j, k)
    BY <1>1, <2>1, <2>2
  <2>5. \A p \in DOMAIN Child(j, k) : Child(r, k)[p] = NodeReread(Child(j, k)[p])
    BY <1>1, <2>1, <2>2, <2>4
  <2> QED BY <2>3, <2>4, <2>5 DEF Reread
<1> QED BY <1>1, <1>2, <1>3, <1>4 DEF r

(* A Value, written and read, is what JSON carries of it. *)
LEMMA ValueAcross ==
  ASSUME NEW v, IsValue(v)
  PROVE  /\ IsTree(ValueToJson(v))
         /\ IsParsed(Reread(ValueToJson(v)))
         /\ JsonToValue(Reread(ValueToJson(v))) = Carried(v)
         /\ Reread(ValueToJson(v))[<<>>] = NodeReread(NodeToJson(v[<<>>]))
<1>1. IsTree(v) /\ \A p \in DOMAIN v : v[p] \in ValueNodes
  BY DEF IsValue
<1> DEFINE w == ValueToJson(v)
           r == Reread(w)
<1>2. /\ w = [p \in DOMAIN v |-> NodeToJson(v[p])]
      /\ DOMAIN w = DOMAIN v
      /\ \A p \in DOMAIN v : w[p] = NodeToJson(v[p])
  BY DEF ValueToJson
<1>3. IsTree(w)
  BY <1>1, <1>2 DEF IsTree
<1> HIDE DEF w
<1>4. /\ r = [p \in DOMAIN v |-> NodeReread(NodeToJson(v[p]))]
      /\ DOMAIN r = DOMAIN v
      /\ \A p \in DOMAIN v : r[p] = NodeReread(NodeToJson(v[p]))
  BY <1>2 DEF Reread
<1> HIDE DEF r
<1>5. IsTree(r)
  BY <1>1, <1>4 DEF IsTree
<1>6. \A p \in DOMAIN v : r[p] \in ParsedNodes /\ NodeToValue(r[p]) = CarriedNode(v[p])
  BY <1>1, <1>4, NodeAcross
<1>7. IsParsed(r)
  BY <1>4, <1>5, <1>6 DEF IsParsed
<1>8. JsonToValue(r) = Carried(v)
  BY <1>4, <1>6 DEF JsonToValue, Carried
<1>9. r[<<>>] = NodeReread(NodeToJson(v[<<>>]))
  BY <1>1, <1>4 DEF IsTree
<1> QED BY <1>3, <1>7, <1>8, <1>9 DEF w, r

(* A document, read, is a Value that JSON carries whole; written and read  *)
(* again it is the same document if every number in it fits.               *)
LEMMA DocumentBack ==
  ASSUME NEW j, IsParsed(j)
  PROVE  /\ IsValue(JsonToValue(j))
         /\ JsonToValue(j)[<<>>] = NodeToValue(j[<<>>])
         /\ Carried(JsonToValue(j)) = JsonToValue(j)
         /\ Fits(j) <=> Reread(ValueToJson(JsonToValue(j))) = j
<1>1. IsTree(j) /\ \A p \in DOMAIN j : j[p] \in ParsedNodes
  BY DEF IsParsed
<1> DEFINE v == JsonToValue(j)
           w == ValueToJson(v)
           r == Reread(w)
<1>2. /\ v = [p \in DOMAIN j |-> NodeToValue(j[p])]
      /\ DOMAIN v = DOMAIN j
      /\ \A p \in DOMAIN j : v[p] = NodeToValue(j[p])
  BY DEF JsonToValue
<1> HIDE DEF v
<1>3. IsTree(v) /\ v[<<>>] = NodeToValue(j[<<>>])
  BY <1>1, <1>2 DEF IsTree
<1>4. \A p \in DOMAIN j : v[p] \in ValueNodes /\ CarriedNode(v[p]) = v[p]
  BY <1>1, <1>2, NodeBack
<1>5. IsValue(v)
  BY <1>2, <1>3, <1>4 DEF IsValue
<1>6. Carried(v) = v
  BY <1>2, <1>3, <1>4 DEF Carried, IsTree
<1>7. /\ w = [p \in DOMAIN j |-> NodeToJson(NodeToValue(j[p]))]
      /\ DOMAIN w = DOMAIN j
      /\ \A p \in DOMAIN j : w[p] = NodeToJson(NodeToValue(j[p]))
  BY <1>2 DEF ValueToJson
<1> HIDE DEF w
<1>8. /\ r = [p \in DOMAIN j |-> NodeReread(NodeToJson(NodeToValue(j[p])))]
      /\ DOMAIN r = DOMAIN j
      /\ \A p \in DOMAIN j : r[p] = NodeReread(NodeToJson(NodeToValue(j[p])))
  BY <1>7 DEF Reread
<1> HIDE DEF r
<1>9. IsTree(r)
  BY <1>1, <1>8 DEF IsTree
<1>10. r = j <=> \A p \in DOMAIN j : r[p] = j[p]
  BY <1>1, <1>8, <1>9, TreesEqual
<1>11. \A p \in DOMAIN j : r[p] = j[p] <=> (IsWhole(j[p]) => j[p].num \in MinInt .. MaxInt)
  BY <1>1, <1>8, NodeBack
<1>12. r = j <=> Fits(j)
  BY <1>10, <1>11 DEF Fits
<1> QED BY <1>3, <1>5, <1>6, <1>12 DEF v, w, r

-------------------------------------------------------------------------------
(* Objects on a line *)

(* A Value or none. *)
OptionalValue(o) == o = {} \/ \E v \in o : o = {v} /\ IsValue(v)

(* What JSON keeps of a Value is a Value. *)
LEMMA CarriedValue ==
  ASSUME NEW v, IsValue(v)
  PROVE  IsValue(Carried(v))
<1> DEFINE j == Reread(ValueToJson(v))
<1>1. IsParsed(j) /\ JsonToValue(j) = Carried(v)
  BY ValueAcross
<1> HIDE DEF j
<1> QED BY <1>1, DocumentBack

(* A scalar member arrives if its node does. *)
LEMMA LeafAcross ==
  ASSUME NEW node, NodeReread(node) \in ParsedNodes
  PROVE  /\ IsTree(Leaf(node))
         /\ Leaf(node)[<<>>] = node
         /\ IsParsed(Reread(Leaf(node)))
<1>1. IsTree(Leaf(node)) /\ DOMAIN Leaf(node) = {<<>>} /\ Leaf(node)[<<>>] = node
  BY LeafFacts
<1>2. IsTree(Reread(Leaf(node))) /\ DOMAIN Reread(Leaf(node)) = {<<>>}
  BY <1>1, RereadFacts DEF Reread
<1>3. Reread(Leaf(node))[<<>>] = NodeReread(node)
  BY <1>1, RereadFacts
<1> QED BY <1>1, <1>2, <1>3 DEF IsParsed

(* The members of an object that was written and read. *)
LEMMA ObjectAcross ==
  ASSUME NEW o, Members(o)
  PROVE  /\ IsTree(JObject(o))
         /\ IsTree(Reread(JObject(o)))
         /\ Kind(Reread(JObject(o))) = "object"
         /\ Reread(JObject(o))[<<>>] \in ParsedNodes
         /\ \A p \in DOMAIN Reread(JObject(o)) :
              p # <<>> => Head(p) \in DOMAIN o /\ o[Head(p)] # {}
         /\ \A k \in Strings : Has(Reread(JObject(o)), k) <=> k \in DOMAIN o /\ o[k] # {}
         /\ \A k \in DOMAIN o : \A t \in o[k] :
              /\ Child(Reread(JObject(o)), k) = Reread(t)
              /\ Reread(JObject(o))[<<k>>] = NodeReread(t[<<>>])
<1> DEFINE a == JObject(o)
           j == Reread(a)
<1>1. /\ IsTree(a)
      /\ a[<<>>] = [kind |-> "object"]
      /\ \A k \in Strings : Has(a, k) <=> k \in DOMAIN o /\ o[k] # {}
      /\ \A k \in DOMAIN o : \A t \in o[k] : Child(a, k) = t
      /\ \A p \in DOMAIN a : p # <<>> => Head(p) \in DOMAIN o /\ o[Head(p)] # {}
  BY AboveFacts DEF JObject
<1> HIDE DEF a
<1>2. /\ IsTree(j) /\ DOMAIN j = DOMAIN a
      /\ \A p \in DOMAIN a : j[p] = NodeReread(a[p])
      /\ \A k \in Strings : /\ Has(j, k) <=> Has(a, k)
                            /\ Has(a, k) => Child(j, k) = Reread(Child(a, k))
  BY <1>1, RereadFacts DEF Reread
<1> HIDE DEF j
<1>3. <<>> \in DOMAIN a
  BY <1>1 DEF IsTree
<1>4. j[<<>>] = [kind |-> "object"]
  <2>1. NodeReread([kind |-> "object"]) = [kind |-> "object"]
    BY DEF NodeReread
  <2> QED BY <1>1, <1>2, <1>3, <2>1
<1>5. \A k \in Strings : Has(j, k) <=> k \in DOMAIN o /\ o[k] # {}
  BY <1>1, <1>2
<1>6. ASSUME NEW k \in DOMAIN o, NEW t \in o[k]
      PROVE  Child(j, k) = Reread(t) /\ j[<<k>>] = NodeReread(t[<<>>])
  <2>1. k \in Strings /\ IsTree(t) /\ Has(a, k) /\ Child(a, k) = t
    BY <1>1 DEF Members
  <2>2. Child(j, k) = Reread(t)
    BY <1>2, <2>1
  <2>3. t[<<>>] = a[<<k>>] /\ <<k>> \in DOMAIN a
    BY <1>1, <2>1, ChildFacts DEF Has
  <2> QED BY <1>2, <2>2, <2>3
<1>7. [kind |-> "object"] \in ParsedNodes
  BY DEF ParsedNodes
<1> QED BY <1>1, <1>2, <1>4, <1>5, <1>6, <1>7 DEF j, a, Kind

(* It is parsed if its members are. *)
LEMMA ObjectParsed ==
  ASSUME NEW o, Members(o), \A k \in DOMAIN o : \A t \in o[k] : IsParsed(Reread(t))
  PROVE  IsParsed(Reread(JObject(o)))
<1> DEFINE j == Reread(JObject(o))
<1>1. /\ IsTree(j)
      /\ j[<<>>] \in ParsedNodes
      /\ \A p \in DOMAIN j : p # <<>> => Head(p) \in DOMAIN o /\ o[Head(p)] # {}
      /\ \A k \in DOMAIN o : \A t \in o[k] : Child(j, k) = Reread(t)
  BY ObjectAcross
<1> HIDE DEF j
<1>2. ASSUME NEW p \in DOMAIN j, p # <<>>
      PROVE  j[p] \in ParsedNodes
  <2> DEFINE k == Head(p)
             q == Tail(p)
  <2>1. k \in Strings /\ q \in Seq(Strings) /\ p = <<k>> \o q
    BY <1>1, <1>2, PathSplit DEF IsTree
  <2>2. k \in DOMAIN o /\ o[k] # {}
    BY <1>1, <1>2
  <2> HIDE DEF k, q
  <2>3. q \in DOMAIN Child(j, k) /\ Child(j, k)[q] = j[p]
    BY <1>1, <2>1, ChildFacts
  <2>4. IsParsed(Child(j, k))
    BY <1>1, <2>2
  <2> QED BY <2>3, <2>4 DEF IsParsed
<1> QED BY <1>1, <1>2 DEF j, IsParsed

(* An optional member, as it is written: a tree or none, parsed if it is.  *)
LEMMA OptionAsMember ==
  ASSUME NEW v, OptionalValue(v)
  PROVE  /\ \/ {ValueToJson(x) : x \in v} = {}
            \/ \E t \in {ValueToJson(x) : x \in v} : {ValueToJson(x) : x \in v} = {t} /\ IsTree(t)
         /\ \A t \in {ValueToJson(x) : x \in v} : IsParsed(Reread(t))
         /\ {ValueToJson(x) : x \in v} = {} <=> v = {}
<1>1. CASE v = {}
  BY <1>1
<1>2. CASE v # {}
  <2>1. PICK x \in v : v = {x} /\ IsValue(x)
    BY <1>2 DEF OptionalValue
  <2>2. {ValueToJson(y) : y \in v} = {ValueToJson(x)}
    BY <2>1
  <2>3. IsTree(ValueToJson(x)) /\ IsParsed(Reread(ValueToJson(x)))
    BY <2>1, ValueAcross
  <2> QED BY <1>2, <2>2, <2>3
<1> QED BY <1>1, <1>2

(* What is read of it is what JSON carries. *)
LEMMA OptionAcross ==
  ASSUME NEW o, Members(o), NEW k \in DOMAIN o, NEW v, OptionalValue(v),
         o[k] = {ValueToJson(x) : x \in v}
  PROVE  Read(Reread(JObject(o)), k) = CarriedOption(v)
<1> DEFINE j == Reread(JObject(o))
<1>1. /\ k \in Strings
      /\ Has(j, k) <=> o[k] # {}
      /\ \A t \in o[k] : Child(j, k) = Reread(t)
  BY ObjectAcross DEF Members
<1> HIDE DEF j
<1>2. CASE v = {}
  BY <1>1, <1>2 DEF Read, CarriedOption, j
<1>3. CASE v # {}
  <2>1. PICK x \in v : v = {x} /\ IsValue(x)
    BY <1>3 DEF OptionalValue
  <2>2. o[k] = {ValueToJson(x)}
    BY <2>1
  <2>3. JsonToValue(Reread(ValueToJson(x))) = Carried(x)
    BY <2>1, ValueAcross
  <2>4. Read(j, k) = {Carried(x)}
    BY <1>1, <2>2, <2>3 DEF Read
  <2> QED BY <2>1, <2>4 DEF CarriedOption, j
<1> QED BY <1>2, <1>3

-------------------------------------------------------------------------------
(* Requests *)

(* What the two functions that read return. *)
LEMMA AcceptedFacts ==
  /\ \A m : Accepted(m).message = {m}
  /\ \A why : Rejected(why).message = {}
BY DEF Accepted, Rejected

(* The string nodes of a document survive. *)
LEMMA StringNode ==
  ASSUME NEW s \in Strings
  PROVE  /\ NodeReread([kind |-> "string", string |-> s]) = [kind |-> "string", string |-> s]
         /\ [kind |-> "string", string |-> s] \in ParsedNodes
BY DEF NodeReread, ParsedNodes

(* So do documents that are a string. *)
LEMMA StringAcross ==
  ASSUME NEW s \in Strings
  PROVE  /\ IsTree(JString(s))
         /\ JString(s)[<<>>] = [kind |-> "string", string |-> s]
         /\ IsParsed(Reread(JString(s)))
<1> DEFINE node == [kind |-> "string", string |-> s]
<1>1. NodeReread(node) \in ParsedNodes
  BY StringNode
<1>2. JString(s) = Leaf(node)
  BY DEF JString
<1> HIDE DEF node
<1>3. IsTree(JString(s)) /\ JString(s)[<<>>] = node /\ IsParsed(Reread(JString(s)))
  BY <1>1, <1>2, LeafAcross
<1> QED BY <1>3 DEF node

(* A request that was composed, written and parsed: what is read is what   *)
(* JSON carries of it.                                                     *)
LEMMA RequestAcross ==
  ASSUME NEW req, IsRequest(req)
  PROVE  /\ IsParsed(Reread(RequestToJson(req)))
         /\ FromJsonRequest(Reread(RequestToJson(req))) =
              IF req.method = "" THEN Rejected("'method' cannot be empty")
              ELSE Accepted([method |-> req.method,
                             params |-> Carried(req.params),
                             id     |-> CarriedOption(req.id)])
<1>1. /\ req.method \in Strings
      /\ IsValue(req.params) /\ req.params[<<>>].type = "Array"
      /\ OptionalValue(req.id)
  BY DEF IsRequest, OptionalValue
<1> DEFINE o == [jsonrpc |-> {JString("2.0")},
                 method  |-> {JString(req.method)},
                 params  |-> {ValueToJson(req.params)},
                 id      |-> {ValueToJson(v) : v \in req.id}]
           j == Reread(JObject(o))
<1>2. RequestToJson(req) = JObject(o)
  BY DEF RequestToJson, IdMember
<1>3. /\ DOMAIN o = {"jsonrpc", "method", "params", "id"}
      /\ o["jsonrpc"] = {JString("2.0")}
      /\ o["method"] = {JString(req.method)}
      /\ o["params"] = {ValueToJson(req.params)}
      /\ o["id"] = {ValueToJson(v) : v \in req.id}
  OBVIOUS
<1> HIDE DEF o
<1>4. /\ IsTree(JString("2.0")) /\ IsParsed(Reread(JString("2.0")))
      /\ IsTree(JString(req.method)) /\ IsParsed(Reread(JString(req.method)))
      /\ JString(req.method)[<<>>] = [kind |-> "string", string |-> req.method]
  <2>1. "2.0" \in Strings
    BY KnownStrings DEF Texts
  <2> QED BY <1>1, <2>1, StringAcross, Zenon
<1>5. /\ IsTree(ValueToJson(req.params))
      /\ IsParsed(Reread(ValueToJson(req.params)))
      /\ JsonToValue(Reread(ValueToJson(req.params))) = Carried(req.params)
  BY <1>1, ValueAcross
<1>6. /\ o["id"] = {} \/ \E t \in o["id"] : o["id"] = {t} /\ IsTree(t)
      /\ \A t \in o["id"] : IsParsed(Reread(t))
  BY <1>1, <1>3, OptionAsMember
<1>7. Members(o)
  <2>1. DOMAIN o \subseteq Strings
    BY <1>3, JsonAssumption DEF Keys
  <2>2. ASSUME NEW k \in DOMAIN o
        PROVE  o[k] = {} \/ \E t \in o[k] : o[k] = {t} /\ IsTree(t)
    <3>1. k \in {"jsonrpc", "method", "params", "id"}
      BY <1>3
    <3>2. \A t : IsTree(t) => \E u \in {t} : {t} = {u} /\ IsTree(u)
      OBVIOUS
    <3> QED BY <1>3, <1>4, <1>5, <1>6, <3>1, <3>2, Zenon
  <2> QED BY <2>1, <2>2 DEF Members
<1>8. \A k \in DOMAIN o : \A t \in o[k] : IsParsed(Reread(t))
  BY <1>3, <1>4, <1>5, <1>6
<1>9. IsParsed(j)
  BY <1>7, <1>8, ObjectParsed
<1>10. /\ Kind(j) = "object"
       /\ Has(j, "method") /\ Has(j, "params")
       /\ j[<<"method">>] = NodeReread(JString(req.method)[<<>>])
       /\ j[<<"params">>] = NodeReread(ValueToJson(req.params)[<<>>])
       /\ Child(j, "params") = Reread(ValueToJson(req.params))
  <2>1. Kind(j) = "object" /\ \A k \in Strings : Has(j, k) <=> k \in DOMAIN o /\ o[k] # {}
    BY <1>7, ObjectAcross
  <2>2. \A k \in DOMAIN o : \A t \in o[k] :
          Child(j, k) = Reread(t) /\ j[<<k>>] = NodeReread(t[<<>>])
    BY <1>7, ObjectAcross
  <2> HIDE DEF j
  <2>3. Has(j, "method") /\ Has(j, "params")
    BY <1>3, <2>1, JsonAssumption DEF Keys
  <2>4. j[<<"method">>] = NodeReread(JString(req.method)[<<>>])
    BY <1>3, <2>2
  <2>5. /\ j[<<"params">>] = NodeReread(ValueToJson(req.params)[<<>>])
        /\ Child(j, "params") = Reread(ValueToJson(req.params))
    BY <1>3, <2>2
  <2> QED BY <2>1, <2>3, <2>4, <2>5
<1>11. Read(j, "id") = CarriedOption(req.id)
  BY <1>1, <1>3, <1>7, OptionAcross
<1> HIDE DEF j
<1>12. j[<<"method">>].kind = "string" /\ j[<<"method">>].string = req.method
  <2>1. j[<<"method">>] = [kind |-> "string", string |-> req.method]
    BY <1>1, <1>4, <1>10, StringNode, Zenon
  <2> QED BY <2>1
<1>13. j[<<"params">>].kind = "array"
  <2>1. ValueToJson(req.params)[<<>>] = NodeToJson(req.params[<<>>])
    BY <1>1 DEF ValueToJson, IsValue, IsTree
  <2>2. NodeToJson(req.params[<<>>]) = [kind |-> "array"]
    BY <1>1 DEF NodeToJson
  <2>3. NodeReread([kind |-> "array"]) = [kind |-> "array"]
    BY DEF NodeReread
  <2> QED BY <1>10, <2>1, <2>2, <2>3
<1>14. FromJsonRequest(j) =
         IF req.method = "" THEN Rejected("'method' cannot be empty")
         ELSE Accepted([method |-> req.method,
                        params |-> Carried(req.params),
                        id     |-> CarriedOption(req.id)])
  BY <1>5, <1>10, <1>11, <1>12, <1>13 DEF FromJsonRequest
<1> QED BY <1>2, <1>9, <1>14 DEF j

(* A member that was read is a Value that JSON carries whole, or none. *)
LEMMA OptionRead ==
  ASSUME NEW j, IsParsed(j), NEW k \in Strings
  PROVE  OptionalValue(Read(j, k)) /\ CarriedOption(Read(j, k)) = Read(j, k)
<1>1. CASE ~Has(j, k)
  BY <1>1 DEF Read, OptionalValue, CarriedOption
<1>2. CASE Has(j, k)
  <2> DEFINE v == JsonToValue(Child(j, k))
  <2>1. IsValue(v) /\ Carried(v) = v
    BY <1>2, ParsedChild, DocumentBack
  <2>2. Read(j, k) = {v}
    BY <1>2 DEF Read
  <2> HIDE DEF v
  <2> QED BY <2>1, <2>2 DEF OptionalValue, CarriedOption
<1> QED BY <1>1, <1>2

(* A line is a document that was parsed, or garbage. *)
LEMMA GarbageKind ==
  ASSUME NEW b \in BOOLEAN
  PROVE  Kind(Garbage(b)) = "garbage"
<1> DEFINE node == [kind |-> "garbage", utf8 |-> b]
<1>1. Garbage(b) = Leaf(node)
  BY DEF Garbage
<1>2. node.kind = "garbage"
  OBVIOUS
<1> HIDE DEF node
<1>3. Garbage(b)[<<>>] = node
  BY <1>1, LeafFacts
<1> QED BY <1>2, <1>3, Zenon DEF Kind

(* What is not garbage was parsed. *)
LEMMA TextKinds ==
  ASSUME NEW j, IsText(j), Kind(j) # "garbage"
  PROVE  IsParsed(j)
BY GarbageKind DEF IsText

(* An array without elements is a Value that JSON carries whole. *)
LEMMA NoParams ==
  /\ IsValue(VArray(<<>>)) /\ VArray(<<>>)[<<>>] = [type |-> "Array"]
  /\ Carried(VArray(<<>>)) = VArray(<<>>)
  /\ \A k \in Strings : ~Has(VArray(<<>>), k)
<1> DEFINE v == VArray(<<>>)
<1>1. Members(<<>>)
  BY DEF Members
<1>2. /\ IsTree(v)
      /\ v[<<>>] = [type |-> "Array"]
      /\ \A k \in Strings : ~Has(v, k)
      /\ \A p \in DOMAIN v : p = <<>>
  BY <1>1, AboveFacts DEF VArray
<1> HIDE DEF v
<1>3. [type |-> "Array"] \in ValueNodes /\ CarriedNode([type |-> "Array"]) = [type |-> "Array"]
  BY DEF ValueNodes, CarriedNode
<1>4. IsValue(v)
  BY <1>2, <1>3 DEF IsValue
<1>5. \A p \in DOMAIN v : CarriedNode(v[p]) = v[p]
  BY <1>2, <1>3
<1>6. v = [p \in DOMAIN v |-> v[p]]
  BY <1>2 DEF IsTree
<1>7. Carried(v) = v
  BY <1>5, <1>6 DEF Carried
<1> QED BY <1>2, <1>4, <1>7 DEF v

(* What is read of a line as a request: its members, as Values that JSON   *)
(* carries whole.                                                          *)
LEMMA RequestRead ==
  ASSUME NEW j, IsText(j), NEW req \in FromJsonRequest(j).message
  PROVE  /\ FromJsonRequest(j) = Accepted(req)
         /\ IsParsed(j) /\ Kind(j) = "object"
         /\ IsRequest(req)
         /\ req.method = j[<<"method">>].string /\ req.method # ""
         /\ Carried(req.params) = req.params
         /\ Has(j, "params") => req.params = JsonToValue(Child(j, "params"))
         /\ req.id = Read(j, "id")
         /\ CarriedOption(req.id) = req.id
<1> DEFINE params == IF Has(j, "params") THEN JsonToValue(Child(j, "params")) ELSE VArray(<<>>)
           r == [method |-> j[<<"method">>].string, params |-> params, id |-> Read(j, "id")]
<1>1. /\ Kind(j) = "object"
      /\ Has(j, "method") /\ j[<<"method">>].kind = "string" /\ j[<<"method">>].string # ""
      /\ Has(j, "params") => j[<<"params">>].kind = "array"
      /\ FromJsonRequest(j) = Accepted(r)
  BY DEF FromJsonRequest, Rejected, Accepted
<1>2. req = r
  <2> HIDE DEF r
  <2>1. FromJsonRequest(j).message = {r}
    BY <1>1, AcceptedFacts, Zenon
  <2> QED BY <2>1
<1>3. IsParsed(j)
  BY <1>1, TextKinds
<1>4. r.method \in Strings
  <2>1. j[<<"method">>] \in ParsedNodes
    BY <1>1, <1>3 DEF IsParsed, Has
  <2>2. j[<<"method">>].string \in Strings
    BY <1>1, <2>1 DEF ParsedNodes
  <2> QED BY <2>2
<1>5. IsValue(params) /\ params[<<>>].type = "Array" /\ Carried(params) = params
  <2>1. CASE Has(j, "params")
    <3> DEFINE c == Child(j, "params")
    <3>1. IsParsed(c) /\ c[<<>>] = j[<<"params">>]
      <4>1. "params" \in Strings
        BY JsonAssumption DEF Keys
      <4> QED BY <1>3, <2>1, <4>1, ParsedChild, ChildFacts, Zenon DEF IsParsed
    <3>2. c[<<>>].kind = "array"
      BY <1>1, <2>1, <3>1
    <3>3. params = JsonToValue(c)
      BY <2>1
    <3> HIDE DEF c, params
    <3>4. IsValue(params) /\ Carried(params) = params /\ params[<<>>] = NodeToValue(c[<<>>])
      BY <3>1, <3>3, DocumentBack
    <3>5. NodeToValue(c[<<>>]) = [type |-> "Array"]
      BY <3>2 DEF NodeToValue
    <3> QED BY <3>4, <3>5
  <2>2. CASE ~Has(j, "params")
    BY <2>2, NoParams
  <2> QED BY <2>1, <2>2
<1>6. OptionalValue(r.id) /\ CarriedOption(r.id) = r.id
  <2>1. "id" \in Strings /\ r.id = Read(j, "id")
    BY JsonAssumption DEF Keys
  <2> HIDE DEF r
  <2> QED BY <1>3, <2>1, OptionRead, Zenon
<1>7. r = [method |-> r.method, params |-> r.params, id |-> r.id] /\ r.params = params
  OBVIOUS
<1>8. Has(j, "params") => r.params = JsonToValue(Child(j, "params"))
  OBVIOUS
<1>9. r.method = j[<<"method">>].string /\ r.id = Read(j, "id")
  OBVIOUS
<1> HIDE DEF params, r
<1>10. IsRequest(r)
  BY <1>4, <1>5, <1>6, <1>7 DEF IsRequest, OptionalValue
<1> QED BY <1>1, <1>2, <1>3, <1>5, <1>6, <1>7, <1>8, <1>9, <1>10

-------------------------------------------------------------------------------
(* Responses *)

IsError(e) ==
  /\ e = [code |-> e.code, text |-> e.text, data |-> e.data]
  /\ e.code \in Ints
  /\ e.text \in Strings
  /\ OptionalValue(e.data)

IsResponse(res) ==
  /\ res = [result |-> res.result, error |-> res.error, id |-> res.id]
  /\ OptionalValue(res.result)
  /\ res.error = {} \/ \E e \in res.error : res.error = {e} /\ IsError(e)
  /\ res.result = {} \/ res.error = {}
  /\ OptionalValue(res.id)

CarriedError(e) == [code |-> e.code, text |-> e.text, data |-> CarriedOption(e.data)]

(* The code of an error survives, whatever its sign. *)
LEMMA CodeAcross ==
  ASSUME NEW n \in Ints
  PROVE  /\ IsTree(JInteger(n))
         /\ IsParsed(Reread(JInteger(n)))
         /\ IsCode(NodeReread(JInteger(n)[<<>>]))
         /\ CodeOf(NodeReread(JInteger(n)[<<>>])) = n
<1> DEFINE node == [kind |-> "integer", num |-> n]
<1>0. n \in Int /\ ToInt(n) = n
  BY IntRange, JsonAssumption DEF Ints
<1>1. /\ NodeReread(node) \in ParsedNodes
      /\ IsCode(NodeReread(node)) /\ CodeOf(NodeReread(node)) = n
  <2>1. CASE n >= 0
    <3>1. NodeReread(node) = [kind |-> "unsigned", num |-> n]
      BY <1>0, <2>1 DEF NodeReread
    <3> QED BY <1>0, <2>1, <3>1 DEF ParsedNodes, IsCode, CodeOf
  <2>2. CASE ~(n >= 0)
    <3>1. NodeReread(node) = [kind |-> "integer", num |-> n]
      BY <1>0, <2>2 DEF NodeReread
    <3> QED BY <1>0, <2>2, <3>1 DEF ParsedNodes, IsCode, CodeOf
  <2> QED BY <2>1, <2>2
<1>2. JInteger(n) = Leaf(node)
  BY DEF JInteger
<1> HIDE DEF node
<1>3. IsTree(JInteger(n)) /\ JInteger(n)[<<>>] = node /\ IsParsed(Reread(JInteger(n)))
  BY <1>1, <1>2, LeafAcross
<1> QED BY <1>1, <1>3

(* The members of an error. *)
ErrorObject(e) == [code    |-> {JInteger(e.code)},
                   message |-> {JString(e.text)},
                   data    |-> {ValueToJson(v) : v \in e.data}]

(* An error that was written and parsed: what is read is what JSON carries. *)
LEMMA ErrorAcross ==
  ASSUME NEW e, IsError(e)
  PROVE  /\ IsTree(ErrorToJson(e))
         /\ ErrorToJson(e) = JObject(ErrorObject(e)) /\ Members(ErrorObject(e))
         /\ IsParsed(Reread(ErrorToJson(e)))
         /\ FromJsonError(Reread(ErrorToJson(e))) = Accepted(CarriedError(e))
<1>1. e.code \in Ints /\ e.text \in Strings /\ OptionalValue(e.data)
  BY DEF IsError
<1> DEFINE o == ErrorObject(e)
           j == Reread(JObject(o))
<1>2. ErrorToJson(e) = JObject(o)
  BY DEF ErrorToJson, ErrorObject
<1>3. /\ DOMAIN o = {"code", "message", "data"}
      /\ o["code"] = {JInteger(e.code)}
      /\ o["message"] = {JString(e.text)}
      /\ o["data"] = {ValueToJson(v) : v \in e.data}
  BY DEF ErrorObject
<1> HIDE DEF o
<1>4. /\ IsTree(JInteger(e.code)) /\ IsParsed(Reread(JInteger(e.code)))
      /\ IsCode(NodeReread(JInteger(e.code)[<<>>]))
      /\ CodeOf(NodeReread(JInteger(e.code)[<<>>])) = e.code
  BY <1>1, CodeAcross
<1>5. /\ IsTree(JString(e.text)) /\ IsParsed(Reread(JString(e.text)))
      /\ NodeReread(JString(e.text)[<<>>]) = [kind |-> "string", string |-> e.text]
  BY <1>1, StringAcross, StringNode
<1>6. /\ o["data"] = {} \/ \E t \in o["data"] : o["data"] = {t} /\ IsTree(t)
      /\ \A t \in o["data"] : IsParsed(Reread(t))
  BY <1>1, <1>3, OptionAsMember
<1>7. Members(o)
  <2>1. DOMAIN o \subseteq Strings
    BY <1>3, JsonAssumption DEF Keys
  <2>2. ASSUME NEW k \in DOMAIN o
        PROVE  o[k] = {} \/ \E t \in o[k] : o[k] = {t} /\ IsTree(t)
    <3>1. k \in {"code", "message", "data"}
      BY <1>3
    <3>2. \A t : IsTree(t) => \E u \in {t} : {t} = {u} /\ IsTree(u)
      OBVIOUS
    <3> QED BY <1>3, <1>4, <1>5, <1>6, <3>1, <3>2, Zenon
  <2> QED BY <2>1, <2>2 DEF Members
<1>8. \A k \in DOMAIN o : \A t \in o[k] : IsParsed(Reread(t))
  BY <1>3, <1>4, <1>5, <1>6
<1>9. IsParsed(j) /\ IsTree(JObject(o))
  BY <1>7, <1>8, ObjectParsed, ObjectAcross
<1>10. /\ Kind(j) = "object" /\ Has(j, "code") /\ Has(j, "message")
       /\ j[<<"code">>] = NodeReread(JInteger(e.code)[<<>>])
       /\ j[<<"message">>] = NodeReread(JString(e.text)[<<>>])
  <2>1. Kind(j) = "object" /\ \A k \in Strings : Has(j, k) <=> k \in DOMAIN o /\ o[k] # {}
    BY <1>7, ObjectAcross
  <2>2. \A k \in DOMAIN o : \A t \in o[k] : j[<<k>>] = NodeReread(t[<<>>])
    BY <1>7, ObjectAcross
  <2> HIDE DEF j
  <2>3. Has(j, "code") /\ Has(j, "message")
    BY <1>3, <2>1, JsonAssumption DEF Keys
  <2> QED BY <1>3, <2>1, <2>2, <2>3
<1>11. Read(j, "data") = CarriedOption(e.data)
  BY <1>1, <1>3, <1>7, OptionAcross
<1> HIDE DEF j
<1>12. /\ IsCode(j[<<"code">>]) /\ CodeOf(j[<<"code">>]) = e.code
       /\ j[<<"message">>].kind = "string" /\ j[<<"message">>].string = e.text
  <2>1. j[<<"message">>] = [kind |-> "string", string |-> e.text]
    BY <1>5, <1>10, Zenon
  <2> QED BY <1>4, <1>10, <2>1
<1>13. FromJsonError(j) = Accepted(CarriedError(e))
  BY <1>10, <1>11, <1>12 DEF FromJsonError, CarriedError
<1> QED BY <1>2, <1>7, <1>9, <1>13 DEF j, o

(* What a response is written as: the result or the error, or a result     *)
(* that is null if there is neither.                                       *)
CarriedResponse(res) ==
  [result |-> IF res.result = {} /\ res.error = {} THEN {VNull} ELSE CarriedOption(res.result),
   error  |-> {CarriedError(e) : e \in res.error},
   id     |-> CarriedOption(res.id)]

(* A null that was written is read. *)
LEMMA NullAcross ==
  /\ IsTree(JNull) /\ IsParsed(Reread(JNull)) /\ JsonToValue(Reread(JNull)) = VNull
  /\ IsValue(VNull) /\ Carried(VNull) = VNull
<1> DEFINE n == [type |-> "Null"]
<1>1. /\ n \in ValueNodes
      /\ CarriedNode(n) = n
      /\ NodeToJson(n) = [kind |-> "null"]
  BY DEF ValueNodes, CarriedNode, NodeToJson
<1>2. VNull = Leaf(n) /\ JNull = Leaf([kind |-> "null"])
  BY DEF VNull, JNull
<1> HIDE DEF n
<1>3. IsTree(VNull) /\ DOMAIN VNull = {<<>>} /\ VNull[<<>>] = n
  BY <1>2, LeafFacts
<1>4. IsValue(VNull)
  BY <1>1, <1>3 DEF IsValue
<1>5. ValueToJson(VNull) = JNull
  BY <1>1, <1>2, <1>3 DEF ValueToJson, Leaf
<1>6. Carried(VNull) = VNull
  BY <1>1, <1>2, <1>3 DEF Carried, Leaf
<1> QED BY <1>4, <1>5, <1>6, ValueAcross

(* The members of a response. *)
ResponseObject(res) == [jsonrpc |-> {JString("2.0")},
                        result  |-> ResultMember(res),
                        error   |-> ErrorMember(res),
                        id      |-> {ValueToJson(v) : v \in res.id}]

(* The members of a response on the line. *)
LEMMA ResponseMembers ==
  ASSUME NEW res, IsResponse(res)
  PROVE  LET j == Reread(ResponseToJson(res))
         IN  /\ ResponseToJson(res) = JObject(ResponseObject(res))
             /\ Members(ResponseObject(res))
             /\ IsParsed(j) /\ Kind(j) = "object"
             /\ \A v \in res.result : j[<<"result">>] = NodeReread(NodeToJson(v[<<>>]))
             /\ Read(j, "result") = IF res.result = {} /\ res.error = {} THEN {VNull}
                                    ELSE CarriedOption(res.result)
             /\ Has(j, "result") <=> res.error = {}
             /\ Has(j, "error") <=> res.error # {}
             /\ \A e \in res.error : Child(j, "error") = Reread(ErrorToJson(e))
             /\ Read(j, "id") = CarriedOption(res.id)
             /\ Has(j, "id") <=> res.id # {}
             /\ \A v \in res.id : Child(j, "id") = Reread(ValueToJson(v))
<1>1. /\ OptionalValue(res.result) /\ OptionalValue(res.id)
      /\ res.error = {} \/ \E e \in res.error : res.error = {e} /\ IsError(e)
      /\ res.result = {} \/ res.error = {}
  BY DEF IsResponse
<1> DEFINE o == ResponseObject(res)
           j == Reread(JObject(o))
<1>2. ResponseToJson(res) = JObject(o)
  BY DEF ResponseToJson, IdMember, ResponseObject
<1>3. /\ DOMAIN o = {"jsonrpc", "result", "error", "id"}
      /\ o["jsonrpc"] = {JString("2.0")}
      /\ o["result"] = ResultMember(res)
      /\ o["error"] = ErrorMember(res)
      /\ o["id"] = {ValueToJson(v) : v \in res.id}
  BY DEF ResponseObject
<1> HIDE DEF o
<1>4. IsTree(JString("2.0")) /\ IsParsed(Reread(JString("2.0")))
  <2>1. "2.0" \in Strings
    BY KnownStrings DEF Texts
  <2> QED BY <2>1, StringAcross, Zenon
<1>5. /\ o["id"] = {} \/ \E t \in o["id"] : o["id"] = {t} /\ IsTree(t)
      /\ \A t \in o["id"] : IsParsed(Reread(t))
      /\ o["id"] = {} <=> res.id = {}
  BY <1>1, <1>3, OptionAsMember
<1>6. /\ o["result"] = {} \/ \E t \in o["result"] : o["result"] = {t} /\ IsTree(t)
      /\ \A t \in o["result"] : IsParsed(Reread(t))
      /\ o["result"] = {} <=> res.error # {}
  <2>1. CASE res.result = {} /\ res.error = {}
    BY <1>3, <2>1, NullAcross DEF ResultMember
  <2>2. CASE ~(res.result = {} /\ res.error = {})
    <3>1. o["result"] = {ValueToJson(v) : v \in res.result}
      BY <1>3, <2>2 DEF ResultMember
    <3> QED BY <1>1, <2>2, <3>1, OptionAsMember
  <2> QED BY <2>1, <2>2
<1>7. /\ o["error"] = {} \/ \E t \in o["error"] : o["error"] = {t} /\ IsTree(t)
      /\ \A t \in o["error"] : IsParsed(Reread(t))
      /\ o["error"] = {} <=> res.error = {}
      /\ \A e \in res.error : o["error"] = {ErrorToJson(e)}
  <2>1. CASE res.error = {}
    BY <1>3, <2>1 DEF ErrorMember
  <2>2. CASE res.error # {}
    <3>1. PICK e \in res.error : res.error = {e} /\ IsError(e)
      BY <1>1, <2>2
    <3>2. o["error"] = {ErrorToJson(e)}
      BY <1>1, <1>3, <3>1 DEF ErrorMember
    <3>3. IsTree(ErrorToJson(e)) /\ IsParsed(Reread(ErrorToJson(e)))
      BY <3>1, ErrorAcross
    <3> QED BY <3>1, <3>2, <3>3
  <2> QED BY <2>1, <2>2
<1>8. Members(o)
  <2>1. DOMAIN o \subseteq Strings
    BY <1>3, JsonAssumption DEF Keys
  <2>2. ASSUME NEW k \in DOMAIN o
        PROVE  o[k] = {} \/ \E t \in o[k] : o[k] = {t} /\ IsTree(t)
    <3>1. k \in {"jsonrpc", "result", "error", "id"}
      BY <1>3
    <3>2. \A t : IsTree(t) => \E u \in {t} : {t} = {u} /\ IsTree(u)
      OBVIOUS
    <3> QED BY <1>3, <1>4, <1>5, <1>6, <1>7, <3>1, <3>2, Zenon
  <2> QED BY <2>1, <2>2 DEF Members
<1>9. \A k \in DOMAIN o : \A t \in o[k] : IsParsed(Reread(t))
  BY <1>3, <1>4, <1>5, <1>6, <1>7
<1>10. IsParsed(j)
  BY <1>8, <1>9, ObjectParsed
<1>11. Kind(j) = "object" /\ \A k \in Strings : Has(j, k) <=> k \in DOMAIN o /\ o[k] # {}
  BY <1>8, ObjectAcross
<1>12. \A k \in DOMAIN o : \A t \in o[k] :
         Child(j, k) = Reread(t) /\ j[<<k>>] = NodeReread(t[<<>>])
  BY <1>8, ObjectAcross
<1>13. Read(j, "id") = CarriedOption(res.id)
  BY <1>1, <1>3, <1>8, OptionAcross
<1>14. res.result # {} => Read(j, "result") = CarriedOption(res.result)
  <2>1. ASSUME res.result # {}
        PROVE  o["result"] = {ValueToJson(v) : v \in res.result}
    BY <1>3, <2>1 DEF ResultMember
  <2> QED BY <1>1, <1>3, <1>8, <2>1, OptionAcross
<1> HIDE DEF j
<1>15. /\ Has(j, "result") <=> res.error = {}
       /\ Has(j, "error") <=> res.error # {}
       /\ Has(j, "id") <=> res.id # {}
  BY <1>3, <1>5, <1>6, <1>7, <1>11, JsonAssumption DEF Keys
<1>16. ASSUME NEW v \in res.result
       PROVE  j[<<"result">>] = NodeReread(NodeToJson(v[<<>>]))
  <2>1. IsValue(v)
    BY <1>1 DEF OptionalValue
  <2>2. ValueToJson(v) \in o["result"]
    BY <1>3 DEF ResultMember
  <2>3. j[<<"result">>] = NodeReread(ValueToJson(v)[<<>>])
    BY <1>3, <1>12, <2>2
  <2>4. ValueToJson(v)[<<>>] = NodeToJson(v[<<>>])
    BY <2>1 DEF ValueToJson, IsValue, IsTree
  <2> QED BY <2>3, <2>4
<1>17. Read(j, "result") = IF res.result = {} /\ res.error = {} THEN {VNull}
                           ELSE CarriedOption(res.result)
  <2>1. CASE res.result = {} /\ res.error = {}
    <3>1. JNull \in o["result"]
      BY <1>3, <2>1 DEF ResultMember
    <3>2. Child(j, "result") = Reread(JNull)
      BY <1>3, <1>12, <3>1
    <3> QED BY <1>15, <2>1, <3>2, NullAcross DEF Read
  <2>2. CASE res.error # {}
    BY <1>1, <1>15, <2>2 DEF Read, CarriedOption
  <2>3. CASE res.result # {}
    BY <1>14, <2>3
  <2> QED BY <2>1, <2>2, <2>3
<1>18. \A e \in res.error : Child(j, "error") = Reread(ErrorToJson(e))
  BY <1>3, <1>7, <1>12
<1>19. \A v \in res.id : Child(j, "id") = Reread(ValueToJson(v))
  BY <1>3, <1>12
<1> QED BY <1>2, <1>8, <1>10, <1>11, <1>13, <1>15, <1>16, <1>17, <1>18, <1>19 DEF j, o

(* A response that was made, written and parsed: what is read is what JSON *)
(* carries of it.                                                          *)
LEMMA ResponseAcross ==
  ASSUME NEW res, IsResponse(res)
  PROVE  /\ IsParsed(Reread(ResponseToJson(res)))
         /\ FromJsonResponse(Reread(ResponseToJson(res))) = Accepted(CarriedResponse(res))
<1> DEFINE j == Reread(ResponseToJson(res))
<1>1. /\ IsParsed(j) /\ Kind(j) = "object"
      /\ Read(j, "result") = IF res.result = {} /\ res.error = {} THEN {VNull}
                             ELSE CarriedOption(res.result)
      /\ Has(j, "result") <=> res.error = {}
      /\ Has(j, "error") <=> res.error # {}
      /\ Read(j, "id") = CarriedOption(res.id)
  BY ResponseMembers
<1>2. \A e \in res.error : Child(j, "error") = Reread(ErrorToJson(e))
  BY ResponseMembers
<1> HIDE DEF j
<1>3. CASE res.error = {}
  <2>1. FromJsonResponse(j) =
          Accepted([result |-> Read(j, "result"), error |-> {}, id |-> Read(j, "id")])
    BY <1>1, <1>3 DEF FromJsonResponse
  <2>2. CarriedResponse(res) = [result |-> Read(j, "result"), error |-> {}, id |-> Read(j, "id")]
    BY <1>1, <1>3 DEF CarriedResponse
  <2> QED BY <1>1, <2>1, <2>2 DEF j
<1>4. CASE res.error # {}
  <2>1. PICK e \in res.error : res.error = {e} /\ IsError(e) /\ res.result = {}
    BY <1>4 DEF IsResponse
  <2>2. FromJsonError(Child(j, "error")) = Accepted(CarriedError(e))
    BY <1>2, <2>1, ErrorAcross
  <2>3. FromJsonError(Child(j, "error")).message = {CarriedError(e)}
    BY <2>2, AcceptedFacts, Zenon
  <2>4. FromJsonResponse(j) =
          Accepted([result |-> {}, error |-> {CarriedError(e)}, id |-> Read(j, "id")])
    BY <1>1, <1>4, <2>3 DEF FromJsonResponse
  <2>5. CarriedResponse(res) = [result |-> {}, error |-> {CarriedError(e)}, id |-> Read(j, "id")]
    BY <1>1, <2>1 DEF CarriedResponse, CarriedOption
  <2> QED BY <1>1, <2>4, <2>5 DEF j
<1> QED BY <1>3, <1>4

(* What is read of a line as an error. *)
LEMMA ErrorRead ==
  ASSUME NEW j, IsParsed(j), NEW e \in FromJsonError(j).message
  PROVE  FromJsonError(j) = Accepted(e) /\ IsError(e) /\ CarriedError(e) = e
<1> DEFINE r == [code |-> CodeOf(j[<<"code">>]),
                 text |-> j[<<"message">>].string,
                 data |-> Read(j, "data")]
<1>1. /\ Has(j, "code") /\ Has(j, "message")
      /\ IsCode(j[<<"code">>]) /\ j[<<"message">>].kind = "string"
      /\ FromJsonError(j) = Accepted(r)
  BY DEF FromJsonError, Rejected, Accepted
<1>2. r = [code |-> r.code, text |-> r.text, data |-> r.data]
  OBVIOUS
<1>3. r.code \in Ints
  <2>1. j[<<"code">>] \in ParsedNodes
    BY <1>1 DEF IsParsed, Has
  <2>2. \A n \in Int : ToInt(n) \in Ints
    BY IntRange
  <2>3. 0 \in Ints /\ 1 \in Ints
    BY JsonAssumption DEF Ints
  <2>4. CodeOf(j[<<"code">>]) \in Ints
    BY <1>1, <2>1, <2>2, <2>3 DEF ParsedNodes, CodeOf, IsCode
  <2> QED BY <2>4
<1>4. r.text \in Strings
  <2>1. j[<<"message">>] \in ParsedNodes
    BY <1>1 DEF IsParsed, Has
  <2>2. j[<<"message">>].string \in Strings
    BY <1>1, <2>1 DEF ParsedNodes
  <2> QED BY <2>2
<1>5. OptionalValue(r.data) /\ CarriedOption(r.data) = r.data
  <2>1. "data" \in Strings /\ r.data = Read(j, "data")
    BY JsonAssumption DEF Keys
  <2> HIDE DEF r
  <2> QED BY <2>1, OptionRead, Zenon
<1> HIDE DEF r
<1>6. e = r
  <2>1. FromJsonError(j).message = {r}
    BY <1>1, AcceptedFacts, Zenon
  <2> QED BY <2>1
<1> QED BY <1>1, <1>2, <1>3, <1>4, <1>5, <1>6 DEF IsError, CarriedError

(* What is read of a line as a response. *)
LEMMA ResponseRead ==
  ASSUME NEW j, IsText(j), NEW res \in FromJsonResponse(j).message
  PROVE  /\ FromJsonResponse(j) = Accepted(res)
         /\ IsResponse(res)
         /\ CarriedOption(res.result) = res.result
         /\ {CarriedError(e) : e \in res.error} = res.error
         /\ CarriedOption(res.id) = res.id
<1> DEFINE f == FromJsonError(Child(j, "error"))
           errors == IF Has(j, "error") THEN f.message ELSE {}
           results == IF Has(j, "error") THEN {} ELSE Read(j, "result")
           r == [result |-> results, error |-> errors, id |-> Read(j, "id")]
<1>1. /\ Kind(j) = "object"
      /\ Has(j, "error") => f.message # {}
      /\ FromJsonResponse(j) = Accepted(r)
  <2> HIDE DEF f
  <2> QED BY DEF FromJsonResponse, Rejected, Accepted, f
<1>2. IsParsed(j)
  BY <1>1, TextKinds
<1>3. /\ errors = {} \/ \E e \in errors : errors = {e} /\ IsError(e)
      /\ {CarriedError(e) : e \in errors} = errors
  <2>1. CASE Has(j, "error")
    <3>1. PICK e \in f.message : TRUE
      BY <1>1, <2>1
    <3>2. IsParsed(Child(j, "error"))
      <4>1. "error" \in Strings
        BY JsonAssumption DEF Keys
      <4> QED BY <1>2, <2>1, <4>1, ParsedChild, Zenon
    <3>3. f = Accepted(e) /\ IsError(e) /\ CarriedError(e) = e
      BY <3>1, <3>2, ErrorRead
    <3>4. f.message = {e}
      BY <3>3, AcceptedFacts, Zenon
    <3>5. errors = {e}
      BY <2>1, <3>4
    <3> QED BY <3>3, <3>5
  <2>2. CASE ~Has(j, "error")
    BY <2>2
  <2> QED BY <2>1, <2>2
<1>4. OptionalValue(results) /\ CarriedOption(results) = results
  <2>1. CASE Has(j, "error")
    BY <2>1 DEF OptionalValue, CarriedOption
  <2>2. CASE ~Has(j, "error")
    <3>1. "result" \in Strings /\ results = Read(j, "result")
      BY <2>2, JsonAssumption DEF Keys
    <3> HIDE DEF results
    <3> QED BY <1>2, <3>1, OptionRead, Zenon
  <2> QED BY <2>1, <2>2
<1>5. OptionalValue(Read(j, "id")) /\ CarriedOption(Read(j, "id")) = Read(j, "id")
  <2>1. "id" \in Strings
    BY JsonAssumption DEF Keys
  <2> QED BY <1>2, <2>1, OptionRead, Zenon
<1>6. results = {} \/ errors = {}
  OBVIOUS
<1> HIDE DEF results, errors, f
<1>7. r = [result |-> r.result, error |-> r.error, id |-> r.id]
      /\ r.result = results /\ r.error = errors /\ r.id = Read(j, "id")
  OBVIOUS
<1> HIDE DEF r
<1>8. res = r
  <2>1. FromJsonResponse(j).message = {r}
    BY <1>1, AcceptedFacts, Zenon
  <2> QED BY <2>1
<1>9. IsResponse(r)
  BY <1>3, <1>4, <1>5, <1>6, <1>7 DEF IsResponse
<1> QED BY <1>1, <1>3, <1>4, <1>5, <1>7, <1>8, <1>9

-------------------------------------------------------------------------------
(* What dump() refuses *)

NotUtf8 == [kind |-> "string", string |-> "notUtf8"]

(* A leaf is written unless it is such a string. *)
LEMMA LeafDumps ==
  ASSUME NEW node
  PROVE  Dumps(Leaf(node)) <=> node # NotUtf8
<1>1. DOMAIN Leaf(node) = {<<>>} /\ Leaf(node)[<<>>] = node
  BY LeafFacts
<1>2. \A i \in DOMAIN <<>> : FALSE
  OBVIOUS
<1> QED BY <1>1, <1>2 DEF Dumps, NotUtf8

(* What was written and parsed can be written again. *)
LEMMA RereadDumps ==
  ASSUME NEW j, Dumps(j)
  PROVE  Dumps(Reread(j))
<1>1. ASSUME NEW n, n # NotUtf8
      PROVE  NodeReread(n) # NotUtf8
  BY <1>1 DEF NodeReread, NotUtf8
<1>2. /\ DOMAIN Reread(j) = DOMAIN j
      /\ \A p \in DOMAIN j : Reread(j)[p] = NodeReread(j[p])
  BY DEF Reread
<1>3. \A p \in DOMAIN j : j[p] # NotUtf8 /\ \A i \in DOMAIN p : p[i] # "notUtf8"
  BY DEF Dumps, NotUtf8
<1>4. \A p \in DOMAIN j : Reread(j)[p] # NotUtf8
  BY <1>1, <1>2, <1>3
<1> QED BY <1>2, <1>3, <1>4 DEF Dumps, NotUtf8

(* The texts on a path with one more step. *)
LEMMA PathTexts ==
  ASSUME NEW k \in Strings, NEW p \in Seq(Strings)
  PROVE  (\A i \in DOMAIN (<<k>> \o p) : (<<k>> \o p)[i] # "notUtf8")
           <=> k # "notUtf8" /\ \A i \in DOMAIN p : p[i] # "notUtf8"
<1> DEFINE q == <<k>> \o p
<1>1. <<k>> \in Seq(Strings) /\ Len(<<k>>) = 1 /\ <<k>>[1] = k
  BY Singleton, Zenon
<1>2. /\ q \in Seq(Strings)
      /\ Len(q) = 1 + Len(p)
      /\ \A i \in 1 .. 1 + Len(p) : q[i] = IF i <= 1 THEN <<k>>[i] ELSE p[i - 1]
  BY <1>1, ConcatProperties
<1> HIDE DEF q
<1>3. /\ DOMAIN q = 1 .. 1 + Len(p) /\ DOMAIN p = 1 .. Len(p) /\ Len(p) \in Nat
  BY <1>2
<1>4. q[1] = k /\ \A i \in 1 .. Len(p) : q[i + 1] = p[i]
  BY <1>1, <1>2, <1>3
<1>5. \A i \in 1 .. 1 + Len(p) : i = 1 \/ (i - 1 \in 1 .. Len(p) /\ q[i] = p[i - 1])
  BY <1>2, <1>3
<1>6. /\ 1 \in 1 .. 1 + Len(p)
      /\ \A i \in 1 .. Len(p) : i + 1 \in 1 .. 1 + Len(p)
  BY <1>3
<1>7. ASSUME \A i \in 1 .. 1 + Len(p) : q[i] # "notUtf8"
      PROVE  k # "notUtf8" /\ \A i \in 1 .. Len(p) : p[i] # "notUtf8"
  <2>1. k # "notUtf8"
    BY <1>4, <1>6, <1>7
  <2>2. ASSUME NEW i \in 1 .. Len(p)
        PROVE  p[i] # "notUtf8"
    BY <1>4, <1>6, <1>7
  <2> QED BY <2>1, <2>2
<1>8. ASSUME k # "notUtf8", \A i \in 1 .. Len(p) : p[i] # "notUtf8", NEW i \in 1 .. 1 + Len(p)
      PROVE  q[i] # "notUtf8"
  BY <1>4, <1>5, <1>8
<1> QED BY <1>3, <1>7, <1>8 DEF q

(* A tree can be written if its root and its children can. *)
LEMMA ChildDumps ==
  ASSUME NEW j, IsTree(j)
  PROVE  /\ \A k \in Strings : Dumps(j) => Dumps(Child(j, k))
         /\ /\ j[<<>>] # NotUtf8
            /\ \A p \in DOMAIN j : p # <<>> => Head(p) # "notUtf8" /\ Dumps(Child(j, Head(p)))
            => Dumps(j)
<1> DEFINE Clean(p) == \A i \in DOMAIN p : p[i] # "notUtf8"
<1>1. \A t : Dumps(t) <=> \A p \in DOMAIN t : t[p] # NotUtf8 /\ Clean(p)
  BY DEF Dumps, NotUtf8
<1>2. \A k \in Strings : \A p \in Seq(Strings) : Clean(<<k>> \o p) <=> k # "notUtf8" /\ Clean(p)
  BY PathTexts
<1>3. Clean(<<>>)
  OBVIOUS
<1> HIDE DEF Clean
<1>4. ASSUME NEW k \in Strings, Dumps(j)
      PROVE  Dumps(Child(j, k))
  <2> DEFINE c == Child(j, k)
  <2>1. /\ DOMAIN c = {p \in Seq(Strings) : <<k>> \o p \in DOMAIN j}
        /\ \A p \in DOMAIN c : c[p] = j[<<k>> \o p]
    BY ChildFacts
  <2> HIDE DEF c
  <2>2. \A p \in DOMAIN c : c[p] # NotUtf8 /\ Clean(p)
    BY <1>1, <1>2, <1>4, <2>1
  <2> QED BY <1>1, <2>2 DEF c
<1>5. ASSUME j[<<>>] # NotUtf8,
             \A p \in DOMAIN j : p # <<>> => Head(p) # "notUtf8" /\ Dumps(Child(j, Head(p))),
             NEW p \in DOMAIN j
      PROVE  j[p] # NotUtf8 /\ Clean(p)
  <2>1. CASE p = <<>>
    BY <1>3, <1>5, <2>1
  <2>2. CASE p # <<>>
    <3> DEFINE k == Head(p)
               q == Tail(p)
               c == Child(j, k)
    <3>1. k \in Strings /\ q \in Seq(Strings) /\ p = <<k>> \o q
      BY <2>2, PathSplit DEF IsTree
    <3>2. k # "notUtf8" /\ Dumps(c)
      BY <1>5, <2>2
    <3> HIDE DEF k, q
    <3>3. q \in DOMAIN c /\ c[q] = j[p]
      BY <3>1, ChildFacts
    <3> HIDE DEF c
    <3>4. c[q] # NotUtf8 /\ Clean(q)
      BY <1>1, <3>2, <3>3
    <3> QED BY <1>2, <3>1, <3>2, <3>3, <3>4
  <2> QED BY <2>1, <2>2
<1> QED BY <1>1, <1>4, <1>5

(* An object can be written exactly if its members can. *)
LEMMA ObjectDumps ==
  ASSUME NEW o, Members(o), \A k \in DOMAIN o : k # "notUtf8"
  PROVE  Dumps(JObject(o)) <=> \A k \in DOMAIN o : \A t \in o[k] : Dumps(t)
<1> DEFINE a == JObject(o)
<1>1. /\ IsTree(a)
      /\ a[<<>>] = [kind |-> "object"]
      /\ \A k \in DOMAIN o : \A t \in o[k] : Child(a, k) = t
      /\ \A p \in DOMAIN a : p # <<>> => Head(p) \in DOMAIN o /\ o[Head(p)] # {}
  BY AboveFacts DEF JObject
<1> HIDE DEF a
<1>2. a[<<>>] # NotUtf8
  BY <1>1 DEF NotUtf8
<1>3. ASSUME Dumps(a), NEW k \in DOMAIN o, NEW t \in o[k]
      PROVE  Dumps(t)
  <2>1. k \in Strings /\ Child(a, k) = t
    BY <1>1 DEF Members
  <2> QED BY <1>1, <1>3, <2>1, ChildDumps
<1>4. ASSUME \A k \in DOMAIN o : \A t \in o[k] : Dumps(t)
      PROVE  Dumps(a)
  <2>1. ASSUME NEW p \in DOMAIN a, p # <<>>
        PROVE  Head(p) # "notUtf8" /\ Dumps(Child(a, Head(p)))
    <3>1. Head(p) \in DOMAIN o /\ o[Head(p)] # {}
      BY <1>1, <2>1
    <3>2. PICK t \in o[Head(p)] : TRUE
      BY <3>1
    <3> QED BY <1>1, <1>4, <3>1, <3>2
  <2> QED BY <1>1, <1>2, <2>1, ChildDumps
<1> QED BY <1>3, <1>4 DEF a

-------------------------------------------------------------------------------
(* What the server answers *)

(* A leaf whose node is one of a Value is a Value. *)
LEMMA ScalarValue ==
  ASSUME NEW node \in ValueNodes
  PROVE  IsValue(Leaf(node))
BY LeafFacts DEF IsValue

(* "echo" returns a Value. *)
LEMMA EchoValue ==
  ASSUME NEW params, IsValue(params)
  PROVE  IsValue(Echo(params))
<1>1. "0" \in Strings
  BY JsonAssumption
<1> QED BY <1>1, ValueChild, NullAcross, Zenon DEF Echo

(* "add" returns one, too, whatever comes of a sum that does not fit. *)
LEMMA AddValue ==
  ASSUME NEW params, IsValue(params)
  PROVE  \A v \in Add(params) : IsValue(v)
<1>1. CASE AreInts(params)
  <2> DEFINE m == params[<<"0">>]
             n == params[<<"1">>]
  <2>1. m \in ValueNodes /\ n \in ValueNodes /\ m.type = "Int" /\ n.type = "Int"
    BY <1>1 DEF AreInts, IsValue, Has
  <2>2. m.int \in Int /\ n.int \in Int
    <3> HIDE DEF m, n
    <3> QED BY <2>1, JsonAssumption DEF ValueNodes, MinInt, MaxInt
  <2>3. Sums(m.int, n.int) \subseteq MinInt .. MaxInt
    BY <2>2, Zenon DEF Sums
  <2>4. ASSUME NEW w \in MinInt .. MaxInt
        PROVE  IsValue(VInt(w))
    <3>1. [type |-> "Int", int |-> w] \in ValueNodes
      BY DEF ValueNodes
    <3> QED BY <3>1, ScalarValue DEF VInt
  <2>5. Add(params) = {VInt(w) : w \in Sums(m.int, n.int)}
    BY <1>1 DEF Add
  <2> HIDE DEF m, n
  <2> QED BY <2>3, <2>4, <2>5
<1>2. CASE ~AreInts(params)
  BY <1>2, NullAcross DEF Add
<1> QED BY <1>1, <1>2

(* A response of success, or of failure, is a response with one outcome. *)
LEMMA SuccessResponse ==
  ASSUME NEW v, IsValue(v), NEW id, OptionalValue(id)
  PROVE  /\ IsResponse(Success(v, id))
         /\ Success(v, id).result = {v} /\ Success(v, id).error = {} /\ Success(v, id).id = id
BY DEF IsResponse, Success, OptionalValue

(* One of failure has an error and no result. *)
LEMMA FailureResponse ==
  ASSUME NEW code \in Ints, NEW text \in Strings,
         NEW data, OptionalValue(data), NEW id, OptionalValue(id)
  PROVE  /\ IsResponse(Failure(code, text, data, id))
         /\ Failure(code, text, data, id).result = {} /\ Failure(code, text, data, id).error # {}
         /\ Failure(code, text, data, id).id = id
<1> DEFINE e == [code |-> code, text |-> text, data |-> data]
           r == [result |-> {}, error |-> {e}, id |-> id]
<1>1. IsError(e)
  BY DEF IsError
<1>2. Failure(code, text, data, id) = r
  BY DEF Failure
<1> HIDE DEF e
<1>3. r.result = {} /\ r.error = {e} /\ r.id = id
  OBVIOUS
<1>4. IsResponse(r)
  BY <1>1 DEF IsResponse, OptionalValue
<1> QED BY <1>2, <1>3, <1>4

(* One outcome. *)
OneOutcome(res) == (res.result = {}) # (res.error = {})

(* Every request is answered by a response with one outcome and its id. *)
LEMMA RespondResponse ==
  ASSUME NEW req, IsRequest(req), NEW code \in Codes
  PROVE  \A res \in Respond(req, code) : IsResponse(res) /\ OneOutcome(res) /\ res.id = req.id
<1>1. IsValue(req.params) /\ OptionalValue(req.id)
  BY DEF IsRequest, OptionalValue
<1>2. /\ code \in Ints /\ InternalError \in Ints /\ MethodNotFound \in Ints
      /\ "failed" \in Strings /\ "Unhandled exception" \in Strings /\ "Method not found" \in Strings
  <2>1. InternalError \in Ints /\ MethodNotFound \in Ints
    BY JsonAssumption DEF Ints, InternalError, MethodNotFound
  <2>2. code \in Ints
    BY RemoteCallAssumption
  <2>3. "failed" \in Strings /\ "Unhandled exception" \in Strings /\ "Method not found" \in Strings
    BY RemoteCallAssumption
  <2> QED BY <2>1, <2>2, <2>3
<1>3. OptionalValue({}) /\ OptionalValue({Echo(req.params)})
  BY <1>1, EchoValue DEF OptionalValue
<1> DEFINE Good(res) == IsResponse(res) /\ OneOutcome(res) /\ res.id = req.id
<1>4. /\ Good(Success(Echo(req.params), req.id))
      /\ \A v \in Add(req.params) : Good(Success(v, req.id))
  BY <1>1, EchoValue, AddValue, SuccessResponse DEF OneOutcome
<1>5. ASSUME NEW c \in Ints, NEW text \in Strings, NEW data, OptionalValue(data)
      PROVE  Good(Failure(c, text, data, req.id))
  BY <1>1, <1>5, FailureResponse DEF OneOutcome
<1> HIDE DEF Good
<1>6. /\ Good(Failure(code, "failed", {Echo(req.params)}, req.id))
      /\ Good(Failure(InternalError, "Unhandled exception", {}, req.id))
      /\ Good(Failure(MethodNotFound, "Method not found", {}, req.id))
  BY <1>2, <1>3, <1>5, Zenon
<1>7. Good(ServerError(code, {Echo(req.params)}, req.id))
  <2>1. CASE code \in ServerErrors
    <3>1. ServerError(code, {Echo(req.params)}, req.id)
            = Failure(code, "failed", {Echo(req.params)}, req.id)
      BY <2>1, Zenon DEF ServerError
    <3> QED BY <1>6, <3>1, Zenon
  <2>2. CASE code \notin ServerErrors
    <3>1. ServerError(code, {Echo(req.params)}, req.id)
            = Failure(InternalError, "Unhandled exception", {}, req.id)
      BY <2>2, Zenon DEF ServerError
    <3> QED BY <1>6, <3>1, Zenon
  <2> QED BY <2>1, <2>2
<1>8. \A res \in Respond(req, code) : Good(res)
  BY <1>4, <1>6, <1>7, Zenon DEF Respond
<1> QED BY <1>8 DEF Good

(* So is a line that is no request. *)
LEMMA ParseErrorResponse ==
  ASSUME NEW j, FromJsonRequest(j).message = {}
  PROVE  /\ IsResponse(Failure(ParseError, MessageOf(FromJsonRequest(j).error), {}, {}))
         /\ OneOutcome(Failure(ParseError, MessageOf(FromJsonRequest(j).error), {}, {}))
<1>1. FromJsonRequest(j).error \in Texts \cup {"JSON parse error: notUtf8"}
  BY DEF FromJsonRequest, Accepted, Rejected, Texts
<1>2. MessageOf(FromJsonRequest(j).error) \in Strings
  BY <1>1, KnownStrings DEF MessageOf, Texts
<1>3. ParseError \in Ints /\ OptionalValue({})
  BY JsonAssumption DEF Ints, ParseError, OptionalValue
<1> QED BY <1>2, <1>3, FailureResponse DEF OneOutcome

(* A Value, and an optional one, that can be written. *)
Utf8(v) == Dumps(ValueToJson(v))
OptionUtf8(o) == \A v \in o : Utf8(v)

(* The child of such a Value is one. *)
LEMMA ChildUtf8 ==
  ASSUME NEW v, IsValue(v), Utf8(v), NEW k \in Strings, Has(v, k)
  PROVE  Utf8(Child(v, k))
<1> DEFINE w == ValueToJson(v)
<1>1. /\ w = [p \in DOMAIN v |-> NodeToJson(v[p])]
      /\ DOMAIN w = DOMAIN v
      /\ \A p \in DOMAIN v : w[p] = NodeToJson(v[p])
  BY DEF ValueToJson
<1>2. Dumps(w)
  BY DEF Utf8
<1> HIDE DEF w
<1>3. IsTree(w) /\ IsTree(v)
  BY <1>1 DEF IsTree, IsValue
<1>4. /\ DOMAIN Child(v, k) = {p \in Seq(Strings) : <<k>> \o p \in DOMAIN v}
      /\ \A p \in DOMAIN Child(v, k) : Child(v, k)[p] = v[<<k>> \o p]
  BY <1>3, ChildFacts
<1>5. /\ DOMAIN Child(w, k) = {p \in Seq(Strings) : <<k>> \o p \in DOMAIN w}
      /\ \A p \in DOMAIN Child(w, k) : Child(w, k)[p] = w[<<k>> \o p]
      /\ Child(w, k) = [p \in DOMAIN Child(w, k) |-> Child(w, k)[p]]
  <2>1. Has(w, k)
    BY <1>1 DEF Has
  <2> QED BY <1>3, <2>1, ChildFacts DEF IsTree
<1>6. DOMAIN Child(w, k) = DOMAIN Child(v, k)
  BY <1>1, <1>4, <1>5
<1>7. \A p \in DOMAIN Child(v, k) : Child(w, k)[p] = NodeToJson(Child(v, k)[p])
  BY <1>1, <1>4, <1>5, <1>6
<1>8. Child(w, k) = ValueToJson(Child(v, k))
  BY <1>5, <1>6, <1>7 DEF ValueToJson
<1> QED BY <1>2, <1>3, <1>8, ChildDumps DEF Utf8

(* Numbers and nulls can be written. *)
LEMMA ScalarUtf8 ==
  /\ Utf8(VNull)
  /\ \A n : Utf8(VInt(n))
<1>1. ASSUME NEW node
      PROVE  ValueToJson(Leaf(node)) = Leaf(NodeToJson(node))
  BY LeafFacts DEF ValueToJson, Leaf
<1>2. NodeToJson([type |-> "Null"]) # NotUtf8
  BY DEF NodeToJson, NotUtf8
<1>3. ASSUME NEW n
      PROVE  NodeToJson([type |-> "Int", int |-> n]) # NotUtf8
  BY DEF NodeToJson, NotUtf8
<1>4. Utf8(VNull)
  BY <1>1, <1>2, LeafDumps DEF Utf8, VNull
<1>5. \A n : Utf8(VInt(n))
  BY <1>1, <1>3, LeafDumps DEF Utf8, VInt
<1> QED BY <1>4, <1>5

(* What was read of a parsed text can be written. *)
LEMMA DocumentUtf8 ==
  ASSUME NEW j, IsParsed(j), Dumps(j)
  PROVE  Utf8(JsonToValue(j))
<1>1. ASSUME NEW n \in ParsedNodes, n # NotUtf8
      PROVE  NodeToJson(NodeToValue(n)) # NotUtf8
  <2>1. CASE n.kind = "string"
    <3>1. n = [kind |-> "string", string |-> n.string]
      BY <2>1 DEF ParsedNodes
    <3>2. NodeToJson(NodeToValue(n)) = [kind |-> "string", string |-> n.string]
      BY <2>1 DEF NodeToJson, NodeToValue
    <3> QED BY <1>1, <3>1, <3>2
  <2>2. CASE n.kind # "string"
    <3>1. NodeToValue(n).type # "String"
      BY <2>2 DEF NodeToValue
    <3>2. ASSUME NEW v, v.type # "String"
          PROVE  NodeToJson(v) # NotUtf8
      BY <3>2 DEF NodeToJson, NotUtf8
    <3> QED BY <3>1, <3>2
  <2> QED BY <2>1, <2>2
<1> DEFINE w == ValueToJson(JsonToValue(j))
<1>2. /\ DOMAIN w = DOMAIN j
      /\ \A p \in DOMAIN j : w[p] = NodeToJson(NodeToValue(j[p]))
  BY DEF ValueToJson, JsonToValue
<1> HIDE DEF w
<1>3. \A p \in DOMAIN j : j[p] \in ParsedNodes
  BY DEF IsParsed
<1>4. \A p \in DOMAIN j : j[p] # NotUtf8 /\ \A i \in DOMAIN p : p[i] # "notUtf8"
  BY DEF Dumps, NotUtf8
<1>5. \A p \in DOMAIN j : w[p] # NotUtf8
  BY <1>1, <1>2, <1>3, <1>4
<1>6. Dumps(w)
  BY <1>2, <1>4, <1>5 DEF Dumps, NotUtf8
<1> QED BY <1>6 DEF w, Utf8

(* So can what was read of one of its members. *)
LEMMA MemberUtf8 ==
  ASSUME NEW j, IsParsed(j), Dumps(j), NEW k \in Strings
  PROVE  Has(j, k) => Utf8(JsonToValue(Child(j, k)))
<1>1. IsTree(j)
  BY DEF IsParsed
<1>2. Dumps(Child(j, k))
  BY <1>1, ChildDumps
<1> QED BY <1>2, ParsedChild, DocumentUtf8

(* A request that was read can be written: its parameters and its id. *)
LEMMA RequestUtf8 ==
  ASSUME NEW j, IsText(j), NEW req \in FromJsonRequest(j).message
  PROVE  Utf8(req.params) /\ OptionUtf8(req.id)
<1>1. /\ Kind(j) = "object" /\ IsParsed(j)
      /\ Has(j, "params") => req.params = JsonToValue(Child(j, "params"))
      /\ ~Has(j, "params") => req.params = VArray(<<>>)
      /\ req.id = Read(j, "id")
  <2>1. ~Has(j, "params") => req.params = VArray(<<>>)
    <3> DEFINE r == [method |-> j[<<"method">>].string,
                     params |-> IF Has(j, "params") THEN JsonToValue(Child(j, "params")) ELSE VArray(<<>>),
                     id     |-> Read(j, "id")]
    <3>1. FromJsonRequest(j) = Accepted(r)
      BY DEF FromJsonRequest, Rejected, Accepted
    <3>2. req = r
      <4> HIDE DEF r
      <4>1. FromJsonRequest(j).message = {r}
        BY <3>1, AcceptedFacts, Zenon
      <4> QED BY <4>1
    <3> QED BY <3>2
  <2> QED BY <2>1, RequestRead
<1>2. Dumps(j)
  BY <1>1, GarbageKind DEF IsText
<1>3. "params" \in Strings /\ "id" \in Strings
  BY KnownStrings DEF Keys
<1>4. Utf8(VArray(<<>>))
  <2>1. Members(<<>>)
    BY DEF Members
  <2>2. VArray(<<>>)[<<>>] = [type |-> "Array"] /\ \A p \in DOMAIN VArray(<<>>) : p = <<>>
    BY <2>1, AboveFacts DEF VArray
  <2>3. NodeToJson([type |-> "Array"]) # NotUtf8
    BY DEF NodeToJson, NotUtf8
  <2>4. \A i \in DOMAIN <<>> : FALSE
    OBVIOUS
  <2> QED BY <2>2, <2>3, <2>4 DEF Utf8, Dumps, ValueToJson, NotUtf8
<1>5. Utf8(req.params)
  BY <1>1, <1>2, <1>3, <1>4, MemberUtf8
<1>6. OptionUtf8(Read(j, "id"))
  BY <1>1, <1>2, <1>3, MemberUtf8 DEF OptionUtf8, Read
<1> QED BY <1>1, <1>5, <1>6

(* What an error must be made of to be written. *)
ErrorUtf8(e) == e.text # "notUtf8" /\ OptionUtf8(e.data)

(* An error can be written if its text and its data can. *)
LEMMA ErrorDumps ==
  ASSUME NEW e, IsError(e)
  PROVE  Dumps(ErrorToJson(e)) <=> ErrorUtf8(e)
<1> DEFINE o == ErrorObject(e)
<1>1. ErrorToJson(e) = JObject(o) /\ Members(o)
  BY ErrorAcross
<1>2. /\ DOMAIN o = {"code", "message", "data"}
      /\ o["code"] = {JInteger(e.code)}
      /\ o["message"] = {JString(e.text)}
      /\ o["data"] = {ValueToJson(v) : v \in e.data}
  BY DEF ErrorObject
<1> HIDE DEF o
<1>3. \A k \in DOMAIN o : k # "notUtf8"
  BY <1>2
<1>4. Dumps(JInteger(e.code))
  <2>1. [kind |-> "integer", num |-> e.code] # NotUtf8
    BY DEF NotUtf8
  <2> QED BY <2>1, LeafDumps, Zenon DEF JInteger
<1>5. Dumps(JString(e.text)) <=> e.text # "notUtf8"
  <2>1. [kind |-> "string", string |-> e.text] # NotUtf8 <=> e.text # "notUtf8"
    BY DEF NotUtf8
  <2> QED BY <2>1, LeafDumps, Zenon DEF JString
<1>6. (\A t \in o["data"] : Dumps(t)) <=> OptionUtf8(e.data)
  BY <1>2 DEF OptionUtf8, Utf8
<1>7. Dumps(JObject(o)) <=> \A k \in DOMAIN o : \A t \in o[k] : Dumps(t)
  BY <1>1, <1>3, ObjectDumps
<1>8. (\A k \in DOMAIN o : \A t \in o[k] : Dumps(t)) <=> ErrorUtf8(e)
  BY <1>2, <1>4, <1>5, <1>6, Zenon DEF ErrorUtf8
<1> QED BY <1>1, <1>7, <1>8, Zenon

(* What a response must be made of to be written. *)
ResponseUtf8(res) ==
  OptionUtf8(res.result) /\ (\A e \in res.error : ErrorUtf8(e)) /\ OptionUtf8(res.id)

(* A response can be written if its result, its error and its id can. *)
LEMMA ResponseDumps ==
  ASSUME NEW res, IsResponse(res), OneOutcome(res)
  PROVE  Dumps(ResponseToJson(res)) <=> ResponseUtf8(res)
<1> DEFINE o == ResponseObject(res)
<1>1. ResponseToJson(res) = JObject(o) /\ Members(o)
  BY ResponseMembers
<1>2. /\ DOMAIN o = {"jsonrpc", "result", "error", "id"}
      /\ o["jsonrpc"] = {JString("2.0")}
      /\ o["result"] = {ValueToJson(v) : v \in res.result}
      /\ o["error"] = {ErrorToJson(e) : e \in res.error}
      /\ o["id"] = {ValueToJson(v) : v \in res.id}
  BY DEF ResponseObject, ResultMember, ErrorMember, OneOutcome
<1> HIDE DEF o
<1>3. \A k \in DOMAIN o : k # "notUtf8"
  BY <1>2
<1>4. Dumps(JString("2.0"))
  <2>1. [kind |-> "string", string |-> "2.0"] # NotUtf8
    BY DEF NotUtf8
  <2> QED BY <2>1, LeafDumps, Zenon DEF JString
<1>5. /\ (\A t \in o["result"] : Dumps(t)) <=> OptionUtf8(res.result)
      /\ (\A t \in o["id"] : Dumps(t)) <=> OptionUtf8(res.id)
  BY <1>2 DEF OptionUtf8, Utf8
<1>6. (\A t \in o["error"] : Dumps(t)) <=> \A e \in res.error : ErrorUtf8(e)
  <2>1. \A e \in res.error : Dumps(ErrorToJson(e)) <=> ErrorUtf8(e)
    BY ErrorDumps DEF IsResponse
  <2> QED BY <1>2, <2>1
<1>7. Dumps(JObject(o)) <=> \A k \in DOMAIN o : \A t \in o[k] : Dumps(t)
  BY <1>1, <1>3, ObjectDumps
<1>8. (\A k \in DOMAIN o : \A t \in o[k] : Dumps(t)) <=> ResponseUtf8(res)
  BY <1>2, <1>4, <1>5, <1>6, Zenon DEF ResponseUtf8
<1> QED BY <1>1, <1>7, <1>8, Zenon

(* The answer to a request that can be written can be written. *)
LEMMA RespondUtf8 ==
  ASSUME NEW req, IsRequest(req), Utf8(req.params), OptionUtf8(req.id), NEW code \in Codes
  PROVE  \A res \in Respond(req, code) : ResponseUtf8(res)
<1>1. Utf8(Echo(req.params))
  <2>1. IsValue(req.params) /\ "0" \in Strings
    BY JsonAssumption DEF IsRequest
  <2> QED BY <2>1, ChildUtf8, ScalarUtf8, Zenon DEF Echo
<1>2. \A v \in Add(req.params) : Utf8(v)
  BY ScalarUtf8, Zenon DEF Add
<1>3. \A v : Utf8(v) => ResponseUtf8(Success(v, req.id))
  BY DEF ResponseUtf8, OptionUtf8, Success
<1>4. \A c, text, data :
        text # "notUtf8" /\ OptionUtf8(data) => ResponseUtf8(Failure(c, text, data, req.id))
  BY DEF ResponseUtf8, OptionUtf8, ErrorUtf8, Failure
<1>5. /\ OptionUtf8({}) /\ OptionUtf8({Echo(req.params)})
      /\ "failed" # "notUtf8" /\ "Unhandled exception" # "notUtf8" /\ "Method not found" # "notUtf8"
  BY <1>1 DEF OptionUtf8
<1>6. ResponseUtf8(ServerError(code, {Echo(req.params)}, req.id))
  BY <1>4, <1>5, Zenon DEF ServerError
<1> QED BY <1>1, <1>2, <1>3, <1>4, <1>5, <1>6, Zenon DEF Respond

(* The answer to a line that is no request can be written unless the       *)
(* parser's error quotes what is not UTF-8.                                *)
LEMMA ParseErrorUtf8 ==
  ASSUME NEW j, IsText(j), FromJsonRequest(j).message = {}
  PROVE  ResponseUtf8(Failure(ParseError, MessageOf(FromJsonRequest(j).error), {}, {}))
           <=> j # Garbage(FALSE)
<1> DEFINE why == FromJsonRequest(j).error
<1>1. ASSUME NEW b \in BOOLEAN
      PROVE  Kind(Garbage(b)) = "garbage" /\ Garbage(b)[<<>>].utf8 = b
  <2> DEFINE node == [kind |-> "garbage", utf8 |-> b]
  <2>1. node.utf8 = b
    BY Zenon
  <2>2. Garbage(b) = Leaf(node)
    BY DEF Garbage
  <2> HIDE DEF node
  <2>3. Garbage(b)[<<>>] = node
    BY <2>2, LeafFacts
  <2> QED BY <2>1, <2>3, GarbageKind, Zenon
<1>2. CASE j = Garbage(FALSE)
  <2>1. Kind(j) = "garbage" /\ j[<<>>].utf8 = FALSE
    BY <1>1, <1>2, Zenon
  <2>2. why = "JSON parse error: notUtf8"
    BY <2>1 DEF FromJsonRequest, Rejected
  <2> QED BY <1>2, <2>2 DEF MessageOf, ResponseUtf8, ErrorUtf8, Failure
<1>3. CASE j # Garbage(FALSE)
  <2>1. Kind(j) # "garbage" \/ (Kind(j) = "garbage" /\ j[<<>>].utf8 = TRUE)
    <3>1. CASE j = Garbage(TRUE)
      BY <1>1, <3>1, Zenon
    <3>2. CASE IsParsed(j)
      BY <3>2 DEF IsParsed, IsTree, ParsedNodes, Kind
    <3> QED BY <1>3, <3>1, <3>2 DEF IsText
  <2>2. why \in Texts \ {"notUtf8"}
    BY <2>1 DEF FromJsonRequest, Rejected, Accepted, Texts
  <2>3. MessageOf(why) # "notUtf8"
    BY <2>2 DEF MessageOf, Texts
  <2> HIDE DEF why
  <2>4. \A text : text # "notUtf8" => ResponseUtf8(Failure(ParseError, text, {}, {}))
    BY DEF ResponseUtf8, ErrorUtf8, OptionUtf8, Failure
  <2>5. ResponseUtf8(Failure(ParseError, MessageOf(why), {}, {}))
    BY <2>3, <2>4
  <2> QED BY <1>3, <2>5 DEF why
<1> QED BY <1>2, <1>3

-------------------------------------------------------------------------------
(* The invariant *)

(* The request: what was composed is on the line, and what is on the line  *)
(* is what the server reads.                                               *)
RequestInv ==
  /\ composed = {} \/ \E req \in Requests : composed = {req}
  /\ IsText(line)
  /\ stage = "start" => composed = {} /\ line = Garbage(TRUE)
  /\ stage = "composed" => composed # {}
  /\ stage \in {"start", "composed", "sent"} => received = {}
  /\ stage \notin {"start", "composed", "failed"} =>
       \A req \in composed : line = Reread(RequestToJson(req))
  /\ stage \notin {"start", "composed", "sent", "failed"} =>
       received = FromJsonRequest(line).message
  /\ received \subseteq FromJsonRequest(line).message
  /\ stage = "dispatching" => received # {}

(* The response: it is one of those the handlers make of the request that  *)
(* was read, or that to a line that is none, and what the client reads is  *)
(* what was written of it.                                                 *)
ResponseInv ==
  /\ stage \in {"start", "composed", "sent", "dispatching"} => response = {}
  /\ stage = "answering" => response # {}
  /\ \A res \in response :
       /\ response = {res}
       /\ IsResponse(res) /\ OneOutcome(res)
       /\ \A req \in received : \E code \in Codes : res \in Respond(req, code)
       /\ received = {} =>
            /\ FromJsonRequest(line).message = {}
            /\ res = Failure(ParseError, MessageOf(FromJsonRequest(line).error), {}, {})
  /\ IsText(answer)
  /\ stage \in {"answered", "done"} =>
       /\ received # {} => response # {}
       /\ \A res \in response : answer = Reread(ResponseToJson(res))
  /\ reply = IF stage = "done" THEN FromJsonResponse(answer) ELSE Rejected("")

CallInv ==
  /\ stage \in {"start", "composed", "sent", "dispatching", "answering", "answered", "done", "failed"}
  /\ RequestInv
  /\ ResponseInv

(* Garbage is a line, and no request. *)
LEMMA GarbageFacts ==
  IsText(Garbage(TRUE)) /\ FromJsonRequest(Garbage(TRUE)).message = {}
<1>1. Kind(Garbage(TRUE)) = "garbage"
  BY GarbageKind
<1> QED BY <1>1 DEF FromJsonRequest, Rejected, IsText

(* The invariant holds at the start. *)
LEMMA CallInvInit == Init => CallInv
BY GarbageFacts DEF Init, CallInv, RequestInv, ResponseInv

(* Every step keeps what the request is. *)
LEMMA RequestStep == CallInv /\ [Next]_vars => RequestInv'
<1> SUFFICES ASSUME CallInv, [Next]_vars
             PROVE  RequestInv'
  OBVIOUS
<1>1. RequestInv
  BY DEF CallInv
<1>2. ASSUME NEW req \in Requests, Compose(req)
      PROVE  RequestInv'
  BY <1>1, <1>2 DEF RequestInv, Compose, Goto
<1>3. CASE SendRequest
  <2> DEFINE j == RequestToJson(The(composed))
  <2>1. PICK req \in Requests : composed = {req}
    BY <1>1, <1>3 DEF RequestInv, SendRequest, Goto
  <2>2. The(composed) = req
    BY <2>1 DEF The
  <2>3. IsRequest(req)
    BY RemoteCallAssumption
  <2>4. Dumps(j) => IsText(Reread(j))
    BY <2>2, <2>3, RequestAcross, RereadDumps DEF IsText
  <2>5. /\ stage = "composed"
        /\ \/ stage' = "sent" /\ line' = Reread(j) /\ Dumps(j)
           \/ stage' = "failed" /\ line' = line
        /\ UNCHANGED <<composed, received>>
    BY <1>3 DEF SendRequest, Goto
  <2>6. \A r \in composed : r = The(composed)
    BY <2>1, <2>2
  <2> HIDE DEF j
  <2>7. CASE stage' = "sent" /\ line' = Reread(j) /\ Dumps(j)
    BY <1>1, <2>4, <2>5, <2>6, <2>7 DEF RequestInv, j
  <2>8. CASE stage' = "failed" /\ line' = line
    BY <1>1, <2>5, <2>8 DEF RequestInv
  <2> QED BY <2>5, <2>7, <2>8
<1>4. ASSUME NEW j \in Lines, SendLine(j)
      PROVE  RequestInv'
  <2>1. IsText(j)
    BY RemoteCallAssumption
  <2> QED BY <1>1, <1>4, <2>1 DEF RequestInv, SendLine, Goto
<1>5. CASE ReadRequest
  <2>1. /\ stage = "sent"
        /\ received' = FromJsonRequest(line).message
        /\ stage' = IF received' = {} THEN "answering" ELSE "dispatching"
        /\ UNCHANGED <<composed, line>>
    BY <1>5 DEF ReadRequest, Goto
  <2> QED BY <1>1, <2>1 DEF RequestInv
<1>6. ASSUME NEW code \in Codes, Dispatch(code)
      PROVE  RequestInv'
  BY <1>1, <1>6 DEF RequestInv, Dispatch, Goto
<1>7. CASE SendAnswer
  <2>1. /\ stage = "answering" /\ stage' \in {"answered", "failed"}
        /\ UNCHANGED <<composed, line, received>>
    BY <1>7 DEF SendAnswer, Goto
  <2> QED BY <1>1, <2>1 DEF RequestInv
<1>8. ASSUME NEW j \in Answers, GetAnswer(j)
      PROVE  RequestInv'
  BY <1>1, <1>8, GarbageFacts DEF RequestInv, GetAnswer, Goto
<1>9. CASE ReadAnswer
  BY <1>1, <1>9 DEF RequestInv, ReadAnswer, Goto
<1>10. CASE UNCHANGED vars
  BY <1>1, <1>10 DEF RequestInv, vars
<1> QED BY <1>2, <1>3, <1>4, <1>5, <1>6, <1>7, <1>8, <1>9, <1>10 DEF Next

(* Every step keeps what the response is. *)
LEMMA ResponseStep == CallInv /\ [Next]_vars => ResponseInv'
<1> SUFFICES ASSUME CallInv, [Next]_vars
             PROVE  ResponseInv'
  OBVIOUS
<1>1. RequestInv /\ ResponseInv
  BY DEF CallInv
<1>2. ASSUME NEW req \in Requests, Compose(req)
      PROVE  ResponseInv'
  BY <1>1, <1>2 DEF ResponseInv, Compose, Goto
<1>3. CASE SendRequest
  <2>1. /\ stage = "composed" /\ stage' \in {"sent", "failed"}
        /\ UNCHANGED <<received, response, answer, reply>>
    BY <1>3 DEF SendRequest, Goto
  <2> QED BY <1>1, <2>1 DEF ResponseInv
<1>4. ASSUME NEW j \in Lines, SendLine(j)
      PROVE  ResponseInv'
  BY <1>1, <1>4 DEF ResponseInv, SendLine, Goto
<1>5. CASE ReadRequest
  <2> DEFINE r == FromJsonRequest(line)
             bad == Failure(ParseError, MessageOf(r.error), {}, {})
  <2>1. /\ stage = "sent" /\ response = {}
        /\ received' = r.message
        /\ stage' = IF r.message = {} THEN "answering" ELSE "dispatching"
        /\ response' = IF r.message = {} THEN {bad} ELSE response
        /\ UNCHANGED <<line, answer, reply>>
    BY <1>1, <1>5 DEF ReadRequest, Goto, ResponseInv
  <2>2. r.message = {} => IsResponse(bad) /\ OneOutcome(bad)
    BY ParseErrorResponse
  <2>3. IsText(answer) /\ reply = Rejected("")
    BY <1>1, <2>1 DEF ResponseInv
  <2> HIDE DEF r, bad
  <2>4. CASE r.message = {}
    BY <2>1, <2>2, <2>3, <2>4 DEF ResponseInv, r, bad
  <2>5. CASE r.message # {}
    BY <2>1, <2>3, <2>5 DEF ResponseInv
  <2> QED BY <2>4, <2>5
<1>6. ASSUME NEW code \in Codes, Dispatch(code)
      PROVE  ResponseInv'
  <2>1. PICK req \in received : TRUE
    BY <1>1, <1>6 DEF RequestInv, Dispatch, Goto
  <2>2. IsRequest(req) /\ received = {req}
    <3>1. IsText(line) /\ req \in FromJsonRequest(line).message
      BY <1>1 DEF RequestInv
    <3>2. IsRequest(req) /\ FromJsonRequest(line).message = {req}
      BY <3>1, RequestRead, AcceptedFacts
    <3> QED BY <1>1, <3>2 DEF RequestInv
  <2>3. The(received) = req
    BY <2>2 DEF The
  <2>4. PICK res \in Respond(req, code) : response' = {res}
    BY <1>6, <2>3 DEF Dispatch
  <2>5. IsResponse(res) /\ OneOutcome(res)
    BY <2>2, RespondResponse
  <2>6. \A r \in received : res \in Respond(r, code)
    BY <2>2
  <2>7. /\ IsText(answer) /\ reply = Rejected("")
        /\ stage' = "answering" /\ UNCHANGED <<received, answer, reply>>
    BY <1>1, <1>6 DEF ResponseInv, Dispatch, Goto
  <2> QED BY <2>2, <2>4, <2>5, <2>6, <2>7 DEF ResponseInv
<1>7. CASE SendAnswer
  <2> DEFINE j == ResponseToJson(The(response))
  <2>1. PICK res \in response : response = {res} /\ IsResponse(res)
    BY <1>1, <1>7 DEF ResponseInv, SendAnswer, Goto
  <2>2. The(response) = res
    BY <2>1 DEF The
  <2>3. Dumps(j) => IsText(Reread(j))
    BY <2>1, <2>2, ResponseAcross, RereadDumps DEF IsText
  <2>4. /\ stage = "answering"
        /\ \/ stage' = "answered" /\ answer' = Reread(j) /\ Dumps(j)
           \/ stage' = "failed" /\ answer' = answer
        /\ UNCHANGED <<line, received, response, reply>>
    BY <1>7 DEF SendAnswer, Goto
  <2>5. \A r \in response : r = The(response)
    BY <2>1, <2>2
  <2> HIDE DEF j
  <2>6. CASE stage' = "answered" /\ answer' = Reread(j) /\ Dumps(j)
    BY <1>1, <2>1, <2>3, <2>4, <2>5, <2>6 DEF ResponseInv, j
  <2>7. CASE stage' = "failed" /\ answer' = answer
    BY <1>1, <2>4, <2>7 DEF ResponseInv
  <2> QED BY <2>4, <2>6, <2>7
<1>8. ASSUME NEW j \in Answers, GetAnswer(j)
      PROVE  ResponseInv'
  <2>1. IsText(j)
    BY RemoteCallAssumption
  <2>2. received = {}
    BY <1>1, <1>8 DEF RequestInv, GetAnswer, Goto
  <2> QED BY <1>1, <1>8, <2>1, <2>2 DEF ResponseInv, GetAnswer, Goto
<1>9. CASE ReadAnswer
  BY <1>1, <1>9 DEF ResponseInv, ReadAnswer, Goto
<1>10. CASE UNCHANGED vars
  BY <1>1, <1>10 DEF ResponseInv, vars
<1> QED BY <1>2, <1>3, <1>4, <1>5, <1>6, <1>7, <1>8, <1>9, <1>10 DEF Next

(* Every step keeps the stages of a call. *)
LEMMA StageStep ==
  CallInv /\ [Next]_vars =>
    stage' \in {"start", "composed", "sent", "dispatching", "answering", "answered", "done", "failed"}
BY DEF CallInv, Next, vars, Compose, SendRequest, SendLine, ReadRequest, Dispatch, SendAnswer,
       GetAnswer, ReadAnswer, Goto

(* CallInv holds throughout: whatever a call's request, its lines, its     *)
(* handler's code and its answer are, line and answer hold what was        *)
(* written of composed and response, and received and reply what is read   *)
(* of them.                                                                *)
THEOREM CallInvariant == Spec => []CallInv
<1>1. CallInv /\ [Next]_vars => CallInv'
  BY RequestStep, ResponseStep, StageStep DEF CallInv
<1> QED BY <1>1, CallInvInit, PTL DEF Spec

-------------------------------------------------------------------------------
(* What the invariant implies *)

(* The response the server made is what its client reads. *)
LEMMA AnswerRead ==
  ASSUME CallInv, stage = "done", NEW res \in response
  PROVE  reply = Accepted(CarriedResponse(res)) /\ IsResponse(res) /\ OneOutcome(res)
<1>1. /\ IsResponse(res) /\ OneOutcome(res)
      /\ answer = Reread(ResponseToJson(res))
      /\ reply = FromJsonResponse(answer)
  BY DEF CallInv, ResponseInv
<1> QED BY <1>1, ResponseAcross

(* The request the server read is one. *)
LEMMA ReceivedRequest ==
  ASSUME CallInv, NEW req \in received
  PROVE  /\ IsText(line) /\ IsParsed(line)
         /\ received = {req} /\ FromJsonRequest(line) = Accepted(req)
         /\ IsRequest(req)
         /\ Carried(req.params) = req.params /\ CarriedOption(req.id) = req.id
         /\ req.method = line[<<"method">>].string /\ req.method # ""
         /\ Has(line, "params") => req.params = JsonToValue(Child(line, "params"))
         /\ req.id = Read(line, "id")
<1>1. IsText(line) /\ received \subseteq FromJsonRequest(line).message
  BY DEF CallInv, RequestInv
<1>2. req \in FromJsonRequest(line).message
  BY <1>1
<1>3. FromJsonRequest(line) = Accepted(req)
  BY <1>1, <1>2, RequestRead
<1>4. received = {req}
  <2>1. FromJsonRequest(line).message = {req}
    BY <1>3, AcceptedFacts, Zenon
  <2> QED BY <1>1, <2>1
<1> QED BY <1>1, <1>2, <1>3, <1>4, RequestRead

(* The server reads what JSON carries of the request that was composed. *)
LEMMA RequestArrivesInv == CallInv => RequestArrives
<1> SUFFICES ASSUME CallInv, stage \notin {"start", "composed", "sent", "failed"},
                    NEW req \in composed
             PROVE  received = {[method |-> req.method,
                                 params |-> Carried(req.params),
                                 id     |-> CarriedOption(req.id)] : x \in {req.method} \ {""}}
  BY DEF RequestArrives
<1> DEFINE j == Reread(RequestToJson(req))
           r == [method |-> req.method, params |-> Carried(req.params), id |-> CarriedOption(req.id)]
<1>1. IsRequest(req) /\ line = j /\ received = FromJsonRequest(line).message
  BY RemoteCallAssumption DEF CallInv, RequestInv
<1>2. FromJsonRequest(j) = IF req.method = "" THEN Rejected("'method' cannot be empty")
                                              ELSE Accepted(r)
  BY <1>1, RequestAcross
<1> HIDE DEF j, r
<1>3. CASE req.method = ""
  <2>1. FromJsonRequest(j) = Rejected("'method' cannot be empty")
    BY <1>2, <1>3
  <2>2. received = {}
    BY <1>1, <2>1, AcceptedFacts, Zenon
  <2> QED BY <1>3, <2>2
<1>4. CASE req.method # ""
  <2>1. FromJsonRequest(j) = Accepted(r)
    BY <1>2, <1>4
  <2>2. received = {r}
    BY <1>1, <2>1, AcceptedFacts, Zenon
  <2>3. {r : x \in {req.method} \ {""}} = {r}
    BY <1>4
  <2> QED BY <2>2, <2>3 DEF r
<1> QED BY <1>3, <1>4

(* The client reads what JSON carries of the response that was made. *)
LEMMA AnswerArrivesInv == CallInv => AnswerArrives
<1> SUFFICES ASSUME CallInv, stage = "done", NEW res \in response
             PROVE  /\ reply = Accepted([result |-> CarriedOption(res.result),
                                         error  |-> {[e EXCEPT !.data = CarriedOption(@)] : e \in res.error},
                                         id     |-> CarriedOption(res.id)])
                    /\ (res.result = {}) # (res.error = {})
  BY DEF AnswerArrives
<1>1. reply = Accepted(CarriedResponse(res)) /\ IsResponse(res) /\ OneOutcome(res)
  BY AnswerRead
<1>2. ASSUME NEW e \in res.error
      PROVE  [e EXCEPT !.data = CarriedOption(@)] = CarriedError(e)
  <2>1. e = [code |-> e.code, text |-> e.text, data |-> e.data]
    BY <1>1, <1>2 DEF IsResponse, IsError
  <2> QED BY <2>1 DEF CarriedError
<1>3. {[e EXCEPT !.data = CarriedOption(@)] : e \in res.error} = {CarriedError(e) : e \in res.error}
  BY <1>2
<1>4. ~(res.result = {} /\ res.error = {})
  BY <1>1 DEF OneOutcome
<1>5. CarriedResponse(res) = [result |-> CarriedOption(res.result),
                              error  |-> {[e EXCEPT !.data = CarriedOption(@)] : e \in res.error},
                              id     |-> CarriedOption(res.id)]
  BY <1>3, <1>4 DEF CarriedResponse
<1>6. (res.result = {}) # (res.error = {})
  BY <1>1 DEF OneOutcome
<1> QED BY <1>1, <1>5, <1>6, Zenon

(* What was read is written and read without change: JSON carries it whole. *)
LEMMA ForwardingInv == CallInv => ForwardingIsTransparent
<1> SUFFICES ASSUME CallInv
             PROVE  ForwardingIsTransparent
  OBVIOUS
<1>1. ASSUME NEW req \in received
      PROVE  FromJsonRequest(Reread(RequestToJson(req))) = Accepted(req)
  <2>1. /\ IsRequest(req) /\ req.method # ""
        /\ Carried(req.params) = req.params /\ CarriedOption(req.id) = req.id
    BY <1>1, ReceivedRequest
  <2>2. req = [method |-> req.method, params |-> req.params, id |-> req.id]
    BY <2>1 DEF IsRequest
  <2>3. FromJsonRequest(Reread(RequestToJson(req))) =
          Accepted([method |-> req.method, params |-> req.params, id |-> req.id])
    BY <2>1, RequestAcross
  <2> QED BY <2>2, <2>3, Zenon
<1>2. ASSUME NEW res \in reply.message
      PROVE  (FromJsonResponse(Reread(ResponseToJson(res))) = Accepted(res))
               = ((res.result = {}) # (res.error = {}))
  <2>1. reply = FromJsonResponse(answer) /\ IsText(answer)
    BY <1>2, AcceptedFacts DEF CallInv, ResponseInv
  <2>2. /\ IsResponse(res)
        /\ CarriedOption(res.result) = res.result
        /\ {CarriedError(e) : e \in res.error} = res.error
        /\ CarriedOption(res.id) = res.id
    BY <1>2, <2>1, ResponseRead
  <2>3. res = [result |-> res.result, error |-> res.error, id |-> res.id]
    BY <2>2 DEF IsResponse
  <2>4. FromJsonResponse(Reread(ResponseToJson(res))) = Accepted(CarriedResponse(res))
    BY <2>2, ResponseAcross
  <2>5. CASE res.result = {} /\ res.error = {}
    <3>1. CarriedResponse(res).result # res.result
      BY <2>5 DEF CarriedResponse
    <3>2. Accepted(CarriedResponse(res)).message # Accepted(res).message
      BY <3>1, AcceptedFacts, Zenon
    <3>3. FromJsonResponse(Reread(ResponseToJson(res))) # Accepted(res)
      BY <2>4, <3>2
    <3> QED BY <2>5, <3>3
  <2>6. CASE ~(res.result = {} /\ res.error = {})
    <3>1. CarriedResponse(res) = [result |-> res.result, error |-> res.error, id |-> res.id]
      BY <2>2, <2>6 DEF CarriedResponse
    <3>2. FromJsonResponse(Reread(ResponseToJson(res))) = Accepted(res)
      BY <2>3, <2>4, <3>1, Zenon
    <3>3. (res.result = {}) # (res.error = {})
      BY <2>2, <2>6 DEF IsResponse
    <3> QED BY <3>2, <3>3
  <2> QED BY <2>5, <2>6
<1> QED BY <1>1, <1>2, Zenon DEF ForwardingIsTransparent

(* The id on the line and the one in the answer are the same if it fits. *)
LEMMA IdComesBackInv == CallInv => IdComesBack
<1> SUFFICES ASSUME CallInv, stage = "done", received # {}
             PROVE  /\ Has(line, "id") = Has(answer, "id")
                    /\ Has(line, "id") /\ Fits(Child(line, "id"))
                         => Child(answer, "id") = Child(line, "id")
  BY DEF IdComesBack
<1>1. PICK req \in received : TRUE
  OBVIOUS
<1>2. IsParsed(line) /\ IsRequest(req) /\ req.id = Read(line, "id")
  BY <1>1, ReceivedRequest
<1>3. PICK res \in response : TRUE
  BY DEF CallInv, ResponseInv
<1>4. /\ IsResponse(res) /\ answer = Reread(ResponseToJson(res))
      /\ \E code \in Codes : res \in Respond(req, code)
  BY <1>1, <1>3 DEF CallInv, ResponseInv
<1>5. res.id = req.id
  BY <1>2, <1>4, RespondResponse
<1>6. /\ Has(answer, "id") <=> res.id # {}
      /\ \A v \in res.id : Child(answer, "id") = Reread(ValueToJson(v))
  BY <1>4, ResponseMembers
<1>7. CASE Has(line, "id")
  <2> DEFINE c == Child(line, "id")
  <2>1. "id" \in Strings
    BY JsonAssumption DEF Keys
  <2>2. IsParsed(c)
    BY <1>2, <1>7, <2>1, ParsedChild, Zenon
  <2>3. Fits(c) <=> Reread(ValueToJson(JsonToValue(c))) = c
    BY <2>2, DocumentBack
  <2>4. res.id = {JsonToValue(c)}
    BY <1>2, <1>5, <1>7 DEF Read
  <2>5. Child(answer, "id") = Reread(ValueToJson(JsonToValue(c)))
    BY <1>6, <2>4
  <2>6. Has(answer, "id")
    BY <1>6, <2>4
  <2> HIDE DEF c
  <2>7. Fits(c) => Child(answer, "id") = c
    BY <2>3, <2>5 DEF Fits
  <2> QED BY <1>7, <2>6, <2>7 DEF c, Has
<1>8. CASE ~Has(line, "id")
  <2>1. res.id = {}
    BY <1>2, <1>5, <1>8 DEF Read
  <2> QED BY <1>6, <1>8, <2>1 DEF Has
<1> QED BY <1>7, <1>8

(* Two steps are one in front of the other. *)
LEMMA TwoSteps ==
  ASSUME NEW S, NEW k \in S, NEW l \in S
  PROVE  <<k>> \o <<l>> = <<k, l>> /\ <<l>> \in Seq(S)
<1> DEFINE s == <<k>> \o <<l>>
           t == <<k, l>>
<1>1. /\ <<k>> \in Seq(S) /\ Len(<<k>>) = 1 /\ <<k>>[1] = k
      /\ <<l>> \in Seq(S) /\ Len(<<l>>) = 1 /\ <<l>>[1] = l
  BY Singleton
<1>2. /\ s \in Seq(S) /\ Len(s) = 2
      /\ \A i \in 1 .. 2 : s[i] = IF i <= 1 THEN <<k>>[i] ELSE <<l>>[i - 1]
  BY <1>1, ConcatProperties
<1>3. t \in Seq(S) /\ Len(t) = 2 /\ t[1] = k /\ t[2] = l
  OBVIOUS
<1> HIDE DEF s, t
<1>4. s[1] = k /\ s[2] = l
  BY <1>1, <1>2
<1>5. \A i \in 1 .. Len(s) : s[i] = t[i]
  BY <1>2, <1>3, <1>4
<1>6. s = t
  BY <1>2, <1>3, <1>5, SeqEqual
<1> QED BY <1>1, <1>6 DEF s, t

(* Numbers that fit are read as they are, so the sum is theirs. *)
LEMMA AddInv == CallInv => AddIsExact
<1> DEFINE a == <<"params", "0">>
           b == <<"params", "1">>
           m == line[a].num
           n == line[b].num
<1> SUFFICES ASSUME CallInv, stage = "done", received # {},
                    line[<<"method">>].string = "add", {<<"params">>, a, b} \subseteq DOMAIN line,
                    IsWhole(line[a]), IsWhole(line[b]),
                    m \in MinInt .. MaxInt, n \in MinInt .. MaxInt, m + n \in MinInt .. MaxInt
             PROVE  IsWhole(answer[<<"result">>]) /\ answer[<<"result">>].num = m + n
  BY DEF AddIsExact
<1>1. PICK req \in received : TRUE
  OBVIOUS
<1>2. Has(line, "params")
  BY DEF Has
<1>3. /\ IsParsed(line) /\ IsRequest(req) /\ req.method = "add"
      /\ req.params = JsonToValue(Child(line, "params"))
  BY <1>1, <1>2, ReceivedRequest
<1>4. PICK res \in response : TRUE
  BY DEF CallInv, ResponseInv
<1>5. PICK code \in Codes : res \in Respond(req, code)
  BY <1>1, <1>4 DEF CallInv, ResponseInv
<1>6. PICK v \in Add(req.params) : res = Success(v, req.id)
  BY <1>3, <1>5, Zenon DEF Respond
<1>7. IsResponse(res) /\ answer = Reread(ResponseToJson(res))
  BY <1>4 DEF CallInv, ResponseInv
<1>8. answer[<<"result">>] = NodeReread(NodeToJson(v[<<>>]))
  <2>1. res.result = {v}
    BY <1>6 DEF Success
  <2> QED BY <1>7, <2>1, ResponseMembers
<1>9. "params" \in Strings /\ "0" \in Strings /\ "1" \in Strings
  BY JsonAssumption DEF Keys
<1> DEFINE c == Child(line, "params")
<1>10. /\ DOMAIN c = {p \in Seq(Strings) : <<"params">> \o p \in DOMAIN line}
       /\ \A p \in DOMAIN c : c[p] = line[<<"params">> \o p]
  BY <1>3, <1>9, ChildFacts, Zenon DEF IsParsed
<1> HIDE DEF c
<1>11. /\ <<"params">> \o <<"0">> = a /\ <<"0">> \in Seq(Strings)
       /\ <<"params">> \o <<"1">> = b /\ <<"1">> \in Seq(Strings)
  BY <1>9, TwoSteps, Zenon
<1> HIDE DEF a, b, m, n
<1>12. /\ <<"0">> \in DOMAIN c /\ c[<<"0">>] = line[a]
       /\ <<"1">> \in DOMAIN c /\ c[<<"1">>] = line[b]
  BY <1>10, <1>11
<1>13. /\ Has(req.params, "0") /\ req.params[<<"0">>] = NodeToValue(line[a])
       /\ Has(req.params, "1") /\ req.params[<<"1">>] = NodeToValue(line[b])
  BY <1>3, <1>12 DEF JsonToValue, Has, c
<1>14. m \in Int /\ n \in Int /\ ToInt64(m) = m /\ ToInt64(n) = n
  BY Int64Range, JsonAssumption DEF MinInt, MaxInt
<1>15. /\ NodeToValue(line[a]) = [type |-> "Int", int |-> m]
       /\ NodeToValue(line[b]) = [type |-> "Int", int |-> n]
  BY <1>14 DEF NodeToValue, NumberToInt, IsWhole, m, n
<1>16. Add(req.params) = {VInt(w) : w \in Sums(m, n)}
  BY <1>13, <1>15 DEF Add, AreInts
<1>17. v = VInt(m + n)
  BY <1>16, <1>6 DEF Sums
<1>18. v[<<>>] = [type |-> "Int", int |-> m + n]
  BY <1>17 DEF VInt, Leaf
<1>19. /\ NodeToJson(v[<<>>]) = [kind |-> "integer", num |-> m + n]
       /\ IsWhole(NodeReread([kind |-> "integer", num |-> m + n]))
       /\ NodeReread([kind |-> "integer", num |-> m + n]).num = m + n
  BY <1>14, <1>18 DEF NodeToJson, NodeReread, IsWhole
<1> QED BY <1>8, <1>19

-------------------------------------------------------------------------------
(* The theorems *)

(* What a response is made of can be written, if it is that to a request   *)
(* or the error of the parser quotes nothing but text.                     *)
LEMMA AnsweredInv == CallInv => OnlyBytesGoUnanswered
<1> SUFFICES ASSUME CallInv, NEW res \in response
             PROVE  Dumps(ResponseToJson(res)) <=> line # Garbage(FALSE)
  BY DEF OnlyBytesGoUnanswered
<1>1. IsResponse(res) /\ OneOutcome(res) /\ IsText(line)
  BY DEF CallInv, RequestInv, ResponseInv
<1>2. Dumps(ResponseToJson(res)) <=> ResponseUtf8(res)
  BY <1>1, ResponseDumps
<1>3. ASSUME NEW req \in received
      PROVE  ResponseUtf8(res) /\ line # Garbage(FALSE)
  <2>1. PICK code \in Codes : res \in Respond(req, code)
    BY DEF CallInv, ResponseInv
  <2>2. req \in FromJsonRequest(line).message /\ IsRequest(req) /\ Kind(line) = "object"
    BY <1>1, RequestRead DEF CallInv, RequestInv
  <2>3. Utf8(req.params) /\ OptionUtf8(req.id)
    BY <1>1, <2>2, RequestUtf8
  <2>4. ResponseUtf8(res)
    BY <2>1, <2>2, <2>3, RespondUtf8
  <2>5. Kind(Garbage(FALSE)) = "garbage"
    BY GarbageKind
  <2> QED BY <2>2, <2>4, <2>5
<1>4. ASSUME received = {}
      PROVE  ResponseUtf8(res) <=> line # Garbage(FALSE)
  <2>1. /\ FromJsonRequest(line).message = {}
        /\ res = Failure(ParseError, MessageOf(FromJsonRequest(line).error), {}, {})
    BY <1>4 DEF CallInv, ResponseInv
  <2> QED BY <1>1, <2>1, ParseErrorUtf8
<1> QED BY <1>2, <1>3, <1>4

(* Whatever a client composes and a handler answers, what the server reads *)
(* and what the client reads back differ from it only where JSON has no    *)
(* words for it, and there is an answer unless the line is not JSON and    *)
(* the error of the parser quotes what is not UTF-8 (json_protocol.cpp:    *)
(* 17-141).                                                                *)
THEOREM CallsLoseNothing == Spec => []NothingIsLost
<1>1. CallInv => NothingIsLost
  BY RequestArrivesInv, AnswerArrivesInv, AnsweredInv DEF NothingIsLost
<1> QED BY <1>1, CallInvariant, PTL

(* What was read once can be written and read again without a change, but  *)
(* for a response with neither result nor error (json_protocol.cpp:86).    *)
THEOREM ForwardingLosesNothing == Spec => []ForwardingIsTransparent
BY ForwardingInv, CallInvariant, PTL

(* Whatever a client sends as the id of a request that is run comes back,  *)
(* or nothing if it sent none, if every number in it fits an int64_t       *)
(* (message.h:31; json_protocol.cpp:56, 89, 175).                          *)
THEOREM IdsComeBack == Spec => []IdComesBack
BY IdComesBackInv, CallInvariant, PTL

(* The answer of "add" to numbers that fit an int64_t and whose sum does   *)
(* is that sum, at every width of the integers (main.cpp:37-44).           *)
THEOREM SumsAreExact == Spec => []AddIsExact
BY AddInv, CallInvariant, PTL
===============================================================================
