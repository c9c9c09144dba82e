---------------------------- MODULE ContractProofs ----------------------------
(***************************************************************************)
(* Comparison of contracts is sound, for all schemas and contract graphs.  *)
(*                                                                         *)
(* Two graphs are first compared without their schemas: a comparison that  *)
(* answers safe is a proof that the target accepts what the source accepts *)
(* (SafeContracts), by induction over how often references were resolved   *)
(* and over the number of pairs that may still become active.  Then a      *)
(* graph is held against the schema that it describes: what the schema     *)
(* accepts the graph does, and what the graph accepts the schema does not  *)
(* reject (SafeSchemas).                                                   *)
(*                                                                         *)
(* Recursion over schemas, nodes and values is by smallest counterexamples *)
(* over their sizes.  The recursive operators are constants; each theorem  *)
(* names those whose rules it assumes.                                     *)
(***************************************************************************)
EXTENDS ContractMeaning, FiniteSetTheorems, WellFoundedInduction, TLAPS

-----------------------------------------------------------------------------
(* Smallest counterexamples. *)

\* A set of natural numbers has a smallest element.
LEMMA Smallest ==
  ASSUME NEW S \in SUBSET Nat, S # {}
  PROVE  \E n \in S : \A k \in S : n <= k
<1> DEFINE R == OpToRel(<, Nat)
<1>1. IsWellFoundedOn(R, Nat)
  BY NatLessThanWellFounded
<1>2. \A x, y \in Nat : x < y => <<x, y>> \in R
  BY Zenon DEF OpToRel
<1> HIDE DEF R
<1>3. PICK x \in S : \A y \in S : ~(<<y, x>> \in R)
  BY <1>1, WFMin
<1>4. ASSUME NEW k \in S PROVE x <= k
  <2>1. x \in Nat /\ k \in Nat
    OBVIOUS
  <2>2. ~(k < x)
    BY <1>2, <1>3, <2>1
  <2> QED
    BY <2>1, <2>2
<1> QED
  BY <1>3, <1>4

\* Of the nodes that have something in common one is smallest.
LEMMA SmallestNode ==
  ASSUME NEW g, \A n \in g.nodes : g.size[n] \in Nat,
         NEW B \in SUBSET g.nodes, B # {}
  PROVE  \E n \in B : \A m \in g.nodes : g.size[m] < g.size[n] => m \notin B
<1> DEFINE S == {g.size[n] : n \in B}
<1>1. S \in SUBSET Nat /\ S # {}
  OBVIOUS
<1>2. PICK x \in S : \A k \in S : x <= k
  BY <1>1, Smallest
<1>3. PICK n \in B : g.size[n] = x
  OBVIOUS
<1>4. ASSUME NEW m \in g.nodes, g.size[m] < g.size[n], m \in B PROVE FALSE
  <2>1. x <= g.size[m]
    BY <1>2, <1>4
  <2> QED
    BY <1>3, <1>4, <2>1
<1> QED
  BY <1>3, <1>4

-----------------------------------------------------------------------------
(* Meaning is a fixed point of its rule. *)

\* The more is known of what lies below a node, the more the node accepts.
LEMMA Monotone ==
  ASSUME NEW R, NEW Q, R \subseteq Q, NEW g, NEW n, NEW v, NEW d, Accepts(R, g, n, v, d)
  PROVE  Accepts(Q, g, n, v, d)
BY DEF Accepts

\* What a node accepts is what its rule makes of what lies below it.
LEMMA Unfold ==
  ASSUME NEW g, NEW n \in g.nodes, NEW v \in g.values, NEW d \in Nat
  PROVE  Means(g, n, v, d) <=> Accepts(Meaning(g), g, n, v, d)
<1> DEFINE M == Meaning(g)
           Q == {x \in Triples(g) : Accepts(M, g, x[1], x[2], x[3])}
<1>1. M \in SUBSET Triples(g)
  BY DEF Meaning
<1>2. \A R \in SUBSET Triples(g) : IsClosed(R, g) => M \subseteq R
  BY DEF Meaning
<1> HIDE DEF M
<1>3. ASSUME NEW m \in g.nodes, NEW w \in g.values, NEW e \in Nat, Accepts(M, g, m, w, e)
      PROVE  <<m, w, e>> \in M
  <2>1. \A R \in SUBSET Triples(g) : IsClosed(R, g) => Accepts(R, g, m, w, e)
    BY <1>2, <1>3, Monotone
  <2>2. \A R \in SUBSET Triples(g) : IsClosed(R, g) => <<m, w, e>> \in R
    BY <2>1 DEF IsClosed
  <2>3. <<m, w, e>> \in Triples(g)
    BY DEF Triples
  <2> QED
    BY <2>2, <2>3 DEF M, Meaning
<1>4. Q \subseteq M
  BY <1>3 DEF Triples
<1>5. IsClosed(Q, g)
  <2>1. ASSUME NEW m \in g.nodes, NEW w \in g.values, NEW e \in Nat, Accepts(Q, g, m, w, e)
        PROVE  <<m, w, e>> \in Q
    <3>1. Accepts(M, g, m, w, e)
      BY <1>4, <2>1, Monotone
    <3> QED
      BY <3>1 DEF Triples
  <2> QED
    BY <2>1 DEF IsClosed
<1>6. M \subseteq Q
  BY <1>2, <1>5
<1>7. <<n, v, d>> \in M <=> Accepts(M, g, n, v, d)
  BY <1>3, <1>6
<1> QED
  BY <1>7 DEF Means, M

-----------------------------------------------------------------------------
(* What can be told of one node. *)

\* Rounding a bound inwards keeps the whole numbers within it.
LEMMA Rounding ==
  ASSUME NEW m \in Int, NEW x \in Int, x % 2 = 0
  PROVE  /\ RoundUp(m) \in Int /\ RoundDown(m) \in Int
         /\ RoundUp(m) >= m /\ RoundDown(m) <= m
         /\ x >= m => x >= RoundUp(m)
         /\ x <= m => x <= RoundDown(m)
BY DEF RoundUp, RoundDown, Infinity

\* A node that is provably empty accepts no value.
LEMMA EmptyRejects ==
  ASSUME NEW g, IsGraph(g), NodeRules(g), g.upper,
         NEW n \in g.nodes, IsProvablyEmpty(n), NEW v \in g.values, NEW d \in Nat
  PROVE  ~Means(g, n, v, d)
<1> DEFINE B == {m \in g.nodes : IsProvablyEmpty(m) /\ \E w \in g.values, e \in Nat : Means(g, m, w, e)}
<1>1. SUFFICES B = {}
  OBVIOUS
<1>2. SUFFICES ASSUME B # {} PROVE FALSE
  OBVIOUS
<1>3. \A m \in g.nodes : g.size[m] \in Nat
  BY DEF IsGraph, IsNode
<1>4. PICK m \in B : \A c \in g.nodes : g.size[c] < g.size[m] => c \notin B
  BY <1>2, <1>3, SmallestNode
<1>5. PICK w \in g.values, e \in Nat : Means(g, m, w, e)
  OBVIOUS
<1>6. \A c \in Children(m) : c \in g.nodes /\ (IsProvablyEmpty(c) => \A u \in g.values : ~Means(g, c, u, e))
  <2>1. \A c \in Children(m) : c \in g.nodes /\ g.size[c] < g.size[m]
    BY DEF IsGraph, IsNode
  <2> QED
    BY <1>4, <2>1
<1>7. Accepts(Meaning(g), g, m, w, e)
  BY <1>5, Unfold
<1>8. IsProvablyEmptyRule(m)
  BY DEF NodeRules
<1>9. IsNode(m, g) /\ IsValue(w, g.values)
  BY DEF IsGraph
<1> HIDE DEF B
<1>10. CASE m.kind = "number"
  <2>1. m.integer /\ RoundUp(m.min) > RoundDown(m.max)
    BY <1>8, <1>10 DEF IsProvablyEmptyRule
  <2>2. w.num \in Int /\ NumberAccepts(m, w.num)
    BY <1>7, <1>9, <1>10 DEF Accepts, IsValue
  <2>3. m.min \in Int /\ m.max \in Int
    BY <1>9, <1>10 DEF IsNode
  <2>4. w.num % 2 = 0 /\ w.num >= m.min /\ w.num <= m.max
    BY <2>1, <2>2 DEF NumberAccepts
  <2>5. w.num >= RoundUp(m.min) /\ w.num <= RoundDown(m.max) /\ RoundUp(m.min) \in Int /\ RoundDown(m.max) \in Int
    BY <2>2, <2>3, <2>4, Rounding
  <2> QED
    BY <2>1, <2>2, <2>5
<1>11. CASE m.kind = "array"
  <2>1. m.min > 0 /\ IsProvablyEmpty(m.item)
    BY <1>8, <1>11 DEF IsProvablyEmptyRule
  <2>2. w.items \in Seq(g.values) /\ Len(w.items) >= m.min /\ m.min \in Nat
        /\ \A i \in DOMAIN w.items : Means(g, m.item, w.items[i], e)
    BY <1>7, <1>9, <1>11 DEF Accepts, IsValue, IsNode, Lengths, Means
  <2>3. 1 \in DOMAIN w.items /\ w.items[1] \in g.values
    BY <2>1, <2>2
  <2>4. m.item \in Children(m)
    BY <1>11 DEF Children
  <2> QED
    BY <1>6, <2>1, <2>2, <2>3, <2>4
<1>12. CASE m.kind = "tuple"
  <2>1. PICK i \in DOMAIN m.items : IsProvablyEmpty(m.items[i])
    BY <1>8, <1>12 DEF IsProvablyEmptyRule
  <2>2. Len(w.items) = Len(m.items) /\ m.items \in Seq(g.nodes) /\ w.items \in Seq(g.values)
        /\ Means(g, m.items[i], w.items[i], e)
    BY <1>7, <1>9, <1>12, <2>1 DEF Accepts, IsValue, IsNode, Means
  <2>3. w.items[i] \in g.values
    BY <2>1, <2>2
  <2>4. m.items[i] \in Children(m)
    BY <1>12, <2>1 DEF Children, Range
  <2> QED
    BY <1>6, <2>1, <2>2, <2>3, <2>4
<1>13. CASE m.kind \in {"union", "discriminatedUnion"}
  <2>1. PICK i \in DOMAIN m.choices : Means(g, m.choices[i], w, e)
    BY <1>7, <1>13 DEF Accepts, Means
  <2>2. IsProvablyEmpty(m.choices[i])
    BY <1>8, <1>13, <2>1 DEF IsProvablyEmptyRule
  <2>3. m.choices[i] \in Children(m)
    BY <1>13, <2>1 DEF Children, Range
  <2> QED
    BY <1>6, <2>1, <2>2, <2>3
<1>14. CASE m.kind = "intersection"
  <2>1. IsProvablyEmpty(m.left) \/ IsProvablyEmpty(m.right)
    BY <1>8, <1>14 DEF IsProvablyEmptyRule
  <2>2. Means(g, m.left, w, e) /\ Means(g, m.right, w, e)
    BY <1>7, <1>14 DEF Accepts, Means
  <2>3. m.left \in Children(m) /\ m.right \in Children(m)
    BY <1>14 DEF Children
  <2> QED
    BY <1>6, <2>1, <2>2, <2>3
<1>15. CASE m.kind = "object"
  <2>1. PICK k \in m.required : IsProvablyEmpty(Unwrapped(m.shape[k]))
    BY <1>8, <1>15 DEF IsProvablyEmptyRule
  <2>2. k \in DOMAIN m.shape /\ m.shape[k].kind # "optional"
    BY <1>9, <1>15 DEF IsNode
  <2>3. IsProvablyEmpty(m.shape[k])
    BY <2>1, <2>2 DEF Unwrapped
  <2>4. w.tag = "object" /\ k \in DOMAIN w.props /\ Means(g, m.shape[k], w.props[k], e)
    BY <1>7, <1>15, <2>2 DEF Accepts, Means
  <2>5. w.props[k] \in g.values
    BY <1>9, <2>4 DEF IsValue
  <2>6. m.shape[k] \in Children(m)
    BY <1>15, <2>2 DEF Children, Range
  <2> QED
    BY <1>6, <2>3, <2>4, <2>5, <2>6
<1>16. CASE m.kind = "transform"
  <2>1. IsProvablyEmpty(m.inner) /\ Means(g, m.inner, w, e) /\ m.inner \in Children(m)
    BY <1>7, <1>8, <1>16 DEF IsProvablyEmptyRule, Accepts, Means, Children
  <2> QED
    BY <1>6, <2>1
<1>17. CASE m.kind = "never"
  BY <1>7, <1>17 DEF Accepts
<1>18. m.kind \in {"never", "number", "array", "tuple", "union", "discriminatedUnion", "intersection",
                   "object", "transform"}
  BY <1>8 DEF IsProvablyEmptyRule
<1> QED
  BY <1>10, <1>11, <1>12, <1>13, <1>14, <1>15, <1>16, <1>17, <1>18

\* A node that is provably universal accepts every value.
LEMMA UniversalAccepts ==
  ASSUME NEW g, IsGraph(g), NodeRules(g),
         NEW n \in g.nodes, IsProvablyUniversal(n), NEW v \in g.values, NEW d \in Nat
  PROVE  Means(g, n, v, d)
<1> DEFINE B == {m \in g.nodes : IsProvablyUniversal(m) /\ ~Means(g, m, v, d)}
<1>1. SUFFICES ASSUME B # {} PROVE FALSE
  OBVIOUS
<1>3. \A m \in g.nodes : g.size[m] \in Nat
  BY DEF IsGraph, IsNode
<1>4. PICK m \in B : \A c \in g.nodes : g.size[c] < g.size[m] => c \notin B
  BY <1>1, <1>3, SmallestNode
<1>6. \A c \in Children(m) : IsProvablyUniversal(c) => Means(g, c, v, d)
  <2>1. \A c \in Children(m) : c \in g.nodes /\ g.size[c] < g.size[m]
    BY DEF IsGraph, IsNode
  <2> QED
    BY <1>4, <2>1
<1>7. IsProvablyUniversalRule(m)
  BY DEF NodeRules
<1>8. m.refs = <<>>
  BY <1>7 DEF IsProvablyUniversalRule
<1>9. RefsHold(g, m)
  BY <1>8 DEF RefsHold, Range
<1>10. CASE m.kind = "unknown"
  BY <1>9, <1>10, Unfold DEF Accepts
<1>11. CASE m.kind \in {"nullable", "optional"} /\ IsProvablyUniversal(m.inner)
  <2>1. Means(g, m.inner, v, d)
    BY <1>6, <1>11 DEF Children
  <2> QED
    BY <1>9, <1>11, <2>1, Unfold DEF Accepts, Means
<1>12. CASE m.kind = "union" /\ \E i \in DOMAIN m.choices : IsProvablyUniversal(m.choices[i])
  <2>1. PICK i \in DOMAIN m.choices : IsProvablyUniversal(m.choices[i])
    BY <1>12
  <2>2. Means(g, m.choices[i], v, d)
    BY <1>6, <1>12, <2>1 DEF Children, Range
  <2> QED
    BY <1>9, <1>12, <2>1, <2>2, Unfold DEF Accepts, Means
<1> QED
  BY <1>7, <1>10, <1>11, <1>12 DEF IsProvablyUniversalRule

\* A node that takes a literal, and tells all about it, accepts it.
LEMMA LiteralAccepted ==
  ASSUME NEW g, IsGraph(g), ~g.upper, NodeRules(g),
         NEW n \in g.nodes, IsLiteralAcceptanceDecidable(n),
         NEW v \in g.values, IsScalar(v), AcceptsLiteral(n, v), NEW d \in Nat
  PROVE  Means(g, n, v, d)
<1> DEFINE B == {m \in g.nodes : IsLiteralAcceptanceDecidable(m) /\ AcceptsLiteral(m, v) /\ ~Means(g, m, v, d)}
<1>1. SUFFICES ASSUME B # {} PROVE FALSE
  OBVIOUS
<1>3. \A m \in g.nodes : g.size[m] \in Nat
  BY DEF IsGraph, IsNode
<1>4. PICK m \in B : \A c \in g.nodes : g.size[c] < g.size[m] => c \notin B
  BY <1>1, <1>3, SmallestNode
<1>6. \A c \in Children(m) : IsLiteralAcceptanceDecidable(c) /\ AcceptsLiteral(c, v) => Means(g, c, v, d)
  <2>1. \A c \in Children(m) : c \in g.nodes /\ g.size[c] < g.size[m]
    BY DEF IsGraph, IsNode
  <2> QED
    BY <1>4, <2>1
<1>7. IsLiteralAcceptanceDecidableRule(m) /\ AcceptsLiteralRule(m, v)
  BY DEF NodeRules
<1>8. m.refs = <<>>
  BY <1>7 DEF IsLiteralAcceptanceDecidableRule
<1>9. RefsHold(g, m)
  BY <1>8 DEF RefsHold, Range
<1>10. m.kind \in {"nullable", "optional", "union", "discriminatedUnion"} =>
         \A c \in Children(m) : IsLiteralAcceptanceDecidable(c)
  BY <1>7 DEF IsLiteralAcceptanceDecidableRule
<1>11. CASE m.kind \in {"unknown", "literal", "enum", "string", "boolean", "number"}
  <2>1. Accepts(Meaning(g), g, m, v, d)
    BY <1>7, <1>9, <1>11 DEF AcceptsLiteralRule, Accepts
  <2> QED
    BY <2>1, Unfold
<1>12. CASE m.kind \in {"nullable", "optional"}
  <2>1. (m.kind = "nullable" /\ v = Null) \/ (m.kind = "optional" /\ v = Undefined) \/ AcceptsLiteral(m.inner, v)
    BY <1>7, <1>12 DEF AcceptsLiteralRule
  <2>2. m.inner \in Children(m)
    BY <1>12 DEF Children
  <2>3. Accepts(Meaning(g), g, m, v, d)
    BY <1>6, <1>9, <1>10, <1>12, <2>1, <2>2 DEF Accepts, Means
  <2> QED
    BY <2>3, Unfold
<1>13. CASE m.kind \in {"union", "discriminatedUnion"}
  <2>1. PICK i \in DOMAIN m.choices : AcceptsLiteral(m.choices[i], v)
    BY <1>7, <1>13 DEF AcceptsLiteralRule
  <2>2. m.choices[i] \in Children(m)
    BY <1>13, <2>1 DEF Children, Range
  <2>3. CASE m.kind = "union"
    <3>1. Means(g, m.choices[i], v, d)
      BY <1>6, <1>10, <1>13, <2>1, <2>2
    <3>2. Accepts(Meaning(g), g, m, v, d)
      BY <1>9, <2>1, <2>3, <3>1 DEF Accepts, Means
    <3> QED
      BY <3>2, Unfold
  <2>4. CASE m.kind = "discriminatedUnion"
    <3>1. m.choices[i].kind = "object" /\ m.choices[i] \in g.nodes
      BY <2>1, <2>2, <2>4 DEF IsGraph, IsNode
    <3>2. AcceptsLiteralRule(m.choices[i], v)
      BY <2>1, <3>1 DEF NodeRules
    <3> QED
      BY <3>1, <3>2 DEF AcceptsLiteralRule
  <2> QED
    BY <1>13, <2>3, <2>4
<1>14. CASE m.kind = "intersection"
  <2>1. Accepts(Meaning(g), g, m, v, d)
    BY <1>9, <1>14 DEF Accepts
  <2> QED
    BY <2>1, Unfold
<1> QED
  <2>1. m.kind \in {"unknown", "literal", "enum", "string", "boolean", "number", "nullable", "optional",
                    "union", "discriminatedUnion", "intersection"}
    BY <1>7 DEF AcceptsLiteralRule
  <2> QED
    BY <1>11, <1>12, <1>13, <1>14, <2>1

-----------------------------------------------------------------------------
(* Sequences. *)

\* Flattening defines a function on the positions of a sequence of sequences.
FlattenTo(f, ss) ==
  f = [i \in 1..Len(ss) |-> IF i = 1 THEN ss[i] ELSE f[i-1] \o ss[i]]

\* There is such a function.
LEMMA FlattenExists ==
  ASSUME NEW T, NEW ss \in Seq(Seq(T))
  PROVE  \E f : FlattenTo(f, ss)
<1> DEFINE Up(f, m) == f = [i \in 1..m |-> IF i = 1 THEN ss[i] ELSE f[i-1] \o ss[i]]
           Bad == {m \in Nat : m <= Len(ss) /\ ~\E f : Up(f, m)}
<1>1. SUFFICES Bad = {}
  <2>1. Len(ss) \in Nat /\ Len(ss) <= Len(ss)
    OBVIOUS
  <2>2. \E f : Up(f, Len(ss))
    BY <1>1, <2>1
  <2> QED
    BY <2>2 DEF FlattenTo
<1>2. SUFFICES ASSUME Bad # {} PROVE FALSE
  OBVIOUS
<1>3. PICK m \in Bad : \A k \in Bad : m <= k
  BY <1>2, Smallest
<1>4. m # 0
  <2>1. ASSUME m = 0 PROVE FALSE
    <3> DEFINE f == [i \in 1..0 |-> <<>>]
    <3>1. 1..0 = {}
      OBVIOUS
    <3>2. Up(f, 0)
      BY <3>1, Zenon
    <3> QED
      BY <2>1, <3>2
  <2> QED
    BY <2>1
<1>5. m \in Nat /\ m <= Len(ss) /\ Len(ss) \in Nat
  OBVIOUS
<1>51. \E f : Up(f, m - 1)
  <2>1. m - 1 \in Nat /\ m - 1 <= Len(ss) /\ ~(m <= m - 1)
    BY <1>4, <1>5
  <2>2. m - 1 \notin Bad
    BY <1>3, <2>1
  <2> QED
    BY <2>1, <2>2
<1>6. PICK f : Up(f, m - 1)
  BY <1>51
<1> DEFINE h == [i \in 1..m |-> IF i \in 1..(m-1) THEN f[i] ELSE IF m = 1 THEN ss[m] ELSE f[m-1] \o ss[m]]
<1>7. \A i \in 1..(m-1) : f[i] = IF i = 1 THEN ss[i] ELSE f[i-1] \o ss[i]
  BY <1>6
<1>8. \A i \in 1..m : h[i] = IF i = 1 THEN ss[i] ELSE h[i-1] \o ss[i]
  <2> TAKE i \in 1..m
  <2>1. CASE i \in 1..(m-1)
    <3>1. h[i] = f[i]
      BY <2>1
    <3>2. i # 1 => i - 1 \in 1..(m-1) /\ i - 1 \in 1..m
      BY <2>1
    <3>3. i # 1 => h[i-1] = f[i-1]
      BY <3>2
    <3> HIDE DEF h
    <3> QED
      BY <1>7, <2>1, <3>1, <3>3
  <2>2. CASE i = m
    <3>1. i \notin 1..(m-1)
      BY <2>2
    <3>2. h[i] = IF m = 1 THEN ss[m] ELSE f[m-1] \o ss[m]
      BY <2>2, <3>1
    <3>3. m # 1 => m - 1 \in 1..(m-1) /\ m - 1 \in 1..m
      BY <1>4
    <3>4. m # 1 => h[m-1] = f[m-1]
      BY <3>3
    <3> HIDE DEF h
    <3> QED
      BY <2>2, <3>2, <3>4
  <2> QED
    BY <2>1, <2>2
<1>9. Up(h, m)
  <2>1. h = [i \in 1..m |-> h[i]]
    OBVIOUS
  <2> HIDE DEF h
  <2>2. [i \in 1..m |-> h[i]] = [i \in 1..m |-> IF i = 1 THEN ss[i] ELSE h[i-1] \o ss[i]]
    BY <1>8
  <2> QED
    BY <2>1, <2>2
<1> QED
  BY <1>9

\* The elements of a flattened sequence are those of its parts.
LEMMA Flattened ==
  ASSUME NEW T, NEW ss \in Seq(Seq(T))
  PROVE  /\ FlattenSeq(ss) \in Seq(T)
         /\ Range(FlattenSeq(ss)) = UNION {Range(ss[i]) : i \in DOMAIN ss}
<1>1. CASE Len(ss) = 0
  <2>1. ss = <<>> /\ DOMAIN ss = {} /\ FlattenSeq(ss) = <<>>
    BY <1>1 DEF FlattenSeq
  <2>2. Range(FlattenSeq(ss)) = {}
    BY <2>1 DEF Range
  <2>3. <<>> \in Seq(T)
    OBVIOUS
  <2> QED
    BY <2>1, <2>2, <2>3
<1>2. CASE Len(ss) # 0
  <2> DEFINE f == CHOOSE x : FlattenTo(x, ss)
             Good(i) == f[i] \in Seq(T) /\ Range(f[i]) = UNION {Range(ss[j]) : j \in 1..i}
             Bad == {i \in 1..Len(ss) : ~Good(i)}
  <2>1. FlattenTo(f, ss)
    BY FlattenExists
  <2>2. FlattenSeq(ss) = f[Len(ss)]
    BY <1>2 DEF FlattenSeq, FlattenTo
  <2> HIDE DEF f
  <2>3. \A i \in 1..Len(ss) : f[i] = IF i = 1 THEN ss[i] ELSE f[i-1] \o ss[i]
    BY <2>1 DEF FlattenTo
  <2>4. Bad = {}
    <3>1. SUFFICES ASSUME Bad # {} PROVE FALSE
      OBVIOUS
    <3>2. Bad \in SUBSET Nat
      OBVIOUS
    <3>3. PICK i \in Bad : \A k \in Bad : i <= k
      BY <3>1, <3>2, Smallest
    <3>4. ss[i] \in Seq(T) /\ i \in 1..Len(ss)
      BY <3>3
    <3>5. CASE i = 1
      <4>1. f[i] = ss[1]
        BY <2>3, <3>4, <3>5
      <4>2. {Range(ss[j]) : j \in 1..i} = {Range(ss[1])}
        BY <3>5
      <4>3. Good(i)
        BY <3>4, <3>5, <4>1, <4>2
      <4> QED
        BY <3>3, <4>3
    <3>6. CASE i # 1
      <4>1. i - 1 \in 1..Len(ss) /\ ~(i <= i - 1)
        BY <3>4, <3>6
      <4>2. Good(i - 1)
        BY <3>3, <4>1
      <4>3. f[i] = f[i-1] \o ss[i]
        BY <2>3, <3>4, <3>6
      <4>4. f[i] \in Seq(T)
        BY <3>4, <4>2, <4>3
      <4>5. Range(f[i]) = Range(f[i-1]) \cup Range(ss[i])
        <5>1. \A a, b \in Seq(T) : Range(a \o b) = Range(a) \cup Range(b)
          <6> TAKE a, b \in Seq(T)
          <6>1. Range(a \o b) \subseteq Range(a) \cup Range(b)
            BY DEF Range
          <6>2. ASSUME NEW j \in DOMAIN a PROVE a[j] \in Range(a \o b)
            <7>1. j \in DOMAIN (a \o b) /\ (a \o b)[j] = a[j]
              OBVIOUS
            <7> QED
              BY <7>1 DEF Range
          <6>3. ASSUME NEW j \in DOMAIN b PROVE b[j] \in Range(a \o b)
            <7>1. Len(a) + j \in DOMAIN (a \o b) /\ (a \o b)[Len(a) + j] = b[j]
              OBVIOUS
            <7> QED
              BY <7>1 DEF Range
          <6> QED
            BY <6>1, <6>2, <6>3 DEF Range
        <5> QED
          BY <3>4, <4>2, <4>3, <5>1
      <4>6. 1..i = (1..(i-1)) \cup {i}
        BY <3>4
      <4>7. UNION {Range(ss[j]) : j \in 1..i} = (UNION {Range(ss[j]) : j \in 1..(i-1)}) \cup Range(ss[i])
        BY <4>6
      <4>8. Good(i)
        BY <4>2, <4>4, <4>5, <4>7
      <4> QED
        BY <3>3, <4>8
    <3> QED
      BY <3>5, <3>6
  <2>5. Len(ss) \in 1..Len(ss) /\ DOMAIN ss = 1..Len(ss)
    BY <1>2
  <2>6. Good(Len(ss))
    BY <2>4, <2>5
  <2> QED
    BY <2>2, <2>5, <2>6
<1> QED
  BY <1>1, <1>2

\* The elements of the sequence made from a finite set are those of the set.
LEMMA SetToSeqRange ==
  ASSUME NEW S, IsFiniteSet(S)
  PROVE  SetToSeq(S) \in Seq(S) /\ Range(SetToSeq(S)) = S
<1> DEFINE c == Cardinality(S)
<1>1. c \in Nat /\ ExistsBijection(1..c, S)
  BY FS_CardinalityType
<1>2. PICK b \in [1..c -> S] : (\A i, j \in 1..c : b[i] = b[j] => i = j) /\ \A x \in S : \E i \in 1..c : b[i] = x
  BY <1>1 DEF ExistsBijection, Bijection, Injection, Surjection, IsInjective
<1>3. IsInjective(b)
  BY <1>2 DEF IsInjective
<1>4. SetToSeq(S) \in [1..c -> S] /\ IsInjective(SetToSeq(S))
  BY <1>3 DEF SetToSeq
<1> DEFINE f == SetToSeq(S)
<1>5. f \in Injection(1..c, S)
  BY <1>4 DEF Injection
<1>6. IsFiniteSet(1..c) /\ Cardinality(1..c) = c
  BY <1>1, FS_Interval
<1>7. f \in Surjection(1..c, S)
  BY <1>5, <1>6, FS_Injection
<1>8. f \in Seq(S)
  BY <1>1, <1>4
<1>9. Range(f) = S
  BY <1>4, <1>7 DEF Surjection, Range
<1> QED
  BY <1>8, <1>9

-----------------------------------------------------------------------------
(* Choices. *)

\* The node of a literal accepts that literal.
LEMMA LiteralMeans ==
  ASSUME NEW g, NEW x, LiteralOf(x) \in g.nodes, NEW v \in g.values, NEW d \in Nat
  PROVE  Means(g, LiteralOf(x), v, d) <=> v = x
<1> DEFINE m == LiteralOf(x)
<1>1. m.kind = "literal" /\ m.lit = x /\ m.refs = <<>>
  BY DEF LiteralOf
<1>2. RefsHold(g, m)
  BY <1>1 DEF RefsHold, Range
<1> HIDE DEF m
<1>3. Accepts(Meaning(g), g, m, v, d) <=> v = x
  BY <1>1, <1>2 DEF Accepts
<1> QED
  BY <1>3, Unfold DEF m

\* A sequence of one element.
LEMMA Singleton ==
  ASSUME NEW S, NEW x \in S
  PROVE  <<x>> \in Seq(S)
<1>1. <<x>> = [i \in 1..1 |-> x]
  OBVIOUS
<1> QED
  BY <1>1

\* How a node is expanded, by its kind.
LEMMA Expansion ==
  ASSUME NEW g, IsGraph(g), NodeRules(g), NEW n \in g.nodes,
         \A c \in Children(n) : ExpandChoices(c) \in Seq(g.nodes)
  PROVE  /\ ExpandChoices(n) \in Seq(g.nodes)
         /\ Range(ExpandChoices(n)) =
              CASE n.kind = "union" -> UNION {Range(ExpandChoices(n.choices[i])) : i \in DOMAIN n.choices}
                [] n.kind = "nullable" -> Range(ExpandChoices(n.inner)) \cup {LiteralOf(Null)}
                [] n.kind = "optional" -> Range(ExpandChoices(n.inner)) \cup {LiteralOf(Undefined)}
                [] n.kind = "enum" /\ n.refs = <<>> -> {LiteralOf(v) : v \in n.values}
                [] OTHER -> {n}
<1>1. ExpandChoices(n) = ExpandChoicesRule(n)
  BY DEF NodeRules
<1>2. IsNode(n, g)
  BY DEF IsGraph
<1>3. CASE n.kind = "union"
  <2> DEFINE ss == [i \in DOMAIN n.choices |-> ExpandChoices(n.choices[i])]
  <2>1. ExpandChoices(n) = FlattenSeq(ss)
    BY <1>1, <1>3 DEF ExpandChoicesRule
  <2>2. n.choices \in Seq(g.nodes)
    BY <1>2, <1>3 DEF IsNode
  <2>3. \A i \in DOMAIN n.choices : ExpandChoices(n.choices[i]) \in Seq(g.nodes)
    BY <1>3 DEF Children, Range
  <2>4. ss \in Seq(Seq(g.nodes)) /\ DOMAIN ss = DOMAIN n.choices
    BY <2>2, <2>3
  <2>5. \A i \in DOMAIN n.choices : ss[i] = ExpandChoices(n.choices[i])
    OBVIOUS
  <2> HIDE DEF ss
  <2>6. {Range(ss[i]) : i \in DOMAIN ss} = {Range(ExpandChoices(n.choices[i])) : i \in DOMAIN n.choices}
    BY <2>4, <2>5
  <2>7. FlattenSeq(ss) \in Seq(g.nodes)
        /\ Range(FlattenSeq(ss)) = UNION {Range(ss[i]) : i \in DOMAIN ss}
    BY <2>4, Flattened
  <2> QED
    BY <1>3, <2>1, <2>6, <2>7
<1>4. \A q \in Seq(g.nodes), x \in g.nodes :
        Append(q, x) \in Seq(g.nodes) /\ Range(Append(q, x)) = Range(q) \cup {x}
  <2> TAKE q \in Seq(g.nodes), x \in g.nodes
  <2>1. Append(q, x) \in Seq(g.nodes)
    OBVIOUS
  <2>2. Range(Append(q, x)) \subseteq Range(q) \cup {x}
    BY DEF Range
  <2>3. ASSUME NEW j \in DOMAIN q PROVE q[j] \in Range(Append(q, x))
    <3>1. j \in DOMAIN Append(q, x) /\ Append(q, x)[j] = q[j]
      OBVIOUS
    <3> QED
      BY <3>1 DEF Range
  <2>4. x \in Range(Append(q, x))
    <3>1. Len(q) + 1 \in DOMAIN Append(q, x) /\ Append(q, x)[Len(q) + 1] = x
      OBVIOUS
    <3> QED
      BY <3>1 DEF Range
  <2> QED
    BY <2>1, <2>2, <2>3, <2>4 DEF Range
<1>5. CASE n.kind = "nullable"
  <2>1. ExpandChoices(n) = Append(ExpandChoices(n.inner), LiteralOf(Null))
    BY <1>1, <1>5 DEF ExpandChoicesRule
  <2>2. ExpandChoices(n.inner) \in Seq(g.nodes) /\ LiteralOf(Null) \in g.nodes
    BY <1>2, <1>5 DEF Children, IsNode
  <2> QED
    BY <1>4, <1>5, <2>1, <2>2
<1>6. CASE n.kind = "optional"
  <2>1. ExpandChoices(n) = Append(ExpandChoices(n.inner), LiteralOf(Undefined))
    BY <1>1, <1>6 DEF ExpandChoicesRule
  <2>2. ExpandChoices(n.inner) \in Seq(g.nodes) /\ LiteralOf(Undefined) \in g.nodes
    BY <1>2, <1>6 DEF Children, IsNode
  <2> QED
    BY <1>4, <1>6, <2>1, <2>2
<1>7. CASE n.kind = "enum" /\ n.refs = <<>>
  <2> DEFINE S == {LiteralOf(v) : v \in n.values}
  <2>1. ExpandChoices(n) = SetToSeq(S)
    BY <1>1, <1>7 DEF ExpandChoicesRule
  <2>2. IsFiniteSet(n.values) /\ S \subseteq g.nodes
    BY <1>2, <1>7 DEF IsNode
  <2>3. IsFiniteSet(S)
    <3> DEFINE f == [v \in n.values |-> LiteralOf(v)]
    <3>1. f \in Surjection(n.values, S)
      BY DEF Surjection
    <3> QED
      BY <2>2, <3>1, FS_Surjection
  <2>4. SetToSeq(S) \in Seq(S) /\ Range(SetToSeq(S)) = S
    BY <2>3, SetToSeqRange
  <2> HIDE DEF S
  <2>5. SetToSeq(S) \in Seq(g.nodes)
    BY <2>2, <2>4
  <2>6. Range(ExpandChoices(n)) = S
    BY <2>1, <2>4
  <2> QED
    BY <1>7, <2>1, <2>5, <2>6 DEF S
<1>8. CASE n.kind \notin {"union", "nullable", "optional"} /\ ~(n.kind = "enum" /\ n.refs = <<>>)
  <2>1. ExpandChoices(n) = <<n>>
    BY <1>1, <1>8 DEF ExpandChoicesRule
  <2>2. <<n>> \in Seq(g.nodes)
    BY Singleton
  <2>3. DOMAIN <<n>> = {1} /\ <<n>>[1] = n
    OBVIOUS
  <2>4. Range(<<n>>) = {n}
    BY <2>3 DEF Range
  <2> QED
    BY <1>8, <2>1, <2>2, <2>4
<1> QED
  BY <1>3, <1>5, <1>6, <1>7, <1>8

\* The choices of a node are nodes, no greater than the node, and those of a union are
\* smaller.
LEMMA ChoicesAreNodes ==
  ASSUME NEW g, IsGraph(g), NodeRules(g), NEW n \in g.nodes
  PROVE  /\ ExpandChoices(n) \in Seq(g.nodes)
         /\ \A c \in Range(ExpandChoices(n)) :
              c \in g.nodes /\ g.size[c] <= g.size[n] /\ (n.kind = "union" => g.size[c] < g.size[n])
<1> DEFINE Fit(m) == /\ ExpandChoices(m) \in Seq(g.nodes)
                     /\ \A c \in Range(ExpandChoices(m)) :
                          c \in g.nodes /\ g.size[c] <= g.size[m] /\ (m.kind = "union" => g.size[c] < g.size[m])
           B == {m \in g.nodes : ~Fit(m)}
<1>1. SUFFICES ASSUME B # {} PROVE FALSE
  OBVIOUS
<1>2. \A m \in g.nodes : g.size[m] \in Nat
  BY DEF IsGraph, IsNode
<1>25. B \in SUBSET g.nodes
  OBVIOUS
<1>26. \A m \in g.nodes : m \notin B => Fit(m)
  OBVIOUS
<1> HIDE DEF B
<1>3. PICK m \in B : \A c \in g.nodes : g.size[c] < g.size[m] => c \notin B
  BY <1>1, <1>2, <1>25, SmallestNode
<1>35. ~Fit(m)
  BY DEF B
<1>4. IsNode(m, g) /\ m \in g.nodes
  BY <1>25 DEF IsGraph
<1>5. \A c \in Children(m) : c \in g.nodes /\ g.size[c] < g.size[m] /\ Fit(c)
  <2>1. \A c \in Children(m) : c \in g.nodes /\ g.size[c] < g.size[m]
    BY <1>4 DEF IsNode
  <2> QED
    BY <1>3, <1>26, <2>1
<1>6. ExpandChoices(m) \in Seq(g.nodes)
  BY <1>4, <1>5, Expansion
<1> DEFINE X == Range(ExpandChoices(m))
<1>7. X = CASE m.kind = "union" -> UNION {Range(ExpandChoices(m.choices[i])) : i \in DOMAIN m.choices}
            [] m.kind = "nullable" -> Range(ExpandChoices(m.inner)) \cup {LiteralOf(Null)}
            [] m.kind = "optional" -> Range(ExpandChoices(m.inner)) \cup {LiteralOf(Undefined)}
            [] m.kind = "enum" /\ m.refs = <<>> -> {LiteralOf(v) : v \in m.values}
            [] OTHER -> {m}
  BY <1>4, <1>5, Expansion
<1>8. ASSUME NEW c \in X
      PROVE  c \in g.nodes /\ g.size[c] <= g.size[m] /\ (m.kind = "union" => g.size[c] < g.size[m])
  <2> HIDE DEF X
  <2>1. CASE m.kind = "union"
    <3>1. PICK i \in DOMAIN m.choices : c \in Range(ExpandChoices(m.choices[i]))
      BY <1>7, <2>1
    <3>2. m.choices[i] \in Children(m)
      BY <2>1, <3>1 DEF Children, Range
    <3>3. c \in g.nodes /\ g.size[c] <= g.size[m.choices[i]] /\ g.size[m.choices[i]] < g.size[m]
      BY <1>5, <3>1, <3>2
    <3> QED
      BY <1>2, <1>4, <1>5, <3>2, <3>3
  <2>2. CASE m.kind \in {"nullable", "optional"}
    <3>1. m.inner \in Children(m)
      BY <2>2 DEF Children
    <3>2. CASE c \in Range(ExpandChoices(m.inner))
      <4>1. c \in g.nodes /\ g.size[c] <= g.size[m.inner] /\ g.size[m.inner] < g.size[m]
        BY <1>5, <3>1, <3>2
      <4> QED
        BY <1>2, <1>4, <1>5, <2>2, <3>1, <4>1
    <3>3. CASE (m.kind = "nullable" /\ c = LiteralOf(Null)) \/ (m.kind = "optional" /\ c = LiteralOf(Undefined))
      BY <1>4, <3>3 DEF IsNode
    <3> QED
      BY <1>7, <2>2, <3>2, <3>3
  <2>3. CASE m.kind = "enum" /\ m.refs = <<>>
    <3>1. PICK v \in m.values : c = LiteralOf(v)
      BY <1>7, <2>3
    <3> QED
      BY <1>4, <2>3, <3>1 DEF IsNode
  <2>4. CASE m.kind \notin {"union", "nullable", "optional"} /\ ~(m.kind = "enum" /\ m.refs = <<>>)
    <3>1. c = m
      BY <1>7, <2>4
    <3> QED
      BY <1>2, <1>4, <2>4, <3>1
  <2> QED
    BY <2>1, <2>2, <2>3, <2>4
<1>9. Fit(m)
  BY <1>6, <1>8
<1> QED
  BY <1>35, <1>9

\* What a node accepts one of its choices accepts.
LEMMA ChoicesCover ==
  ASSUME NEW g, IsGraph(g), NodeRules(g), NEW n \in g.nodes,
         NEW v \in g.values, NEW d \in Nat, Means(g, n, v, d)
  PROVE  \E c \in Range(ExpandChoices(n)) : Means(g, c, v, d)
<1> DEFINE B == {m \in g.nodes : Means(g, m, v, d) /\ ~\E c \in Range(ExpandChoices(m)) : Means(g, c, v, d)}
<1>1. SUFFICES ASSUME B # {} PROVE FALSE
  OBVIOUS
<1>2. \A m \in g.nodes : g.size[m] \in Nat
  BY DEF IsGraph, IsNode
<1>3. PICK m \in B : \A c \in g.nodes : g.size[c] < g.size[m] => c \notin B
  BY <1>1, <1>2, SmallestNode
<1>4. IsNode(m, g) /\ Means(g, m, v, d) /\ m \in g.nodes /\ ~\E c \in Range(ExpandChoices(m)) : Means(g, c, v, d)
  BY DEF IsGraph
<1>5. \A c \in Children(m) : c \in g.nodes /\ c \notin B
  BY <1>3, <1>4 DEF IsNode
<1>6. \A c \in Children(m) : Means(g, c, v, d) => \E x \in Range(ExpandChoices(c)) : Means(g, x, v, d)
  BY <1>5
<1>7. Accepts(Meaning(g), g, m, v, d)
  BY <1>4, Unfold
<1> HIDE DEF B
<1>8. \A c \in Children(m) : ExpandChoices(c) \in Seq(g.nodes)
  BY <1>5, ChoicesAreNodes
<1> DEFINE X == Range(ExpandChoices(m))
<1>9. X = CASE m.kind = "union" -> UNION {Range(ExpandChoices(m.choices[i])) : i \in DOMAIN m.choices}
            [] m.kind = "nullable" -> Range(ExpandChoices(m.inner)) \cup {LiteralOf(Null)}
            [] m.kind = "optional" -> Range(ExpandChoices(m.inner)) \cup {LiteralOf(Undefined)}
            [] m.kind = "enum" /\ m.refs = <<>> -> {LiteralOf(x) : x \in m.values}
            [] OTHER -> {m}
  BY <1>4, <1>8, Expansion
<1>10. ~\E c \in X : Means(g, c, v, d)
  BY <1>4
<1> HIDE DEF X
<1>11. CASE m.kind = "union"
  <2>1. PICK i \in DOMAIN m.choices : Means(g, m.choices[i], v, d)
    BY <1>7, <1>11 DEF Accepts, Means
  <2>2. m.choices[i] \in Children(m)
    BY <1>11, <2>1 DEF Children, Range
  <2>3. PICK x \in Range(ExpandChoices(m.choices[i])) : Means(g, x, v, d)
    BY <1>6, <2>1, <2>2
  <2>4. x \in X
    BY <1>9, <1>11, <2>1, <2>3
  <2> QED
    BY <1>10, <2>3, <2>4
<1>12. CASE m.kind \in {"nullable", "optional"}
  <2>1. m.inner \in Children(m)
    BY <1>12 DEF Children
  <2>2. CASE Means(g, m.inner, v, d)
    <3>1. PICK x \in Range(ExpandChoices(m.inner)) : Means(g, x, v, d)
      BY <1>6, <2>1, <2>2
    <3>2. x \in X
      BY <1>9, <1>12, <3>1
    <3> QED
      BY <1>10, <3>1, <3>2
  <2>3. CASE m.kind = "nullable" /\ v = Null
    <3>1. LiteralOf(Null) \in X /\ LiteralOf(Null) \in g.nodes
      BY <1>4, <1>9, <2>3 DEF IsNode
    <3> QED
      BY <1>10, <2>3, <3>1, LiteralMeans
  <2>4. CASE m.kind = "optional" /\ v = Undefined
    <3>1. LiteralOf(Undefined) \in X /\ LiteralOf(Undefined) \in g.nodes
      BY <1>4, <1>9, <2>4 DEF IsNode
    <3> QED
      BY <1>10, <2>4, <3>1, LiteralMeans
  <2> QED
    BY <1>7, <1>12, <2>2, <2>3, <2>4 DEF Accepts, Means
<1>13. CASE m.kind = "enum" /\ m.refs = <<>>
  <2>1. v \in m.values
    BY <1>7, <1>13 DEF Accepts
  <2>2. LiteralOf(v) \in X /\ LiteralOf(v) \in g.nodes
    BY <1>4, <1>9, <1>13, <2>1 DEF IsNode
  <2> QED
    BY <1>10, <2>2, LiteralMeans
<1>14. CASE m.kind \notin {"union", "nullable", "optional"} /\ ~(m.kind = "enum" /\ m.refs = <<>>)
  <2>1. m \in X
    BY <1>9, <1>14
  <2> QED
    BY <1>4, <1>10, <2>1
<1> QED
  BY <1>11, <1>12, <1>13, <1>14

\* What a choice of a plain node accepts the node accepts, when its checks hold.
LEMMA ChoicesWithin ==
  ASSUME NEW g, IsGraph(g), NodeRules(g), \A n \in g.nodes : IsPlain(n),
         NEW n \in g.nodes, RefsHold(g, n),
         NEW v \in g.values, NEW d \in Nat,
         NEW c \in Range(ExpandChoices(n)), Means(g, c, v, d)
  PROVE  Means(g, n, v, d)
<1> DEFINE B == {m \in g.nodes : RefsHold(g, m) /\ ~Means(g, m, v, d)
                                 /\ \E x \in Range(ExpandChoices(m)) : Means(g, x, v, d)}
<1>1. SUFFICES ASSUME B # {} PROVE FALSE
  OBVIOUS
<1>2. \A m \in g.nodes : g.size[m] \in Nat
  BY DEF IsGraph, IsNode
<1>3. PICK m \in B : \A x \in g.nodes : g.size[x] < g.size[m] => x \notin B
  BY <1>1, <1>2, SmallestNode
<1>4. IsNode(m, g) /\ m \in g.nodes /\ RefsHold(g, m) /\ ~Means(g, m, v, d) /\ IsPlain(m)
  BY DEF IsGraph
<1>5. PICK x \in Range(ExpandChoices(m)) : Means(g, x, v, d)
  OBVIOUS
<1>6. \A y \in Children(m) : y \in g.nodes /\ y \notin B
  BY <1>3, <1>4 DEF IsNode
<1>7. \A y \in Children(m) : RefsHold(g, y) /\ x \in Range(ExpandChoices(y)) => Means(g, y, v, d)
  BY <1>5, <1>6
<1> HIDE DEF B
<1>8. \A y \in Children(m) : ExpandChoices(y) \in Seq(g.nodes)
        /\ \A z \in Children(y) : ExpandChoices(z) \in Seq(g.nodes)
  <2>1. \A y \in Children(m) : IsNode(y, g)
    BY <1>6 DEF IsGraph
  <2> QED
    BY <1>6, <2>1, ChoicesAreNodes DEF IsNode
<1>9. ASSUME NEW y \in Children(m), x \in Range(ExpandChoices(y)), m.kind \in Choosing
      PROVE  Means(g, y, v, d)
  <2>1. CASE y.refs = <<>>
    BY <1>7, <1>9, <2>1 DEF RefsHold, Range
  <2>2. CASE y.kind \notin {"union", "nullable", "optional"} /\ y.refs # <<>>
    <3>1. x = y
      BY <1>6, <1>8, <1>9, <2>2, Expansion
    <3> QED
      BY <1>5, <3>1
  <2>3. CASE y.kind \in {"union", "nullable", "optional"}
    BY <1>4, <1>9, <2>1, <2>3 DEF IsPlain, Choosing
  <2> QED
    BY <2>1, <2>2, <2>3
<1> DEFINE X == Range(ExpandChoices(m))
<1>10. X = CASE m.kind = "union" -> UNION {Range(ExpandChoices(m.choices[i])) : i \in DOMAIN m.choices}
            [] m.kind = "nullable" -> Range(ExpandChoices(m.inner)) \cup {LiteralOf(Null)}
            [] m.kind = "optional" -> Range(ExpandChoices(m.inner)) \cup {LiteralOf(Undefined)}
            [] m.kind = "enum" /\ m.refs = <<>> -> {LiteralOf(u) : u \in m.values}
            [] OTHER -> {m}
  BY <1>4, <1>8, Expansion
<1>11. x \in X
  OBVIOUS
<1> HIDE DEF X
<1>12. CASE m.kind = "union"
  <2>1. PICK i \in DOMAIN m.choices : x \in Range(ExpandChoices(m.choices[i]))
    BY <1>10, <1>11, <1>12
  <2>2. Means(g, m.choices[i], v, d)
    BY <1>9, <1>12, <2>1 DEF Children, Range, Choosing
  <2>3. Accepts(Meaning(g), g, m, v, d)
    BY <1>4, <1>12, <2>1, <2>2 DEF Accepts, Means
  <2> QED
    BY <1>4, <2>3, Unfold
<1>13. CASE m.kind \in {"nullable", "optional"}
  <2>1. x \in Range(ExpandChoices(m.inner)) => Means(g, m.inner, v, d)
    BY <1>9, <1>13 DEF Children, Choosing
  <2>2. \/ x \in Range(ExpandChoices(m.inner))
        \/ m.kind = "nullable" /\ x = LiteralOf(Null)
        \/ m.kind = "optional" /\ x = LiteralOf(Undefined)
    BY <1>10, <1>11, <1>13
  <2>3. \/ Means(g, m.inner, v, d)
        \/ m.kind = "nullable" /\ v = Null
        \/ m.kind = "optional" /\ v = Undefined
    BY <1>4, <1>5, <1>13, <2>1, <2>2, LiteralMeans DEF IsNode
  <2>4. Accepts(Meaning(g), g, m, v, d)
    BY <1>4, <1>13, <2>3 DEF Accepts, Means
  <2> QED
    BY <1>4, <2>4, Unfold
<1>14. CASE m.kind = "enum" /\ m.refs = <<>>
  <2>1. PICK u \in m.values : x = LiteralOf(u)
    BY <1>10, <1>11, <1>14
  <2>2. v = u
    BY <1>4, <1>5, <1>14, <2>1, LiteralMeans DEF IsNode
  <2>3. Accepts(Meaning(g), g, m, v, d)
    BY <1>4, <1>14, <2>1, <2>2 DEF Accepts
  <2> QED
    BY <1>4, <2>3, Unfold
<1>15. CASE m.kind \notin {"union", "nullable", "optional"} /\ ~(m.kind = "enum" /\ m.refs = <<>>)
  BY <1>4, <1>5, <1>10, <1>11, <1>15
<1> QED
  BY <1>12, <1>13, <1>14, <1>15


-----------------------------------------------------------------------------
(* Analyses. *)

IsSafe(findings) == Status(findings) = "safe"

Unsafe == {"breaking", "unknown"}

\* An analysis is safe when none of its findings is anything else.
LEMMA SafeFindings ==
  ASSUME NEW F
  PROVE  IsSafe(F) <=> \A f \in F : f.status \notin Unsafe
BY DEF IsSafe, Status, Statuses, Aggregate, Unsafe

\* A finding makes its analysis as bad as it is.
LEMMA FindingStatus ==
  ASSUME NEW code, NEW status \in Unsafe
  PROVE  ~IsSafe(Finding(code, status))
BY SafeFindings DEF Finding

\* So do a rule that breaks and one that cannot be proved.
LEMMA OutrightUnsafe ==
  ASSUME NEW code
  PROVE  ~IsSafe(Breaking(code)) /\ ~IsSafe(Unproven(code))
BY FindingStatus DEF Breaking, Unproven, Unsafe

\* The parts of a safe analysis are safe.
LEMMA SafeParts ==
  ASSUME NEW F, NEW G
  PROVE  IsSafe(F \cup G) <=> IsSafe(F) /\ IsSafe(G)
BY SafeFindings

\* And so is every one of many parts.
LEMMA SafeUnion ==
  ASSUME NEW S, IsSafe(UNION S), NEW F \in S
  PROVE  IsSafe(F)
BY SafeFindings

-----------------------------------------------------------------------------
(* Numbers and strings. *)

\* A multiple of a number has no remainder.
LEMMA NoRemainder ==
  ASSUME NEW b \in Nat \ {0}, NEW k \in Int
  PROVE  (b * k) % b = 0
<1> DEFINE q == (b * k) \div b
           r == (b * k) % b
<1>1. \A y \in Int : /\ y \div b \in Int /\ y % b \in Int /\ 0 <= (y % b) /\ (y % b) < b
                    /\ y = (b * (y \div b)) + (y % b)
  OBVIOUS
<1>2. q \in Int /\ r \in Int /\ 0 <= r /\ r < b /\ b * k = (b * q) + r
  <2>1. b * k \in Int
    OBVIOUS
  <2> QED
    BY <1>1, <2>1
<1> HIDE DEF q, r
<1>3. r = b * (k - q)
  BY <1>2
<1>4. k - q \in Int
  BY <1>2
<1>5. CASE k - q >= 1
  <2>1. b * (k - q) >= b
    BY <1>4, <1>5
  <2> QED
    BY <1>2, <1>3, <2>1
<1>6. CASE k - q <= -1
  <2>1. b * (k - q) < 0
    BY <1>4, <1>6
  <2> QED
    BY <1>2, <1>3, <2>1
<1>7. CASE k - q = 0
  BY <1>3, <1>7 DEF r
<1> QED
  BY <1>4, <1>5, <1>6, <1>7

\* What a divides is a multiple of whatever divides a.
LEMMA DividesThrough ==
  ASSUME NEW a \in Nat \ {0}, NEW b \in Nat \ {0}, NEW x \in Int, x % a = 0, a % b = 0
  PROVE  x % b = 0
<1> DEFINE q == x \div a
           r == a \div b
<1>1. q \in Int /\ x = a * q
  OBVIOUS
<1>2. r \in Int /\ a = b * r
  OBVIOUS
<1> HIDE DEF q, r
<1>3. r * q \in Int /\ x = b * (r * q)
  BY <1>1, <1>2
<1> QED
  BY <1>3, NoRemainder

\* A whole number is all that a node which is integer only accepts.
LEMMA IntegerOnly ==
  ASSUME NEW n, n.integer \in BOOLEAN, n.min \in Int, n.max \in Int, NEW x \in Int,
         NumberAccepts(n, x), IsIntegerOnly(n)
  PROVE  x % 2 = 0
<1>1. (n.integer => x % 2 = 0) /\ x >= n.min /\ x <= n.max
  BY DEF NumberAccepts
<1>2. CASE n.integer
  BY <1>1, <1>2
<1>3. CASE n.min = n.max /\ n.min % 2 = 0
  <2>1. x = n.min
    BY <1>1, <1>3
  <2> QED
    BY <1>3, <2>1
<1> QED
  BY <1>2, <1>3 DEF IsIntegerOnly

\* What a number node accepts the target accepts, when they compare as safe.
LEMMA NumbersContained ==
  ASSUME NEW m, NEW n,
         m.integer \in BOOLEAN, m.min \in Int, m.max \in Int, m.multiple \in Nat,
         n.integer \in BOOLEAN, n.min \in Int, n.max \in Int, n.multiple \in Nat,
         NEW x \in Int, NumberAccepts(m, x), IsSafe(CompareNumbers(m, n))
  PROVE  NumberAccepts(n, x)
<1> DEFINE Low(k) == IF IsIntegerOnly(k) THEN RoundUp(k.min) ELSE k.min
           High(k) == IF IsIntegerOnly(k) THEN RoundDown(k.max) ELSE k.max
           wider == /\ Low(m) >= Low(n) /\ High(m) <= High(n)
                    /\ \/ ~IsIntegerOnly(n) \/ IsIntegerOnly(m)
                       \/ m.multiple # 0 /\ Divides(2, m.multiple)
           multiple == \/ n.multiple \in {0, m.multiple}
                       \/ m.multiple # 0 /\ Divides(n.multiple, m.multiple)
                       \/ IsIntegerOnly(m) /\ Divides(n.multiple, 2)
<1>1. wider /\ multiple
  <2>1. CompareNumbers(m, n) =
          Pick(wider, Finding("number.constraints.changed",
                              IF m.multiple = 0 THEN "breaking" ELSE "unknown"))
          \cup Pick(multiple, Unproven("number.multiple_of.changed"))
    BY DEF CompareNumbers
  <2>2. (IF m.multiple = 0 THEN "breaking" ELSE "unknown") \in Unsafe
    BY DEF Unsafe
  <2> HIDE DEF wider, multiple
  <2> QED
    BY <2>1, <2>2, SafeParts, FindingStatus, OutrightUnsafe DEF Pick
<1>2. /\ m.integer => x % 2 = 0
      /\ x >= m.min /\ x <= m.max
      /\ m.multiple # 0 => x % m.multiple = 0
  BY DEF NumberAccepts
<1>3. IsIntegerOnly(m) => x % 2 = 0
  BY IntegerOnly
<1>4. Low(m) \in Int /\ High(m) \in Int /\ x >= Low(m) /\ x <= High(m)
  BY <1>2, <1>3, Rounding
<1>5. Low(n) \in Int /\ High(n) \in Int /\ Low(n) >= n.min /\ High(n) <= n.max
  BY Rounding DEF RoundUp, RoundDown, Infinity
<1> HIDE DEF Low, High
<1>6. x >= n.min /\ x <= n.max
  BY <1>1, <1>4, <1>5
<1>7. n.integer => x % 2 = 0
  <2>1. SUFFICES ASSUME n.integer PROVE x % 2 = 0
    OBVIOUS
  <2>2. CASE IsIntegerOnly(m)
    BY <1>3, <2>2
  <2>3. CASE m.multiple # 0 /\ Divides(2, m.multiple)
    BY <1>2, <2>3, DividesThrough DEF Divides
  <2> QED
    BY <1>1, <2>1, <2>2, <2>3 DEF IsIntegerOnly
<1>8. ASSUME n.multiple # 0 PROVE x % n.multiple = 0
  <2>1. CASE n.multiple = m.multiple
    BY <1>2, <1>8, <2>1
  <2>2. CASE m.multiple # 0 /\ Divides(n.multiple, m.multiple)
    BY <1>2, <1>8, <2>2, DividesThrough DEF Divides
  <2>3. CASE IsIntegerOnly(m) /\ Divides(n.multiple, 2)
    BY <1>3, <1>8, <2>3, DividesThrough DEF Divides
  <2> QED
    BY <1>1, <1>8, <2>1, <2>2, <2>3
<1> QED
  BY <1>6, <1>7, <1>8 DEF NumberAccepts

\* And so for strings.
LEMMA StringsContained ==
  ASSUME NEW m, NEW n, Lengths(m), Lengths(n), NEW text, Len(text) \in Nat,
         StringAccepts(m, text), IsSafe(CompareStrings(m, n))
  PROVE  StringAccepts(n, text)
<1>1. m.pattern = n.pattern
  BY OutrightUnsafe DEF CompareStrings
<1>2. m.min >= n.min /\ m.max <= n.max
  BY <1>1, OutrightUnsafe DEF CompareStrings, Pick
<1> QED
  BY <1>1, <1>2 DEF Lengths, StringAccepts

-----------------------------------------------------------------------------
(* Two nodes under comparison. *)

\* What lies below two nodes is contained when it compares as safe.
Below(s, t, m, n, ds, dt, ctx) ==
  \A a \in s.nodes, b \in t.nodes :
    s.size[a] + t.size[b] < s.size[m] + t.size[n] /\ IsSafe(Compare(a, b, ctx)) =>
      \A w \in s.values : Means(s, a, w, ds) => Means(t, b, w, dt)

\* A value that the source accepts, where the checks of the target hold.
Comparing(s, t, m, n, v, ds, dt, ctx) ==
  /\ IsGraph(s) /\ IsGraph(t) /\ s.upper /\ ~t.upper /\ s.values = t.values
  /\ NodeRules(s) /\ NodeRules(t) /\ \A b \in t.nodes : IsPlain(b)
  /\ m \in s.nodes /\ n \in t.nodes /\ v \in s.values /\ ds \in Nat /\ dt \in Nat
  /\ Means(s, m, v, ds) /\ RefsHold(t, n)
  /\ Below(s, t, m, n, ds, dt, ctx)

\* Children that compare as safe.
LEMMA ChildContained ==
  ASSUME NEW s, NEW t, NEW m, NEW n, NEW v, NEW ds, NEW dt, NEW ctx,
         Comparing(s, t, m, n, v, ds, dt, ctx),
         NEW a, NEW b,
         \/ a \in Children(m) /\ b \in Children(n)
         \/ a = m /\ b \in Children(n)
         \/ a \in Children(m) /\ b = n,
         IsSafe(Compare(a, b, ctx)), NEW w \in s.values, Means(s, a, w, ds)
  PROVE  Means(t, b, w, dt)
<1>1. /\ IsNode(m, s) /\ IsNode(n, t) /\ m \in s.nodes /\ n \in t.nodes
      /\ \A x \in s.nodes : s.size[x] \in Nat
      /\ \A x \in t.nodes : t.size[x] \in Nat
  BY DEF Comparing, IsGraph, IsNode
<1>2. /\ \A c \in Children(m) : c \in s.nodes /\ s.size[c] < s.size[m]
      /\ \A c \in Children(n) : c \in t.nodes /\ t.size[c] < t.size[n]
  BY <1>1 DEF IsNode
<1>3. a \in s.nodes /\ b \in t.nodes /\ s.size[a] + t.size[b] < s.size[m] + t.size[n]
  BY <1>1, <1>2
<1> QED
  BY <1>3 DEF Comparing, Below

\* A target that accepts the value by its rule means it.
LEMMA TargetMeans ==
  ASSUME NEW s, NEW t, NEW m, NEW n, NEW v, NEW ds, NEW dt, NEW ctx,
         Comparing(s, t, m, n, v, ds, dt, ctx)
  PROVE  /\ Accepts(Meaning(t), t, n, v, dt) => Means(t, n, v, dt)
         /\ Accepts(Meaning(s), s, m, v, ds)
         /\ IsNode(m, s) /\ IsNode(n, t) /\ IsValue(v, s.values)
BY Unfold DEF Comparing, IsGraph

\* Arrays.
LEMMA ArraysContained ==
  ASSUME NEW s, NEW t, NEW m, NEW n, NEW v, NEW ds, NEW dt, NEW ctx,
         Comparing(s, t, m, n, v, ds, dt, ctx),
         m.kind = "array", n.kind = "array", ~IsProvablyEmpty(n),
         IsSafe(CompareArrays(m, n, ctx))
  PROVE  Means(t, n, v, dt)
<1> DEFINE contained == ArrayMin(m) >= ArrayMin(n) /\ ArrayMax(m) <= ArrayMax(n)
           witnessed == (ArrayMin(m) = 0 /\ ArrayMin(n) > 0) \/ IsProvablyInhabited(m.item)
           first == Pick(contained, Finding("array.length.changed",
                                            IF witnessed THEN "breaking" ELSE "unknown"))
           second == IF ArrayMax(m) = 0 THEN Safe ELSE Compare(m.item, n.item, ctx)
<1>1. contained /\ (ArrayMax(m) # 0 => IsSafe(Compare(m.item, n.item, ctx)))
  <2>1. CompareArrays(m, n, ctx) = first \cup second
    BY DEF CompareArrays
  <2>2. (IF witnessed THEN "breaking" ELSE "unknown") \in Unsafe
    BY DEF Unsafe
  <2>3. IsSafe(first) /\ IsSafe(second)
    BY <2>1, SafeParts
  <2> HIDE DEF contained, witnessed
  <2> QED
    BY <2>2, <2>3, FindingStatus DEF Pick
<1>2. /\ v.tag = "array" /\ v.items \in Seq(s.values)
      /\ Len(v.items) >= m.min /\ Len(v.items) <= m.max
      /\ \A i \in DOMAIN v.items : Means(s, m.item, v.items[i], ds)
      /\ Lengths(m) /\ Lengths(n)
  <2>1. Accepts(Meaning(s), s, m, v, ds) /\ IsNode(m, s) /\ IsNode(n, t) /\ IsValue(v, s.values)
    BY TargetMeans
  <2>2. /\ v.tag = "array" /\ Len(v.items) >= m.min /\ Len(v.items) <= m.max
        /\ \A i \in DOMAIN v.items : Means(s, m.item, v.items[i], ds)
    BY <2>1 DEF Accepts, Means
  <2> QED
    BY <2>1, <2>2 DEF IsValue, IsNode
<1>3. Len(v.items) \in Nat /\ \A i \in DOMAIN v.items : v.items[i] \in s.values
  BY <1>2
<1>4. IsProvablyEmpty(m.item) => Len(v.items) = 0
  <2>1. m.item \in s.nodes
    BY DEF Comparing, IsGraph, IsNode, Children
  <2>2. IsProvablyEmpty(m.item) => \A i \in DOMAIN v.items : FALSE
    BY <1>2, <1>3, <2>1, EmptyRejects DEF Comparing
  <2> QED
    BY <1>2, <2>2
<1>5. Len(v.items) >= ArrayMin(m) /\ Len(v.items) <= ArrayMax(m) /\ ArrayMin(m) \in Nat /\ ArrayMax(m) \in Nat
  BY <1>2, <1>3, <1>4 DEF ArrayMin, ArrayMax, Lengths
<1>6. IsProvablyEmpty(n.item) => n.min = 0
  <2>1. ~IsProvablyEmptyRule(n)
    BY DEF Comparing, NodeRules
  <2> QED
    BY <1>2, <2>1 DEF IsProvablyEmptyRule, Lengths
<1>7. Len(v.items) >= n.min /\ Len(v.items) <= n.max
  BY <1>1, <1>2, <1>3, <1>5, <1>6 DEF ArrayMin, ArrayMax, Lengths
<1>8. ASSUME NEW i \in DOMAIN v.items PROVE Means(t, n.item, v.items[i], dt)
  <2>1. ArrayMax(m) # 0
    BY <1>2, <1>5, <1>8
  <2>2. m.item \in Children(m) /\ n.item \in Children(n)
    BY DEF Children
  <2> QED
    BY <1>1, <1>2, <1>3, <2>1, <2>2, ChildContained
<1>9. Accepts(Meaning(t), t, n, v, dt)
  BY <1>2, <1>7, <1>8 DEF Accepts, Means, Comparing
<1> QED
  BY <1>9, TargetMeans

\* Tuples, and arrays against tuples.
LEMMA TuplesContained ==
  ASSUME NEW s, NEW t, NEW m, NEW n, NEW v, NEW ds, NEW dt, NEW ctx,
         Comparing(s, t, m, n, v, ds, dt, ctx),
         m.kind = "tuple", n.kind = "tuple", IsSafe(CompareTuples(m, n, ctx))
  PROVE  Means(t, n, v, dt)
<1> DEFINE findings == {Compare(m.items[i], n.items[i], ctx) : i \in DOMAIN m.items}
<1>1. Len(m.items) = Len(n.items) /\ \A i \in DOMAIN m.items : IsSafe(Compare(m.items[i], n.items[i], ctx))
  <2>1. Len(m.items) = Len(n.items)
    <3>1. (IF IsProvablyInhabited(m) THEN "breaking" ELSE "unknown") \in Unsafe
      BY DEF Unsafe
    <3> QED
      BY <3>1, FindingStatus DEF CompareTuples
  <2>2. IsSafe(UNION findings)
    BY <2>1 DEF CompareTuples
  <2>3. \A F \in findings : IsSafe(F)
    BY <2>2, SafeUnion
  <2> QED
    BY <2>1, <2>3
<1>2. /\ v.tag = "array" /\ v.items \in Seq(s.values)
      /\ Len(v.items) = Len(m.items) /\ m.items \in Seq(s.nodes) /\ n.items \in Seq(t.nodes)
      /\ \A i \in DOMAIN m.items : Means(s, m.items[i], v.items[i], ds)
  <2>1. Accepts(Meaning(s), s, m, v, ds) /\ IsNode(m, s) /\ IsNode(n, t) /\ IsValue(v, s.values)
    BY TargetMeans
  <2>2. /\ v.tag = "array" /\ Len(v.items) = Len(m.items)
        /\ \A i \in DOMAIN m.items : Means(s, m.items[i], v.items[i], ds)
    BY <2>1 DEF Accepts, Means
  <2> QED
    BY <2>1, <2>2 DEF IsValue, IsNode
<1>3. DOMAIN n.items = DOMAIN m.items /\ \A i \in DOMAIN m.items : v.items[i] \in s.values
  BY <1>1, <1>2
<1>4. ASSUME NEW i \in DOMAIN n.items PROVE Means(t, n.items[i], v.items[i], dt)
  <2>1. m.items[i] \in Children(m) /\ n.items[i] \in Children(n)
    BY <1>3 DEF Children, Range
  <2> QED
    BY <1>1, <1>2, <1>3, <2>1, ChildContained
<1>5. Accepts(Meaning(t), t, n, v, dt)
  BY <1>1, <1>2, <1>4 DEF Accepts, Means, Comparing
<1> QED
  BY <1>5, TargetMeans

\* A tuple against an array.
LEMMA TupleArrayContained ==
  ASSUME NEW s, NEW t, NEW m, NEW n, NEW v, NEW ds, NEW dt, NEW ctx,
         Comparing(s, t, m, n, v, ds, dt, ctx),
         m.kind = "tuple", n.kind = "array", IsSafe(CompareTupleArray(m, n, ctx))
  PROVE  Means(t, n, v, dt)
<1> DEFINE findings == {Compare(m.items[i], n.item, ctx) : i \in DOMAIN m.items}
           fits == Len(m.items) >= n.min /\ Len(m.items) <= n.max
<1>1. fits /\ \A i \in DOMAIN m.items : IsSafe(Compare(m.items[i], n.item, ctx))
  <2>1. IsSafe(Pick(fits, Breaking("tuple.array.changed")) \cup UNION findings)
    BY DEF CompareTupleArray
  <2>2. IsSafe(Pick(fits, Breaking("tuple.array.changed"))) /\ IsSafe(UNION findings)
    BY <2>1, SafeParts
  <2>3. \A F \in findings : IsSafe(F)
    BY <2>2, SafeUnion
  <2>4. fits
    BY <2>2, OutrightUnsafe DEF Pick
  <2> QED
    BY <2>3, <2>4
<1>2. /\ v.tag = "array" /\ v.items \in Seq(s.values)
      /\ Len(v.items) = Len(m.items) /\ m.items \in Seq(s.nodes)
      /\ \A i \in DOMAIN m.items : Means(s, m.items[i], v.items[i], ds)
  <2>1. Accepts(Meaning(s), s, m, v, ds) /\ IsNode(m, s) /\ IsNode(n, t) /\ IsValue(v, s.values)
    BY TargetMeans
  <2>2. /\ v.tag = "array" /\ Len(v.items) = Len(m.items)
        /\ \A i \in DOMAIN m.items : Means(s, m.items[i], v.items[i], ds)
    BY <2>1 DEF Accepts, Means
  <2> QED
    BY <2>1, <2>2 DEF IsValue, IsNode
<1>3. DOMAIN v.items = DOMAIN m.items /\ \A i \in DOMAIN m.items : v.items[i] \in s.values
  BY <1>2
<1>4. ASSUME NEW i \in DOMAIN v.items PROVE Means(t, n.item, v.items[i], dt)
  <2>1. m.items[i] \in Children(m) /\ n.item \in Children(n)
    BY <1>3 DEF Children, Range
  <2> QED
    BY <1>1, <1>2, <1>3, <2>1, ChildContained
<1>5. Accepts(Meaning(t), t, n, v, dt)
  BY <1>1, <1>2, <1>4 DEF Accepts, Means, Comparing
<1> QED
  BY <1>5, TargetMeans

\* An array against a tuple.
LEMMA ArrayTupleContained ==
  ASSUME NEW s, NEW t, NEW m, NEW n, NEW v, NEW ds, NEW dt, NEW ctx,
         Comparing(s, t, m, n, v, ds, dt, ctx),
         m.kind = "array", n.kind = "tuple", IsSafe(CompareTupleArray(m, n, ctx))
  PROVE  Means(t, n, v, dt)
<1> DEFINE findings == {Compare(m.item, n.items[i], ctx) : i \in DOMAIN n.items}
           exact == ArrayMin(m) = Len(n.items) /\ ArrayMax(m) = Len(n.items)
           witnessed == (ArrayMin(m) = 0 /\ Len(n.items) # 0) \/ IsProvablyInhabited(m.item)
<1>1. exact /\ \A i \in DOMAIN n.items : IsSafe(Compare(m.item, n.items[i], ctx))
  <2>1. IsSafe(IF exact THEN UNION findings
               ELSE Finding("tuple.array.changed", IF witnessed THEN "breaking" ELSE "unknown"))
    BY DEF CompareTupleArray
  <2>2. (IF witnessed THEN "breaking" ELSE "unknown") \in Unsafe
    BY DEF Unsafe
  <2> HIDE DEF exact, witnessed
  <2>3. exact /\ IsSafe(UNION findings)
    BY <2>1, <2>2, FindingStatus
  <2>4. \A F \in findings : IsSafe(F)
    BY <2>3, SafeUnion
  <2> QED
    BY <2>3, <2>4
<1>2. /\ v.tag = "array" /\ v.items \in Seq(s.values)
      /\ Len(v.items) >= m.min /\ Len(v.items) <= m.max /\ n.items \in Seq(t.nodes)
      /\ \A i \in DOMAIN v.items : Means(s, m.item, v.items[i], ds)
      /\ Lengths(m)
  <2>1. Accepts(Meaning(s), s, m, v, ds) /\ IsNode(m, s) /\ IsNode(n, t) /\ IsValue(v, s.values)
    BY TargetMeans
  <2>2. /\ v.tag = "array" /\ Len(v.items) >= m.min /\ Len(v.items) <= m.max
        /\ \A i \in DOMAIN v.items : Means(s, m.item, v.items[i], ds)
    BY <2>1 DEF Accepts, Means
  <2> QED
    BY <2>1, <2>2 DEF IsValue, IsNode
<1>3. Len(v.items) \in Nat /\ \A i \in DOMAIN v.items : v.items[i] \in s.values
  BY <1>2
<1>4. IsProvablyEmpty(m.item) => Len(v.items) = 0
  <2>1. m.item \in s.nodes
    BY DEF Comparing, IsGraph, IsNode, Children
  <2>2. IsProvablyEmpty(m.item) => \A i \in DOMAIN v.items : FALSE
    BY <1>2, <1>3, <2>1, EmptyRejects DEF Comparing
  <2> QED
    BY <1>2, <2>2
<1>5. Len(v.items) = Len(n.items)
  BY <1>1, <1>2, <1>3, <1>4 DEF ArrayMin, ArrayMax, Lengths
<1>6. ASSUME NEW i \in DOMAIN n.items PROVE Means(t, n.items[i], v.items[i], dt)
  <2>1. i \in DOMAIN v.items
    BY <1>2, <1>5
  <2>2. m.item \in Children(m) /\ n.items[i] \in Children(n)
    BY DEF Children, Range
  <2> QED
    BY <1>1, <1>2, <1>3, <2>1, <2>2, ChildContained
<1>7. Accepts(Meaning(t), t, n, v, dt)
  BY <1>2, <1>5, <1>6 DEF Accepts, Means, Comparing
<1> QED
  BY <1>7, TargetMeans

\* Records.
LEMMA RecordsContained ==
  ASSUME NEW s, NEW t, NEW m, NEW n, NEW v, NEW ds, NEW dt, NEW ctx,
         Comparing(s, t, m, n, v, ds, dt, ctx),
         m.kind = "record", n.kind = "record", IsSafe(CompareRecords(m, n, ctx))
  PROVE  Means(t, n, v, dt)
<1>1. IsSafe(CompareStrings(m.key, n.key)) /\ IsSafe(Compare(m.each, n.each, ctx))
  BY SafeParts DEF CompareRecords
<1>2. /\ v.tag = "object"
      /\ \A k \in DOMAIN v.props : v.props[k] \in s.values /\ Len(k) \in Nat
           /\ StringAccepts(m.key, k) /\ Means(s, m.each, v.props[k], ds)
      /\ Lengths(m.key) /\ Lengths(n.key)
  <2>1. Accepts(Meaning(s), s, m, v, ds) /\ IsNode(m, s) /\ IsNode(n, t) /\ IsValue(v, s.values)
    BY TargetMeans
  <2>2. /\ v.tag = "object"
        /\ \A k \in DOMAIN v.props : StringAccepts(m.key, k) /\ Means(s, m.each, v.props[k], ds)
    BY <2>1 DEF Accepts, Means
  <2> QED
    BY <2>1, <2>2 DEF IsValue, IsNode
<1>3. ASSUME NEW k \in DOMAIN v.props
      PROVE  StringAccepts(n.key, k) /\ Means(t, n.each, v.props[k], dt)
  <2>1. StringAccepts(n.key, k)
    BY <1>1, <1>2, StringsContained
  <2>2. m.each \in Children(m) /\ n.each \in Children(n)
    BY DEF Children
  <2> QED
    BY <1>1, <1>2, <2>1, <2>2, ChildContained
<1>4. Accepts(Meaning(t), t, n, v, dt)
  BY <1>2, <1>3 DEF Accepts, Means, Comparing
<1> QED
  BY <1>4, TargetMeans

\* Strings, numbers and literals.
LEMMA ScalarsContained ==
  ASSUME NEW s, NEW t, NEW m, NEW n, NEW v, NEW ds, NEW dt, NEW ctx,
         Comparing(s, t, m, n, v, ds, dt, ctx),
         m.kind = n.kind, m.kind \in {"string", "number", "boolean", "literal"},
         IsSafe(CompareSameKind(m, n, ctx))
  PROVE  Means(t, n, v, dt)
<1>1. Accepts(Meaning(s), s, m, v, ds) /\ IsNode(m, s) /\ IsNode(n, t) /\ IsValue(v, s.values)
  BY TargetMeans
<1>2. RefsHold(t, n)
  BY DEF Comparing
<1>3. CASE m.kind = "string"
  <2>1. v.tag = "string" /\ StringAccepts(m, v.text)
    BY <1>1, <1>3 DEF Accepts
  <2>2. Lengths(m) /\ Lengths(n) /\ Len(v.text) \in Nat
    BY <1>1, <1>3, <2>1 DEF IsNode, IsValue
  <2>3. IsSafe(CompareStrings(m, n))
    BY <1>3 DEF CompareSameKind
  <2>4. StringAccepts(n, v.text)
    BY <2>1, <2>2, <2>3, StringsContained
  <2>5. Accepts(Meaning(t), t, n, v, dt)
    BY <1>2, <1>3, <2>1, <2>4 DEF Accepts
  <2> QED
    BY <2>5, TargetMeans
<1>4. CASE m.kind = "number"
  <2>1. v.tag = "number" /\ NumberAccepts(m, v.num)
    BY <1>1, <1>4 DEF Accepts
  <2>2. v.num \in Int
    BY <1>1, <2>1 DEF IsValue
  <2>3. /\ m.integer \in BOOLEAN /\ m.min \in Int /\ m.max \in Int /\ m.multiple \in Nat
        /\ n.integer \in BOOLEAN /\ n.min \in Int /\ n.max \in Int /\ n.multiple \in Nat
    BY <1>1, <1>4 DEF IsNode
  <2>4. IsSafe(CompareNumbers(m, n))
    BY <1>4 DEF CompareSameKind
  <2>5. NumberAccepts(n, v.num)
    BY <2>1, <2>2, <2>3, <2>4, NumbersContained
  <2>6. Accepts(Meaning(t), t, n, v, dt)
    BY <1>2, <1>4, <2>1, <2>5 DEF Accepts
  <2> QED
    BY <2>6, TargetMeans
<1>5. CASE m.kind = "boolean"
  <2>1. v.tag = "boolean"
    BY <1>1, <1>5 DEF Accepts
  <2>2. Accepts(Meaning(t), t, n, v, dt)
    BY <1>2, <1>5, <2>1 DEF Accepts
  <2> QED
    BY <2>2, TargetMeans
<1>6. CASE m.kind = "literal"
  <2>1. v = m.lit
    BY <1>1, <1>6 DEF Accepts
  <2>2. m.lit = n.lit
    BY <1>6, OutrightUnsafe DEF CompareSameKind, Pick
  <2>3. Accepts(Meaning(t), t, n, v, dt)
    BY <1>2, <1>6, <2>1, <2>2 DEF Accepts
  <2> QED
    BY <2>3, TargetMeans
<1> QED
  BY <1>3, <1>4, <1>5, <1>6

\* What a safe comparison of objects says of their policies and properties.
LEMMA SafeObjects ==
  ASSUME NEW m, NEW n, NEW ctx, IsSafe(CompareObjects(m, n, ctx))
  PROVE  /\ m.policy \in {n.policy, "reject"}
         /\ \A k \in DOMAIN n.shape \ DOMAIN m.shape : IsSafe(PropertyAdded(m, n, k))
         /\ \A k \in DOMAIN m.shape \ DOMAIN n.shape : IsSafe(PropertyRemoved(m, n, k))
         /\ \A k \in DOMAIN m.shape \cap DOMAIN n.shape :
              /\ k \in n.required => k \in m.required
              /\ IsSafe(Compare(Unwrapped(m.shape[k]), Unwrapped(n.shape[k]), ctx))
<1> DEFINE added == {PropertyAdded(m, n, k) : k \in DOMAIN n.shape \ DOMAIN m.shape}
           removed == {PropertyRemoved(m, n, k) : k \in DOMAIN m.shape \ DOMAIN n.shape}
           kept == {PropertyKept(m, n, k, ctx) : k \in DOMAIN m.shape \cap DOMAIN n.shape}
<1>1. /\ IsSafe(PolicyChange(m, n)) /\ IsSafe(UNION added)
      /\ IsSafe(UNION removed) /\ IsSafe(UNION kept)
  <2>1. CompareObjects(m, n, ctx) = ((PolicyChange(m, n) \cup UNION added) \cup UNION removed) \cup UNION kept
    BY Zenon DEF CompareObjects
  <2> HIDE DEF added, removed, kept
  <2> QED
    BY <2>1, SafeParts
<1>2. m.policy \in {n.policy, "reject"}
  BY <1>1, OutrightUnsafe DEF PolicyChange, Pick
<1>3. \A F \in added : IsSafe(F)
  BY <1>1, SafeUnion
<1>4. \A F \in removed : IsSafe(F)
  BY <1>1, SafeUnion
<1>5. \A F \in kept : IsSafe(F)
  BY <1>1, SafeUnion
<1>6. ASSUME NEW k \in DOMAIN m.shape \cap DOMAIN n.shape
      PROVE  /\ k \in n.required => k \in m.required
             /\ IsSafe(Compare(Unwrapped(m.shape[k]), Unwrapped(n.shape[k]), ctx))
  <2>1. IsSafe(PropertyKept(m, n, k, ctx))
    BY <1>5
  <2> QED
    BY <2>1, SafeParts, OutrightUnsafe DEF PropertyKept, Pick
<1> QED
  BY <1>2, <1>3, <1>4, <1>6

\* What an object accepts.
LEMMA ObjectMeaning ==
  ASSUME NEW s, NEW t, NEW m, NEW n, NEW v, NEW ds, NEW dt, NEW ctx,
         Comparing(s, t, m, n, v, ds, dt, ctx), m.kind = "object", n.kind = "object"
  PROVE  /\ v.tag = "object" /\ m.required \subseteq DOMAIN v.props
         /\ m.policy = "reject" => DOMAIN v.props \subseteq DOMAIN m.shape
         /\ \A k \in DOMAIN m.shape \cap DOMAIN v.props : Means(s, m.shape[k], v.props[k], ds)
         /\ \A k \in DOMAIN v.props : v.props[k] \in s.values
         /\ m.required = {k \in DOMAIN m.shape : m.shape[k].kind # "optional"}
         /\ n.required = {k \in DOMAIN n.shape : n.shape[k].kind # "optional"}
         /\ m.policy \in {"reject", "strip", "passthrough"}
         /\ n.policy \in {"reject", "strip", "passthrough"}
<1>1. Accepts(Meaning(s), s, m, v, ds) /\ IsNode(m, s) /\ IsNode(n, t) /\ IsValue(v, s.values)
  BY TargetMeans
<1>2. /\ v.tag = "object" /\ m.required \subseteq DOMAIN v.props
      /\ m.policy = "reject" => DOMAIN v.props \subseteq DOMAIN m.shape
      /\ \A k \in DOMAIN m.shape \cap DOMAIN v.props : Means(s, m.shape[k], v.props[k], ds)
  BY <1>1 DEF Accepts, Means
<1> QED
  BY <1>1, <1>2 DEF IsNode, IsValue

\* An optional node accepts whatever the node in it accepts, and undefined, when
\* nothing is checked on it.
LEMMA OptionalMeans ==
  ASSUME NEW g, NEW p \in g.nodes, p.kind = "optional", NEW w \in g.values, NEW d \in Nat
  PROVE  /\ p.refs = <<>> /\ (w = Undefined \/ Means(g, p.inner, w, d)) => Means(g, p, w, d)
         /\ Means(g, p, w, d) => w = Undefined \/ Means(g, p.inner, w, d)
<1>1. p.refs = <<>> => RefsHold(g, p)
  BY DEF RefsHold, Range
<1>2. Accepts(Meaning(g), g, p, w, d) <=> RefsHold(g, p) /\ (w = Undefined \/ Means(g, p.inner, w, d))
  BY DEF Accepts, Means
<1> QED
  BY <1>1, <1>2, Unfold

\* Objects.
LEMMA ObjectsContained ==
  ASSUME NEW s, NEW t, NEW m, NEW n, NEW v, NEW ds, NEW dt, NEW ctx,
         Comparing(s, t, m, n, v, ds, dt, ctx),
         m.kind = "object", n.kind = "object", IsSafe(CompareObjects(m, n, ctx))
  PROVE  Means(t, n, v, dt)
<1>1. /\ m.policy \in {n.policy, "reject"}
      /\ \A k \in DOMAIN n.shape \ DOMAIN m.shape : IsSafe(PropertyAdded(m, n, k))
      /\ \A k \in DOMAIN m.shape \ DOMAIN n.shape : IsSafe(PropertyRemoved(m, n, k))
      /\ \A k \in DOMAIN m.shape \cap DOMAIN n.shape :
           /\ k \in n.required => k \in m.required
           /\ IsSafe(Compare(Unwrapped(m.shape[k]), Unwrapped(n.shape[k]), ctx))
  BY SafeObjects
<1>2. /\ v.tag = "object" /\ m.required \subseteq DOMAIN v.props
      /\ m.policy = "reject" => DOMAIN v.props \subseteq DOMAIN m.shape
      /\ \A k \in DOMAIN m.shape \cap DOMAIN v.props : Means(s, m.shape[k], v.props[k], ds)
      /\ \A k \in DOMAIN v.props : v.props[k] \in s.values
      /\ m.required = {k \in DOMAIN m.shape : m.shape[k].kind # "optional"}
      /\ n.required = {k \in DOMAIN n.shape : n.shape[k].kind # "optional"}
      /\ m.policy \in {"reject", "strip", "passthrough"}
      /\ n.policy \in {"reject", "strip", "passthrough"}
  BY ObjectMeaning
<1>3. n.required \subseteq DOMAIN v.props
  <2>1. SUFFICES ASSUME NEW k \in n.required PROVE k \in DOMAIN v.props
    OBVIOUS
  <2>2. CASE k \notin DOMAIN m.shape
    <3>1. IsSafe(PropertyAdded(m, n, k))
      BY <1>1, <1>2, <2>1, <2>2
    <3> QED
      BY <2>1, <3>1, OutrightUnsafe DEF PropertyAdded
  <2>3. CASE k \in DOMAIN m.shape
    BY <1>1, <1>2, <2>1, <2>3
  <2> QED
    BY <2>2, <2>3
<1>4. ASSUME n.policy = "reject" PROVE DOMAIN v.props \subseteq DOMAIN n.shape
  <2>1. DOMAIN v.props \subseteq DOMAIN m.shape
    BY <1>1, <1>2, <1>4
  <2>2. ASSUME NEW k \in DOMAIN m.shape \ DOMAIN n.shape PROVE FALSE
    <3>1. IsSafe(PropertyRemoved(m, n, k))
      BY <1>1
    <3> QED
      BY <1>4, <3>1, OutrightUnsafe DEF PropertyRemoved
  <2> QED
    BY <2>1, <2>2
<1>5. ASSUME NEW k \in DOMAIN n.shape \cap DOMAIN v.props
      PROVE  Means(t, n.shape[k], v.props[k], dt)
  <2> DEFINE w == v.props[k]
             p == n.shape[k]
  <2>1. /\ w \in s.values /\ w \in t.values /\ p \in Children(n) /\ p \in t.nodes
        /\ p.kind = "optional" => p.refs = <<>>
    <3>1. IsNode(n, t) /\ n \in t.nodes /\ IsPlain(n) /\ s.values = t.values
      BY TargetMeans DEF Comparing
    <3>2. p \in Children(n)
      BY DEF Children, Range
    <3> QED
      BY <1>2, <3>1, <3>2 DEF IsNode, IsPlain
  <2>2. CASE k \notin DOMAIN m.shape
    <3>1. IsSafe(PropertyAdded(m, n, k))
      BY <1>1, <2>2
    <3>2. m.policy # "reject"
      BY <1>2, <1>5, <2>2
    <3>3. IsProvablyUniversal(p)
      <4>1. k \notin n.required /\ m.policy # "strip"
        BY <3>1, OutrightUnsafe DEF PropertyAdded
      <4>2. PropertyAdded(m, n, k) =
              Pick(IsProvablyUniversal(p), Finding("object.property.added.optional",
                      IF IsProvablyNarrow(p) THEN "breaking" ELSE "unknown"))
        BY <1>2, <3>2, <4>1 DEF PropertyAdded
      <4>3. (IF IsProvablyNarrow(p) THEN "breaking" ELSE "unknown") \in Unsafe
        BY DEF Unsafe
      <4> QED
        BY <3>1, <4>2, <4>3, FindingStatus DEF Pick
    <3>4. IsGraph(t) /\ NodeRules(t) /\ dt \in Nat
      BY DEF Comparing
    <3> HIDE DEF p, w
    <3>5. Means(t, p, w, dt)
      BY <2>1, <3>3, <3>4, UniversalAccepts
    <3> QED
      BY <3>5 DEF p, w
  <2>3. CASE k \in DOMAIN m.shape
    <3> DEFINE q == m.shape[k]
    <3>1. /\ q.kind = "optional" => p.kind = "optional"
          /\ IsSafe(Compare(Unwrapped(q), Unwrapped(p), ctx))
      BY <1>1, <1>2, <1>5, <2>3
    <3>2. Means(s, q, w, ds) /\ q \in Children(m) /\ q \in s.nodes
      <4>1. q \in Children(m)
        BY <2>3 DEF Children, Range
      <4>2. IsNode(m, s)
        BY TargetMeans
      <4> QED
        BY <1>2, <1>5, <2>3, <4>1, <4>2 DEF IsNode
    <3>3. ds \in Nat /\ dt \in Nat
      BY DEF Comparing
    <3> SUFFICES Means(t, p, w, dt)
      OBVIOUS
    <3> HIDE DEF q, p, w
    <3>4. CASE p.kind = "optional" /\ w = Undefined
      BY <2>1, <3>3, <3>4, OptionalMeans
    <3>5. CASE ~(p.kind = "optional" /\ w = Undefined)
      <4>1. Means(s, Unwrapped(q), w, ds)
        <5>1. CASE q.kind = "optional"
          BY <2>1, <3>1, <3>2, <3>3, <3>5, <5>1, OptionalMeans DEF Unwrapped
        <5>2. CASE q.kind # "optional"
          BY <3>2, <5>2 DEF Unwrapped
        <5> QED
          BY <5>1, <5>2
      <4>2. /\ Unwrapped(q) \in s.nodes /\ s.size[Unwrapped(q)] < s.size[m]
            /\ Unwrapped(p) \in t.nodes /\ t.size[Unwrapped(p)] < t.size[n]
        <5>1. /\ q \in s.nodes /\ s.size[q] < s.size[m] /\ p \in t.nodes /\ t.size[p] < t.size[n]
          BY <2>1, <3>2, TargetMeans DEF IsNode
        <5>2. /\ q.kind = "optional" => q.inner \in s.nodes /\ s.size[q.inner] < s.size[q]
              /\ p.kind = "optional" => p.inner \in t.nodes /\ t.size[p.inner] < t.size[p]
          <6>1. IsNode(q, s) /\ IsNode(p, t)
            BY <5>1 DEF Comparing, IsGraph
          <6> QED
            BY <6>1 DEF IsNode, Children
        <5>3. /\ \A x \in s.nodes : s.size[x] \in Nat
              /\ \A x \in t.nodes : t.size[x] \in Nat
              /\ m \in s.nodes /\ n \in t.nodes
          BY DEF Comparing, IsGraph, IsNode
        <5> QED
          BY <5>1, <5>2, <5>3 DEF Unwrapped
      <4>3. s.size[Unwrapped(q)] + t.size[Unwrapped(p)] < s.size[m] + t.size[n]
        <5>1. /\ \A x \in s.nodes : s.size[x] \in Nat
              /\ \A x \in t.nodes : t.size[x] \in Nat
              /\ m \in s.nodes /\ n \in t.nodes
          BY DEF Comparing, IsGraph, IsNode
        <5> QED
          BY <4>2, <5>1
      <4>4. Means(t, Unwrapped(p), w, dt)
        BY <2>1, <3>1, <4>1, <4>2, <4>3 DEF Comparing, Below
      <4>5. CASE p.kind = "optional"
        BY <2>1, <3>3, <4>4, <4>5, OptionalMeans DEF Unwrapped
      <4>6. CASE p.kind # "optional"
        BY <4>4, <4>6 DEF Unwrapped
      <4> QED
        BY <4>5, <4>6
    <3> QED
      BY <3>4, <3>5
  <2> QED
    BY <2>2, <2>3
<1>6. Accepts(Meaning(t), t, n, v, dt)
  BY <1>2, <1>3, <1>4, <1>5 DEF Accepts, Means, Comparing
<1> QED
  BY <1>6, TargetMeans

\* Nullable and optional.
LEMMA WrappedContained ==
  ASSUME NEW s, NEW t, NEW m, NEW n, NEW v, NEW ds, NEW dt, NEW ctx,
         Comparing(s, t, m, n, v, ds, dt, ctx),
         NEW kind, NEW extra,
         \/ kind = "nullable" /\ extra = Null
         \/ kind = "optional" /\ extra = Undefined,
         IsSafe(CompareWrapped(m, n, kind, extra, ctx))
  PROVE  Means(t, n, v, dt)
<1>1. n.kind = kind
  BY OutrightUnsafe DEF CompareWrapped
<1>2. Accepts(Meaning(s), s, m, v, ds) /\ RefsHold(t, n) /\ v \in s.values /\ Means(s, m, v, ds)
  BY TargetMeans DEF Comparing
<1>3. Accepts(Meaning(t), t, n, v, dt) <=> v = extra \/ Means(t, n.inner, v, dt)
  BY <1>1, <1>2 DEF Accepts, Means
<1>4. n.inner \in Children(n)
  BY <1>1 DEF Children
<1>5. CASE m.kind = kind
  <2>1. IsSafe(Compare(m.inner, n.inner, ctx))
    BY <1>1, <1>5 DEF CompareWrapped
  <2>2. v = extra \/ Means(s, m.inner, v, ds)
    BY <1>2, <1>5 DEF Accepts, Means
  <2>3. m.inner \in Children(m)
    BY <1>5 DEF Children
  <2>4. v = extra \/ Means(t, n.inner, v, dt)
    BY <1>2, <1>4, <2>1, <2>2, <2>3, ChildContained
  <2> QED
    BY <1>3, <2>4, TargetMeans
<1>6. CASE m.kind # kind /\ m.kind = "literal" /\ m.lit = extra
  <2>1. v = extra
    BY <1>2, <1>6 DEF Accepts
  <2> QED
    BY <1>3, <2>1, TargetMeans
<1>7. CASE m.kind # kind /\ ~(m.kind = "literal" /\ m.lit = extra)
  <2>1. IsSafe(Compare(m, n.inner, ctx))
    BY <1>1, <1>7 DEF CompareWrapped
  <2>2. Means(t, n.inner, v, dt)
    BY <1>2, <1>4, <2>1, ChildContained
  <2> QED
    BY <1>3, <2>2, TargetMeans
<1> QED
  BY <1>5, <1>6, <1>7

\* A choice is as bad as the comparison makes it, or safe with one target.
LEMMA ChoiceSafe ==
  ASSUME NEW choice, NEW targets, NEW ctx
  PROVE  /\ ChoiceStatus(choice, targets, ctx) \in Unsafe \cup {"safe"}
         /\ ChoiceStatus(choice, targets, ctx) = "safe" =>
              \E i \in DOMAIN targets : IsSafe(Compare(choice, targets[i], ctx))
BY DEF ChoiceStatus, Unsafe, IsSafe

\* Unions: every choice of the source lies within one choice of the target.
LEMMA UnionsContained ==
  ASSUME NEW s, NEW t, NEW m, NEW n, NEW v, NEW ds, NEW dt, NEW ctx,
         Comparing(s, t, m, n, v, ds, dt, ctx),
         "union" \in {m.kind, n.kind}, IsSafe(CompareUnion(m, n, ctx))
  PROVE  Means(t, n, v, dt)
<1> DEFINE sources == ExpandChoices(m)
           targets == ExpandChoices(n)
           statuses == {ChoiceStatus(sources[i], targets, ctx) : i \in DOMAIN sources}
           status == Aggregate(statuses)
<1>1. /\ m \in s.nodes /\ n \in t.nodes /\ IsGraph(s) /\ IsGraph(t) /\ NodeRules(s) /\ NodeRules(t)
      /\ v \in s.values /\ v \in t.values /\ ds \in Nat /\ dt \in Nat /\ Means(s, m, v, ds)
      /\ RefsHold(t, n) /\ \A b \in t.nodes : IsPlain(b)
  BY DEF Comparing
<1>2. \A i \in DOMAIN sources : ChoiceStatus(sources[i], targets, ctx) = "safe"
  <2>1. status = "safe"
    <3>1. CompareUnion(m, n, ctx) = Pick(status = "safe", Finding("union.choices.changed", status))
      BY Zenon DEF CompareUnion
    <3>2. status \in Unsafe \cup {"safe"}
      BY DEF Aggregate, Unsafe
    <3> HIDE DEF status
    <3> QED
      BY <3>1, <3>2, FindingStatus DEF Pick
  <2>2. statuses \cap Unsafe = {}
    BY <2>1 DEF Aggregate, Unsafe
  <2>3. \A i \in DOMAIN sources : ChoiceStatus(sources[i], targets, ctx) \notin Unsafe
    BY <2>2
  <2> HIDE DEF sources, targets
  <2> QED
    BY <2>3, ChoiceSafe
<1>3. PICK c \in Range(sources) : Means(s, c, v, ds)
  BY <1>1, ChoicesCover
<1>4. PICK i \in DOMAIN sources : c = sources[i]
  BY <1>3 DEF Range
<1>5. PICK j \in DOMAIN targets : IsSafe(Compare(c, targets[j], ctx))
  <2>1. ChoiceStatus(c, targets, ctx) = "safe"
    BY <1>2, <1>4
  <2> HIDE DEF targets
  <2> QED
    BY <2>1, ChoiceSafe
<1> DEFINE b == targets[j]
<1>6. /\ c \in s.nodes /\ s.size[c] <= s.size[m] /\ (m.kind = "union" => s.size[c] < s.size[m])
      /\ b \in t.nodes /\ t.size[b] <= t.size[n] /\ (n.kind = "union" => t.size[b] < t.size[n])
      /\ b \in Range(targets)
  <2>1. b \in Range(targets)
    BY <1>5 DEF Range
  <2> QED
    BY <1>1, <1>3, <2>1, ChoicesAreNodes
<1> HIDE DEF b
<1>7. s.size[c] + t.size[b] < s.size[m] + t.size[n]
  <2>1. s.size[c] \in Nat /\ s.size[m] \in Nat /\ t.size[b] \in Nat /\ t.size[n] \in Nat
    BY <1>1, <1>6 DEF IsGraph, IsNode
  <2> QED
    BY <1>6, <2>1
<1>8. Means(t, b, v, dt)
  BY <1>1, <1>3, <1>5, <1>6, <1>7 DEF Comparing, Below, b
<1> QED
  BY <1>1, <1>6, <1>8, ChoicesWithin

\* Nodes of one kind.
LEMMA SameKindContained ==
  ASSUME NEW s, NEW t, NEW m, NEW n, NEW v, NEW ds, NEW dt, NEW ctx,
         Comparing(s, t, m, n, v, ds, dt, ctx),
         m.kind = n.kind, ~IsProvablyEmpty(m), ~IsProvablyEmpty(n),
         m.kind \notin {"unknown", "union", "enum", "nullable", "optional", "reference"},
         IsSafe(CompareSameKind(m, n, ctx))
  PROVE  Means(t, n, v, dt)
<1>1. /\ Accepts(Meaning(s), s, m, v, ds) /\ IsNode(m, s) /\ IsNode(n, t) /\ RefsHold(t, n)
      /\ IsPlain(n) /\ m \in s.nodes /\ NodeRules(s) /\ v \in s.values /\ Means(s, m, v, ds)
  BY TargetMeans DEF Comparing
<1>2. CASE m.kind \in {"string", "number", "boolean", "literal"}
  BY <1>2, ScalarsContained
<1>3. CASE m.kind \in {"discriminatedUnion", "intersection"}
  BY <1>3, OutrightUnsafe DEF CompareSameKind
<1>4. CASE m.kind = "array"
  <2>1. IsSafe(CompareArrays(m, n, ctx))
    BY <1>4 DEF CompareSameKind
  <2> QED
    BY <1>4, <2>1, ArraysContained
<1>5. CASE m.kind = "tuple"
  <2>1. IsSafe(CompareTuples(m, n, ctx))
    BY <1>5 DEF CompareSameKind
  <2> QED
    BY <1>5, <2>1, TuplesContained
<1>6. CASE m.kind = "object"
  <2>1. IsSafe(CompareObjects(m, n, ctx))
    BY <1>6 DEF CompareSameKind
  <2> QED
    BY <1>6, <2>1, ObjectsContained
<1>7. CASE m.kind = "record"
  <2>1. IsSafe(CompareRecords(m, n, ctx))
    BY <1>7 DEF CompareSameKind
  <2> QED
    BY <1>7, <2>1, RecordsContained
<1>8. CASE m.kind = "transform"
  <2>1. IsSafe(Compare(m.inner, n.inner, ctx))
    BY <1>8 DEF CompareSameKind
  <2>2. Means(s, m.inner, v, ds) /\ m.inner \in Children(m) /\ n.inner \in Children(n)
    BY <1>1, <1>8 DEF Accepts, Means, Children
  <2>3. Means(t, n.inner, v, dt)
    BY <1>1, <2>1, <2>2, ChildContained
  <2>4. Accepts(Meaning(t), t, n, v, dt)
    BY <1>1, <1>8, <2>3 DEF Accepts, Means
  <2> QED
    BY <2>4, TargetMeans
<1>9. m.kind \notin {"never", "opaque"}
  <2>1. ~IsProvablyEmptyRule(m)
    BY <1>1 DEF NodeRules
  <2> QED
    BY <1>1, <2>1 DEF IsProvablyEmptyRule, IsPlain
<1>10. m.kind \in {"string", "number", "boolean", "literal", "array", "tuple",
                   "discriminatedUnion", "intersection", "object", "record", "transform"}
  BY <1>1, <1>9 DEF IsNode
<1> QED
  BY <1>2, <1>3, <1>4, <1>5, <1>6, <1>7, <1>8, <1>10

\* Two nodes whose structures compare as safe.
LEMMA StructureContained ==
  ASSUME NEW s, NEW t, NEW m, NEW n, NEW v, NEW ds, NEW dt, NEW ctx,
         Comparing(s, t, m, n, v, ds, dt, ctx),
         "reference" \notin {m.kind, n.kind},
         IsSafe(CompareStructure(m, n, ctx))
  PROVE  Means(t, n, v, dt)
<1>1. /\ Accepts(Meaning(s), s, m, v, ds) /\ IsNode(m, s) /\ IsNode(n, t) /\ RefsHold(t, n)
      /\ IsGraph(s) /\ IsGraph(t) /\ NodeRules(s) /\ NodeRules(t) /\ s.upper /\ ~t.upper
      /\ m \in s.nodes /\ n \in t.nodes /\ v \in s.values /\ v \in t.values
      /\ ds \in Nat /\ dt \in Nat /\ Means(s, m, v, ds)
  BY TargetMeans DEF Comparing
<1>2. CASE IsProvablyEmpty(m)
  BY <1>1, <1>2, EmptyRejects
<1>3. CASE n.kind = "unknown"
  <2>1. Accepts(Meaning(t), t, n, v, dt)
    BY <1>1, <1>3 DEF Accepts
  <2> QED
    BY <2>1, TargetMeans
<1>4. SUFFICES ASSUME ~IsProvablyEmpty(m), n.kind # "unknown" PROVE Means(t, n, v, dt)
  BY <1>2, <1>3
<1>5. ~IsProvablyEmpty(n)
  <2>1. (IF IsProvablyInhabited(m) THEN "breaking" ELSE "unknown") \in Unsafe
    BY DEF Unsafe
  <2> QED
    BY <1>4, <2>1, FindingStatus DEF CompareStructure
<1>6. m.kind # "unknown"
  BY <1>4, <1>5, OutrightUnsafe DEF CompareStructure
<1>7. CASE "union" \in {m.kind, n.kind}
  <2>1. IsSafe(CompareUnion(m, n, ctx))
    BY <1>4, <1>5, <1>6, <1>7 DEF CompareStructure
  <2> QED
    BY <1>7, <2>1, UnionsContained
<1>8. SUFFICES ASSUME m.kind # "union", n.kind # "union" PROVE Means(t, n, v, dt)
  BY <1>7
<1>9. CASE m.kind = "literal" /\ n.kind # "literal" /\ IsLiteralAcceptanceDecidable(n)
  <2>1. AcceptsLiteral(n, m.lit)
    BY <1>4, <1>5, <1>6, <1>8, <1>9, OutrightUnsafe DEF CompareStructure, Pick
  <2>2. v = m.lit /\ IsScalar(v)
    BY <1>1, <1>9 DEF Accepts, IsNode
  <2> QED
    BY <1>1, <1>9, <2>1, <2>2, LiteralAccepted
<1>10. SUFFICES ASSUME ~(m.kind = "literal" /\ n.kind # "literal" /\ IsLiteralAcceptanceDecidable(n))
                PROVE  Means(t, n, v, dt)
  BY <1>9
<1>11. CASE m.kind = "enum"
  <2>1. IsSafe(CompareEnum(m, n))
    BY <1>4, <1>5, <1>6, <1>8, <1>10, <1>11 DEF CompareStructure
  <2>2. IsLiteralAcceptanceDecidable(n) /\ \A x \in m.values : AcceptsLiteral(n, x)
    BY <2>1, OutrightUnsafe DEF CompareEnum, Pick
  <2>3. v \in m.values /\ IsScalar(v)
    BY <1>1, <1>11 DEF Accepts, IsNode
  <2> QED
    BY <1>1, <2>2, <2>3, LiteralAccepted
<1>12. SUFFICES ASSUME m.kind # "enum" PROVE Means(t, n, v, dt)
  BY <1>11
<1>13. CASE "nullable" \in {m.kind, n.kind}
  <2>1. IsSafe(CompareWrapped(m, n, "nullable", Null, ctx))
    BY <1>4, <1>5, <1>6, <1>8, <1>10, <1>12, <1>13 DEF CompareStructure
  <2> QED
    BY <2>1, WrappedContained
<1>14. SUFFICES ASSUME m.kind # "nullable", n.kind # "nullable" PROVE Means(t, n, v, dt)
  BY <1>13
<1>15. CASE "optional" \in {m.kind, n.kind}
  <2>1. IsSafe(CompareWrapped(m, n, "optional", Undefined, ctx))
    BY <1>4, <1>5, <1>6, <1>8, <1>10, <1>12, <1>14, <1>15 DEF CompareStructure
  <2> QED
    BY <2>1, WrappedContained
<1>16. SUFFICES ASSUME m.kind # "optional", n.kind # "optional" PROVE Means(t, n, v, dt)
  BY <1>15
<1>17. CASE {m.kind, n.kind} = {"tuple", "array"}
  <2>1. IsSafe(CompareTupleArray(m, n, ctx))
    BY <1>4, <1>5, <1>6, <1>8, <1>10, <1>12, <1>14, <1>16, <1>17 DEF CompareStructure
  <2>2. (m.kind = "tuple" /\ n.kind = "array") \/ (m.kind = "array" /\ n.kind = "tuple")
    BY <1>17
  <2> QED
    BY <2>1, <2>2, TupleArrayContained, ArrayTupleContained
<1>18. SUFFICES ASSUME {m.kind, n.kind} # {"tuple", "array"} PROVE Means(t, n, v, dt)
  BY <1>17
<1>19. m.kind = n.kind
  <2>1. ~IsSafe(KindChanged(m, n))
    BY FindingStatus DEF KindChanged, Unsafe
  <2> QED
    BY <1>4, <1>5, <1>6, <1>8, <1>10, <1>12, <1>14, <1>16, <1>18, <2>1 DEF CompareStructure
<1>20. IsSafe(CompareSameKind(m, n, ctx))
  BY <1>4, <1>5, <1>6, <1>8, <1>10, <1>12, <1>14, <1>16, <1>18, <1>19 DEF CompareStructure
<1> QED
  BY <1>4, <1>5, <1>6, <1>8, <1>12, <1>14, <1>16, <1>19, <1>20, SameKindContained

-----------------------------------------------------------------------------
(* Recursion: the resolutions that both sides have left bound the argument. *)

\* What a accepts b accepts, with at most e resolutions left on both sides.
Covers(s, t, a, b, e) ==
  \A v \in s.values, ds, dt \in Nat :
    ds + dt <= e /\ Means(s, a, v, ds) => Means(t, b, v, dt)

\* The claim: if the pairs that are taken to be safe are contained, so is every pair
\* that compares as safe.
Claim(s, t, e, m, n) ==
  \A active \in SUBSET (s.nodes \X t.nodes) :
    /\ IsSafe(Compare(m, n, Context(s, t, active)))
    /\ \A p \in active : Covers(s, t, p[1], p[2], e)
    => Covers(s, t, m, n, e)

\* A comparison of graphs, but for what it says of their checks.
Comparable(s, t) ==
  /\ IsGraph(s) /\ IsGraph(t) /\ s.upper /\ ~t.upper /\ s.values = t.values
  /\ NodeRules(s) /\ NodeRules(t) /\ \A b \in t.nodes : IsPlain(b)

\* The checks of a node without anonymous behaviour hold on the target, when they are
\* those of a source that accepts something.
LEMMA ChecksHold ==
  ASSUME NEW s, NEW t, NEW holds, IsComparison(s, t, holds),
         NEW m \in s.nodes, NEW n \in t.nodes,
         AnonymousOpaque(m, n) = {}, ~OpaqueChanged(m, n), RefsHold(s, m)
  PROVE  RefsHold(t, n)
<1>2. ~IsAnonymous(n)
  <2>1. AnonymousOpaqueRule(m, n) = {}
    BY DEF IsComparison, PairRules
  <2>2. Unproven("opaque.anonymous") # {}
    BY DEF Unproven, Finding
  <2> QED
    BY <2>1, <2>2 DEF AnonymousOpaqueRule, Pick
<1>3. m.refs = n.refs
  BY DEF OpaqueChanged
<1>4. Range(n.refs) \subseteq holds \cup {"anonymous"} \cup Warnings
  BY <1>3 DEF RefsHold, IsComparison
<1>5. "anonymous" \notin Range(n.refs)
  BY <1>2 DEF IsAnonymous
<1> QED
  BY <1>4, <1>5 DEF RefsHold, IsComparison

\* One step of a comparison that meets no reference.
LEMMA PlainStep ==
  ASSUME NEW s, NEW t, NEW holds, IsComparison(s, t, holds),
         NEW e \in Nat, NEW m \in s.nodes, NEW n \in t.nodes,
         \A a \in s.nodes, b \in t.nodes :
           s.size[a] + t.size[b] < s.size[m] + t.size[n] => Claim(s, t, e, a, b),
         "reference" \notin {m.kind, n.kind}
  PROVE  Claim(s, t, e, m, n)
<1> SUFFICES ASSUME NEW active \in SUBSET (s.nodes \X t.nodes),
                    IsSafe(Compare(m, n, Context(s, t, active))),
                    \A p \in active : Covers(s, t, p[1], p[2], e),
                    NEW v \in s.values, NEW ds \in Nat, NEW dt \in Nat,
                    ds + dt <= e, Means(s, m, v, ds)
             PROVE  Means(t, n, v, dt)
  BY DEF Claim, Covers
<1> DEFINE ctx == Context(s, t, active)
<1>1. IsSafe(CompareRule(m, n, ctx))
  BY DEF IsComparison, PairRules
<1>2. ctx.graph = TRUE
  BY DEF Context
<1> HIDE DEF ctx
<1>3. AnonymousOpaque(m, n) = {}
  <2>1. ASSUME AnonymousOpaque(m, n) # {} PROVE FALSE
    <3>1. IsSafe(AnonymousOpaque(m, n))
      BY <1>1, <1>2, <2>1 DEF CompareRule
    <3>2. AnonymousOpaque(m, n) = AnonymousOpaqueRule(m, n)
      BY DEF IsComparison, PairRules
    <3>3. AnonymousOpaque(m, n) = Unproven("opaque.anonymous")
      BY <2>1, <3>2 DEF AnonymousOpaqueRule, Pick, Safe
    <3> QED
      BY <3>1, <3>3, OutrightUnsafe
  <2> QED
    BY <2>1
<1>4. ~OpaqueChanged(m, n)
  BY <1>1, <1>2, <1>3, OutrightUnsafe DEF CompareRule
<1>5. IsSafe(CompareStructure(m, n, ctx))
  BY <1>1, <1>2, <1>3, <1>4 DEF CompareRule
<1>6. RefsHold(s, m)
  <2>1. Accepts(Meaning(s), s, m, v, ds)
    BY Unfold
  <2> QED
    BY <2>1 DEF Accepts
<1>7. RefsHold(t, n)
  BY <1>3, <1>4, <1>6, ChecksHold
<1>8. Below(s, t, m, n, ds, dt, ctx)
  BY DEF Below, Claim, Covers, ctx
<1>9. Comparing(s, t, m, n, v, ds, dt, ctx)
  BY <1>7, <1>8 DEF Comparing, IsComparison
<1> QED
  BY <1>5, <1>9, StructureContained

\* What a reference accepts: what its definition accepts, with one resolution less.
LEMMA ReferenceMeans ==
  ASSUME NEW g, IsGraph(g), NEW n \in g.nodes, n.kind = "reference", NEW v \in g.values
  PROVE  /\ g.definitions[n.to] \in g.nodes
         /\ g.upper => \A d \in Nat : Means(g, n, v, d) =>
              d > 0 /\ Means(g, g.definitions[n.to], v, d - 1)
         /\ ~g.upper /\ n.refs = <<>> => \A d \in Nat :
              d = 0 \/ Means(g, g.definitions[n.to], v, d - 1) => Means(g, n, v, d)
<1>1. g.definitions[n.to] \in g.nodes
  BY DEF IsGraph, IsNode
<1>2. n.refs = <<>> => RefsHold(g, n)
  BY DEF RefsHold, Range
<1>3. \A d \in Nat : Means(g, n, v, d) <=>
        RefsHold(g, n) /\ (IF d = 0 THEN ~g.upper ELSE Means(g, g.definitions[n.to], v, d - 1))
  <2> TAKE d \in Nat
  <2>1. Accepts(Meaning(g), g, n, v, d) <=>
          RefsHold(g, n) /\ (IF d = 0 THEN ~g.upper ELSE Means(g, g.definitions[n.to], v, d - 1))
    BY DEF Accepts, Means
  <2> QED
    BY <2>1, Unfold
<1> QED
  BY <1>1, <1>2, <1>3

\* A record with another field.
LEMMA Replaced ==
  ASSUME NEW source, NEW target, NEW active, NEW more, NEW result, NEW ctx,
         [ctx EXCEPT !.active = more] = result,
         ctx = [graph |-> TRUE, source |-> source, target |-> target, active |-> active]
  PROVE  result = [graph |-> TRUE, source |-> source, target |-> target, active |-> more]
BY SMT

\* A context with other active pairs.
LEMMA Activated ==
  ASSUME NEW s, NEW t, NEW active, NEW more
  PROVE  [Context(s, t, active) EXCEPT !.active = more] = Context(s, t, more)
<1> DEFINE ctx == Context(s, t, active)
           result == [ctx EXCEPT !.active = more]
           source == s.definitions
           target == t.definitions
<1>1. [ctx EXCEPT !.active = more] = result
  OBVIOUS
<1>2. ctx = [graph |-> TRUE, source |-> source, target |-> target, active |-> active]
  BY Zenon DEF Context
<1>3. Context(s, t, more) = [graph |-> TRUE, source |-> source, target |-> target, active |-> more]
  BY Zenon DEF Context
<1> HIDE DEF ctx, result, source, target
<1>4. result = [graph |-> TRUE, source |-> source, target |-> target, active |-> more]
  BY <1>1, <1>2, Replaced
<1>5. result = Context(s, t, more)
  BY Zenon, <1>3, <1>4
<1> QED
  BY Zenon, <1>5 DEF result, ctx

\* One step of a comparison at a reference: the pair is taken to be safe while what it
\* refers to is compared.
LEMMA ReferenceStep ==
  ASSUME NEW s, NEW t, NEW holds, IsComparison(s, t, holds),
         NEW e \in Nat, NEW m \in s.nodes, NEW n \in t.nodes,
         \A k \in Nat, a \in s.nodes, b \in t.nodes : k < e => Claim(s, t, k, a, b),
         "reference" \in {m.kind, n.kind}
  PROVE  Claim(s, t, e, m, n)
<1> SUFFICES ASSUME NEW active \in SUBSET (s.nodes \X t.nodes),
                    IsSafe(Compare(m, n, Context(s, t, active))),
                    \A p \in active : Covers(s, t, p[1], p[2], e),
                    NEW v \in s.values, NEW ds \in Nat, NEW dt \in Nat,
                    ds + dt <= e, Means(s, m, v, ds)
             PROVE  Means(t, n, v, dt)
  BY DEF Claim, Covers
<1> DEFINE a == Resolved(m, s.definitions)
           b == Resolved(n, t.definitions)
           more == active \cup {<<m, n>>}
<1>1. CASE <<m, n>> \in active
  BY <1>1 DEF Covers
<1>2. CASE <<m, n>> \notin active
  <2>1. IsGraph(s) /\ IsGraph(t) /\ s.upper /\ ~t.upper /\ v \in t.values
        /\ (n.kind = "reference" => n.refs = <<>>)
    BY DEF IsComparison, IsPlain
  <2>2. a \in s.nodes /\ b \in t.nodes
    BY <2>1, ReferenceMeans DEF Resolved
  <2>3. IsSafe(Compare(a, b, Context(s, t, more)))
    <3>1. IsSafe(CompareRule(m, n, Context(s, t, active)))
      BY DEF IsComparison, PairRules
    <3>2. CompareRule(m, n, Context(s, t, active)) = CompareReference(m, n, Context(s, t, active))
      BY DEF CompareRule, Context
    <3>3. CompareReference(m, n, Context(s, t, active)) = Compare(a, b, Context(s, t, more))
      <4>1. Context(s, t, active).active = active
            /\ Context(s, t, active).source = s.definitions
            /\ Context(s, t, active).target = t.definitions
        BY DEF Context
      <4>2. [Context(s, t, active) EXCEPT !.active = active \cup {<<m, n>>}] = Context(s, t, more)
        <5> HIDE DEF more
        <5>1. \A x : [Context(s, t, active) EXCEPT !.active = x] = Context(s, t, x)
          BY Activated
        <5> QED
          BY Zenon, <5>1 DEF more
      <4> HIDE DEF more
      <4> QED
        BY <1>2, <4>1, <4>2 DEF CompareReference
    <3> QED
      BY <3>1, <3>2, <3>3
  <2>4. \A k \in Nat : k < e => Covers(s, t, a, b, k)
    <3> TAKE k \in Nat
    <3> HAVE k < e
    <3>1. \A p \in active : Covers(s, t, p[1], p[2], k)
      BY DEF Covers
    <3>2. Covers(s, t, m, n, k)
      BY <3>1 DEF Claim
    <3>3. \A p \in more : Covers(s, t, p[1], p[2], k)
      BY <3>1, <3>2
    <3>4. more \in SUBSET (s.nodes \X t.nodes)
      OBVIOUS
    <3>5. Claim(s, t, k, a, b)
      BY <2>2
    <3> HIDE DEF a, b, more
    <3> QED
      BY <2>3, <3>3, <3>4, <3>5 DEF Claim
  <2>5. ASSUME NEW i \in Nat, NEW j \in Nat, i + j < ds + dt, Means(s, a, v, i)
        PROVE  Means(t, b, v, j)
    <3>1. i + j \in Nat /\ i + j < e
      BY <2>5
    <3>2. Covers(s, t, a, b, i + j)
      BY <2>4, <3>1
    <3> QED
      BY <2>5, <3>1, <3>2 DEF Covers
  <2>6. CASE m.kind = "reference" /\ n.kind = "reference"
    <3>1. ds > 0 /\ Means(s, a, v, ds - 1)
      BY <2>1, <2>6, ReferenceMeans DEF Resolved
    <3>2. CASE dt = 0
      BY <2>1, <2>6, <3>2, ReferenceMeans
    <3>3. CASE dt # 0
      <4>1. ds - 1 \in Nat /\ dt - 1 \in Nat /\ (ds - 1) + (dt - 1) < ds + dt
        BY <3>1, <3>3
      <4>2. Means(t, b, v, dt - 1)
        BY <2>5, <3>1, <4>1
      <4> QED
        BY <2>1, <2>6, <4>2, ReferenceMeans DEF Resolved
    <3> QED
      BY <3>2, <3>3
  <2>7. CASE m.kind = "reference" /\ n.kind # "reference"
    <3>1. ds > 0 /\ Means(s, a, v, ds - 1)
      BY <2>1, <2>7, ReferenceMeans DEF Resolved
    <3>2. ds - 1 \in Nat /\ (ds - 1) + dt < ds + dt
      BY <3>1
    <3>3. Means(t, b, v, dt)
      BY <2>5, <3>1, <3>2
    <3> QED
      BY <2>7, <3>3 DEF Resolved
  <2>8. CASE m.kind # "reference" /\ n.kind = "reference"
    <3>1. Means(s, a, v, ds)
      BY <2>8 DEF Resolved
    <3>2. CASE dt = 0
      BY <2>1, <2>8, <3>2, ReferenceMeans
    <3>3. CASE dt # 0
      <4>1. dt - 1 \in Nat /\ ds + (dt - 1) < ds + dt
        BY <3>3
      <4>2. Means(t, b, v, dt - 1)
        BY <2>5, <3>1, <4>1
      <4> QED
        BY <2>1, <2>8, <4>2, ReferenceMeans DEF Resolved
    <3> QED
      BY <3>2, <3>3
  <2> QED
    BY <2>6, <2>7, <2>8
<1> QED
  BY <1>1, <1>2

\* By induction on the resolutions and, below each, on the sizes of the nodes.
LEMMA ClaimHolds ==
  ASSUME NEW s, NEW t, NEW holds, IsComparison(s, t, holds)
  PROVE  \A e \in Nat, m \in s.nodes, n \in t.nodes : Claim(s, t, e, m, n)
<1> DEFINE Bad == {e \in Nat : \E m \in s.nodes, n \in t.nodes : ~Claim(s, t, e, m, n)}
<1>1. SUFFICES ASSUME Bad # {} PROVE FALSE
  OBVIOUS
<1>2. PICK e \in Bad : \A k \in Bad : e <= k
  BY <1>1, Smallest
<1>3. \A k \in Nat, a \in s.nodes, b \in t.nodes : k < e => Claim(s, t, k, a, b)
  BY <1>2
<1>4. e \in Nat /\ \E m \in s.nodes, n \in t.nodes : ~Claim(s, t, e, m, n)
  OBVIOUS
<1> HIDE DEF Bad
<1> DEFINE Sum(p) == s.size[p[1]] + t.size[p[2]]
           Wrong == {p \in s.nodes \X t.nodes : ~Claim(s, t, e, p[1], p[2])}
           Sums == {Sum(p) : p \in Wrong}
<1>5. /\ \A x \in s.nodes : s.size[x] \in Nat
      /\ \A x \in t.nodes : t.size[x] \in Nat
  BY DEF IsComparison, IsGraph, IsNode
<1>6. Sums \in SUBSET Nat /\ Sums # {}
  <2>1. PICK a \in s.nodes, b \in t.nodes : ~Claim(s, t, e, a, b)
    BY <1>4
  <2>2. <<a, b>> \in Wrong
    BY <2>1
  <2> QED
    BY <1>5, <2>2
<1>7. PICK least \in Sums : \A k \in Sums : least <= k
  BY <1>6, Smallest
<1>8. PICK p \in Wrong : least = Sum(p)
  OBVIOUS
<1> DEFINE m == p[1]
           n == p[2]
<1>9. m \in s.nodes /\ n \in t.nodes /\ ~Claim(s, t, e, m, n)
  BY <1>8
<1>10. \A a \in s.nodes, b \in t.nodes :
         s.size[a] + t.size[b] < s.size[m] + t.size[n] => Claim(s, t, e, a, b)
  <2> SUFFICES ASSUME NEW a \in s.nodes, NEW b \in t.nodes,
                      s.size[a] + t.size[b] < s.size[m] + t.size[n], ~Claim(s, t, e, a, b)
               PROVE  FALSE
    OBVIOUS
  <2>1. <<a, b>> \in Wrong /\ Sum(<<a, b>>) = s.size[a] + t.size[b]
    OBVIOUS
  <2>2. Sum(<<a, b>>) \in Sums
    BY <2>1
  <2>3. least <= s.size[a] + t.size[b]
    BY <1>7, <2>1, <2>2
  <2>4. least = s.size[m] + t.size[n]
    BY <1>8
  <2> QED
    BY <1>5, <1>9, <2>3, <2>4
<1> HIDE DEF m, n, Wrong, Sums
<1>11. Claim(s, t, e, m, n)
  BY <1>3, <1>4, <1>9, <1>10, PlainStep, ReferenceStep
<1> QED
  BY <1>9, <1>11

\* Comparison is sound: when the roots of two graphs compare as safe, the target
\* accepts every value that the source accepts, however the two recurse and whatever
\* the checks do that the contracts name.
THEOREM SafeContracts ==
  ASSUME NEW s, NEW t, NEW holds, IsComparison(s, t, holds),
         NEW m \in s.nodes, NEW n \in t.nodes,
         Status(Compare(m, n, Context(s, t, {}))) = "safe",
         NEW v \in s.values, NEW ds \in Nat, NEW dt \in Nat, Means(s, m, v, ds)
  PROVE  Means(t, n, v, dt)
<1>1. Claim(s, t, ds + dt, m, n)
  BY ClaimHolds
<1>2. {} \in SUBSET (s.nodes \X t.nodes) /\ ds + dt \in Nat
  OBVIOUS
<1>3. Covers(s, t, m, n, ds + dt)
  BY <1>1, <1>2 DEF Claim, IsSafe
<1> QED
  BY <1>2, <1>3 DEF Covers

-----------------------------------------------------------------------------
(* Nodes with further checks. *)

\* A node keeps what it has when it is refined.
LEMMA RefinedFields ==
  ASSUME NEW n, HasFields(n), NEW ids \in Seq(Ids)
  PROVE  /\ Refined(n, ids).kind = n.kind
         /\ Refined(n, ids).refs = n.refs \o ids
         /\ \A f \in NodeFields(n.kind) \ {"refs"} : Refined(n, ids)[f] = n[f]
<1> DEFINE S == NodeFields(n.kind)
<1>1. "kind" \in S /\ "refs" \in S
  BY DEF NodeFields
<1>2. n = [f \in S |-> n[f]]
  BY DEF HasFields
<1> HIDE DEF S
<1>3. DOMAIN n = S
  BY <1>2
<1>4. Refined(n, ids) = [n EXCEPT !["refs"] = n["refs"] \o ids]
  BY DEF Refined
<1>5. /\ Refined(n, ids)["refs"] = n["refs"] \o ids
      /\ \A f \in S \ {"refs"} : Refined(n, ids)[f] = n[f]
  BY <1>1, <1>3, <1>4
<1>6. "kind" # "refs"
  OBVIOUS
<1> QED
  BY <1>1, <1>5, <1>6 DEF S

\* The checks of a sequence of two parts.
LEMMA RangeOfTwo ==
  ASSUME NEW T, NEW a \in Seq(T), NEW b \in Seq(T)
  PROVE  Range(a \o b) = Range(a) \cup Range(b)
<1>1. Range(a \o b) \subseteq Range(a) \cup Range(b)
  BY DEF Range
<1>2. ASSUME NEW j \in DOMAIN a PROVE a[j] \in Range(a \o b)
  <2>1. j \in DOMAIN (a \o b) /\ (a \o b)[j] = a[j]
    OBVIOUS
  <2> QED
    BY <2>1 DEF Range
<1>3. ASSUME NEW j \in DOMAIN b PROVE b[j] \in Range(a \o b)
  <2>1. Len(a) + j \in DOMAIN (a \o b) /\ (a \o b)[Len(a) + j] = b[j]
    OBVIOUS
  <2> QED
    BY <2>1 DEF Range
<1> QED
  BY <1>1, <1>2, <1>3 DEF Range

\* What a refined node accepts: what the node accepts, when the further checks hold.
\* In the lower reading a refined intersection accepts less.
LEMMA RefinedMeans ==
  ASSUME NEW g, NodeRules(g), NEW n \in g.nodes, HasFields(n), NEW ids \in Seq(Ids),
         Refined(n, ids) \in g.nodes, NEW v \in g.values, NEW d \in Nat
  PROVE  /\ Means(g, Refined(n, ids), v, d) =>
              Means(g, n, v, d) /\ Range(ids) \subseteq g.holds \cup Warnings
         /\ g.upper /\ Means(g, n, v, d) /\ Range(ids) \subseteq g.holds \cup Warnings =>
              Means(g, Refined(n, ids), v, d)
<1> DEFINE m == Refined(n, ids)
<1>1. /\ m.kind = n.kind /\ m.refs = n.refs \o ids /\ n.refs \in Seq(Ids)
      /\ \A f \in NodeFields(n.kind) \ {"refs"} : m[f] = n[f]
  BY RefinedFields DEF HasFields
<1>2. /\ n.kind = "string" => m.min = n.min /\ m.max = n.max /\ m.pattern = n.pattern
      /\ n.kind = "number" => m.integer = n.integer /\ m.min = n.min /\ m.max = n.max /\ m.multiple = n.multiple
      /\ n.kind = "literal" => m.lit = n.lit
      /\ n.kind = "enum" => m.values = n.values
      /\ n.kind = "array" => m.item = n.item /\ m.min = n.min /\ m.max = n.max
      /\ n.kind = "tuple" => m.items = n.items
      /\ n.kind \in {"union", "discriminatedUnion"} => m.choices = n.choices
      /\ n.kind = "intersection" => m.left = n.left /\ m.right = n.right
      /\ n.kind = "object" => m.shape = n.shape /\ m.policy = n.policy /\ m.required = n.required
      /\ n.kind = "record" => m.key = n.key /\ m.each = n.each
      /\ n.kind \in {"nullable", "optional", "transform"} => m.inner = n.inner
      /\ n.kind = "reference" => m.to = n.to
  BY <1>1 DEF NodeFields
<1> HIDE DEF m
<1>3. RefsHold(g, m) <=> RefsHold(g, n) /\ Range(ids) \subseteq g.holds \cup Warnings
  BY <1>1, RangeOfTwo DEF RefsHold
<1>4. ASSUME n.kind = "intersection", IsLiteralAcceptanceDecidable(m), AcceptsLiteral(m, v)
      PROVE  IsLiteralAcceptanceDecidable(n) /\ AcceptsLiteral(n, v)
  <2>1. IsLiteralAcceptanceDecidableRule(m) /\ AcceptsLiteralRule(m, v)
    BY <1>4 DEF NodeRules, m
  <2>2. m.refs = <<>>
    BY <2>1 DEF IsLiteralAcceptanceDecidableRule
  <2>3. n.refs = <<>>
    <3>1. n.refs \in Seq(Ids) /\ n.refs \o ids = <<>>
      BY <1>1, <2>2
    <3>2. Len(n.refs) + Len(ids) = 0 /\ Len(n.refs) \in Nat /\ Len(ids) \in Nat
      BY <3>1
    <3>3. Len(n.refs) = 0
      BY <3>2
    <3> QED
      BY <3>1, <3>3
  <2>4. Children(m) = Children(n)
    BY <1>1, <1>2, <1>4 DEF Children
  <2>5. IsLiteralAcceptanceDecidableRule(n)
    BY <1>1, <1>4, <2>1, <2>3, <2>4 DEF IsLiteralAcceptanceDecidableRule
  <2>6. AcceptsLiteralRule(n, v)
    BY <1>1, <1>2, <1>4, <2>1 DEF AcceptsLiteralRule
  <2> QED
    BY <2>5, <2>6 DEF NodeRules
<1>5. CASE n.kind = "intersection"
  <2>1. Accepts(Meaning(g), g, m, v, d) =>
          Accepts(Meaning(g), g, n, v, d) /\ Range(ids) \subseteq g.holds \cup Warnings
    BY <1>1, <1>2, <1>3, <1>4, <1>5 DEF Accepts
  <2>2. g.upper /\ Accepts(Meaning(g), g, n, v, d) /\ Range(ids) \subseteq g.holds \cup Warnings =>
          Accepts(Meaning(g), g, m, v, d)
    BY <1>1, <1>2, <1>3, <1>5 DEF Accepts
  <2> QED
    BY <2>1, <2>2, Unfold DEF m
<1>6. CASE n.kind # "intersection"
  <2>1. CASE n.kind \in {"string", "number"}
    <3>1. Accepts(Meaning(g), g, m, v, d) <=>
            Accepts(Meaning(g), g, n, v, d) /\ Range(ids) \subseteq g.holds \cup Warnings
      BY <1>1, <1>2, <1>3, <2>1 DEF Accepts, StringAccepts, NumberAccepts
    <3> QED
      BY <3>1, Unfold DEF m
  <2>2. CASE n.kind \in {"boolean", "literal", "enum", "unknown", "opaque"}
    <3>1. Accepts(Meaning(g), g, m, v, d) <=>
            Accepts(Meaning(g), g, n, v, d) /\ Range(ids) \subseteq g.holds \cup Warnings
      BY <1>1, <1>2, <1>3, <2>2 DEF Accepts
    <3> QED
      BY <3>1, Unfold DEF m
  <2>3. CASE n.kind \in {"array", "tuple"}
    <3>1. Accepts(Meaning(g), g, m, v, d) <=>
            Accepts(Meaning(g), g, n, v, d) /\ Range(ids) \subseteq g.holds \cup Warnings
      BY <1>1, <1>2, <1>3, <2>3 DEF Accepts
    <3> QED
      BY <3>1, Unfold DEF m
  <2>4. CASE n.kind \in {"union", "discriminatedUnion"}
    <3>1. Accepts(Meaning(g), g, m, v, d) <=>
            Accepts(Meaning(g), g, n, v, d) /\ Range(ids) \subseteq g.holds \cup Warnings
      BY <1>1, <1>2, <1>3, <2>4 DEF Accepts
    <3> QED
      BY <3>1, Unfold DEF m
  <2>5. CASE n.kind \in {"object"}
    <3>1. Accepts(Meaning(g), g, m, v, d) <=>
            Accepts(Meaning(g), g, n, v, d) /\ Range(ids) \subseteq g.holds \cup Warnings
      BY <1>1, <1>2, <1>3, <2>5 DEF Accepts
    <3> QED
      BY <3>1, Unfold DEF m
  <2>6. CASE n.kind \in {"record"}
    <3>1. Accepts(Meaning(g), g, m, v, d) <=>
            Accepts(Meaning(g), g, n, v, d) /\ Range(ids) \subseteq g.holds \cup Warnings
      BY <1>1, <1>2, <1>3, <2>6 DEF Accepts
    <3> QED
      BY <3>1, Unfold DEF m
  <2>7. CASE n.kind \in {"nullable", "optional", "transform"}
    <3>1. Accepts(Meaning(g), g, m, v, d) <=>
            Accepts(Meaning(g), g, n, v, d) /\ Range(ids) \subseteq g.holds \cup Warnings
      BY <1>1, <1>2, <1>3, <2>7 DEF Accepts
    <3> QED
      BY <3>1, Unfold DEF m
  <2>8. CASE n.kind \in {"reference"}
    <3>1. Accepts(Meaning(g), g, m, v, d) <=>
            Accepts(Meaning(g), g, n, v, d) /\ Range(ids) \subseteq g.holds \cup Warnings
      BY <1>1, <1>2, <1>3, <2>8 DEF Accepts
    <3> QED
      BY <3>1, Unfold DEF m
  <2>9. CASE n.kind \notin {"string", "number", "boolean", "literal", "enum", "unknown", "opaque", "array",
                              "tuple", "union", "discriminatedUnion", "object", "record", "nullable",
                              "optional", "transform", "reference"}
    <3>1. ~Accepts(Meaning(g), g, m, v, d) /\ ~Accepts(Meaning(g), g, n, v, d)
      BY <1>1, <1>6, <2>9 DEF Accepts
    <3> QED
      BY <3>1, Unfold DEF m
  <2> QED
    BY <2>1, <2>2, <2>3, <2>4, <2>5, <2>6, <2>7, <2>8, <2>9
<1> QED
  BY <1>5, <1>6

-----------------------------------------------------------------------------
(* What describes a schema. *)

Input(s) == Describe(s, "input")

\* A node without checks is given some.
LEMMA Rechecked ==
  ASSUME NEW b, b.refs = <<>>, "refs" \in DOMAIN b, NEW ids \in Seq(Ids)
  PROVE  Refined(b, ids).refs = ids /\ \A f \in DOMAIN b \ {"refs"} : Refined(b, ids)[f] = b[f]
<1>1. Refined(b, ids) = [b EXCEPT !["refs"] = b["refs"] \o ids]
  BY DEF Refined
<1>2. <<>> \o ids = ids
  OBVIOUS
<1> QED
  BY <1>1, <1>2

\* A schema without parts is described by what it is.
LEMMA DescribedLeaf ==
  ASSUME NEW w, NEW s, IsSchema(s, w), Describe(s, "input") = DescribeRule(s, "input"),
         s.kind \in Leaves
  PROVE  Input(s).kind = s.kind /\ \A f \in NodeFields(s.kind) : Input(s)[f] = s[f]
<1> DEFINE n == Input(s)
           b == DescribeBase(s, "input")
<1>1. n = Refined(b, s.refs)
  BY DEF DescribeRule, Input
<1>2. s.refs \in Seq(Ids) /\ <<>> \o s.refs = s.refs
  BY DEF IsSchema
<1>3. b = [s EXCEPT !.refs = <<>>]
  BY DEF DescribeBase, Leaves
<1>4. HasFields(s)
  BY DEF IsSchema
<1>5. "refs" \in NodeFields(s.kind) /\ "kind" \in NodeFields(s.kind)
  BY DEF NodeFields
<1>6. s = [f \in NodeFields(s.kind) |-> s[f]]
  BY <1>4 DEF HasFields
<1>7. DOMAIN s = NodeFields(s.kind)
  BY <1>6
<1>8. b.refs = <<>> /\ DOMAIN b = NodeFields(s.kind) /\ \A f \in NodeFields(s.kind) \ {"refs"} : b[f] = s[f]
  BY <1>3, <1>5, <1>7
<1> HIDE DEF b
<1>9. n = [b EXCEPT !["refs"] = b["refs"] \o s.refs]
  BY <1>1 DEF Refined
<1>10. n["refs"] = s.refs /\ \A f \in NodeFields(s.kind) \ {"refs"} : n[f] = s[f]
  BY <1>2, <1>5, <1>8, <1>9
<1> QED
  BY <1>5, <1>10 DEF Leaves

\* The node that describes what a schema takes has the checks of the schema, and its
\* parts describe the parts.
LEMMA Described ==
  ASSUME NEW w, NEW s, IsSchema(s, w), Describe(s, "input") = DescribeRule(s, "input")
  PROVE
         /\ s.kind \in Leaves => Input(s).kind = s.kind /\ \A f \in NodeFields(s.kind) : Input(s)[f] = s[f]
         /\ s.kind = "array" =>
              /\ Input(s).kind = "array" /\ Input(s).refs = s.refs
              /\ Input(s).item = Input(s.item) /\ Input(s).min = s.min /\ Input(s).max = s.max
         /\ s.kind = "tuple" =>
              /\ Input(s).kind = "tuple" /\ Input(s).refs = s.refs
              /\ Input(s).items = [i \in DOMAIN s.items |-> Input(s.items[i])]
         /\ s.kind \in {"union", "discriminatedUnion"} =>
              /\ Input(s).kind = s.kind /\ Input(s).refs = s.refs
              /\ Input(s).choices = [i \in DOMAIN s.choices |-> Input(s.choices[i])]
         /\ s.kind = "intersection" =>
              /\ Input(s).kind = "intersection" /\ Input(s).refs = s.refs
              /\ Input(s).left = Input(s.left) /\ Input(s).right = Input(s.right)
         /\ s.kind = "object" =>
              /\ Input(s).kind = "object" /\ Input(s).refs = s.refs /\ Input(s).policy = s.policy
              /\ Input(s).shape = [k \in DOMAIN s.shape |-> Input(s.shape[k])]
              /\ Input(s).required = {k \in DOMAIN s.shape : ~MayBeAbsent(s.shape[k])}
         /\ s.kind = "record" =>
              /\ Input(s).kind = "record" /\ Input(s).refs = s.refs
              /\ Input(s).key = s.key /\ Input(s).each = Input(s.each)
         /\ s.kind \in {"nullable", "optional", "transform"} =>
              Input(s).kind = s.kind /\ Input(s).refs = s.refs /\ Input(s).inner = Input(s.inner)
         /\ s.kind = "lazy" => Input(s).kind = "reference" /\ Input(s).refs = s.refs /\ Input(s).to = s.to
         /\ s.kind = "pipeline" =>
              /\ Input(s).kind = "transform" /\ "anonymous" \in Range(Input(s).refs)
              /\ Range(Input(s).refs) = {"anonymous"} \cup Range(s.refs) /\ Input(s).inner = Input(s.first)
         /\ s.kind = "defined" => Input(s) = Refined(ExcludeUndefined(Input(s.inner)), s.refs)
<1> DEFINE n == Input(s)
           b == DescribeBase(s, "input")
<1>1. n = Refined(b, s.refs)
  BY DEF DescribeRule, Input
<1>2. s.refs \in Seq(Ids) /\ <<>> \o s.refs = s.refs
  BY DEF IsSchema
<1>3. ASSUME s.kind \in Leaves
      PROVE  n.kind = s.kind /\ \A f \in NodeFields(s.kind) : n[f] = s[f]
  BY <1>3, DescribedLeaf
<1>4. ASSUME s.kind = "array"
      PROVE  /\ n.kind = "array" /\ n.refs = s.refs
             /\ n.item = Input(s.item) /\ n.min = s.min /\ n.max = s.max
  <2>1. b = ArrayOf(Input(s.item), s.min, s.max)
    BY <1>4 DEF DescribeBase, Input
  <2>2. /\ b.kind = "array" /\ b.refs = <<>>
        /\ b.item = Input(s.item) /\ b.min = s.min /\ b.max = s.max
        /\ DOMAIN b = {"kind", "refs", "item", "min", "max"}
    BY <1>4, <2>1 DEF ArrayOf
  <2> HIDE DEF b
  <2>3. n.refs = s.refs /\ \A f \in DOMAIN b \ {"refs"} : n[f] = b[f]
    BY <1>1, <1>2, <2>2, Rechecked
  <2> QED
    BY <2>2, <2>3
<1>5. ASSUME s.kind = "tuple"
      PROVE  /\ n.kind = "tuple" /\ n.refs = s.refs
             /\ n.items = [i \in DOMAIN s.items |-> Input(s.items[i])]
  <2>1. b = Tuple([i \in DOMAIN s.items |-> Input(s.items[i])])
    BY <1>5 DEF DescribeBase, Input
  <2>2. /\ b.kind = "tuple" /\ b.refs = <<>>
        /\ b.items = [i \in DOMAIN s.items |-> Input(s.items[i])]
        /\ DOMAIN b = {"kind", "refs", "items"}
    BY <1>5, <2>1 DEF Tuple
  <2> HIDE DEF b
  <2>3. n.refs = s.refs /\ \A f \in DOMAIN b \ {"refs"} : n[f] = b[f]
    BY <1>1, <1>2, <2>2, Rechecked
  <2> QED
    BY <2>2, <2>3
<1>6. ASSUME s.kind = "union"
      PROVE  /\ n.kind = s.kind /\ n.refs = s.refs
             /\ n.choices = [i \in DOMAIN s.choices |-> Input(s.choices[i])]
  <2>1. b = Union([i \in DOMAIN s.choices |-> Input(s.choices[i])])
    BY <1>6 DEF DescribeBase, Input
  <2>2. /\ b.kind = s.kind /\ b.refs = <<>>
        /\ b.choices = [i \in DOMAIN s.choices |-> Input(s.choices[i])]
        /\ DOMAIN b = {"kind", "refs", "choices"}
    BY <1>6, <2>1 DEF Union
  <2> HIDE DEF b
  <2>3. n.refs = s.refs /\ \A f \in DOMAIN b \ {"refs"} : n[f] = b[f]
    BY <1>1, <1>2, <2>2, Rechecked
  <2> QED
    BY <2>2, <2>3
<1>7. ASSUME s.kind = "discriminatedUnion"
      PROVE  /\ n.kind = s.kind /\ n.refs = s.refs
             /\ n.choices = [i \in DOMAIN s.choices |-> Input(s.choices[i])]
  <2>1. b = Discriminated(s.by, [i \in DOMAIN s.choices |-> Input(s.choices[i])])
    BY <1>7 DEF DescribeBase, Input
  <2>2. /\ b.kind = s.kind /\ b.refs = <<>>
        /\ b.choices = [i \in DOMAIN s.choices |-> Input(s.choices[i])]
        /\ DOMAIN b = {"kind", "refs", "by", "choices"}
    BY <1>7, <2>1 DEF Discriminated
  <2> HIDE DEF b
  <2>3. n.refs = s.refs /\ \A f \in DOMAIN b \ {"refs"} : n[f] = b[f]
    BY <1>1, <1>2, <2>2, Rechecked
  <2> QED
    BY <2>2, <2>3
<1>8. ASSUME s.kind = "intersection"
      PROVE  /\ n.kind = "intersection" /\ n.refs = s.refs
             /\ n.left = Input(s.left) /\ n.right = Input(s.right)
  <2>1. b = Intersection(Input(s.left), Input(s.right))
    BY <1>8 DEF DescribeBase, Input
  <2>2. /\ b.kind = "intersection" /\ b.refs = <<>>
        /\ b.left = Input(s.left) /\ b.right = Input(s.right)
        /\ DOMAIN b = {"kind", "refs", "left", "right"}
    BY <1>8, <2>1 DEF Intersection
  <2> HIDE DEF b
  <2>3. n.refs = s.refs /\ \A f \in DOMAIN b \ {"refs"} : n[f] = b[f]
    BY <1>1, <1>2, <2>2, Rechecked
  <2> QED
    BY <2>2, <2>3
<1>9. ASSUME s.kind = "object"
      PROVE  /\ n.kind = "object" /\ n.refs = s.refs /\ n.policy = s.policy
             /\ n.shape = [k \in DOMAIN s.shape |-> Input(s.shape[k])]
             /\ n.required = {k \in DOMAIN s.shape : ~MayBeAbsent(s.shape[k])}
  <2>1. b = [kind |-> "object", refs |-> <<>>, policy |-> s.policy,
             shape |-> [k \in DOMAIN s.shape |-> Input(s.shape[k])],
             required |-> {k \in DOMAIN s.shape : ~MayBeAbsent(s.shape[k])}]
    BY <1>9 DEF DescribeBase, Input
  <2>2. /\ b.kind = "object" /\ b.refs = <<>> /\ b.policy = s.policy
        /\ b.shape = [k \in DOMAIN s.shape |-> Input(s.shape[k])]
        /\ b.required = {k \in DOMAIN s.shape : ~MayBeAbsent(s.shape[k])}
        /\ DOMAIN b = {"kind", "refs", "policy", "shape", "required"}
    BY <1>9, <2>1
  <2> HIDE DEF b
  <2>3. n.refs = s.refs /\ \A f \in DOMAIN b \ {"refs"} : n[f] = b[f]
    BY <1>1, <1>2, <2>2, Rechecked
  <2> QED
    BY <2>2, <2>3
<1>10. ASSUME s.kind = "record"
       PROVE  n.kind = "record" /\ n.refs = s.refs /\ n.key = s.key /\ n.each = Input(s.each)
  <2>1. b = RecordOf(s.key, Input(s.each))
    BY <1>10 DEF DescribeBase, Input
  <2>2. /\ b.kind = "record" /\ b.refs = <<>> /\ b.key = s.key /\ b.each = Input(s.each)
        /\ DOMAIN b = {"kind", "refs", "key", "each"}
    BY <1>10, <2>1 DEF RecordOf
  <2> HIDE DEF b
  <2>3. n.refs = s.refs /\ \A f \in DOMAIN b \ {"refs"} : n[f] = b[f]
    BY <1>1, <1>2, <2>2, Rechecked
  <2> QED
    BY <2>2, <2>3
<1>11. ASSUME s.kind \in {"nullable", "optional"}
       PROVE  n.kind = s.kind /\ n.refs = s.refs /\ n.inner = Input(s.inner)
  <2>1. b = [kind |-> s.kind, refs |-> <<>>, inner |-> Input(s.inner)]
    BY <1>11 DEF DescribeBase, Input, Nullable, Optional
  <2>2. /\ b.kind = s.kind /\ b.refs = <<>> /\ b.inner = Input(s.inner)
        /\ DOMAIN b = {"kind", "refs", "inner"}
    BY <1>11, <2>1
  <2> HIDE DEF b
  <2>3. n.refs = s.refs /\ \A f \in DOMAIN b \ {"refs"} : n[f] = b[f]
    BY <1>1, <1>2, <2>2, Rechecked
  <2> QED
    BY <2>2, <2>3
<1>12. ASSUME s.kind = "transform"
       PROVE  n.kind = s.kind /\ n.refs = s.refs /\ n.inner = Input(s.inner)
  <2>1. b = Transform(Input(s.inner), s.id)
    BY <1>12 DEF DescribeBase, Input
  <2>2. /\ b.kind = s.kind /\ b.refs = <<>> /\ b.inner = Input(s.inner)
        /\ DOMAIN b = {"kind", "refs", "inner", "id"}
    BY <1>12, <2>1 DEF Transform
  <2> HIDE DEF b
  <2>3. n.refs = s.refs /\ \A f \in DOMAIN b \ {"refs"} : n[f] = b[f]
    BY <1>1, <1>2, <2>2, Rechecked
  <2> QED
    BY <2>2, <2>3
<1>13. ASSUME s.kind = "lazy"
       PROVE  n.kind = "reference" /\ n.refs = s.refs /\ n.to = s.to
  <2>1. b = Reference(s.to)
    BY <1>13 DEF DescribeBase
  <2>2. /\ b.kind = "reference" /\ b.refs = <<>> /\ b.to = s.to
        /\ DOMAIN b = {"kind", "refs", "to"}
    BY <1>13, <2>1 DEF Reference
  <2> HIDE DEF b
  <2>3. n.refs = s.refs /\ \A f \in DOMAIN b \ {"refs"} : n[f] = b[f]
    BY <1>1, <1>2, <2>2, Rechecked
  <2> QED
    BY <2>2, <2>3
<1>14. ASSUME s.kind = "pipeline"
       PROVE  /\ n.kind = "transform" /\ "anonymous" \in Range(n.refs)
              /\ Range(n.refs) = {"anonymous"} \cup Range(s.refs) /\ n.inner = Input(s.first)
  <2>1. b = Refined(Transform(Input(s.first), "anonymous"), <<"anonymous">>)
    BY <1>14 DEF DescribeBase, DescribePipeline, Input
  <2>2. <<>> \o <<"anonymous">> = <<"anonymous">>
    OBVIOUS
  <2>3. b.kind = "transform" /\ b.refs = <<"anonymous">> /\ b.inner = Input(s.first)
        /\ "refs" \in DOMAIN b
    BY <2>1, <2>2 DEF Refined, Transform
  <2> HIDE DEF b
  <2>4. n.kind = "transform" /\ n.refs = <<"anonymous">> \o s.refs /\ n.inner = Input(s.first)
    BY <1>1, <2>3 DEF Refined
  <2> DEFINE one == <<"anonymous">>
  <2>5. one \in Seq(Ids) /\ n.refs = one \o s.refs
    <3>1. "anonymous" \in Ids
      BY DEF Ids
    <3>2. one \in Seq(Ids)
      BY ONLY <3>1, Singleton
    <3> QED
      BY <2>4, <3>2
  <2>6. Range(one) = {"anonymous"}
    BY DEF Range
  <2> HIDE DEF one
  <2>7. Range(n.refs) = {"anonymous"} \cup Range(s.refs)
    BY <1>2, <2>5, <2>6, RangeOfTwo
  <2> QED
    BY <1>14, <2>4, <2>7
<1>15. ASSUME s.kind = "defined"
       PROVE  n = Refined(ExcludeUndefined(Input(s.inner)), s.refs)
  <2>1. b = ExcludeUndefined(Input(s.inner))
    BY <1>15 DEF DescribeBase, Input
  <2> QED
    BY <1>1, <2>1
<1> QED
  BY <1>3, <1>4, <1>5, <1>6, <1>7, <1>8, <1>9, <1>10, <1>11, <1>12, <1>13, <1>14, <1>15

-----------------------------------------------------------------------------
(* Nodes from which undefined is taken away. *)

LosesChecks == {"unknown", "reference", "transform", "opaque", "intersection"}

\* What is left of a node without undefined, by its kind.
LEMMA Excluded ==
  ASSUME NEW g, IsWellFormed(g), NEW n \in g.excluded
  PROVE  /\ n \in g.nodes /\ ExcludeUndefined(n) \in g.nodes
         /\ n.kind = "optional" =>
              /\ n.inner \in g.excluded /\ n.inner \in Children(n)
              /\ ExcludeUndefined(n) = Refined(ExcludeUndefined(n.inner), n.refs)
         /\ n.kind = "nullable" =>
              /\ n.inner \in g.excluded /\ n.inner \in Children(n)
              /\ ExcludeUndefined(n).kind = "nullable" /\ ExcludeUndefined(n).refs = n.refs
              /\ ExcludeUndefined(n).inner = ExcludeUndefined(n.inner)
         /\ n.kind = "union" =>
              /\ \A i \in DOMAIN n.choices : n.choices[i] \in g.excluded /\ n.choices[i] \in Children(n)
              /\ ExcludeUndefined(n).kind = "union" /\ ExcludeUndefined(n).refs = n.refs
              /\ ExcludeUndefined(n).choices = [i \in DOMAIN n.choices |-> ExcludeUndefined(n.choices[i])]
         /\ n.kind = "literal" /\ n.lit = Undefined => ExcludeUndefined(n) = Never
         /\ n.kind \in LosesChecks => ExcludeUndefined(n) = Refined(n, <<"anonymous">>)
         /\ n.kind \notin LosesChecks \cup {"optional", "nullable", "union"}
              /\ ~(n.kind = "literal" /\ n.lit = Undefined) => ExcludeUndefined(n) = n
<1> DEFINE x == ExcludeUndefined(n)
<1>1. n \in g.nodes /\ x \in g.nodes /\ x = ExcludeUndefinedRule(n) /\ HasFields(n)
  BY DEF IsWellFormed, Excludes
<1>2. n = [f \in NodeFields(n.kind) |-> n[f]]
  BY <1>1 DEF HasFields
<1>3. ASSUME n.kind = "nullable"
      PROVE  /\ n.inner \in g.excluded /\ n.inner \in Children(n)
             /\ x.kind = "nullable" /\ x.refs = n.refs /\ x.inner = ExcludeUndefined(n.inner)
  <2>1. n.inner \in Children(n)
    BY <1>3 DEF Children
  <2>2. DOMAIN n = {"kind", "refs", "inner"}
    BY <1>2, <1>3 DEF NodeFields
  <2>3. x = [n EXCEPT !.inner = ExcludeUndefined(n.inner)]
    BY <1>1, <1>3 DEF ExcludeUndefinedRule
  <2> HIDE DEF x
  <2>4. x.kind = "nullable" /\ x.refs = n.refs /\ x.inner = ExcludeUndefined(n.inner)
    BY <1>3, <2>2, <2>3
  <2> QED
    BY <1>3, <2>1, <2>4 DEF IsWellFormed, Excludes
<1>4. ASSUME n.kind = "union"
      PROVE  /\ \A i \in DOMAIN n.choices : n.choices[i] \in g.excluded /\ n.choices[i] \in Children(n)
             /\ x.kind = "union" /\ x.refs = n.refs
             /\ x.choices = [i \in DOMAIN n.choices |-> ExcludeUndefined(n.choices[i])]
  <2>1. \A i \in DOMAIN n.choices : n.choices[i] \in Children(n)
    BY <1>4 DEF Children, Range
  <2>2. DOMAIN n = {"kind", "refs", "choices"}
    BY <1>2, <1>4 DEF NodeFields
  <2>3. x = [n EXCEPT !.choices = [i \in DOMAIN n.choices |-> ExcludeUndefined(n.choices[i])]]
    BY <1>1, <1>4 DEF ExcludeUndefinedRule
  <2> HIDE DEF x
  <2>4. x.kind = "union" /\ x.refs = n.refs /\ x.choices = [i \in DOMAIN n.choices |-> ExcludeUndefined(n.choices[i])]
    BY <1>4, <2>2, <2>3
  <2> QED
    BY <1>4, <2>1, <2>4 DEF IsWellFormed, Excludes
<1>5. ASSUME n.kind = "optional"
      PROVE  /\ n.inner \in g.excluded /\ n.inner \in Children(n)
             /\ x = Refined(ExcludeUndefined(n.inner), n.refs)
  <2>1. n.inner \in Children(n)
    BY <1>5 DEF Children
  <2>2. x = Refined(ExcludeUndefined(n.inner), n.refs)
    BY <1>1, <1>5 DEF ExcludeUndefinedRule
  <2> QED
    BY <1>5, <2>1, <2>2 DEF IsWellFormed, Excludes
<1>6. n.kind = "literal" /\ n.lit = Undefined => x = Never
  BY <1>1 DEF ExcludeUndefinedRule
<1>7. n.kind \in LosesChecks => x = Refined(n, <<"anonymous">>)
  BY <1>1 DEF ExcludeUndefinedRule, LosesChecks
<1>8. n.kind \notin LosesChecks \cup {"optional", "nullable", "union"}
        /\ ~(n.kind = "literal" /\ n.lit = Undefined) => x = n
  BY <1>1 DEF ExcludeUndefinedRule, LosesChecks
<1> QED
  BY <1>1, <1>3, <1>4, <1>5, <1>6, <1>7, <1>8

\* A sequence of one check.
LEMMA Anonymous == <<"anonymous">> \in Seq(Ids) /\ Range(<<"anonymous">>) = {"anonymous"}
<1>1. "anonymous" \in Ids
  BY DEF Ids
<1>2. <<"anonymous">> \in Seq(Ids)
  BY ONLY <1>1, Singleton
<1>3. Range(<<"anonymous">>) = {"anonymous"}
  BY DEF Range
<1> QED
  BY <1>2, <1>3

\* What a node accepts it still accepts without undefined, when it is another value.
LEMMA ExcludedAccepts ==
  ASSUME NEW g, IsWellFormed(g), g.upper, "anonymous" \in g.holds,
         NEW v \in g.values, v # Undefined, NEW d \in Nat
  PROVE  \A n \in g.excluded : Means(g, n, v, d) => Means(g, ExcludeUndefined(n), v, d)
<1> DEFINE B == {n \in g.nodes : n \in g.excluded /\ Means(g, n, v, d) /\ ~Means(g, ExcludeUndefined(n), v, d)}
<1>1. SUFFICES ASSUME B # {} PROVE FALSE
  BY DEF IsWellFormed, Excludes
<1>2. \A m \in g.nodes : g.size[m] \in Nat
  BY DEF IsWellFormed, IsGraph, IsNode
<1>3. PICK n \in B : \A c \in g.nodes : g.size[c] < g.size[n] => c \notin B
  BY <1>1, <1>2, SmallestNode
<1>4. n \in g.nodes /\ n \in g.excluded /\ Means(g, n, v, d) /\ ~Means(g, ExcludeUndefined(n), v, d)
  OBVIOUS
<1>5. \A c \in Children(n) : c \in g.excluded /\ Means(g, c, v, d) => Means(g, ExcludeUndefined(c), v, d)
  BY <1>3, <1>4 DEF IsWellFormed, IsGraph, IsNode
<1> HIDE DEF B
<1> DEFINE x == ExcludeUndefined(n)
<1>6. x \in g.nodes /\ HasFields(n) /\ n.refs \in Seq(Ids)
  BY <1>4, Excluded DEF IsWellFormed, HasFields
<1>7. Accepts(Meaning(g), g, n, v, d) /\ RefsHold(g, n)
  BY <1>4, Unfold DEF Accepts
<1>8. CASE n.kind = "optional"
  <2>1. Means(g, n.inner, v, d)
    BY <1>7, <1>8 DEF Accepts, Means
  <2>2. n.inner \in g.excluded /\ n.inner \in Children(n) /\ x = Refined(ExcludeUndefined(n.inner), n.refs)
    BY <1>4, <1>8, Excluded
  <2>3. Means(g, ExcludeUndefined(n.inner), v, d)
    BY <1>5, <2>1, <2>2
  <2>4. ExcludeUndefined(n.inner) \in g.nodes /\ HasFields(ExcludeUndefined(n.inner))
    BY <2>2, Excluded DEF IsWellFormed
  <2>5. Range(n.refs) \subseteq g.holds \cup Warnings
    BY <1>7 DEF RefsHold
  <2>6. Means(g, Refined(ExcludeUndefined(n.inner), n.refs), v, d)
    BY <1>6, <2>2, <2>3, <2>4, <2>5, RefinedMeans DEF IsWellFormed
  <2> QED
    BY <1>4, <2>2, <2>6
<1>9. CASE n.kind = "nullable"
  <2>1. v = Null \/ Means(g, n.inner, v, d)
    BY <1>7, <1>9 DEF Accepts, Means
  <2>2. /\ n.inner \in g.excluded /\ n.inner \in Children(n)
        /\ x.kind = "nullable" /\ x.refs = n.refs /\ x.inner = ExcludeUndefined(n.inner)
    BY <1>4, <1>9, Excluded
  <2> HIDE DEF x
  <2>3. Accepts(Meaning(g), g, x, v, d)
    BY <1>5, <1>7, <2>1, <2>2 DEF Accepts, Means, RefsHold
  <2> QED
    BY <1>4, <1>6, <2>3, Unfold DEF x
<1>10. CASE n.kind = "union"
  <2>1. PICK i \in DOMAIN n.choices : Means(g, n.choices[i], v, d)
    BY <1>7, <1>10 DEF Accepts, Means
  <2>2. /\ n.choices[i] \in g.excluded /\ n.choices[i] \in Children(n)
        /\ x.kind = "union" /\ x.refs = n.refs
        /\ x.choices = [j \in DOMAIN n.choices |-> ExcludeUndefined(n.choices[j])]
    BY <1>4, <1>10, Excluded
  <2> HIDE DEF x
  <2>3. i \in DOMAIN x.choices /\ <<x.choices[i], v, d>> \in Meaning(g)
    BY <1>5, <2>1, <2>2 DEF Means
  <2>4. Accepts(Meaning(g), g, x, v, d)
    BY <1>7, <2>2, <2>3 DEF Accepts, RefsHold
  <2> QED
    BY <1>4, <1>6, <2>4, Unfold DEF x
<1>11. CASE n.kind \in LosesChecks
  <2>1. x = Refined(n, <<"anonymous">>)
    BY <1>4, <1>11, Excluded
  <2>2. <<"anonymous">> \in Seq(Ids) /\ Range(<<"anonymous">>) \subseteq g.holds \cup Warnings
    BY Anonymous
  <2> DEFINE one == <<"anonymous">>
  <2> HIDE DEF one
  <2>3. x = Refined(n, one) /\ one \in Seq(Ids) /\ Range(one) \subseteq g.holds \cup Warnings
    BY <2>1, <2>2 DEF one
  <2>4. Means(g, Refined(n, one), v, d)
    BY <1>4, <1>6, <2>3, RefinedMeans DEF IsWellFormed
  <2> QED
    BY <1>4, <2>3, <2>4
<1>12. CASE n.kind = "literal" /\ n.lit = Undefined
  BY <1>7, <1>12 DEF Accepts
<1> QED
  BY <1>4, <1>8, <1>9, <1>10, <1>11, <1>12, Excluded

\* What a node accepts without undefined it accepts, and it is another value.
LEMMA ExcludedRejects ==
  ASSUME NEW g, IsWellFormed(g), ~g.upper, "anonymous" \notin g.holds \cup Warnings,
         NEW v \in g.values, NEW d \in Nat
  PROVE  \A n \in g.excluded : Means(g, ExcludeUndefined(n), v, d) => Means(g, n, v, d) /\ v # Undefined
<1> DEFINE B == {n \in g.nodes : n \in g.excluded /\ Means(g, ExcludeUndefined(n), v, d)
                                   /\ ~(Means(g, n, v, d) /\ v # Undefined)}
<1>1. SUFFICES ASSUME B # {} PROVE FALSE
  BY DEF IsWellFormed, Excludes
<1>2. \A m \in g.nodes : g.size[m] \in Nat
  BY DEF IsWellFormed, IsGraph, IsNode
<1>3. PICK n \in B : \A c \in g.nodes : g.size[c] < g.size[n] => c \notin B
  BY <1>1, <1>2, SmallestNode
<1>4. /\ n \in g.nodes /\ n \in g.excluded /\ Means(g, ExcludeUndefined(n), v, d)
      /\ ~(Means(g, n, v, d) /\ v # Undefined)
  OBVIOUS
<1>5. \A c \in Children(n) : c \in g.excluded /\ Means(g, ExcludeUndefined(c), v, d) =>
                               Means(g, c, v, d) /\ v # Undefined
  BY <1>3, <1>4 DEF IsWellFormed, IsGraph, IsNode
<1> HIDE DEF B
<1> DEFINE x == ExcludeUndefined(n)
<1>6. x \in g.nodes /\ HasFields(n) /\ n.refs \in Seq(Ids)
  BY <1>4, Excluded DEF IsWellFormed, HasFields
<1>7. Accepts(Meaning(g), g, x, v, d)
  BY <1>4, <1>6, Unfold
<1>8. CASE n.kind = "optional"
  <2>1. n.inner \in g.excluded /\ n.inner \in Children(n) /\ x = Refined(ExcludeUndefined(n.inner), n.refs)
    BY <1>4, <1>8, Excluded
  <2>2. ExcludeUndefined(n.inner) \in g.nodes /\ HasFields(ExcludeUndefined(n.inner))
    BY <2>1, Excluded DEF IsWellFormed
  <2>3. Means(g, Refined(ExcludeUndefined(n.inner), n.refs), v, d) /\ Refined(ExcludeUndefined(n.inner), n.refs) \in g.nodes
    BY <1>4, <1>6, <2>1
  <2>4. Means(g, ExcludeUndefined(n.inner), v, d) /\ Range(n.refs) \subseteq g.holds \cup Warnings
    BY <1>6, <2>2, <2>3, RefinedMeans DEF IsWellFormed
  <2>5. Means(g, n.inner, v, d) /\ v # Undefined
    BY <1>5, <2>1, <2>4
  <2>6. Accepts(Meaning(g), g, n, v, d)
    BY <1>8, <2>4, <2>5 DEF Accepts, Means, RefsHold
  <2> QED
    BY <1>4, <2>5, <2>6, Unfold
<1>9. CASE n.kind = "nullable"
  <2>1. /\ n.inner \in g.excluded /\ n.inner \in Children(n)
        /\ x.kind = "nullable" /\ x.refs = n.refs /\ x.inner = ExcludeUndefined(n.inner)
    BY <1>4, <1>9, Excluded
  <2> HIDE DEF x
  <2>2. (v = Null \/ Means(g, ExcludeUndefined(n.inner), v, d)) /\ RefsHold(g, n)
    BY <1>7, <2>1 DEF Accepts, Means, RefsHold
  <2>3. (v = Null \/ Means(g, n.inner, v, d)) /\ v # Undefined
    BY <1>5, <2>1, <2>2 DEF Null, Undefined
  <2>4. Accepts(Meaning(g), g, n, v, d)
    BY <1>9, <2>2, <2>3 DEF Accepts, Means
  <2> QED
    BY <1>4, <2>3, <2>4, Unfold
<1>10. CASE n.kind = "union"
  <2>1. /\ \A i \in DOMAIN n.choices : n.choices[i] \in g.excluded /\ n.choices[i] \in Children(n)
        /\ x.kind = "union" /\ x.refs = n.refs
        /\ x.choices = [j \in DOMAIN n.choices |-> ExcludeUndefined(n.choices[j])]
    BY <1>4, <1>10, Excluded
  <2> HIDE DEF x
  <2>2. RefsHold(g, n) /\ \E i \in DOMAIN x.choices : Means(g, x.choices[i], v, d)
    BY <1>7, <2>1 DEF Accepts, Means, RefsHold
  <2>3. PICK i \in DOMAIN x.choices : Means(g, x.choices[i], v, d)
    BY <2>2
  <2>4. i \in DOMAIN n.choices /\ Means(g, n.choices[i], v, d) /\ v # Undefined
    BY <1>5, <2>1, <2>3
  <2>5. Accepts(Meaning(g), g, n, v, d)
    BY <1>10, <2>2, <2>4 DEF Accepts, Means
  <2> QED
    BY <1>4, <2>4, <2>5, Unfold
<1>11. CASE n.kind \in LosesChecks
  <2>1. x = Refined(n, <<"anonymous">>)
    BY <1>4, <1>11, Excluded
  <2> DEFINE one == <<"anonymous">>
  <2>2. one \in Seq(Ids) /\ Range(one) = {"anonymous"}
    BY Anonymous
  <2> HIDE DEF one
  <2>3. Means(g, Refined(n, one), v, d) /\ Refined(n, one) \in g.nodes
    BY <1>4, <1>6, <2>1 DEF one
  <2>4. Range(one) \subseteq g.holds \cup Warnings
    BY <1>4, <1>6, <2>2, <2>3, RefinedMeans DEF IsWellFormed
  <2> QED
    BY <2>2, <2>4
<1>12. CASE n.kind = "literal" /\ n.lit = Undefined
  <2>1. x = Never
    BY <1>4, <1>12, Excluded
  <2> HIDE DEF x
  <2>2. x.kind = "never"
    BY <2>1 DEF Never
  <2> QED
    BY <1>7, <2>2 DEF Accepts
<1>13. CASE /\ n.kind \notin LosesChecks \cup {"optional", "nullable", "union"}
            /\ ~(n.kind = "literal" /\ n.lit = Undefined)
  <2>1. x = n
    BY <1>4, <1>13, Excluded
  <2>2. Accepts(Meaning(g), g, n, v, d) /\ Means(g, n, v, d)
    BY <1>4, <1>7, <2>1
  <2>3. n.kind = "enum" => Undefined \notin n.values
    BY <1>4 DEF IsWellFormed, Excludes
  <2>4. v # Undefined
    BY <1>13, <2>2, <2>3 DEF Accepts, Undefined, LosesChecks
  <2> QED
    BY <1>4, <2>2, <2>4
<1> QED
  BY <1>8, <1>9, <1>10, <1>11, <1>12, <1>13

-----------------------------------------------------------------------------
(* Parsing. *)

IsResult(r) == r \in {Rejected, Overflow} \/ r = Ok(r.data)

\* The three outcomes of a parse differ.
LEMMA OutcomesDiffer ==
  ASSUME NEW x
  PROVE  /\ Ok(x).is = "ok" /\ Ok(x).data = x /\ IsResult(Ok(x))
         /\ Rejected.is = "rejected" /\ Overflow.is = "overflow"
         /\ Ok(x) # Rejected /\ Ok(x) # Overflow /\ Rejected # Overflow
<1>1. Ok(x).is = "ok" /\ Ok(x).data = x /\ Rejected.is = "rejected" /\ Overflow.is = "overflow"
  BY DEF Ok, Rejected, Overflow
<1> QED
  BY <1>1 DEF IsResult

\* What is accepted or not has an outcome, whatever is gathered.
LEMMA Gathered ==
  ASSUME NEW parts, NEW accepted, NEW v
  PROVE  /\ IsResult(Accept(accepted, v)) /\ IsResult(Gather(parts, accepted, v))
         /\ Gather(parts, accepted, v).is = "ok" =>
              accepted /\ Rejected \notin parts /\ Overflow \notin parts
         /\ accepted /\ Rejected \notin parts => Gather(parts, accepted, v) # Rejected
BY OutcomesDiffer DEF Accept, Gather, IsResult

\* The least index of some.
LEMMA LeastIndex ==
  ASSUME NEW S \in SUBSET Nat, S # {}
  PROVE  Min(S) \in S /\ \A k \in S : Min(S) <= k
<1>1. \E n \in S : \A k \in S : n <= k
  BY Smallest
<1> QED
  BY <1>1 DEF Min

\* Of the schemas and depths that have something in common one is smallest.
LEMMA SmallestSchema ==
  ASSUME NEW w, \A s \in w.schemas : w.size[s] \in Nat,
         NEW Bad \in SUBSET (w.schemas \X Nat), Bad # {}
  PROVE  \E s \in w.schemas, d \in Nat :
           /\ <<s, d>> \in Bad
           /\ \A r \in w.schemas, e \in Nat :
                e < d \/ (e = d /\ w.size[r] < w.size[s]) => <<r, e>> \notin Bad
<1> DEFINE Depths == {d \in Nat : \E s \in w.schemas : <<s, d>> \in Bad}
<1>1. Depths \in SUBSET Nat /\ Depths # {}
  OBVIOUS
<1>2. PICK d \in Depths : \A e \in Depths : d <= e
  BY <1>1, Smallest
<1>3. d \in Nat /\ \A r \in w.schemas, e \in Nat : e < d => <<r, e>> \notin Bad
  BY <1>2
<1> DEFINE Sizes == {w.size[s] : s \in {r \in w.schemas : <<r, d>> \in Bad}}
<1>4. Sizes \in SUBSET Nat /\ Sizes # {}
  OBVIOUS
<1>5. PICK least \in Sizes : \A k \in Sizes : least <= k
  BY <1>4, Smallest
<1>6. PICK s \in w.schemas : <<s, d>> \in Bad /\ w.size[s] = least
  BY <1>5
<1>7. \A r \in w.schemas : <<r, d>> \in Bad => w.size[s] <= w.size[r]
  BY <1>5, <1>6
<1> HIDE DEF Depths, Sizes
<1>8. \A r \in w.schemas : w.size[r] < w.size[s] => <<r, d>> \notin Bad
  BY <1>6, <1>7
<1> QED
  BY <1>3, <1>6, <1>8

\* Parsing has an outcome.
LEMMA Results ==
  ASSUME NEW w, IsWorld(w)
  PROVE  \A s \in w.schemas, d \in Nat : \A v, h : IsResult(Parse(s, v, h, d))
<1> DEFINE Bad == {x \in w.schemas \X Nat : \E v, h : ~IsResult(Parse(x[1], v, h, x[2]))}
<1>1. SUFFICES ASSUME Bad # {} PROVE FALSE
  <2>1. SUFFICES ASSUME NEW s \in w.schemas, NEW d \in Nat, NEW v, NEW h, ~IsResult(Parse(s, v, h, d))
                 PROVE  FALSE
    OBVIOUS
  <2>2. <<s, d>> \in Bad
    BY <2>1
  <2> QED
    BY <1>1, <2>2
<1>2. \A s \in w.schemas : w.size[s] \in Nat
  BY DEF IsWorld, IsSchema
<1>3. Bad \in SUBSET (w.schemas \X Nat)
  OBVIOUS
<1> HIDE DEF Bad
<1>4. PICK s \in w.schemas, d \in Nat :
           /\ <<s, d>> \in Bad
           /\ \A r \in w.schemas, e \in Nat :
                e < d \/ (e = d /\ w.size[r] < w.size[s]) => <<r, e>> \notin Bad
  BY <1>1, <1>2, <1>3, SmallestSchema
<1>5. PICK v, h : ~IsResult(Parse(s, v, h, d))
  BY <1>4 DEF Bad
<1>6. \A r \in w.schemas, e \in Nat : e < d \/ (e = d /\ w.size[r] < w.size[s]) =>
        \A x, k : IsResult(Parse(r, x, k, e))
  <2> SUFFICES ASSUME NEW r \in w.schemas, NEW e \in Nat, e < d \/ (e = d /\ w.size[r] < w.size[s]),
                      NEW x, NEW k
               PROVE  IsResult(Parse(r, x, k, e))
    OBVIOUS
  <2>1. <<r, e>> \notin Bad
    BY <1>4
  <2> QED
    BY <2>1 DEF Bad
<1>7. IsSchema(s, w) /\ Parse(s, v, h, d) = ParseRule(s, v, h, d)
  BY DEF IsWorld
<1>8. \A c \in Parts(s) : \A x, k : IsResult(Parse(c, x, k, d))
  BY <1>6, <1>7 DEF IsSchema
<1> DEFINE base == ParseBase(s, v, h, d)
<1>9. ASSUME IsResult(base) PROVE FALSE
  BY <1>5, <1>7, <1>9 DEF ParseRule, IsResult
<1>10. CASE s.kind \in {"string", "number", "boolean", "literal", "enum", "unknown", "never"}
  <2>1. CASE s.kind = "string"
    BY <1>9, <2>1, Gathered DEF ParseBase
  <2>2. CASE s.kind = "number"
    BY <1>9, <2>2, Gathered DEF ParseBase
  <2>3. CASE s.kind = "boolean"
    BY <1>9, <2>3, Gathered DEF ParseBase
  <2>4. CASE s.kind \in {"literal", "enum"}
    BY <1>9, <2>4, Gathered DEF ParseBase
  <2>5. CASE s.kind \in {"unknown", "never"}
    BY <1>9, <2>5, OutcomesDiffer DEF ParseBase, IsResult
  <2> QED
    BY <1>10, <2>1, <2>2, <2>3, <2>4, <2>5
<1>11. CASE s.kind = "array"
  BY <1>9, <1>11, Gathered DEF ParseBase, ParseArray, IsResult
<1>12. CASE s.kind = "tuple"
  <2>1. base = ParseTuple(s, v, h, d)
    BY <1>12 DEF ParseBase
  <2>2. CASE v.tag # "array" \/ Len(v.items) # Len(s.items)
    BY <1>9, <2>1, <2>2 DEF ParseTuple, IsResult
  <2>3. CASE ~(v.tag # "array" \/ Len(v.items) # Len(s.items))
    BY <1>9, <2>1, <2>3, Gathered DEF ParseTuple
  <2> QED
    BY <2>2, <2>3
<1>13. CASE s.kind = "object"
  BY <1>9, <1>13, Gathered DEF ParseBase, ParseObject, IsResult
<1>14. CASE s.kind = "record"
  <2>1. base = ParseRecord(s, v, h, d)
    BY <1>14 DEF ParseBase
  <2>2. CASE v.tag # "object"
    BY <1>9, <2>1, <2>2 DEF ParseRecord, IsResult
  <2>3. CASE v.tag = "object"
    BY <1>9, <2>1, <2>3, Gathered DEF ParseRecord
  <2> QED
    BY <2>2, <2>3
<1>15. CASE s.kind \in {"nullable", "optional"}
  <2>1. IsResult(Parse(s.inner, v, h, d))
    BY <1>8, <1>15 DEF Parts
  <2> QED
    BY <1>9, <1>15, <2>1, OutcomesDiffer DEF ParseBase
<1>16. CASE s.kind = "transform"
  <2>1. IsResult(Parse(s.inner, v, h, d))
    BY <1>8, <1>16 DEF Parts
  <2> QED
    BY <1>9, <1>16, <2>1, OutcomesDiffer DEF ParseBase, ParseTransform
<1>17. CASE s.kind = "defined"
  <2>1. IsResult(Parse(s.inner, v, h, d))
    BY <1>8, <1>17 DEF Parts
  <2> QED
    BY <1>9, <1>17, <2>1, OutcomesDiffer DEF ParseBase, ParseDefined, IsResult
<1>18. CASE s.kind = "pipeline"
  <2>1. IsResult(Parse(s.first, v, h, d)) /\ IsResult(Parse(s.second, Parse(s.first, v, h, d).data, h, d))
    BY <1>8, <1>18 DEF Parts
  <2> QED
    BY <1>9, <1>18, <2>1 DEF ParseBase, ParsePipeline
<1>19. CASE s.kind = "lazy"
  <2>1. d # 0 => d - 1 \in Nat /\ d - 1 < d
    OBVIOUS
  <2>2. d # 0 => IsResult(Parse(Definitions[s.to], v, h, d - 1))
    BY <1>6, <1>7, <1>19, <2>1 DEF IsSchema
  <2> QED
    BY <1>9, <1>19, <2>2 DEF ParseBase, IsResult
<1>20. CASE s.kind = "intersection"
  <2>1. \A x, y : IsResult(Merge(x, y))
    <3>1. \A x, y : Merge(x, y) = MergeRule(x, y)
      BY DEF IsWorld
    <3> SUFFICES ASSUME NEW x, NEW y PROVE IsResult(MergeRule(x, y))
      BY <3>1
    <3>2. CASE x = y
      BY <3>2, OutcomesDiffer DEF MergeRule
    <3>3. CASE x # y /\ x.tag = "array" /\ y.tag = "array" /\ Len(x.items) = Len(y.items)
      BY <3>3, Gathered DEF MergeRule
    <3>4. CASE /\ x # y /\ ~(x.tag = "array" /\ y.tag = "array" /\ Len(x.items) = Len(y.items))
               /\ x.tag = "object" /\ y.tag = "object"
      BY <3>4, Gathered DEF MergeRule
    <3>5. CASE /\ x # y /\ ~(x.tag = "array" /\ y.tag = "array" /\ Len(x.items) = Len(y.items))
               /\ ~(x.tag = "object" /\ y.tag = "object")
      BY <3>5 DEF MergeRule, IsResult
    <3> QED
      BY <3>2, <3>3, <3>4, <3>5
  <2> QED
    BY <1>9, <1>20, <2>1 DEF ParseBase, ParseIntersection, IsResult
<1>21. CASE s.kind = "union"
  <2> DEFINE tried == [i \in DOMAIN s.choices |-> Parse(s.choices[i], v, h, d)]
             settled == {i \in DOMAIN tried : tried[i] # Rejected}
  <2>1. base = IF settled = {} THEN Rejected ELSE tried[Min(settled)]
    BY <1>21 DEF ParseBase, ParseUnion
  <2>2. \A i \in DOMAIN s.choices : IsResult(tried[i])
    BY <1>8, <1>21 DEF Parts, Range
  <2>3. settled \in SUBSET Nat /\ settled \subseteq DOMAIN s.choices
    BY <1>7, <1>21 DEF IsSchema
  <2> HIDE DEF tried, settled
  <2> QED
    BY <1>9, <2>1, <2>2, <2>3, LeastIndex DEF IsResult
<1>22. CASE s.kind = "discriminatedUnion"
  <2> DEFINE selected == {i \in DOMAIN s.choices : v.props[s.by] \in Selecting(s, s.choices[i])}
  <2>1. base = IF v.tag # "object" \/ s.by \notin DOMAIN v.props \/ selected = {} THEN Rejected
               ELSE Parse(s.choices[Min(selected)], v, h, d)
    BY <1>22 DEF ParseBase, ParseDiscriminated
  <2>2. \A i \in DOMAIN s.choices : IsResult(Parse(s.choices[i], v, h, d))
    BY <1>8, <1>22 DEF Parts, Range
  <2>3. selected \in SUBSET Nat /\ selected \subseteq DOMAIN s.choices
    BY <1>7, <1>22 DEF IsSchema
  <2> HIDE DEF selected
  <2> QED
    BY <1>9, <2>1, <2>2, <2>3, LeastIndex DEF IsResult
<1> QED
  BY <1>7, <1>10, <1>11, <1>12, <1>13, <1>14, <1>15, <1>16, <1>17, <1>18, <1>19, <1>20, <1>21, <1>22
  DEF IsSchema, Leaves

-----------------------------------------------------------------------------
(* What a schema accepts, the graph that describes it accepts. *)

\* An outcome that is neither of the others is an output.
LEMMA Accepted ==
  ASSUME NEW r, IsResult(r)
  PROVE  r.is = "ok" <=> r # Rejected /\ r # Overflow
BY OutcomesDiffer DEF IsResult

\* What a parse has accepted its base has accepted, and its checks hold.
LEMMA BaseAccepts ==
  ASSUME NEW s, NEW v, NEW h, NEW d
  PROVE  /\ ParseRule(s, v, h, d).is = "ok" <=>
              ParseBase(s, v, h, d).is = "ok" /\ Range(s.refs) \subseteq h \cup Warnings
         /\ ParseRule(s, v, h, d) # Rejected /\ IsResult(ParseBase(s, v, h, d)) =>
              ParseBase(s, v, h, d) # Rejected
BY OutcomesDiffer DEF ParseRule, IsResult

\* By induction on the depth and the size of the schema.
LEMMA AcceptedIsMeant ==
  ASSUME NEW w, NEW g, IsWorld(w), DescribesInput(g, w), g.upper, "anonymous" \in g.holds
  PROVE  \A s \in w.schemas, d \in Nat, v \in g.values :
           Parse(s, v, g.holds, d).is = "ok" => Means(g, Input(s), v, d)
<1> DEFINE h == g.holds
           Fits(s, d) == \A v \in g.values : Parse(s, v, h, d).is = "ok" => Means(g, Input(s), v, d)
           Bad == {x \in w.schemas \X Nat : ~Fits(x[1], x[2])}
<1>1. SUFFICES ASSUME Bad # {} PROVE FALSE
  <2> SUFFICES ASSUME NEW s \in w.schemas, NEW d \in Nat PROVE Fits(s, d)
    OBVIOUS
  <2>1. <<s, d>> \notin Bad
    BY <1>1
  <2> HIDE DEF Fits
  <2> QED
    BY <2>1
<1>2. \A s \in w.schemas : w.size[s] \in Nat
  BY DEF IsWorld, IsSchema
<1>3. Bad \in SUBSET (w.schemas \X Nat)
  OBVIOUS
<1> HIDE DEF Bad
<1>4. PICK s \in w.schemas, d \in Nat :
           /\ <<s, d>> \in Bad
           /\ \A r \in w.schemas, e \in Nat :
                e < d \/ (e = d /\ w.size[r] < w.size[s]) => <<r, e>> \notin Bad
  BY <1>1, <1>2, <1>3, SmallestSchema
<1>5. PICK v \in g.values : Parse(s, v, h, d).is = "ok" /\ ~Means(g, Input(s), v, d)
  BY <1>4 DEF Bad
<1>6. \A r \in w.schemas, e \in Nat : e < d \/ (e = d /\ w.size[r] < w.size[s]) =>
        \A x \in g.values : Parse(r, x, h, e).is = "ok" => Means(g, Input(r), x, e)
  <2> SUFFICES ASSUME NEW r \in w.schemas, NEW e \in Nat, e < d \/ (e = d /\ w.size[r] < w.size[s])
               PROVE  Fits(r, e)
    OBVIOUS
  <2>1. <<r, e>> \notin Bad
    BY <1>4
  <2> HIDE DEF Fits
  <2> QED
    BY <2>1 DEF Bad
<1> HIDE DEF Fits, h
<1>7. IsSchema(s, w) /\ Input(s) = DescribeRule(s, "input") /\ Parse(s, v, h, d) = ParseRule(s, v, h, d)
  BY DEF IsWorld, Input
<1>8. \A c \in Parts(s) : /\ c \in w.schemas
                          /\ \A x : IsResult(Parse(c, x, h, d))
                          /\ \A x \in g.values : Parse(c, x, h, d).is = "ok" => Means(g, Input(c), x, d)
  BY <1>6, <1>7, Results DEF IsSchema
<1> DEFINE base == ParseBase(s, v, h, d)
           n == Input(s)
<1>9. base.is = "ok" /\ Range(s.refs) \subseteq h \cup Warnings
  BY <1>5, <1>7, BaseAccepts
<1>10. n \in g.nodes /\ (Accepts(Meaning(g), g, n, v, d) => FALSE)
  BY <1>5, Unfold DEF DescribesInput, Input
<1>11. /\ v.tag = "array" => v.items \in Seq(g.values) /\ \A i \in DOMAIN v.items : v.items[i] \in g.values
       /\ v.tag = "object" => \A k \in DOMAIN v.props : v.props[k] \in g.values
  BY DEF DescribesInput, IsWellFormed, IsGraph, IsValue
<1>12. n.refs = s.refs => RefsHold(g, n)
  BY <1>9 DEF RefsHold, h
<1> HIDE DEF base, n
<1>13. CASE s.kind \in Leaves
  <2>1. n.kind = s.kind /\ \A f \in NodeFields(s.kind) : n[f] = s[f]
    BY <1>7, <1>13, Described DEF Input, n
  <2>2. /\ n.refs = s.refs
        /\ s.kind = "string" => n.min = s.min /\ n.max = s.max /\ n.pattern = s.pattern
        /\ s.kind = "number" => n.integer = s.integer /\ n.min = s.min /\ n.max = s.max /\ n.multiple = s.multiple
        /\ s.kind = "literal" => n.lit = s.lit
        /\ s.kind = "enum" => n.values = s.values
    BY <2>1 DEF NodeFields
  <2>3. RefsHold(g, n)
    BY <1>12, <2>2
  <2>4. CASE s.kind = "string"
    <3>1. v.tag = "string" /\ StringAccepts(s, v.text)
      BY <1>9, <2>4, OutcomesDiffer DEF ParseBase, Accept, base
    <3>2. StringAccepts(n, v.text)
      BY <2>2, <2>4, <3>1 DEF StringAccepts
    <3> QED
      BY <1>10, <2>1, <2>3, <2>4, <3>1, <3>2 DEF Accepts
  <2>5. CASE s.kind = "number"
    <3>1. v.tag = "number" /\ NumberAccepts(s, v.num)
      BY <1>9, <2>5, OutcomesDiffer DEF ParseBase, Accept, base
    <3>2. NumberAccepts(n, v.num)
      BY <2>2, <2>5, <3>1 DEF NumberAccepts
    <3> QED
      BY <1>10, <2>1, <2>3, <2>5, <3>1, <3>2 DEF Accepts
  <2>6. CASE s.kind = "boolean"
    BY <1>9, <1>10, <2>1, <2>3, <2>6, OutcomesDiffer DEF Accepts, ParseBase, Accept, base
  <2>7. CASE s.kind \in {"literal", "enum"}
    BY <1>9, <1>10, <2>1, <2>2, <2>3, <2>7, OutcomesDiffer DEF Accepts, ParseBase, Accept, base
  <2>8. CASE s.kind = "unknown"
    BY <1>10, <2>1, <2>3, <2>8 DEF Accepts
  <2>9. CASE s.kind = "never"
    BY <1>9, <2>9, OutcomesDiffer DEF ParseBase, base
  <2> QED
    BY <1>13, <2>4, <2>5, <2>6, <2>7, <2>8, <2>9 DEF Leaves
<1>14. CASE s.kind = "array"
  <2>1. base = ParseArray(s, v, h, d)
    BY <1>14 DEF ParseBase, base
  <2>2. v.tag = "array"
    BY <1>9, <2>1, OutcomesDiffer DEF ParseArray
  <2> DEFINE parts == ParseItems([i \in DOMAIN v.items |-> s.item], v, h, d)
  <2>3. base = Gather(Range(parts), Len(v.items) >= s.min /\ Len(v.items) <= s.max,
                      List([i \in DOMAIN parts |-> parts[i].data]))
    BY <2>1, <2>2 DEF ParseArray
  <2>4. DOMAIN parts = DOMAIN v.items /\ \A i \in DOMAIN v.items : parts[i] = Parse(s.item, v.items[i], h, d)
    BY DEF ParseItems
  <2> HIDE DEF parts
  <2>5. /\ Len(v.items) >= s.min /\ Len(v.items) <= s.max
        /\ \A i \in DOMAIN v.items : parts[i] # Rejected /\ parts[i] # Overflow
    <3> DEFINE fine == Len(v.items) >= s.min /\ Len(v.items) <= s.max
               out == List([i \in DOMAIN parts |-> parts[i].data])
    <3>1. base = Gather(Range(parts), fine, out)
      BY <2>3
    <3> HIDE DEF fine, out
    <3>2. fine /\ Rejected \notin Range(parts) /\ Overflow \notin Range(parts)
      BY <1>9, <3>1, Gathered
    <3> QED
      BY <2>4, <3>2 DEF fine, Range
  <2>6. s.item \in Parts(s)
    BY <1>14 DEF Parts
  <2>7. \A i \in DOMAIN v.items : Means(g, Input(s.item), v.items[i], d)
    BY <1>8, <1>11, <2>2, <2>4, <2>5, <2>6, Accepted
  <2>8. n.kind = "array" /\ n.refs = s.refs /\ n.item = Input(s.item) /\ n.min = s.min /\ n.max = s.max
    BY <1>7, <1>14, Described DEF Input, n
  <2> QED
    BY <1>10, <1>12, <2>2, <2>5, <2>7, <2>8 DEF Accepts, Means
<1>15. CASE s.kind = "tuple"
  <2>1. base = ParseTuple(s, v, h, d)
    BY <1>15 DEF ParseBase, base
  <2>2. v.tag = "array" /\ Len(v.items) = Len(s.items)
    BY <1>9, <2>1, OutcomesDiffer DEF ParseTuple
  <2> DEFINE parts == ParseItems(s.items, v, h, d)
  <2>3. base = Gather(Range(parts), TRUE, List([i \in DOMAIN parts |-> parts[i].data]))
    BY <2>1, <2>2 DEF ParseTuple
  <2>4. DOMAIN parts = DOMAIN v.items /\ \A i \in DOMAIN v.items : parts[i] = Parse(s.items[i], v.items[i], h, d)
    BY DEF ParseItems
  <2>5. s.items \in Seq(w.schemas) /\ DOMAIN s.items = DOMAIN v.items
    BY <1>7, <1>11, <1>15, <2>2 DEF IsSchema
  <2> HIDE DEF parts
  <2>6. \A i \in DOMAIN v.items : parts[i] # Rejected /\ parts[i] # Overflow
    <3> DEFINE out == List([i \in DOMAIN parts |-> parts[i].data])
    <3>1. base = Gather(Range(parts), TRUE, out)
      BY <2>3
    <3> HIDE DEF out
    <3>2. Rejected \notin Range(parts) /\ Overflow \notin Range(parts)
      BY <1>9, <3>1, Gathered
    <3> QED
      BY <2>4, <3>2 DEF Range
  <2>7. \A i \in DOMAIN s.items : s.items[i] \in Parts(s)
    BY <1>15 DEF Parts, Range
  <2>8. \A i \in DOMAIN s.items : Means(g, Input(s.items[i]), v.items[i], d)
    BY <1>8, <1>11, <2>2, <2>4, <2>5, <2>6, <2>7, Accepted
  <2>9. n.kind = "tuple" /\ n.refs = s.refs /\ n.items = [i \in DOMAIN s.items |-> Input(s.items[i])]
    BY <1>7, <1>15, Described DEF Input, n
  <2>10. Len(n.items) = Len(s.items) /\ DOMAIN n.items = DOMAIN s.items
    BY <2>5, <2>9
  <2>11. \A i \in DOMAIN n.items : <<n.items[i], v.items[i], d>> \in Meaning(g)
    BY <2>8, <2>9, <2>10 DEF Means
  <2> QED
    BY <1>10, <1>12, <2>2, <2>9, <2>10, <2>11 DEF Accepts
<1>16. CASE s.kind = "union"
  <2> DEFINE tried == [i \in DOMAIN s.choices |-> Parse(s.choices[i], v, h, d)]
             settled == {i \in DOMAIN tried : tried[i] # Rejected}
             first == Min(settled)
  <2>1. base = IF settled = {} THEN Rejected ELSE tried[first]
    BY <1>16 DEF ParseBase, ParseUnion, base
  <2>2. settled \in SUBSET Nat /\ settled \subseteq DOMAIN s.choices
    BY <1>7, <1>16 DEF IsSchema
  <2>3. \A i \in DOMAIN s.choices : tried[i] = Parse(s.choices[i], v, h, d)
    OBVIOUS
  <2> HIDE DEF tried, settled
  <2>4. settled # {} /\ base = tried[first]
    BY <1>9, <2>1, OutcomesDiffer
  <2>5. first \in DOMAIN s.choices
    BY <2>2, <2>4, LeastIndex
  <2> HIDE DEF first
  <2>6. s.choices[first] \in Parts(s)
    BY <1>16, <2>5 DEF Parts, Range
  <2>7. Means(g, Input(s.choices[first]), v, d)
    BY <1>8, <1>9, <2>3, <2>4, <2>5, <2>6
  <2>8. n.kind = "union" /\ n.refs = s.refs /\ n.choices = [i \in DOMAIN s.choices |-> Input(s.choices[i])]
    BY <1>7, <1>16, Described DEF Input, n
  <2>9. first \in DOMAIN n.choices /\ <<n.choices[first], v, d>> \in Meaning(g)
    BY <2>5, <2>7, <2>8 DEF Means
  <2> QED
    BY <1>10, <1>12, <2>8, <2>9 DEF Accepts
<1>17. CASE s.kind = "discriminatedUnion"
  <2> DEFINE selected == {i \in DOMAIN s.choices : v.props[s.by] \in Selecting(s, s.choices[i])}
             first == Min(selected)
  <2>1. base = IF v.tag # "object" \/ s.by \notin DOMAIN v.props \/ selected = {} THEN Rejected
               ELSE Parse(s.choices[first], v, h, d)
    BY <1>17 DEF ParseBase, ParseDiscriminated, base
  <2>2. selected \in SUBSET Nat /\ selected \subseteq DOMAIN s.choices
    BY <1>7, <1>17 DEF IsSchema
  <2> HIDE DEF selected
  <2>3. selected # {} /\ base = Parse(s.choices[first], v, h, d)
    BY <1>9, <2>1, OutcomesDiffer
  <2>4. first \in DOMAIN s.choices
    BY <2>2, <2>3, LeastIndex
  <2> HIDE DEF first
  <2>5. s.choices[first] \in Parts(s)
    BY <1>17, <2>4 DEF Parts, Range
  <2>6. Means(g, Input(s.choices[first]), v, d)
    BY <1>8, <1>9, <2>3, <2>5
  <2>7. n.kind = "discriminatedUnion" /\ n.refs = s.refs /\ n.choices = [i \in DOMAIN s.choices |-> Input(s.choices[i])]
    BY <1>7, <1>17, Described DEF Input, n
  <2>8. first \in DOMAIN n.choices /\ <<n.choices[first], v, d>> \in Meaning(g)
    BY <2>4, <2>6, <2>7 DEF Means
  <2> QED
    BY <1>10, <1>12, <2>7, <2>8 DEF Accepts
<1>18. CASE s.kind = "intersection"
  <2> DEFINE left == Parse(s.left, v, h, d)
             right == Parse(s.right, v, h, d)
  <2>1. s.left \in Parts(s) /\ s.right \in Parts(s)
    BY <1>18 DEF Parts
  <2>2. base = IF Overflow \in {left, right} THEN Overflow
               ELSE IF Rejected \in {left, right} THEN Rejected ELSE Merge(left.data, right.data)
    BY <1>18 DEF ParseBase, ParseIntersection, base
  <2> HIDE DEF left, right
  <2>3. left # Overflow /\ right # Overflow /\ left # Rejected /\ right # Rejected
    BY <1>9, <2>2, OutcomesDiffer
  <2>4. left.is = "ok" /\ right.is = "ok"
    BY <1>8, <2>1, <2>3, Accepted DEF left, right
  <2>5. Means(g, Input(s.left), v, d) /\ Means(g, Input(s.right), v, d)
    BY <1>8, <2>1, <2>4 DEF left, right
  <2>6. n.kind = "intersection" /\ n.refs = s.refs /\ n.left = Input(s.left) /\ n.right = Input(s.right)
    BY <1>7, <1>18, Described DEF Input, n
  <2> QED
    BY <1>10, <1>12, <2>5, <2>6 DEF Accepts, Means
<1>19. CASE s.kind = "object"
  <2>1. base = ParseObject(s, v, h, d)
    BY <1>19 DEF ParseBase, base
  <2>2. v.tag = "object"
    BY <1>9, <2>1, OutcomesDiffer DEF ParseObject
  <2> DEFINE present == DOMAIN s.shape \cap DOMAIN v.props
             missing == {k \in DOMAIN s.shape \ present : ~MayBeAbsent(s.shape[k])}
             extra == DOMAIN v.props \ present
             parts == [k \in present |-> Parse(s.shape[k], v.props[k], h, d)]
             kept == {k \in present : ~(MayBeAbsent(s.shape[k]) /\ parts[k].data = Undefined)}
             passed == IF s.policy = "passthrough" THEN extra ELSE {}
  <2>3. base = Gather(Range(parts), missing = {} /\ (s.policy = "reject" => extra = {}),
                      Obj([k \in kept \cup passed |-> IF k \in kept THEN parts[k].data ELSE v.props[k]]))
    BY <2>1, <2>2 DEF ParseObject
  <2>4. missing = {} /\ (s.policy = "reject" => extra = {}) /\ Rejected \notin Range(parts) /\ Overflow \notin Range(parts)
    <3> DEFINE fine == missing = {} /\ (s.policy = "reject" => extra = {})
               all == Range(parts)
               out == Obj([k \in kept \cup passed |-> IF k \in kept THEN parts[k].data ELSE v.props[k]])
    <3>1. base = Gather(all, fine, out)
      BY <2>3
    <3> HIDE DEF fine, all, out
    <3>2. fine /\ Rejected \notin all /\ Overflow \notin all
      BY <1>9, <3>1, Gathered
    <3> QED
      BY <3>2 DEF fine, all
  <2>5. \A k \in DOMAIN s.shape \cap DOMAIN v.props :
          Parse(s.shape[k], v.props[k], h, d) # Rejected /\ Parse(s.shape[k], v.props[k], h, d) # Overflow
    BY <2>4 DEF Range
  <2>6. /\ \A k \in DOMAIN s.shape : ~MayBeAbsent(s.shape[k]) => k \in DOMAIN v.props
        /\ s.policy = "reject" => DOMAIN v.props \subseteq DOMAIN s.shape
    BY <2>4
  <2> HIDE DEF present, missing, extra, parts, kept, passed
  <2>7. \A k \in DOMAIN s.shape : s.shape[k] \in Parts(s)
    BY <1>19 DEF Parts, Range
  <2>8. \A k \in DOMAIN s.shape \cap DOMAIN v.props : Means(g, Input(s.shape[k]), v.props[k], d)
    BY <1>8, <1>11, <2>2, <2>5, <2>7, Accepted
  <2>9. /\ n.kind = "object" /\ n.refs = s.refs /\ n.policy = s.policy
        /\ n.shape = [k \in DOMAIN s.shape |-> Input(s.shape[k])]
        /\ n.required = {k \in DOMAIN s.shape : ~MayBeAbsent(s.shape[k])}
    BY <1>7, <1>19, Described DEF Input, n
  <2>10. /\ n.required \subseteq DOMAIN v.props
         /\ n.policy = "reject" => DOMAIN v.props \subseteq DOMAIN n.shape
         /\ \A k \in DOMAIN n.shape \cap DOMAIN v.props : <<n.shape[k], v.props[k], d>> \in Meaning(g)
    BY <2>6, <2>8, <2>9 DEF Means
  <2> QED
    BY <1>10, <1>12, <2>2, <2>9, <2>10 DEF Accepts
<1>20. CASE s.kind = "record"
  <2>1. base = ParseRecord(s, v, h, d)
    BY <1>20 DEF ParseBase, base
  <2>2. v.tag = "object"
    BY <1>9, <2>1, OutcomesDiffer DEF ParseRecord
  <2> DEFINE parts == [k \in DOMAIN v.props |-> Parse(s.each, v.props[k], h, d)]
             fine == \A k \in DOMAIN v.props : StringAccepts(s.key, k)
  <2>3. base = Gather(Range(parts), fine, Obj([k \in DOMAIN parts |-> parts[k].data]))
    BY <2>1, <2>2 DEF ParseRecord
  <2>4. DOMAIN parts = DOMAIN v.props /\ \A k \in DOMAIN v.props : parts[k] = Parse(s.each, v.props[k], h, d)
    OBVIOUS
  <2> HIDE DEF parts, fine
  <2>5. fine /\ \A k \in DOMAIN v.props : parts[k] # Rejected /\ parts[k] # Overflow
    BY <1>9, <2>3, <2>4, Gathered DEF Range
  <2>6. s.each \in Parts(s)
    BY <1>20 DEF Parts
  <2>7. \A k \in DOMAIN v.props : Means(g, Input(s.each), v.props[k], d)
    BY <1>8, <1>11, <2>2, <2>4, <2>5, <2>6, Accepted
  <2>8. n.kind = "record" /\ n.refs = s.refs /\ n.key = s.key /\ n.each = Input(s.each)
    BY <1>7, <1>20, Described DEF Input, n
  <2> QED
    BY <1>10, <1>12, <2>2, <2>5, <2>7, <2>8 DEF Accepts, Means, fine
<1>21. CASE s.kind \in {"nullable", "optional", "transform"}
  <2>1. s.inner \in Parts(s)
    BY <1>21 DEF Parts
  <2>2. n.kind = s.kind /\ n.refs = s.refs /\ n.inner = Input(s.inner)
    BY <1>7, <1>21, Described DEF Input, n
  <2>3. /\ s.kind = "nullable" => v = Null \/ Parse(s.inner, v, h, d).is = "ok"
        /\ s.kind = "optional" => v = Undefined \/ Parse(s.inner, v, h, d).is = "ok"
        /\ s.kind = "transform" => Parse(s.inner, v, h, d).is = "ok"
    BY <1>9, <1>21 DEF ParseBase, ParseTransform, base
  <2>4. Parse(s.inner, v, h, d).is = "ok" => Means(g, n.inner, v, d)
    BY <1>8, <2>1, <2>2
  <2> QED
    BY <1>10, <1>12, <1>21, <2>2, <2>3, <2>4 DEF Accepts, Means
<1>22. CASE s.kind = "lazy"
  <2>1. d # 0 /\ Parse(Definitions[s.to], v, h, d - 1).is = "ok"
    BY <1>9, <1>22, OutcomesDiffer DEF ParseBase, base
  <2>2. d - 1 \in Nat /\ d - 1 < d /\ Definitions[s.to] \in w.schemas
    BY <1>7, <1>22, <2>1 DEF IsSchema
  <2>3. Means(g, Input(Definitions[s.to]), v, d - 1)
    BY <1>6, <2>1, <2>2
  <2>4. n.kind = "reference" /\ n.refs = s.refs /\ n.to = s.to
    BY <1>7, <1>22, Described DEF Input, n
  <2>5. g.definitions[n.to] = Input(Definitions[s.to])
    BY <1>22, <2>4 DEF DescribesInput, Input
  <2> QED
    BY <1>10, <1>12, <2>1, <2>3, <2>4, <2>5 DEF Accepts, Means
<1>23. CASE s.kind = "defined"
  <2>1. v # Undefined /\ Parse(s.inner, v, h, d).is = "ok"
    BY <1>9, <1>23, OutcomesDiffer DEF ParseBase, ParseDefined, base
  <2>2. s.inner \in Parts(s)
    BY <1>23 DEF Parts
  <2>3. Means(g, Input(s.inner), v, d)
    BY <1>8, <2>1, <2>2
  <2> DEFINE x == ExcludeUndefined(Input(s.inner))
  <2>4. n = Refined(x, s.refs)
    BY <1>7, <1>23, Described DEF Input, n
  <2>5. Input(s.inner) \in g.excluded /\ IsWellFormed(g)
    BY <1>23 DEF DescribesInput, Input
  <2>6. Means(g, x, v, d)
    BY <2>1, <2>3, <2>5, ExcludedAccepts
  <2>7. x \in g.nodes /\ HasFields(x) /\ s.refs \in Seq(Ids) /\ NodeRules(g)
    BY <1>7, <2>5, Excluded DEF IsWellFormed, IsSchema
  <2> HIDE DEF x
  <2>8. Range(s.refs) \subseteq g.holds \cup Warnings
    BY <1>9 DEF h
  <2>9. Means(g, Refined(x, s.refs), v, d)
    BY <1>10, <2>4, <2>6, <2>7, <2>8, RefinedMeans
  <2> QED
    BY <1>5, <2>4, <2>9 DEF n
<1>24. CASE s.kind = "pipeline"
  <2>1. Parse(s.first, v, h, d).is = "ok"
    BY <1>9, <1>24 DEF ParseBase, ParsePipeline, base
  <2>2. s.first \in Parts(s)
    BY <1>24 DEF Parts
  <2>3. n.kind = "transform" /\ Range(n.refs) = {"anonymous"} \cup Range(s.refs) /\ n.inner = Input(s.first)
    BY <1>7, <1>24, Described DEF Input, n
  <2>4. RefsHold(g, n)
    BY <1>9, <2>3 DEF RefsHold, h
  <2> QED
    BY <1>8, <1>10, <2>1, <2>2, <2>3, <2>4 DEF Accepts, Means
<1> QED
  BY <1>7, <1>13, <1>14, <1>15, <1>16, <1>17, <1>18, <1>19, <1>20, <1>21, <1>22, <1>23, <1>24
  DEF IsSchema

-----------------------------------------------------------------------------
(* Scalars that come out of a parse as they are. *)

Transparent == {"nullable", "optional", "union", "discriminatedUnion", "intersection"}

\* No transform, reference or opaque node is met on the way to a scalar.
IsTransparent(X) ==
  \A n \in X : /\ n.kind \notin {"transform", "reference", "opaque"}
               /\ n.kind \in Transparent => Children(n) \subseteq X

KeepsScalars(g, n) == \E X \in SUBSET g.nodes : n \in X /\ IsTransparent(X)

\* A node keeps scalars when its kind does and the nodes below it do.
LEMMA KeepsStep ==
  ASSUME NEW g, IsGraph(g), NEW n \in g.nodes
  PROVE  KeepsScalars(g, n) <=>
           /\ n.kind \notin {"transform", "reference", "opaque"}
           /\ n.kind \in Transparent => \A c \in Children(n) : KeepsScalars(g, c)
<1>1. ASSUME KeepsScalars(g, n)
      PROVE  /\ n.kind \notin {"transform", "reference", "opaque"}
             /\ n.kind \in Transparent => \A c \in Children(n) : KeepsScalars(g, c)
  BY <1>1 DEF KeepsScalars, IsTransparent
<1>2. ASSUME n.kind \notin {"transform", "reference", "opaque"},
             n.kind \in Transparent => \A c \in Children(n) : KeepsScalars(g, c)
      PROVE  KeepsScalars(g, n)
  <2> DEFINE X == {m \in g.nodes : KeepsScalars(g, m)} \cup {n}
  <2>1. \A m \in g.nodes : \A c \in Children(m) : c \in g.nodes
    BY DEF IsGraph, IsNode
  <2>2. ASSUME NEW m \in g.nodes, KeepsScalars(g, m)
        PROVE  /\ m.kind \notin {"transform", "reference", "opaque"}
               /\ m.kind \in Transparent => \A c \in Children(m) : KeepsScalars(g, c)
    BY <2>2 DEF KeepsScalars, IsTransparent
  <2>3. IsTransparent(X)
    BY <1>2, <2>1, <2>2 DEF IsTransparent
  <2>4. X \in SUBSET g.nodes /\ n \in X
    OBVIOUS
  <2> HIDE DEF X
  <2> QED
    BY <2>3, <2>4 DEF KeepsScalars
<1> QED
  BY <1>1, <1>2

\* A refined node has the children of the node.
LEMMA RefinedChildren ==
  ASSUME NEW n, HasFields(n), NEW ids \in Seq(Ids)
  PROVE  Refined(n, ids).kind = n.kind /\ Children(Refined(n, ids)) = Children(n)
<1> DEFINE m == Refined(n, ids)
<1>1. m.kind = n.kind /\ \A f \in NodeFields(n.kind) \ {"refs"} : m[f] = n[f]
  BY RefinedFields
<1>2. /\ n.kind = "array" => m.item = n.item
      /\ n.kind = "tuple" => m.items = n.items
      /\ n.kind \in {"union", "discriminatedUnion"} => m.choices = n.choices
      /\ n.kind = "intersection" => m.left = n.left /\ m.right = n.right
      /\ n.kind = "object" => m.shape = n.shape
      /\ n.kind = "record" => m.each = n.each
      /\ n.kind \in {"nullable", "optional", "transform"} => m.inner = n.inner
  BY <1>1 DEF NodeFields
<1> HIDE DEF m
<1>3. Children(m) = Children(n)
  BY <1>1, <1>2 DEF Children
<1> QED
  BY <1>1, <1>3 DEF m

\* What keeps scalars with further checks or without undefined keeps them.
LEMMA RefinedKeeps ==
  ASSUME NEW g, IsWellFormed(g), NEW n \in g.nodes, NEW ids \in Seq(Ids),
         Refined(n, ids) \in g.nodes, KeepsScalars(g, Refined(n, ids))
  PROVE  KeepsScalars(g, n)
<1>1. IsGraph(g) /\ HasFields(n)
  BY DEF IsWellFormed
<1>2. Refined(n, ids).kind = n.kind /\ Children(Refined(n, ids)) = Children(n)
  BY <1>1, RefinedChildren
<1> QED
  BY <1>1, <1>2, KeepsStep

\* What keeps scalars without undefined keeps them.
LEMMA ExcludedKeeps ==
  ASSUME NEW g, IsWellFormed(g)
  PROVE  \A n \in g.excluded : KeepsScalars(g, ExcludeUndefined(n)) => KeepsScalars(g, n)
<1> DEFINE B == {n \in g.nodes : n \in g.excluded /\ KeepsScalars(g, ExcludeUndefined(n)) /\ ~KeepsScalars(g, n)}
<1>1. SUFFICES ASSUME B # {} PROVE FALSE
  BY DEF IsWellFormed, Excludes
<1>2. \A m \in g.nodes : g.size[m] \in Nat
  BY DEF IsWellFormed, IsGraph, IsNode
<1>3. PICK n \in B : \A c \in g.nodes : g.size[c] < g.size[n] => c \notin B
  BY <1>1, <1>2, SmallestNode
<1>4. n \in g.nodes /\ n \in g.excluded /\ KeepsScalars(g, ExcludeUndefined(n)) /\ ~KeepsScalars(g, n)
  OBVIOUS
<1>5. \A c \in Children(n) : c \in g.excluded /\ KeepsScalars(g, ExcludeUndefined(c)) => KeepsScalars(g, c)
  BY <1>3, <1>4 DEF IsWellFormed, IsGraph, IsNode
<1> HIDE DEF B
<1> DEFINE x == ExcludeUndefined(n)
<1>6. IsGraph(g) /\ x \in g.nodes /\ HasFields(n) /\ n.refs \in Seq(Ids)
  BY <1>4, Excluded DEF IsWellFormed, HasFields
<1>7. /\ x.kind \notin {"transform", "reference", "opaque"}
      /\ x.kind \in Transparent => \A c \in Children(x) : KeepsScalars(g, c)
  BY <1>4, <1>6, KeepsStep
<1>8. ~(/\ n.kind \notin {"transform", "reference", "opaque"}
        /\ n.kind \in Transparent => \A c \in Children(n) : KeepsScalars(g, c))
  BY <1>4, <1>6, KeepsStep
<1>9. CASE n.kind = "optional"
  <2>1. n.inner \in g.excluded /\ n.inner \in Children(n) /\ x = Refined(ExcludeUndefined(n.inner), n.refs)
    BY <1>4, <1>9, Excluded
  <2>2. ExcludeUndefined(n.inner) \in g.nodes
    BY <2>1, Excluded
  <2>3. KeepsScalars(g, Refined(ExcludeUndefined(n.inner), n.refs)) /\ Refined(ExcludeUndefined(n.inner), n.refs) \in g.nodes
    BY <1>4, <1>6, <2>1
  <2>4. KeepsScalars(g, n.inner)
    BY <1>5, <1>6, <2>1, <2>2, <2>3, RefinedKeeps
  <2>5. Children(n) = {n.inner}
    BY <1>9 DEF Children
  <2> QED
    BY <1>8, <1>9, <2>4, <2>5
<1>10. CASE n.kind = "nullable"
  <2>1. /\ n.inner \in g.excluded /\ n.inner \in Children(n)
        /\ x.kind = "nullable" /\ x.inner = ExcludeUndefined(n.inner)
    BY <1>4, <1>10, Excluded
  <2> HIDE DEF x
  <2>2. Children(x) = {ExcludeUndefined(n.inner)} /\ Children(n) = {n.inner}
    BY <1>10, <2>1 DEF Children
  <2> QED
    BY <1>5, <1>7, <1>8, <1>10, <2>1, <2>2 DEF Transparent
<1>11. CASE n.kind = "union"
  <2>1. /\ \A i \in DOMAIN n.choices : n.choices[i] \in g.excluded /\ n.choices[i] \in Children(n)
        /\ x.kind = "union"
        /\ x.choices = [j \in DOMAIN n.choices |-> ExcludeUndefined(n.choices[j])]
    BY <1>4, <1>11, Excluded
  <2> HIDE DEF x
  <2>2. \A i \in DOMAIN n.choices : ExcludeUndefined(n.choices[i]) \in Children(x)
    BY <2>1 DEF Children, Range
  <2>3. \A i \in DOMAIN n.choices : KeepsScalars(g, n.choices[i])
    BY <1>5, <1>7, <2>1, <2>2 DEF Transparent
  <2>4. \A c \in Children(n) : \E i \in DOMAIN n.choices : c = n.choices[i]
    BY <1>11 DEF Children, Range
  <2> QED
    BY <1>8, <1>11, <2>3, <2>4
<1>12. CASE n.kind \in LosesChecks
  <2>1. x = Refined(n, <<"anonymous">>)
    BY <1>4, <1>12, Excluded
  <2> DEFINE one == <<"anonymous">>
  <2>2. one \in Seq(Ids)
    BY Anonymous
  <2> HIDE DEF one
  <2>3. x = Refined(n, one)
    BY <2>1 DEF one
  <2> QED
    BY <1>4, <1>6, <2>2, <2>3, RefinedKeeps
<1>13. CASE n.kind = "literal" /\ n.lit = Undefined
  BY <1>8, <1>13 DEF Transparent
<1>14. CASE /\ n.kind \notin LosesChecks \cup {"optional", "nullable", "union"}
            /\ ~(n.kind = "literal" /\ n.lit = Undefined)
  <2>1. x = n
    BY <1>4, <1>14, Excluded
  <2> QED
    BY <1>4, <2>1
<1> QED
  BY <1>9, <1>10, <1>11, <1>12, <1>13, <1>14

\* Where the acceptance of literals is decided nothing else is met.
LEMMA DecidableKeeps ==
  ASSUME NEW g, IsGraph(g), NodeRules(g), NEW n \in g.nodes, IsLiteralAcceptanceDecidable(n)
  PROVE  KeepsScalars(g, n)
<1> DEFINE X == {m \in g.nodes : IsLiteralAcceptanceDecidable(m)}
<1>1. ASSUME NEW m \in X
      PROVE  /\ m.kind \notin {"transform", "reference", "opaque"}
             /\ m.kind \in Transparent => Children(m) \subseteq X
  <2>1. IsLiteralAcceptanceDecidableRule(m) /\ \A c \in Children(m) : c \in g.nodes
    BY DEF NodeRules, IsGraph, IsNode
  <2> QED
    BY <2>1 DEF IsLiteralAcceptanceDecidableRule, Transparent
<1>2. IsTransparent(X)
  BY <1>1 DEF IsTransparent
<1>3. n \in X /\ X \in SUBSET g.nodes
  OBVIOUS
<1> HIDE DEF X
<1> QED
  BY <1>2, <1>3 DEF KeepsScalars

\* A scalar is rejected there or comes out as it is.
LEMMA ScalarsKept ==
  ASSUME NEW w, NEW g, IsWorld(w), DescribesInput(g, w), NEW v, IsScalar(v), NEW h
  PROVE  \A s \in w.schemas, d \in Nat :
           KeepsScalars(g, Input(s)) => Parse(s, v, h, d) \in {Ok(v), Rejected}
<1> DEFINE Fits(s, d) == KeepsScalars(g, Input(s)) => Parse(s, v, h, d) \in {Ok(v), Rejected}
           Bad == {x \in w.schemas \X Nat : ~Fits(x[1], x[2])}
<1>1. SUFFICES ASSUME Bad # {} PROVE FALSE
  <2> SUFFICES ASSUME NEW s \in w.schemas, NEW d \in Nat PROVE Fits(s, d)
    OBVIOUS
  <2>1. <<s, d>> \notin Bad
    BY <1>1
  <2> HIDE DEF Fits
  <2> QED
    BY <2>1
<1>2. \A s \in w.schemas : w.size[s] \in Nat
  BY DEF IsWorld, IsSchema
<1>3. Bad \in SUBSET (w.schemas \X Nat)
  OBVIOUS
<1> HIDE DEF Bad
<1>4. PICK s \in w.schemas, d \in Nat :
           /\ <<s, d>> \in Bad
           /\ \A r \in w.schemas, e \in Nat :
                e < d \/ (e = d /\ w.size[r] < w.size[s]) => <<r, e>> \notin Bad
  BY <1>1, <1>2, <1>3, SmallestSchema
<1>5. KeepsScalars(g, Input(s)) /\ Parse(s, v, h, d) \notin {Ok(v), Rejected}
  BY <1>4 DEF Bad
<1>6. \A r \in w.schemas : w.size[r] < w.size[s] => Fits(r, d)
  <2> SUFFICES ASSUME NEW r \in w.schemas, w.size[r] < w.size[s] PROVE Fits(r, d)
    OBVIOUS
  <2>1. <<r, d>> \notin Bad
    BY <1>4
  <2> HIDE DEF Fits
  <2> QED
    BY <2>1 DEF Bad
<1>7. IsSchema(s, w) /\ Input(s) = DescribeRule(s, "input") /\ Parse(s, v, h, d) = ParseRule(s, v, h, d)
  BY DEF IsWorld, Input
<1>8. \A c \in Parts(s) : KeepsScalars(g, Input(c)) => Parse(c, v, h, d) \in {Ok(v), Rejected}
  BY <1>6, <1>7 DEF IsSchema
<1> HIDE DEF Fits
<1> DEFINE base == ParseBase(s, v, h, d)
           n == Input(s)
<1>9. ASSUME base \in {Ok(v), Rejected} PROVE FALSE
  BY <1>5, <1>7, <1>9, OutcomesDiffer DEF ParseRule
<1>10. n \in g.nodes /\ IsGraph(g) /\ IsWellFormed(g)
  BY DEF DescribesInput, IsWellFormed, Input
<1>11. /\ n.kind \notin {"transform", "reference", "opaque"}
       /\ n.kind \in Transparent => \A c \in Children(n) : KeepsScalars(g, c)
  BY <1>5, <1>10, KeepsStep
<1> HIDE DEF base, n
<1>12. CASE s.kind = "string"
  BY <1>9, <1>12 DEF ParseBase, Accept, base
<1>13. CASE s.kind = "number"
  BY <1>9, <1>13 DEF ParseBase, Accept, base
<1>14. CASE s.kind = "boolean"
  BY <1>9, <1>14 DEF ParseBase, Accept, base
<1>15. CASE s.kind \in {"literal", "enum", "unknown", "never"}
  BY <1>9, <1>15 DEF ParseBase, Accept, base
<1>16. CASE s.kind \in {"array", "tuple", "object", "record", "discriminatedUnion"}
  BY <1>9, <1>16 DEF ParseBase, ParseArray, ParseTuple, ParseObject, ParseRecord, ParseDiscriminated, IsScalar, base
<1>17. CASE s.kind = "union"
  <2> DEFINE tried == [i \in DOMAIN s.choices |-> Parse(s.choices[i], v, h, d)]
             settled == {i \in DOMAIN tried : tried[i] # Rejected}
             first == Min(settled)
  <2>1. base = IF settled = {} THEN Rejected ELSE tried[first]
    BY <1>17 DEF ParseBase, ParseUnion, base
  <2>2. settled \in SUBSET Nat /\ settled \subseteq DOMAIN s.choices
    BY <1>7, <1>17 DEF IsSchema
  <2>3. \A i \in DOMAIN s.choices : tried[i] = Parse(s.choices[i], v, h, d)
    OBVIOUS
  <2> HIDE DEF tried, settled
  <2>4. settled # {} /\ base = tried[first]
    BY <1>9, <2>1
  <2>5. first \in DOMAIN s.choices
    BY <2>2, <2>4, LeastIndex
  <2> HIDE DEF first
  <2>6. n.kind = "union" /\ n.choices = [i \in DOMAIN s.choices |-> Input(s.choices[i])]
    BY <1>7, <1>17, Described DEF Input, n
  <2>7. Input(s.choices[first]) \in Children(n)
    BY <2>5, <2>6 DEF Children, Range
  <2>8. s.choices[first] \in Parts(s)
    BY <1>17, <2>5 DEF Parts, Range
  <2> QED
    BY <1>8, <1>9, <1>11, <2>3, <2>4, <2>5, <2>6, <2>7, <2>8 DEF Transparent
<1>18. CASE s.kind = "intersection"
  <2> DEFINE left == Parse(s.left, v, h, d)
             right == Parse(s.right, v, h, d)
  <2>1. s.left \in Parts(s) /\ s.right \in Parts(s)
    BY <1>18 DEF Parts
  <2>2. n.kind = "intersection" /\ n.left = Input(s.left) /\ n.right = Input(s.right)
    BY <1>7, <1>18, Described DEF Input, n
  <2>3. KeepsScalars(g, Input(s.left)) /\ KeepsScalars(g, Input(s.right))
    BY <1>11, <2>2 DEF Transparent, Children
  <2>4. left \in {Ok(v), Rejected} /\ right \in {Ok(v), Rejected}
    BY <1>8, <2>1, <2>3
  <2>5. base = IF Overflow \in {left, right} THEN Overflow
               ELSE IF Rejected \in {left, right} THEN Rejected ELSE Merge(left.data, right.data)
    BY <1>18 DEF ParseBase, ParseIntersection, base
  <2> HIDE DEF left, right
  <2>6. Merge(v, v) = Ok(v)
    BY DEF IsWorld, MergeRule
  <2> QED
    BY <1>9, <2>4, <2>5, <2>6, OutcomesDiffer
<1>19. CASE s.kind \in {"nullable", "optional"}
  <2>1. n.kind = s.kind /\ n.inner = Input(s.inner)
    BY <1>7, <1>19, Described DEF Input, n
  <2>2. KeepsScalars(g, Input(s.inner)) /\ s.inner \in Parts(s)
    BY <1>11, <1>19, <2>1 DEF Transparent, Children, Parts
  <2> QED
    BY <1>8, <1>9, <1>19, <2>2 DEF ParseBase, base
<1>20. CASE s.kind \in {"transform", "lazy", "pipeline"}
  <2>1. n.kind \in {"transform", "reference"}
    BY <1>7, <1>20, Described DEF Input, n
  <2> QED
    BY <1>11, <2>1
<1>21. CASE s.kind = "defined"
  <2> DEFINE x == ExcludeUndefined(Input(s.inner))
  <2>1. n = Refined(x, s.refs)
    BY <1>7, <1>21, Described DEF Input, n
  <2>2. Input(s.inner) \in g.excluded /\ s.inner \in Parts(s)
    BY <1>21 DEF DescribesInput, Input, Parts
  <2>3. x \in g.nodes /\ s.refs \in Seq(Ids)
    BY <1>7, <1>10, <2>2, Excluded DEF IsSchema
  <2>4. KeepsScalars(g, n)
    BY <1>5 DEF n
  <2> HIDE DEF x
  <2>5. KeepsScalars(g, x)
    BY <1>10, <2>1, <2>3, <2>4, RefinedKeeps
  <2>6. KeepsScalars(g, Input(s.inner))
    BY <1>10, <2>2, <2>5, ExcludedKeeps DEF x
  <2>7. Parse(s.inner, v, h, d) \in {Ok(v), Rejected}
    BY <1>8, <2>2, <2>6
  <2> QED
    BY <1>9, <1>21, <2>7 DEF ParseBase, ParseDefined, base
<1> QED
  BY <1>7, <1>12, <1>13, <1>14, <1>15, <1>16, <1>17, <1>18, <1>19, <1>20, <1>21
  DEF IsSchema, Leaves

-----------------------------------------------------------------------------
(* What the graph of a target accepts, its schema does not reject. *)

\* A parse whose base does not reject, and whose checks hold, does not reject.
LEMMA BaseKeeps ==
  ASSUME NEW s, NEW v, NEW h, NEW d, ParseBase(s, v, h, d) # Rejected,
         Range(s.refs) \subseteq h \cup Warnings
  PROVE  ParseRule(s, v, h, d) # Rejected
BY DEF ParseRule

\* By induction on the depth and the size of the schema.
LEMMA MeantIsNotRejected ==
  ASSUME NEW w, NEW g, IsWorld(w), DescribesInput(g, w), ~g.upper,
         "anonymous" \notin g.holds \cup Warnings, KeepsDefined(w, g)
  PROVE  \A s \in w.schemas, d \in Nat, v \in g.values :
           Means(g, Input(s), v, d) => Parse(s, v, g.holds, d) # Rejected
<1> DEFINE h == g.holds
           Fits(s, d) == \A v \in g.values : Means(g, Input(s), v, d) => Parse(s, v, h, d) # Rejected
           Bad == {x \in w.schemas \X Nat : ~Fits(x[1], x[2])}
<1>1. SUFFICES ASSUME Bad # {} PROVE FALSE
  <2> SUFFICES ASSUME NEW s \in w.schemas, NEW d \in Nat PROVE Fits(s, d)
    OBVIOUS
  <2>1. <<s, d>> \notin Bad
    BY <1>1
  <2> HIDE DEF Fits
  <2> QED
    BY <2>1
<1>2. \A s \in w.schemas : w.size[s] \in Nat
  BY DEF IsWorld, IsSchema
<1>3. Bad \in SUBSET (w.schemas \X Nat)
  OBVIOUS
<1> HIDE DEF Bad
<1>4. PICK s \in w.schemas, d \in Nat :
           /\ <<s, d>> \in Bad
           /\ \A r \in w.schemas, e \in Nat :
                e < d \/ (e = d /\ w.size[r] < w.size[s]) => <<r, e>> \notin Bad
  BY <1>1, <1>2, <1>3, SmallestSchema
<1>5. PICK v \in g.values : Means(g, Input(s), v, d) /\ Parse(s, v, h, d) = Rejected
  BY <1>4 DEF Bad
<1>6. \A r \in w.schemas, e \in Nat : e < d \/ (e = d /\ w.size[r] < w.size[s]) =>
        \A x \in g.values : Means(g, Input(r), x, e) => Parse(r, x, h, e) # Rejected
  <2> SUFFICES ASSUME NEW r \in w.schemas, NEW e \in Nat, e < d \/ (e = d /\ w.size[r] < w.size[s])
               PROVE  Fits(r, e)
    OBVIOUS
  <2>1. <<r, e>> \notin Bad
    BY <1>4
  <2> HIDE DEF Fits
  <2> QED
    BY <2>1 DEF Bad
<1> HIDE DEF Fits, h
<1>7. IsSchema(s, w) /\ Input(s) = DescribeRule(s, "input") /\ Parse(s, v, h, d) = ParseRule(s, v, h, d)
  BY DEF IsWorld, Input
<1>8. \A c \in Parts(s) : /\ c \in w.schemas
                          /\ \A x : IsResult(Parse(c, x, h, d))
                          /\ \A x \in g.values : Means(g, Input(c), x, d) => Parse(c, x, h, d) # Rejected
  BY <1>6, <1>7, Results DEF IsSchema
<1> DEFINE base == ParseBase(s, v, h, d)
           n == Input(s)
<1>9. n \in g.nodes /\ Accepts(Meaning(g), g, n, v, d) /\ RefsHold(g, n)
  BY <1>5, Unfold DEF DescribesInput, Input, Accepts
<1>10. n.refs = s.refs => base = Rejected
  BY <1>5, <1>7, <1>9, BaseKeeps DEF RefsHold, h
<1>11. /\ v.tag = "array" => v.items \in Seq(g.values) /\ \A i \in DOMAIN v.items : v.items[i] \in g.values
       /\ v.tag = "object" => \A k \in DOMAIN v.props : v.props[k] \in g.values
  BY DEF DescribesInput, IsWellFormed, IsGraph, IsValue
<1> HIDE DEF base, n
<1>13. CASE s.kind \in Leaves
  <2>1. n.kind = s.kind /\ \A f \in NodeFields(s.kind) : n[f] = s[f]
    BY <1>7, <1>13, DescribedLeaf DEF Input, n
  <2>2. /\ n.refs = s.refs
        /\ s.kind = "string" => n.min = s.min /\ n.max = s.max /\ n.pattern = s.pattern
        /\ s.kind = "number" => n.integer = s.integer /\ n.min = s.min /\ n.max = s.max /\ n.multiple = s.multiple
        /\ s.kind = "literal" => n.lit = s.lit
        /\ s.kind = "enum" => n.values = s.values
    BY <2>1 DEF NodeFields
  <2>3. base = Rejected
    BY <1>10, <2>2
  <2>4. CASE s.kind = "string"
    <3>1. v.tag = "string" /\ StringAccepts(n, v.text)
      BY <1>9, <2>1, <2>4 DEF Accepts
    <3>2. StringAccepts(s, v.text)
      BY <2>2, <2>4, <3>1 DEF StringAccepts
    <3> QED
      BY <2>3, <2>4, <3>1, <3>2, OutcomesDiffer DEF ParseBase, Accept, base
  <2>5. CASE s.kind = "number"
    <3>1. v.tag = "number" /\ NumberAccepts(n, v.num)
      BY <1>9, <2>1, <2>5 DEF Accepts
    <3>2. NumberAccepts(s, v.num)
      BY <2>2, <2>5, <3>1 DEF NumberAccepts
    <3> QED
      BY <2>3, <2>5, <3>1, <3>2, OutcomesDiffer DEF ParseBase, Accept, base
  <2>6. CASE s.kind = "boolean"
    BY <1>9, <2>1, <2>3, <2>6, OutcomesDiffer DEF Accepts, ParseBase, Accept, base
  <2>7. CASE s.kind \in {"literal", "enum"}
    BY <1>9, <2>1, <2>2, <2>3, <2>7, OutcomesDiffer DEF Accepts, ParseBase, Accept, base
  <2>8. CASE s.kind = "unknown"
    BY <2>3, <2>8, OutcomesDiffer DEF ParseBase, base
  <2>9. CASE s.kind = "never"
    BY <1>9, <2>1, <2>9 DEF Accepts
  <2> QED
    BY <1>13, <2>4, <2>5, <2>6, <2>7, <2>8, <2>9 DEF Leaves
<1>14. CASE s.kind = "array"
  <2>1. n.kind = "array" /\ n.refs = s.refs /\ n.item = Input(s.item) /\ n.min = s.min /\ n.max = s.max
    BY <1>7, <1>14, Described DEF Input, n
  <2>2. /\ v.tag = "array" /\ Len(v.items) >= s.min /\ Len(v.items) <= s.max
        /\ \A i \in DOMAIN v.items : Means(g, Input(s.item), v.items[i], d)
    BY <1>9, <2>1 DEF Accepts, Means
  <2> DEFINE parts == ParseItems([i \in DOMAIN v.items |-> s.item], v, h, d)
             fine == Len(v.items) >= s.min /\ Len(v.items) <= s.max
             out == List([i \in DOMAIN parts |-> parts[i].data])
  <2>3. base = Gather(Range(parts), fine, out)
    BY <1>14, <2>2 DEF ParseBase, ParseArray, base
  <2>4. DOMAIN parts = DOMAIN v.items /\ \A i \in DOMAIN v.items : parts[i] = Parse(s.item, v.items[i], h, d)
    BY DEF ParseItems
  <2> HIDE DEF parts
  <2>5. s.item \in Parts(s)
    BY <1>14 DEF Parts
  <2>6. \A i \in DOMAIN v.items : parts[i] # Rejected
    BY <1>8, <1>11, <2>2, <2>4, <2>5
  <2>7. fine /\ Rejected \notin Range(parts)
    BY <2>2, <2>4, <2>6 DEF Range
  <2> HIDE DEF fine, out
  <2> QED
    BY <1>10, <2>1, <2>3, <2>7, Gathered
<1>15. CASE s.kind = "tuple"
  <2>1. n.kind = "tuple" /\ n.refs = s.refs /\ n.items = [i \in DOMAIN s.items |-> Input(s.items[i])]
    BY <1>7, <1>15, Described DEF Input, n
  <2>2. /\ v.tag = "array" /\ Len(v.items) = Len(n.items)
        /\ \A i \in DOMAIN n.items : Means(g, n.items[i], v.items[i], d)
    BY <1>9, <2>1 DEF Accepts, Means
  <2>3. s.items \in Seq(w.schemas) /\ Len(n.items) = Len(s.items) /\ DOMAIN n.items = DOMAIN s.items
    BY <1>7, <1>15, <2>1 DEF IsSchema
  <2>4. DOMAIN v.items = DOMAIN s.items /\ \A i \in DOMAIN s.items : Means(g, Input(s.items[i]), v.items[i], d)
    <3>1. v.items \in Seq(g.values) /\ Len(v.items) = Len(s.items)
      BY <1>11, <2>2, <2>3
    <3>2. DOMAIN v.items = DOMAIN s.items
      BY <2>3, <3>1
    <3> QED
      BY <2>1, <2>2, <2>3, <3>2
  <2> DEFINE parts == ParseItems(s.items, v, h, d)
             out == List([i \in DOMAIN parts |-> parts[i].data])
  <2>5. base = Gather(Range(parts), TRUE, out)
    BY <1>15, <2>2, <2>3 DEF ParseBase, ParseTuple, base
  <2>6. DOMAIN parts = DOMAIN v.items /\ \A i \in DOMAIN v.items : parts[i] = Parse(s.items[i], v.items[i], h, d)
    BY DEF ParseItems
  <2> HIDE DEF parts
  <2>7. \A i \in DOMAIN s.items : s.items[i] \in Parts(s)
    BY <1>15 DEF Parts, Range
  <2>8. \A i \in DOMAIN v.items : parts[i] # Rejected
    BY <1>8, <1>11, <2>2, <2>4, <2>6, <2>7
  <2>9. Rejected \notin Range(parts)
    BY <2>6, <2>8 DEF Range
  <2> HIDE DEF out
  <2> QED
    BY <1>10, <2>1, <2>5, <2>9, Gathered
<1>16. CASE s.kind = "union"
  <2>1. n.kind = "union" /\ n.refs = s.refs /\ n.choices = [i \in DOMAIN s.choices |-> Input(s.choices[i])]
    BY <1>7, <1>16, Described DEF Input, n
  <2>2. PICK j \in DOMAIN s.choices : Means(g, Input(s.choices[j]), v, d)
    BY <1>9, <2>1 DEF Accepts, Means
  <2>3. s.choices[j] \in Parts(s)
    BY <1>16, <2>2 DEF Parts, Range
  <2> DEFINE tried == [i \in DOMAIN s.choices |-> Parse(s.choices[i], v, h, d)]
             settled == {i \in DOMAIN tried : tried[i] # Rejected}
             first == Min(settled)
  <2>4. base = IF settled = {} THEN Rejected ELSE tried[first]
    BY <1>16 DEF ParseBase, ParseUnion, base
  <2>5. settled \in SUBSET Nat
    BY <1>7, <1>16 DEF IsSchema
  <2>6. j \in settled
    BY <1>8, <2>2, <2>3
  <2>7. \A i \in settled : tried[i] # Rejected
    OBVIOUS
  <2> HIDE DEF tried, settled
  <2>8. first \in settled
    BY <2>5, <2>6, LeastIndex
  <2> QED
    BY <1>10, <2>1, <2>4, <2>6, <2>7, <2>8
<1>17. CASE s.kind = "discriminatedUnion"
  <2>1. n.kind = "discriminatedUnion"
    BY <1>7, <1>17, Described DEF Input, n
  <2> QED
    BY <1>9, <2>1 DEF Accepts
<1>18. CASE s.kind = "intersection"
  <2> DEFINE left == Parse(s.left, v, h, d)
             right == Parse(s.right, v, h, d)
  <2>1. s.left \in Parts(s) /\ s.right \in Parts(s)
    BY <1>18 DEF Parts
  <2>2. n.kind = "intersection" /\ n.refs = s.refs /\ n.left = Input(s.left) /\ n.right = Input(s.right)
    BY <1>7, <1>18, Described DEF Input, n
  <2>3. IsLiteralAcceptanceDecidable(n) /\ IsScalar(v) /\ AcceptsLiteral(n, v)
    BY <1>9, <2>2 DEF Accepts
  <2>4. IsGraph(g) /\ NodeRules(g)
    BY DEF DescribesInput, IsWellFormed
  <2>5. /\ IsLiteralAcceptanceDecidable(n.left) /\ IsLiteralAcceptanceDecidable(n.right)
        /\ AcceptsLiteral(n.left, v) /\ AcceptsLiteral(n.right, v)
    <3>1. IsLiteralAcceptanceDecidableRule(n) /\ AcceptsLiteralRule(n, v)
      BY <1>9, <2>3, <2>4 DEF NodeRules
    <3>2. Children(n) = {n.left, n.right}
      BY <2>2 DEF Children
    <3> QED
      BY <2>2, <3>1, <3>2 DEF IsLiteralAcceptanceDecidableRule, AcceptsLiteralRule
  <2>6. n.left \in g.nodes /\ n.right \in g.nodes
    BY <1>8, <2>1, <2>2 DEF DescribesInput, Input
  <2>7. Means(g, n.left, v, d) /\ Means(g, n.right, v, d)
    BY <2>3, <2>4, <2>5, <2>6, LiteralAccepted
  <2>8. KeepsScalars(g, n.left) /\ KeepsScalars(g, n.right)
    BY <2>4, <2>5, <2>6, DecidableKeeps
  <2>9. left = Ok(v) /\ right = Ok(v)
    <3>1. left # Rejected /\ right # Rejected
      BY <1>8, <2>1, <2>2, <2>7
    <3>2. left \in {Ok(v), Rejected} /\ right \in {Ok(v), Rejected}
      BY <1>8, <2>1, <2>2, <2>3, <2>8, ScalarsKept
    <3> QED
      BY <3>1, <3>2
  <2>10. base = IF Overflow \in {left, right} THEN Overflow
                ELSE IF Rejected \in {left, right} THEN Rejected ELSE Merge(left.data, right.data)
    BY <1>18 DEF ParseBase, ParseIntersection, base
  <2> HIDE DEF left, right
  <2>11. Merge(v, v) = Ok(v)
    BY DEF IsWorld, MergeRule
  <2> QED
    BY <1>10, <2>2, <2>9, <2>10, <2>11, OutcomesDiffer
<1>19. CASE s.kind = "object"
  <2>1. /\ n.kind = "object" /\ n.refs = s.refs /\ n.policy = s.policy
        /\ n.shape = [k \in DOMAIN s.shape |-> Input(s.shape[k])]
        /\ n.required = {k \in DOMAIN s.shape : ~MayBeAbsent(s.shape[k])}
    BY <1>7, <1>19, Described DEF Input, n
  <2>2. /\ v.tag = "object" /\ n.required \subseteq DOMAIN v.props
        /\ n.policy = "reject" => DOMAIN v.props \subseteq DOMAIN n.shape
        /\ \A k \in DOMAIN n.shape \cap DOMAIN v.props : Means(g, n.shape[k], v.props[k], d)
    BY <1>9, <2>1 DEF Accepts, Means
  <2> DEFINE present == DOMAIN s.shape \cap DOMAIN v.props
             missing == {k \in DOMAIN s.shape \ present : ~MayBeAbsent(s.shape[k])}
             extra == DOMAIN v.props \ present
             parts == [k \in present |-> Parse(s.shape[k], v.props[k], h, d)]
             kept == {k \in present : ~(MayBeAbsent(s.shape[k]) /\ parts[k].data = Undefined)}
             passed == IF s.policy = "passthrough" THEN extra ELSE {}
             fine == missing = {} /\ (s.policy = "reject" => extra = {})
             out == Obj([k \in kept \cup passed |-> IF k \in kept THEN parts[k].data ELSE v.props[k]])
  <2>3. base = Gather(Range(parts), fine, out)
    BY <1>19, <2>2 DEF ParseBase, ParseObject, base
  <2>4. \A k \in DOMAIN s.shape : s.shape[k] \in Parts(s)
    BY <1>19 DEF Parts, Range
  <2>5. \A k \in present : Parse(s.shape[k], v.props[k], h, d) # Rejected
    BY <1>8, <1>11, <2>1, <2>2, <2>4
  <2>6. Rejected \notin Range(parts)
    BY <2>5 DEF Range
  <2>7. fine
    BY <2>1, <2>2
  <2>8. base = Rejected
    BY <1>10, <2>1
  <2> HIDE DEF present, missing, extra, kept, passed, parts, fine, out
  <2> QED
    BY ONLY <2>3, <2>6, <2>7, <2>8, Gathered
<1>20. CASE s.kind = "record"
  <2>1. n.kind = "record" /\ n.refs = s.refs /\ n.key = s.key /\ n.each = Input(s.each)
    BY <1>7, <1>20, Described DEF Input, n
  <2>2. /\ v.tag = "object" /\ \A k \in DOMAIN v.props : StringAccepts(s.key, k)
        /\ \A k \in DOMAIN v.props : Means(g, Input(s.each), v.props[k], d)
    BY <1>9, <2>1 DEF Accepts, Means
  <2> DEFINE parts == [k \in DOMAIN v.props |-> Parse(s.each, v.props[k], h, d)]
             fine == \A k \in DOMAIN v.props : StringAccepts(s.key, k)
             out == Obj([k \in DOMAIN parts |-> parts[k].data])
  <2>3. base = Gather(Range(parts), fine, out)
    BY <1>20, <2>2 DEF ParseBase, ParseRecord, base
  <2>4. s.each \in Parts(s)
    BY <1>20 DEF Parts
  <2>5. fine /\ Rejected \notin Range(parts)
    BY <1>8, <1>11, <2>2, <2>4 DEF Range
  <2> HIDE DEF parts, fine, out
  <2> QED
    BY <1>10, <2>1, <2>3, <2>5, Gathered
<1>21. CASE s.kind \in {"nullable", "optional", "transform"}
  <2>1. s.inner \in Parts(s)
    BY <1>21 DEF Parts
  <2>2. n.kind = s.kind /\ n.refs = s.refs /\ n.inner = Input(s.inner)
    BY <1>7, <1>21, Described DEF Input, n
  <2>3. /\ s.kind = "nullable" => v = Null \/ Means(g, Input(s.inner), v, d)
        /\ s.kind = "optional" => v = Undefined \/ Means(g, Input(s.inner), v, d)
        /\ s.kind = "transform" => Means(g, Input(s.inner), v, d)
    BY <1>9, <1>21, <2>2 DEF Accepts, Means
  <2>4. Means(g, Input(s.inner), v, d) => Parse(s.inner, v, h, d) # Rejected
    BY <1>8, <2>1
  <2>5. base = Rejected
    BY <1>10, <2>2
  <2>6. CASE s.kind = "nullable"
    BY <2>3, <2>4, <2>5, <2>6, OutcomesDiffer DEF ParseBase, base
  <2>7. CASE s.kind = "optional"
    BY <2>3, <2>4, <2>5, <2>7, OutcomesDiffer DEF ParseBase, base
  <2>8. CASE s.kind = "transform"
    BY <2>3, <2>4, <2>5, <2>8, OutcomesDiffer DEF ParseBase, ParseTransform, base
  <2> QED
    BY <1>21, <2>6, <2>7, <2>8
<1>22. CASE s.kind = "lazy"
  <2>1. n.kind = "reference" /\ n.refs = s.refs /\ n.to = s.to
    BY <1>7, <1>22, Described DEF Input, n
  <2>2. g.definitions[n.to] = Input(Definitions[s.to])
    BY <1>22, <2>1 DEF DescribesInput, Input
  <2>3. d # 0 => Means(g, Input(Definitions[s.to]), v, d - 1)
    BY <1>9, <2>1, <2>2 DEF Accepts, Means
  <2>4. d # 0 => d - 1 \in Nat /\ d - 1 < d
    OBVIOUS
  <2>5. d # 0 => Parse(Definitions[s.to], v, h, d - 1) # Rejected
    BY <1>6, <1>7, <1>22, <2>3, <2>4 DEF IsSchema
  <2> QED
    BY <1>10, <1>22, <2>1, <2>5, OutcomesDiffer DEF ParseBase, base
<1>23. CASE s.kind = "defined"
  <2> DEFINE x == ExcludeUndefined(Input(s.inner))
  <2>1. n = Refined(x, s.refs)
    BY <1>7, <1>23, Described DEF Input, n
  <2>2. s.inner \in Parts(s) /\ Input(s.inner) \in g.excluded /\ IsWellFormed(g)
    BY <1>23 DEF DescribesInput, Input, Parts
  <2>3. x \in g.nodes /\ HasFields(x) /\ s.refs \in Seq(Ids) /\ NodeRules(g)
    BY <1>7, <2>2, Excluded DEF IsWellFormed, IsSchema
  <2>4. Means(g, n, v, d)
    BY <1>5 DEF n
  <2> HIDE DEF x
  <2>5. Means(g, x, v, d) /\ Range(s.refs) \subseteq g.holds \cup Warnings
    BY <1>9, <2>1, <2>3, <2>4, RefinedMeans
  <2>6. Means(g, Input(s.inner), v, d) /\ v # Undefined
    BY <2>2, <2>5, ExcludedRejects DEF x
  <2>7. Parse(s.inner, v, h, d) # Rejected
    BY <1>8, <2>2, <2>6
  <2>8. Parse(s.inner, v, h, d) # Ok(Undefined)
    BY <1>23, <2>6 DEF KeepsDefined, h
  <2>9. base = Parse(s.inner, v, h, d)
    BY <1>23, <2>6, <2>8 DEF ParseBase, ParseDefined, base
  <2> QED
    BY <1>5, <1>7, <2>5, <2>7, <2>9, BaseKeeps DEF base, h
<1>24. CASE s.kind = "pipeline"
  <2>1. "anonymous" \in Range(n.refs)
    BY <1>7, <1>24, Described DEF Input, n
  <2> QED
    BY <1>9, <2>1 DEF RefsHold
<1> QED
  BY <1>7, <1>13, <1>14, <1>15, <1>16, <1>17, <1>18, <1>19, <1>20, <1>21, <1>22, <1>23, <1>24
  DEF IsSchema

\* Two schemas whose contracts compare as safe: what the source accepts the target
\* does not reject, for every value, and however often their lazy schemas resolve.
THEOREM SafeSchemas ==
  ASSUME NEW ws, NEW wt, NEW gs, NEW gt, NEW holds,
         IsWorld(ws), DescribesInput(gs, ws), IsWorld(wt), DescribesInput(gt, wt),
         KeepsDefined(wt, gt), "anonymous" \notin holds \cup Warnings, IsComparison(gs, gt, holds),
         NEW s \in ws.schemas, NEW t \in wt.schemas,
         Status(Compare(Input(s), Input(t), Context(gs, gt, {}))) = "safe",
         NEW v \in gs.values, NEW ds \in Nat, NEW dt \in Nat,
         Parse(s, v, holds \cup {"anonymous"}, ds).is = "ok"
  PROVE  Parse(t, v, holds, dt) # Rejected
<1>1. /\ gs.upper /\ ~gt.upper /\ gs.values = gt.values
      /\ gt.holds = holds /\ gs.holds = holds \cup {"anonymous"}
  BY DEF IsComparison
<1>2. Means(gs, Input(s), v, ds)
  BY <1>1, AcceptedIsMeant
<1>3. Input(s) \in gs.nodes /\ Input(t) \in gt.nodes
  BY DEF DescribesInput, Input
<1>4. Means(gt, Input(t), v, dt)
  BY <1>2, <1>3, SafeContracts
<1> QED
  BY <1>1, <1>4, MeantIsNotRejected

=============================================================================
