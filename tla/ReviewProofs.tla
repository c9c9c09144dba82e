----------------------------- MODULE ReviewProofs -----------------------------
(***************************************************************************)
(* Proofs about ContractReview for every pool of schemas.                  *)
(*                                                                         *)
(* A snapshot is read back: what is kept of a node is accepted, written    *)
(* again as it is and means the node, by induction over its size; and the  *)
(* definitions that are reached from a root are the smallest set that is   *)
(* closed, so that none of them can be missing.  On that rests what        *)
(* comparisons report of contracts with anonymous checks.                  *)
(*                                                                         *)
(* A witness is real: the contracts that are searched parse as the schemas *)
(* that are reconstructed from their nodes, whatever checks hold, so that  *)
(* a value which tells those apart tells the contracts apart, and          *)
(* ContractProofs refutes every comparison that called the pair safe.      *)
(***************************************************************************)
EXTENDS ContractReview, ContractProofs

-----------------------------------------------------------------------------
(* Nodes whose children are replaced. *)

\* A function that is changed twice at one place.
LEMMA Twice ==
  ASSUME NEW f, NEW a, NEW x, NEW y
  PROVE  [[f EXCEPT ![a] = x] EXCEPT ![a] = y] = [f EXCEPT ![a] = y]
OBVIOUS

\* A field that is given the value it has.
LEMMA Unchanged ==
  ASSUME NEW f, NEW S, f = [a \in S |-> f[a]], NEW a
  PROVE  [f EXCEPT ![a] = f[a]] = f
OBVIOUS

\* The fields that hold the children of a node.
LEMMA ReplacedFields ==
  ASSUME NEW n, NEW new
  PROVE  LET m == WithChildren(n, new) IN
         /\ n.kind = "array" => m = [n EXCEPT !["item"] = new[n.item]]
         /\ n.kind = "tuple" => m = [n EXCEPT !["items"] = [i \in DOMAIN n.items |-> new[n.items[i]]]]
         /\ n.kind \in {"union", "discriminatedUnion"} =>
              m = [n EXCEPT !["choices"] = [i \in DOMAIN n.choices |-> new[n.choices[i]]]]
         /\ n.kind = "intersection" => m = [n EXCEPT !["left"] = new[n.left], !["right"] = new[n.right]]
         /\ n.kind = "object" => m = [n EXCEPT !["shape"] = [k \in DOMAIN n.shape |-> new[n.shape[k]]]]
         /\ n.kind = "record" => m = [n EXCEPT !["each"] = new[n.each]]
         /\ n.kind \in {"nullable", "optional", "transform"} => m = [n EXCEPT !["inner"] = new[n.inner]]
         /\ n.kind \notin {"array", "tuple", "union", "discriminatedUnion", "intersection", "object",
                           "record", "nullable", "optional", "transform"} => m = n
BY DEF WithChildren

-----------------------------------------------------------------------------
(* Snapshots. *)

\* A node as a file has it, once the file is parsed again.
Kept(n) == Written(Encoded(n))

\* A literal that a snapshot can hold.
IsLiteral(v) ==
  v \in {Null, Undefined, NotANumber} \/ v.tag \in {"string", "boolean", "number"}

\* A node that the builders of schemas let through.
IsStorable(n) ==
  /\ HasFields(n)
  /\ n.kind = "tuple" => n.items = [i \in DOMAIN n.items |-> n.items[i]]
  /\ n.kind \in {"union", "discriminatedUnion"} =>
       n.choices = [i \in DOMAIN n.choices |-> n.choices[i]]
  /\ n.kind = "object" =>
       n.shape = [k \in DOMAIN n.shape |-> n.shape[k]] /\ n.required \subseteq DOMAIN n.shape
  /\ n.kind \in {"string", "array"} => LengthsParse(n.min, n.max)
  /\ n.kind = "record" => LengthsParse(n.key.min, n.key.max)
  /\ n.kind = "number" => NumberParses(n)
  /\ n.kind = "literal" => IsLiteral(n.lit)
  /\ n.kind = "enum" => EnumParses(n.values)
  /\ n.kind = "discriminatedUnion" => ChoicesParse(n)

\* Nodes with everything below them, and the rules of what is done with them.
IsForest(f) ==
  \A n \in f.nodes :
    /\ f.size[n] \in Nat /\ \A c \in Children(n) : c \in f.nodes /\ f.size[c] < f.size[n]
    /\ IsStorable(n)

SnapshotRules(f) ==
  \A n \in f.nodes :
    /\ Encoded(n) = EncodedRule(n)
    /\ Written(Encoded(n)) = WrittenRule(Encoded(n))
    /\ Written(Kept(n)) = WrittenRule(Kept(n))
    /\ NodeParses(Kept(n)) <=> NodeParsesRule(Kept(n))
    /\ Meant(Kept(n)) = MeantRule(Kept(n))
    /\ Named(n) = NamedRule(n) /\ Named(Kept(n)) = NamedRule(Kept(n))

\* Literals survive.
LEMMA LiteralsSurvive ==
  ASSUME NEW v, IsLiteral(v)
  PROVE  /\ Jsoned(EncodeLiteral(v)) = EncodeLiteral(v)
         /\ Decoded(EncodeLiteral(v)) = v
         /\ LiteralParses(EncodeLiteral(v))
<1>1. CASE v \in {Undefined, NotANumber, MinusZero}
  BY <1>1 DEF Jsoned, EncodeLiteral, Decoded, LiteralParses, Special, Undefined, NotANumber, MinusZero
<1>2. CASE v \notin {Undefined, NotANumber, MinusZero}
  <2>1. EncodeLiteral(v) = v /\ Jsoned(v) = v
    BY <1>2 DEF EncodeLiteral, Jsoned
  <2>2. v = Null \/ v.tag \in {"string", "boolean", "number"}
    BY <1>2 DEF IsLiteral
  <2>3. v.tag # "special"
    BY <2>2 DEF Null
  <2>4. Decoded(v) = v
    BY <2>3 DEF Decoded, Special
  <2>5. LiteralParses(v)
    BY <2>2 DEF LiteralParses, IsFinite
  <2> QED
    BY <2>1, <2>4, <2>5
<1> QED
  BY <1>1, <1>2

\* Words survive as they are.
LEMMA WordsSurvive ==
  ASSUME NEW values, EnumParses(values)
  PROVE  {Jsoned(v) : v \in values} = values /\ \A v \in values : EncodeLiteral(v) = v
<1>1. ASSUME NEW v \in values PROVE Jsoned(v) = v /\ EncodeLiteral(v) = v
  <2>1. v.tag \in {"string", "number"} /\ v # MinusZero
    BY DEF EnumParses, IsWord, IsFinite
  <2>2. v # NotANumber /\ v # Undefined
    BY <2>1 DEF NotANumber, Undefined
  <2> QED
    BY <2>1, <2>2 DEF Jsoned, EncodeLiteral
<1> QED
  BY <1>1

\* What is kept of a node: the encoded literal, and what is kept of its children.
LEMMA KeptFields ==
  ASSUME NEW f, IsForest(f), SnapshotRules(f), NEW n \in f.nodes
  PROVE  LET k == Kept(n) IN
         /\ n.kind = "array" => k = [n EXCEPT !["item"] = Kept(n.item)]
         /\ n.kind = "tuple" => k = [n EXCEPT !["items"] = [i \in DOMAIN n.items |-> Kept(n.items[i])]]
         /\ n.kind \in {"union", "discriminatedUnion"} =>
              k = [n EXCEPT !["choices"] = [i \in DOMAIN n.choices |-> Kept(n.choices[i])]]
         /\ n.kind = "intersection" => k = [n EXCEPT !["left"] = Kept(n.left), !["right"] = Kept(n.right)]
         /\ n.kind = "object" => k = [n EXCEPT !["shape"] = [i \in DOMAIN n.shape |-> Kept(n.shape[i])]]
         /\ n.kind = "record" => k = [n EXCEPT !["each"] = Kept(n.each)]
         /\ n.kind \in {"nullable", "optional", "transform"} => k = [n EXCEPT !["inner"] = Kept(n.inner)]
         /\ n.kind = "literal" => k = [n EXCEPT !["lit"] = EncodeLiteral(n.lit)]
         /\ n.kind \notin {"array", "tuple", "union", "discriminatedUnion", "intersection", "object",
                           "record", "nullable", "optional", "transform", "literal"} => k = n
<1> DEFINE e == Encoded(n)
           encode == [c \in Children(n) |-> Encoded(c)]
           write == [c \in Children(e) |-> Written(c)]
           a == WithChildren(n, encode)
           b == WithChildren(e, write)
<1>1. /\ HasFields(n)
      /\ e = IF n.kind = "literal" THEN [a EXCEPT !["lit"] = EncodeLiteral(a["lit"])] ELSE a
      /\ Kept(n) = CASE e.kind = "literal" -> [b EXCEPT !["lit"] = Jsoned(b["lit"])]
                     [] e.kind = "enum" -> [b EXCEPT !["values"] = {Jsoned(v) : v \in b["values"]}]
                     [] OTHER -> b
  BY DEF IsForest, IsStorable, SnapshotRules, EncodedRule, WrittenRule, Kept
<1>2. "kind" \in DOMAIN n
  BY <1>1 DEF HasFields, NodeFields
<1>3. CASE n.kind = "array"
  <2>1. "item" \in DOMAIN n
    BY <1>1, <1>3 DEF HasFields, NodeFields
  <2>2. n.item \in Children(n)
    BY <1>3 DEF Children
  <2>3. e = [n EXCEPT !["item"] = Encoded(n.item)]
    BY <1>1, <1>3, <2>2, ReplacedFields
  <2>4. e.kind = "array" /\ e.item = Encoded(n.item)
    BY <1>2, <1>3, <2>1, <2>3
  <2>5. e.item \in Children(e)
    BY <2>4 DEF Children
  <2>6. b = [e EXCEPT !["item"] = Written(e.item)]
    BY <2>4, <2>5, ReplacedFields
  <2>7. Kept(n) = b
    BY <1>1, <2>4
  <2> QED
    BY <1>3, <2>3, <2>4, <2>6, <2>7, Twice DEF Kept
<1>4. CASE n.kind = "tuple"
  <2>1. "items" \in DOMAIN n
    BY <1>1, <1>4 DEF HasFields, NodeFields
  <2>2. \A i \in DOMAIN n.items : n.items[i] \in Children(n)
    BY <1>4 DEF Children, Range
  <2>3. e = [n EXCEPT !["items"] = [i \in DOMAIN n.items |-> Encoded(n.items[i])]]
    <3>1. e = [n EXCEPT !["items"] = [i \in DOMAIN n.items |-> encode[n.items[i]]]]
      BY <1>1, <1>4, ReplacedFields
    <3>2. [i \in DOMAIN n.items |-> encode[n.items[i]]] = [i \in DOMAIN n.items |-> Encoded(n.items[i])]
      BY <2>2
    <3> QED
      BY ONLY <3>1, <3>2
  <2>4. e.kind = n.kind /\ e.items = [i \in DOMAIN n.items |-> Encoded(n.items[i])]
    BY <1>2, <2>1, <2>3
  <2>5. \A i \in DOMAIN e.items : e.items[i] \in Children(e)
    BY <1>4, <2>4 DEF Children, Range
  <2>6. b = [e EXCEPT !["items"] = [i \in DOMAIN e.items |-> Written(e.items[i])]]
    <3>0. e.kind = "tuple"
      BY <1>4, <2>4
    <3>1. b = [e EXCEPT !["items"] = [i \in DOMAIN e.items |-> write[e.items[i]]]]
      BY ONLY <3>0, ReplacedFields
    <3>2. [i \in DOMAIN e.items |-> write[e.items[i]]] = [i \in DOMAIN e.items |-> Written(e.items[i])]
      BY <2>5
    <3> QED
      BY ONLY <3>1, <3>2
  <2>7. Kept(n) = b
    BY <1>1, <1>4, <2>4
  <2>8. [i \in DOMAIN e.items |-> Written(e.items[i])] = [i \in DOMAIN n.items |-> Kept(n.items[i])]
    BY <2>4 DEF Kept
  <2> QED
    BY <1>4, <2>3, <2>6, <2>7, <2>8, Twice
<1>5. CASE n.kind \in {"union", "discriminatedUnion"}
  <2>1. "choices" \in DOMAIN n
    BY <1>1, <1>5 DEF HasFields, NodeFields
  <2>2. \A i \in DOMAIN n.choices : n.choices[i] \in Children(n)
    BY <1>5 DEF Children, Range
  <2>3. e = [n EXCEPT !["choices"] = [i \in DOMAIN n.choices |-> Encoded(n.choices[i])]]
    <3>1. e = [n EXCEPT !["choices"] = [i \in DOMAIN n.choices |-> encode[n.choices[i]]]]
      BY <1>1, <1>5, ReplacedFields
    <3>2. [i \in DOMAIN n.choices |-> encode[n.choices[i]]] = [i \in DOMAIN n.choices |-> Encoded(n.choices[i])]
      BY <2>2
    <3> QED
      BY ONLY <3>1, <3>2
  <2>4. e.kind = n.kind /\ e.choices = [i \in DOMAIN n.choices |-> Encoded(n.choices[i])]
    BY <1>2, <2>1, <2>3
  <2>5. \A i \in DOMAIN e.choices : e.choices[i] \in Children(e)
    BY <1>5, <2>4 DEF Children, Range
  <2>6. b = [e EXCEPT !["choices"] = [i \in DOMAIN e.choices |-> Written(e.choices[i])]]
    <3>0. e.kind \in {"union", "discriminatedUnion"}
      BY <1>5, <2>4
    <3>1. b = [e EXCEPT !["choices"] = [i \in DOMAIN e.choices |-> write[e.choices[i]]]]
      BY ONLY <3>0, ReplacedFields
    <3>2. [i \in DOMAIN e.choices |-> write[e.choices[i]]] = [i \in DOMAIN e.choices |-> Written(e.choices[i])]
      BY <2>5
    <3> QED
      BY ONLY <3>1, <3>2
  <2>7. Kept(n) = b
    BY <1>1, <1>5, <2>4
  <2>8. [i \in DOMAIN e.choices |-> Written(e.choices[i])] = [i \in DOMAIN n.choices |-> Kept(n.choices[i])]
    BY <2>4 DEF Kept
  <2> QED
    BY <1>5, <2>3, <2>6, <2>7, <2>8, Twice
<1>6. CASE n.kind = "intersection"
  <2>1. "left" \in DOMAIN n /\ "right" \in DOMAIN n
    BY <1>1, <1>6 DEF HasFields, NodeFields
  <2>2. n.left \in Children(n) /\ n.right \in Children(n)
    BY <1>6 DEF Children
  <2>3. e = [n EXCEPT !["left"] = Encoded(n.left), !["right"] = Encoded(n.right)]
    BY <1>1, <1>6, <2>2, ReplacedFields
  <2>4. e.kind = "intersection" /\ e.left = Encoded(n.left) /\ e.right = Encoded(n.right)
    BY <1>2, <1>6, <2>1, <2>3
  <2>5. e.left \in Children(e) /\ e.right \in Children(e)
    BY <2>4 DEF Children
  <2>6. b = [e EXCEPT !["left"] = Written(e.left), !["right"] = Written(e.right)]
    BY <2>4, <2>5, ReplacedFields
  <2>7. Kept(n) = b
    BY <1>1, <2>4
  <2>8. Kept(n) = [e EXCEPT !["left"] = Kept(n.left), !["right"] = Kept(n.right)]
    BY <2>4, <2>6, <2>7 DEF Kept
  <2> QED
    BY <1>6, <2>3, <2>8
<1>7. CASE n.kind = "object"
  <2>1. "shape" \in DOMAIN n
    BY <1>1, <1>7 DEF HasFields, NodeFields
  <2>2. \A i \in DOMAIN n.shape : n.shape[i] \in Children(n)
    BY <1>7 DEF Children, Range
  <2>3. e = [n EXCEPT !["shape"] = [i \in DOMAIN n.shape |-> Encoded(n.shape[i])]]
    <3>1. e = [n EXCEPT !["shape"] = [i \in DOMAIN n.shape |-> encode[n.shape[i]]]]
      BY <1>1, <1>7, ReplacedFields
    <3>2. [i \in DOMAIN n.shape |-> encode[n.shape[i]]] = [i \in DOMAIN n.shape |-> Encoded(n.shape[i])]
      BY <2>2
    <3> QED
      BY ONLY <3>1, <3>2
  <2>4. e.kind = n.kind /\ e.shape = [i \in DOMAIN n.shape |-> Encoded(n.shape[i])]
    BY <1>2, <2>1, <2>3
  <2>5. \A i \in DOMAIN e.shape : e.shape[i] \in Children(e)
    BY <1>7, <2>4 DEF Children, Range
  <2>6. b = [e EXCEPT !["shape"] = [i \in DOMAIN e.shape |-> Written(e.shape[i])]]
    <3>0. e.kind = "object"
      BY <1>7, <2>4
    <3>1. b = [e EXCEPT !["shape"] = [i \in DOMAIN e.shape |-> write[e.shape[i]]]]
      BY ONLY <3>0, ReplacedFields
    <3>2. [i \in DOMAIN e.shape |-> write[e.shape[i]]] = [i \in DOMAIN e.shape |-> Written(e.shape[i])]
      BY <2>5
    <3> QED
      BY ONLY <3>1, <3>2
  <2>7. Kept(n) = b
    BY <1>1, <1>7, <2>4
  <2>8. [i \in DOMAIN e.shape |-> Written(e.shape[i])] = [i \in DOMAIN n.shape |-> Kept(n.shape[i])]
    BY <2>4 DEF Kept
  <2> QED
    BY <1>7, <2>3, <2>6, <2>7, <2>8, Twice
<1>8. CASE n.kind = "record"
  <2>1. "each" \in DOMAIN n
    BY <1>1, <1>8 DEF HasFields, NodeFields
  <2>2. n.each \in Children(n)
    BY <1>8 DEF Children
  <2>3. e = [n EXCEPT !["each"] = Encoded(n.each)]
    BY <1>1, <1>8, <2>2, ReplacedFields
  <2>4. e.kind = "record" /\ e.each = Encoded(n.each)
    BY <1>2, <1>8, <2>1, <2>3
  <2>5. e.each \in Children(e)
    BY <2>4 DEF Children
  <2>6. b = [e EXCEPT !["each"] = Written(e.each)]
    BY <2>4, <2>5, ReplacedFields
  <2>7. Kept(n) = b
    BY <1>1, <2>4
  <2> QED
    BY <1>8, <2>3, <2>4, <2>6, <2>7, Twice DEF Kept
<1>9. CASE n.kind \in {"nullable", "optional", "transform"}
  <2>1. "inner" \in DOMAIN n
    BY <1>1, <1>9 DEF HasFields, NodeFields
  <2>2. n.inner \in Children(n)
    BY <1>9 DEF Children
  <2>3. e = [n EXCEPT !["inner"] = Encoded(n.inner)]
    BY <1>1, <1>9, <2>2, ReplacedFields
  <2>4. e.kind = n.kind /\ e.inner = Encoded(n.inner)
    BY <1>2, <2>1, <2>3
  <2>5. e.inner \in Children(e)
    BY <1>9, <2>4 DEF Children
  <2>6. b = [e EXCEPT !["inner"] = Written(e.inner)]
    BY <1>9, <2>4, <2>5, ReplacedFields
  <2>7. Kept(n) = b
    BY <1>1, <1>9, <2>4
  <2> QED
    BY <1>9, <2>3, <2>4, <2>6, <2>7, Twice DEF Kept
<1>10. CASE n.kind = "literal"
  <2>1. "lit" \in DOMAIN n /\ IsLiteral(n.lit)
    BY <1>1, <1>10 DEF HasFields, NodeFields, IsForest, IsStorable
  <2>2. a = n
    BY <1>10, ReplacedFields
  <2>3. e = [n EXCEPT !["lit"] = EncodeLiteral(n.lit)]
    BY <1>1, <1>10, <2>2
  <2>4. e.kind = "literal" /\ e.lit = EncodeLiteral(n.lit)
    BY <1>2, <1>10, <2>1, <2>3
  <2>5. b = e
    BY <2>4, ReplacedFields
  <2>6. Kept(n) = [e EXCEPT !["lit"] = Jsoned(e.lit)]
    BY <1>1, <2>4, <2>5
  <2>7. Jsoned(e.lit) = EncodeLiteral(n.lit)
    BY <2>1, <2>4, LiteralsSurvive
  <2> QED
    BY <1>10, <2>3, <2>6, <2>7, Twice
<1>11. CASE n.kind = "enum"
  <2>1. EnumParses(n.values)
    BY <1>11 DEF IsForest, IsStorable
  <2>2. a = n
    BY <1>11, ReplacedFields
  <2>3. e = n
    BY <1>1, <1>11, <2>2
  <2>4. b = n
    BY <1>11, <2>3, ReplacedFields
  <2>5. Kept(n) = [n EXCEPT !["values"] = {Jsoned(v) : v \in n.values}]
    BY <1>1, <1>11, <2>3, <2>4
  <2>6. Kept(n) = [n EXCEPT !["values"] = n["values"]]
    BY <2>1, <2>5, WordsSurvive
  <2>7. Kept(n) = n
    BY <1>1, <2>6, Unchanged DEF HasFields
  <2> QED
    BY <1>11, <2>7
<1>12. CASE n.kind \notin {"array", "tuple", "union", "discriminatedUnion", "intersection", "object", "record", "nullable",
                          "optional", "transform", "literal", "enum"}
  <2>1. a = n
    BY <1>12, ReplacedFields
  <2>2. e = n
    BY <1>1, <1>12, <2>1
  <2>3. b = n
    BY <1>12, <2>2, ReplacedFields
  <2>4. Kept(n) = n
    BY <1>1, <1>12, <2>2, <2>3
  <2> QED
    BY <1>12, <2>4
<1> QED
  BY <1>3, <1>4, <1>5, <1>6, <1>7, <1>8, <1>9, <1>10, <1>11, <1>12

\* A node is what it was when every child is.
LEMMA SameChildren ==
  ASSUME NEW n, IsStorable(n), NEW new, \A c \in Children(n) : new[c] = c
  PROVE  WithChildren(n, new) = n
<1>1. HasFields(n)
  BY DEF IsStorable
<1>2. CASE n.kind = "array"
  <2>1. n.item \in Children(n)
    BY <1>2 DEF Children
  <2>2. WithChildren(n, new) = [n EXCEPT !["item"] = n["item"]]
    BY <1>2, <2>1, ReplacedFields
  <2> QED
    BY <1>1, <2>2, Unchanged DEF HasFields
<1>3. CASE n.kind = "tuple"
  <2>1. \A i \in DOMAIN n.items : n.items[i] \in Children(n)
    BY <1>3 DEF Children, Range
  <2>2. WithChildren(n, new) = [n EXCEPT !["items"] = [i \in DOMAIN n.items |-> new[n.items[i]]]]
    BY <1>3, ReplacedFields
  <2>3. [i \in DOMAIN n.items |-> new[n.items[i]]] = [i \in DOMAIN n.items |-> n.items[i]]
    BY <2>1
  <2>4. n["items"] = [i \in DOMAIN n.items |-> n.items[i]]
    BY <1>3 DEF IsStorable
  <2>5. WithChildren(n, new) = [n EXCEPT !["items"] = n["items"]]
    BY ONLY <2>2, <2>3, <2>4
  <2> QED
    BY <1>1, <2>5, Unchanged DEF HasFields
<1>4. CASE n.kind \in {"union", "discriminatedUnion"}
  <2>1. \A i \in DOMAIN n.choices : n.choices[i] \in Children(n)
    BY <1>4 DEF Children, Range
  <2>2. WithChildren(n, new) = [n EXCEPT !["choices"] = [i \in DOMAIN n.choices |-> new[n.choices[i]]]]
    BY <1>4, ReplacedFields
  <2>3. [i \in DOMAIN n.choices |-> new[n.choices[i]]] = [i \in DOMAIN n.choices |-> n.choices[i]]
    BY <2>1
  <2>4. n["choices"] = [i \in DOMAIN n.choices |-> n.choices[i]]
    BY <1>4 DEF IsStorable
  <2>5. WithChildren(n, new) = [n EXCEPT !["choices"] = n["choices"]]
    BY ONLY <2>2, <2>3, <2>4
  <2> QED
    BY <1>1, <2>5, Unchanged DEF HasFields
<1>5. CASE n.kind = "intersection"
  <2>1. n.left \in Children(n) /\ n.right \in Children(n)
    BY <1>5 DEF Children
  <2>2. WithChildren(n, new) = [[n EXCEPT !["left"] = n["left"]] EXCEPT !["right"] = n["right"]]
    BY <1>5, <2>1, ReplacedFields
  <2> QED
    BY <1>1, <2>2, Unchanged DEF HasFields
<1>6. CASE n.kind = "object"
  <2>1. \A i \in DOMAIN n.shape : n.shape[i] \in Children(n)
    BY <1>6 DEF Children, Range
  <2>2. WithChildren(n, new) = [n EXCEPT !["shape"] = [i \in DOMAIN n.shape |-> new[n.shape[i]]]]
    BY <1>6, ReplacedFields
  <2>3. [i \in DOMAIN n.shape |-> new[n.shape[i]]] = [i \in DOMAIN n.shape |-> n.shape[i]]
    BY <2>1
  <2>4. n["shape"] = [i \in DOMAIN n.shape |-> n.shape[i]]
    BY <1>6 DEF IsStorable
  <2>5. WithChildren(n, new) = [n EXCEPT !["shape"] = n["shape"]]
    BY ONLY <2>2, <2>3, <2>4
  <2> QED
    BY <1>1, <2>5, Unchanged DEF HasFields
<1>7. CASE n.kind = "record"
  <2>1. n.each \in Children(n)
    BY <1>7 DEF Children
  <2>2. WithChildren(n, new) = [n EXCEPT !["each"] = n["each"]]
    BY <1>7, <2>1, ReplacedFields
  <2> QED
    BY <1>1, <2>2, Unchanged DEF HasFields
<1>8. CASE n.kind \in {"nullable", "optional", "transform"}
  <2>1. n.inner \in Children(n)
    BY <1>8 DEF Children
  <2>2. WithChildren(n, new) = [n EXCEPT !["inner"] = n["inner"]]
    BY <1>8, <2>1, ReplacedFields
  <2> QED
    BY <1>1, <2>2, Unchanged DEF HasFields
<1>9. CASE n.kind \notin {"array", "tuple", "union", "discriminatedUnion", "intersection", "object", "record", "nullable",
                          "optional", "transform"}
  BY <1>9, ReplacedFields
<1> QED
  BY <1>2, <1>3, <1>4, <1>5, <1>6, <1>7, <1>8, <1>9

\* What is done with the children of what is kept is done with those of the node.
LEMMA KeptReplaced ==
  ASSUME NEW f, IsForest(f), SnapshotRules(f), NEW n \in f.nodes,
         NEW new, NEW to, \A c \in Children(n) : new[Kept(c)] = to[c]
  PROVE  /\ Kept(n).kind = n.kind
         /\ Children(Kept(n)) = {Kept(c) : c \in Children(n)}
         /\ n.kind # "literal" => WithChildren(Kept(n), new) = WithChildren(n, to)
<1> DEFINE k == Kept(n)
<1>1. HasFields(n)
  BY DEF IsForest, IsStorable
<1>2. "kind" \in DOMAIN n
  BY <1>1 DEF HasFields, NodeFields
<1> SUFFICES /\ k.kind = n.kind
             /\ Children(k) = {Kept(c) : c \in Children(n)}
             /\ n.kind # "literal" => WithChildren(k, new) = WithChildren(n, to)
  OBVIOUS
<1>3. CASE n.kind = "array"
  <2>1. "item" \in DOMAIN n
    BY <1>1, <1>3 DEF HasFields, NodeFields
  <2>2. Children(n) = {n.item}
    BY <1>3 DEF Children
  <2>3. k = [n EXCEPT !["item"] = Kept(n.item)]
    BY <1>3, KeptFields
  <2> HIDE DEF k
  <2>4. k.kind = "array" /\ k.kind = n.kind /\ k.item = Kept(n.item)
    BY <1>2, <1>3, <2>1, <2>3
  <2>5. Children(k) = {k.item}
    BY <2>4 DEF Children
  <2>6. WithChildren(k, new) = [k EXCEPT !["item"] = new[k.item]]
    BY <2>4, ReplacedFields
  <2>7. WithChildren(n, to) = [n EXCEPT !["item"] = to[n.item]]
    BY <1>3, ReplacedFields
  <2>8. new[k.item] = to[n.item]
    BY <2>2, <2>4
  <2>9. WithChildren(k, new) = WithChildren(n, to)
    BY ONLY <2>3, <2>6, <2>7, <2>8, Twice
  <2> QED
    BY <2>2, <2>4, <2>5, <2>9
<1>4. CASE n.kind = "tuple"
  <2>1. "items" \in DOMAIN n
    BY <1>1, <1>4 DEF HasFields, NodeFields
  <2>2. Children(n) = Range(n.items)
    BY <1>4 DEF Children
  <2>3. k = [n EXCEPT !["items"] = [i \in DOMAIN n.items |-> Kept(n.items[i])]]
    BY <1>4, KeptFields
  <2> HIDE DEF k
  <2>4. k.kind = "tuple" /\ k.kind = n.kind /\ k.items = [i \in DOMAIN n.items |-> Kept(n.items[i])]
    BY <1>2, <1>4, <2>1, <2>3
  <2>5. Children(k) = Range(k.items)
    BY <2>4 DEF Children
  <2>6. Range(k.items) = {Kept(c) : c \in Range(n.items)}
    BY <2>4 DEF Range
  <2>7. WithChildren(k, new) = [k EXCEPT !["items"] = [i \in DOMAIN k.items |-> new[k.items[i]]]]
    BY <2>4, ReplacedFields
  <2>8. WithChildren(n, to) = [n EXCEPT !["items"] = [i \in DOMAIN n.items |-> to[n.items[i]]]]
    BY <1>4, ReplacedFields
  <2>9. \A i \in DOMAIN n.items : n.items[i] \in Children(n)
    BY <2>2 DEF Range
  <2>10. [i \in DOMAIN k.items |-> new[k.items[i]]] = [i \in DOMAIN n.items |-> to[n.items[i]]]
    BY <2>4, <2>9
  <2>11. WithChildren(k, new) = WithChildren(n, to)
    BY ONLY <2>3, <2>7, <2>8, <2>10, Twice
  <2> QED
    BY <2>2, <2>4, <2>5, <2>6, <2>11
<1>5. CASE n.kind \in {"union", "discriminatedUnion"}
  <2>1. "choices" \in DOMAIN n
    BY <1>1, <1>5 DEF HasFields, NodeFields
  <2>2. Children(n) = Range(n.choices)
    BY <1>5 DEF Children
  <2>3. k = [n EXCEPT !["choices"] = [i \in DOMAIN n.choices |-> Kept(n.choices[i])]]
    BY <1>5, KeptFields
  <2> HIDE DEF k
  <2>4. k.kind \in {"union", "discriminatedUnion"} /\ k.kind = n.kind /\ k.choices = [i \in DOMAIN n.choices |-> Kept(n.choices[i])]
    BY <1>2, <1>5, <2>1, <2>3
  <2>5. Children(k) = Range(k.choices)
    BY <2>4 DEF Children
  <2>6. Range(k.choices) = {Kept(c) : c \in Range(n.choices)}
    BY <2>4 DEF Range
  <2>7. WithChildren(k, new) = [k EXCEPT !["choices"] = [i \in DOMAIN k.choices |-> new[k.choices[i]]]]
    BY <2>4, ReplacedFields
  <2>8. WithChildren(n, to) = [n EXCEPT !["choices"] = [i \in DOMAIN n.choices |-> to[n.choices[i]]]]
    BY <1>5, ReplacedFields
  <2>9. \A i \in DOMAIN n.choices : n.choices[i] \in Children(n)
    BY <2>2 DEF Range
  <2>10. [i \in DOMAIN k.choices |-> new[k.choices[i]]] = [i \in DOMAIN n.choices |-> to[n.choices[i]]]
    BY <2>4, <2>9
  <2>11. WithChildren(k, new) = WithChildren(n, to)
    BY ONLY <2>3, <2>7, <2>8, <2>10, Twice
  <2> QED
    BY <2>2, <2>4, <2>5, <2>6, <2>11
<1>6. CASE n.kind = "intersection"
  <2>1. "left" \in DOMAIN n /\ "right" \in DOMAIN n
    BY <1>1, <1>6 DEF HasFields, NodeFields
  <2>2. Children(n) = {n.left, n.right}
    BY <1>6 DEF Children
  <2>3. k = [n EXCEPT !["left"] = Kept(n.left), !["right"] = Kept(n.right)]
    BY <1>6, KeptFields
  <2> HIDE DEF k
  <2>4. k.kind = "intersection" /\ k.left = Kept(n.left) /\ k.right = Kept(n.right)
    BY <1>2, <1>6, <2>1, <2>3
  <2>5. Children(k) = {k.left, k.right}
    BY <2>4 DEF Children
  <2>6. WithChildren(k, new) = [k EXCEPT !["left"] = new[k.left], !["right"] = new[k.right]]
    BY <2>4, ReplacedFields
  <2>7. WithChildren(n, to) = [n EXCEPT !["left"] = to[n.left], !["right"] = to[n.right]]
    BY <1>6, ReplacedFields
  <2>8. new[k.left] = to[n.left] /\ new[k.right] = to[n.right]
    BY <2>2, <2>4
  <2>9. WithChildren(k, new) = WithChildren(n, to)
    BY ONLY <2>3, <2>6, <2>7, <2>8
  <2> QED
    BY <1>6, <2>2, <2>4, <2>5, <2>9
<1>7. CASE n.kind = "object"
  <2>1. "shape" \in DOMAIN n
    BY <1>1, <1>7 DEF HasFields, NodeFields
  <2>2. Children(n) = Range(n.shape)
    BY <1>7 DEF Children
  <2>3. k = [n EXCEPT !["shape"] = [i \in DOMAIN n.shape |-> Kept(n.shape[i])]]
    BY <1>7, KeptFields
  <2> HIDE DEF k
  <2>4. k.kind = "object" /\ k.kind = n.kind /\ k.shape = [i \in DOMAIN n.shape |-> Kept(n.shape[i])]
    BY <1>2, <1>7, <2>1, <2>3
  <2>5. Children(k) = Range(k.shape)
    BY <2>4 DEF Children
  <2>6. Range(k.shape) = {Kept(c) : c \in Range(n.shape)}
    BY <2>4 DEF Range
  <2>7. WithChildren(k, new) = [k EXCEPT !["shape"] = [i \in DOMAIN k.shape |-> new[k.shape[i]]]]
    BY <2>4, ReplacedFields
  <2>8. WithChildren(n, to) = [n EXCEPT !["shape"] = [i \in DOMAIN n.shape |-> to[n.shape[i]]]]
    BY <1>7, ReplacedFields
  <2>9. \A i \in DOMAIN n.shape : n.shape[i] \in Children(n)
    BY <2>2 DEF Range
  <2>10. [i \in DOMAIN k.shape |-> new[k.shape[i]]] = [i \in DOMAIN n.shape |-> to[n.shape[i]]]
    BY <2>4, <2>9
  <2>11. WithChildren(k, new) = WithChildren(n, to)
    BY ONLY <2>3, <2>7, <2>8, <2>10, Twice
  <2> QED
    BY <2>2, <2>4, <2>5, <2>6, <2>11
<1>8. CASE n.kind = "record"
  <2>1. "each" \in DOMAIN n
    BY <1>1, <1>8 DEF HasFields, NodeFields
  <2>2. Children(n) = {n.each}
    BY <1>8 DEF Children
  <2>3. k = [n EXCEPT !["each"] = Kept(n.each)]
    BY <1>8, KeptFields
  <2> HIDE DEF k
  <2>4. k.kind = "record" /\ k.kind = n.kind /\ k.each = Kept(n.each)
    BY <1>2, <1>8, <2>1, <2>3
  <2>5. Children(k) = {k.each}
    BY <2>4 DEF Children
  <2>6. WithChildren(k, new) = [k EXCEPT !["each"] = new[k.each]]
    BY <2>4, ReplacedFields
  <2>7. WithChildren(n, to) = [n EXCEPT !["each"] = to[n.each]]
    BY <1>8, ReplacedFields
  <2>8. new[k.each] = to[n.each]
    BY <2>2, <2>4
  <2>9. WithChildren(k, new) = WithChildren(n, to)
    BY ONLY <2>3, <2>6, <2>7, <2>8, Twice
  <2> QED
    BY <2>2, <2>4, <2>5, <2>9
<1>9. CASE n.kind \in {"nullable", "optional", "transform"}
  <2>1. "inner" \in DOMAIN n
    BY <1>1, <1>9 DEF HasFields, NodeFields
  <2>2. Children(n) = {n.inner}
    BY <1>9 DEF Children
  <2>3. k = [n EXCEPT !["inner"] = Kept(n.inner)]
    BY <1>9, KeptFields
  <2> HIDE DEF k
  <2>4. k.kind \in {"nullable", "optional", "transform"} /\ k.kind = n.kind /\ k.inner = Kept(n.inner)
    BY <1>2, <1>9, <2>1, <2>3
  <2>5. Children(k) = {k.inner}
    BY <2>4 DEF Children
  <2>6. WithChildren(k, new) = [k EXCEPT !["inner"] = new[k.inner]]
    BY <2>4, ReplacedFields
  <2>7. WithChildren(n, to) = [n EXCEPT !["inner"] = to[n.inner]]
    BY <1>9, ReplacedFields
  <2>8. new[k.inner] = to[n.inner]
    BY <2>2, <2>4
  <2>9. WithChildren(k, new) = WithChildren(n, to)
    BY ONLY <2>3, <2>6, <2>7, <2>8, Twice
  <2> QED
    BY <2>2, <2>4, <2>5, <2>9
<1>10. CASE n.kind = "literal"
  <2>1. k = [n EXCEPT !["lit"] = EncodeLiteral(n.lit)]
    BY <1>10, KeptFields
  <2> HIDE DEF k
  <2>2. k.kind = "literal"
    BY <1>2, <1>10, <2>1
  <2> QED
    BY <1>10, <2>2 DEF Children
<1>11. CASE n.kind \notin {"array", "tuple", "union", "discriminatedUnion", "intersection", "object", "record", "nullable",
                          "optional", "transform", "literal"}
  <2>1. k = n
    BY <1>11, KeptFields
  <2>2. WithChildren(n, new) = n /\ WithChildren(n, to) = n
    BY <1>11, ReplacedFields
  <2>3. Children(n) = {}
    BY <1>11 DEF Children
  <2> QED
    BY <2>1, <2>2, <2>3
<1> QED
  BY <1>3, <1>4, <1>5, <1>6, <1>7, <1>8, <1>9, <1>10, <1>11

\* What is kept of a node that is no literal.
LEMMA KeptIs ==
  ASSUME NEW f, IsForest(f), SnapshotRules(f), NEW n \in f.nodes, n.kind # "literal"
  PROVE  Kept(n) = WithChildren(n, [c \in Children(n) |-> Kept(c)])
<1> DEFINE new == [c \in Children(n) |-> Kept(c)]
<1>1. CASE n.kind \in {"array", "intersection", "record", "nullable", "optional", "transform"}
  BY <1>1, KeptFields, ReplacedFields DEF Children
<1>2. CASE n.kind = "tuple"
  <2>1. \A i \in DOMAIN n.items : n.items[i] \in Children(n)
    BY <1>2 DEF Children, Range
  <2>2. [i \in DOMAIN n.items |-> Kept(n.items[i])] = [i \in DOMAIN n.items |-> new[n.items[i]]]
    BY <2>1
  <2>3. Kept(n) = [n EXCEPT !["items"] = [i \in DOMAIN n.items |-> Kept(n.items[i])]]
    BY <1>2, KeptFields
  <2>4. WithChildren(n, new) = [n EXCEPT !["items"] = [i \in DOMAIN n.items |-> new[n.items[i]]]]
    BY <1>2, ReplacedFields
  <2> QED
    BY ONLY <2>2, <2>3, <2>4
<1>3. CASE n.kind \in {"union", "discriminatedUnion"}
  <2>1. \A i \in DOMAIN n.choices : n.choices[i] \in Children(n)
    BY <1>3 DEF Children, Range
  <2>2. [i \in DOMAIN n.choices |-> Kept(n.choices[i])] = [i \in DOMAIN n.choices |-> new[n.choices[i]]]
    BY <2>1
  <2>3. Kept(n) = [n EXCEPT !["choices"] = [i \in DOMAIN n.choices |-> Kept(n.choices[i])]]
    BY <1>3, KeptFields
  <2>4. WithChildren(n, new) = [n EXCEPT !["choices"] = [i \in DOMAIN n.choices |-> new[n.choices[i]]]]
    BY <1>3, ReplacedFields
  <2> QED
    BY ONLY <2>2, <2>3, <2>4
<1>4. CASE n.kind = "object"
  <2>1. \A i \in DOMAIN n.shape : n.shape[i] \in Children(n)
    BY <1>4 DEF Children, Range
  <2>2. [i \in DOMAIN n.shape |-> Kept(n.shape[i])] = [i \in DOMAIN n.shape |-> new[n.shape[i]]]
    BY <2>1
  <2>3. Kept(n) = [n EXCEPT !["shape"] = [i \in DOMAIN n.shape |-> Kept(n.shape[i])]]
    BY <1>4, KeptFields
  <2>4. WithChildren(n, new) = [n EXCEPT !["shape"] = [i \in DOMAIN n.shape |-> new[n.shape[i]]]]
    BY <1>4, ReplacedFields
  <2> QED
    BY ONLY <2>2, <2>3, <2>4
<1>5. CASE n.kind \notin {"array", "tuple", "union", "discriminatedUnion", "intersection", "object",
                          "record", "nullable", "optional", "transform"}
  BY <1>5, KeptFields, ReplacedFields
<1> QED
  BY <1>1, <1>2, <1>3, <1>4, <1>5

\* The values of a discriminator are kept, and so is what validates them.
LEMMA ChoicesKept ==
  ASSUME NEW f, IsForest(f), SnapshotRules(f), NEW n \in f.nodes, n.kind = "discriminatedUnion"
  PROVE  ChoicesParse(Kept(n))
<1> DEFINE k == Kept(n)
<1>1. /\ HasFields(n) /\ ChoicesParse(n) /\ \A c \in Children(n) : c \in f.nodes
      /\ n.choices = [i \in DOMAIN n.choices |-> n.choices[i]]
  BY DEF IsForest, IsStorable
<1>2. "kind" \in DOMAIN n /\ "choices" \in DOMAIN n /\ "by" \in DOMAIN n
  BY <1>1 DEF HasFields, NodeFields
<1>3. k = [n EXCEPT !["choices"] = [i \in DOMAIN n.choices |-> Kept(n.choices[i])]]
  BY KeptFields
<1> HIDE DEF k
<1>4. k.by = n.by /\ k.choices = [i \in DOMAIN n.choices |-> Kept(n.choices[i])]
  BY <1>2, <1>3
<1>5. ASSUME NEW i \in DOMAIN n.choices
      PROVE  LET c == n.choices[i]
                 d == Kept(n.choices[i])
             IN /\ d.kind = "object" /\ n.by \in d.required
                /\ d.shape[n.by].kind \in {"literal", "enum"}
                /\ Selecting(k, d) = Selecting(n, c)
  <2> DEFINE c == n.choices[i]
             d == Kept(c)
             p == c.shape[n.by]
             q == d.shape[n.by]
  <2>1. c \in f.nodes
    BY <1>1 DEF Children, Range
  <2>2. /\ c.kind = "object" /\ n.by \in c.required /\ p.kind \in {"literal", "enum"}
        /\ EnumParses(Selecting(n, c))
    BY <1>1 DEF ChoicesParse
  <2> HIDE DEF c
  <2>3. /\ HasFields(c) /\ c.required \subseteq DOMAIN c.shape
        /\ \A x \in Children(c) : x \in f.nodes
    BY <2>1, <2>2 DEF IsForest, IsStorable
  <2>4. "kind" \in DOMAIN c /\ "shape" \in DOMAIN c /\ "required" \in DOMAIN c
    BY <2>2, <2>3 DEF HasFields, NodeFields
  <2>5. d = [c EXCEPT !["shape"] = [j \in DOMAIN c.shape |-> Kept(c.shape[j])]]
    BY <2>1, <2>2, KeptFields
  <2> HIDE DEF d
  <2>6. /\ d.kind = "object" /\ d.required = c.required
        /\ d.shape = [j \in DOMAIN c.shape |-> Kept(c.shape[j])]
    BY <2>2, <2>4, <2>5
  <2>7. n.by \in DOMAIN c.shape /\ q = Kept(p)
    BY <2>2, <2>3, <2>6
  <2>8. p \in f.nodes
    BY <2>2, <2>3, <2>7 DEF Children, Range
  <2> HIDE DEF p, q
  <2>9. HasFields(p) /\ "kind" \in DOMAIN p
    <3>1. HasFields(p)
      BY <2>8 DEF IsForest, IsStorable
    <3> QED
      BY <3>1 DEF HasFields, NodeFields
  <2>10. CASE p.kind = "enum"
    <3>1. q = p
      BY <2>7, <2>8, <2>10, KeptFields
    <3>2. Selecting(k, d) = Selecting(n, c)
      BY <1>4, <3>1 DEF Selecting, p, q
    <3> QED
      BY <2>2, <2>6, <3>1, <3>2 DEF q, c, d
  <2>11. CASE p.kind = "literal"
    <3>1. "lit" \in DOMAIN p
      BY <2>9, <2>11 DEF HasFields, NodeFields
    <3>2. q = [p EXCEPT !["lit"] = EncodeLiteral(p.lit)]
      BY <2>7, <2>8, <2>11, KeptFields
    <3>3. q.kind = "literal" /\ q.lit = EncodeLiteral(p.lit)
      BY <2>9, <2>11, <3>1, <3>2
    <3>4. Selecting(n, c) = {p.lit}
      BY <2>11 DEF Selecting, p
    <3>5. EncodeLiteral(p.lit) = p.lit
      BY <2>2, <3>4, WordsSurvive
    <3>6. Selecting(k, d) = {q.lit}
      BY <1>4, <3>3 DEF Selecting, q
    <3>7. Selecting(k, d) = Selecting(n, c)
      BY <3>3, <3>4, <3>5, <3>6
    <3> QED
      BY <2>2, <2>6, <3>3, <3>7 DEF q, c, d
  <2> QED
    BY <2>2, <2>10, <2>11
<1>6. k.choices # <<>>
  <2>1. n.choices # <<>>
    BY <1>1 DEF ChoicesParse
  <2>2. ASSUME DOMAIN n.choices = {} PROVE FALSE
    <3>1. n.choices = [i \in {} |-> n.choices[i]]
      BY ONLY <1>1, <2>2
    <3>2. [i \in {} |-> n.choices[i]] = <<>>
      OBVIOUS
    <3> QED
      BY ONLY <2>1, <3>1, <3>2
  <2> QED
    BY <1>4, <2>2
<1>7. ASSUME NEW i \in DOMAIN k.choices
      PROVE  /\ k.choices[i].kind = "object"
             /\ k.by \in k.choices[i].required
             /\ k.choices[i].shape[k.by].kind \in {"literal", "enum"}
             /\ Selecting(k, k.choices[i]) = Selecting(n, n.choices[i])
             /\ EnumParses(Selecting(k, k.choices[i]))
  <2>1. i \in DOMAIN n.choices /\ k.choices[i] = Kept(n.choices[i])
    BY <1>4
  <2>2. EnumParses(Selecting(n, n.choices[i]))
    BY <1>1, <2>1 DEF ChoicesParse
  <2> QED
    BY <1>4, <1>5, <2>1, <2>2
<1>8. ASSUME NEW i \in DOMAIN k.choices, NEW j \in DOMAIN k.choices, i # j
      PROVE  Selecting(k, k.choices[i]) \cap Selecting(k, k.choices[j]) = {}
  <2>1. i \in DOMAIN n.choices /\ j \in DOMAIN n.choices
    BY <1>4
  <2>2. Selecting(n, n.choices[i]) \cap Selecting(n, n.choices[j]) = {}
    BY <1>1, <1>8, <2>1 DEF ChoicesParse
  <2> QED
    BY <1>7, <2>2
<1>9. ChoicesParse(k)
  BY <1>6, <1>7, <1>8 DEF ChoicesParse
<1> QED
  BY <1>9 DEF k

\* A node that is kept is accepted when its children are.
LEMMA KeptParses ==
  ASSUME NEW f, IsForest(f), SnapshotRules(f), NEW n \in f.nodes,
         \A c \in Children(n) : NodeParses(Kept(c))
  PROVE  NodeParses(Kept(n))
<1> DEFINE k == Kept(n)
           same == [c \in {Kept(c) : c \in Children(n)} |-> Null]
           null == [c \in Children(n) |-> Null]
<1>1. HasFields(n) /\ IsStorable(n)
  BY DEF IsForest, IsStorable
<1>2. \A c \in Children(n) : same[Kept(c)] = null[c]
  OBVIOUS
<1>3. k.kind = n.kind /\ Children(k) = {Kept(c) : c \in Children(n)}
  <2> HIDE DEF same, null
  <2> QED
    BY <1>2, KeptReplaced
<1>4. \A c \in Children(k) : NodeParses(c)
  BY <1>3
<1>5. n.kind \notin {"array", "record", "literal", "object", "discriminatedUnion", "tuple", "union",
                     "intersection", "nullable", "optional", "transform"} => k = n
  BY KeptFields
<1> SUFFICES NodeParsesRule(k)
  BY DEF SnapshotRules
<1>6. CASE n.kind = "array"
  <2>1. k = [n EXCEPT !["item"] = Kept(n.item)]
    BY <1>6, KeptFields
  <2>2. {"min", "max"} \subseteq DOMAIN n
    BY <1>1, <1>6 DEF HasFields, NodeFields
  <2>3. k.min = n.min /\ k.max = n.max
    BY <2>1, <2>2
  <2> QED
    BY <1>1, <1>3, <1>4, <1>6, <2>3 DEF NodeParsesRule, IsStorable
<1>7. CASE n.kind = "record"
  <2>1. k = [n EXCEPT !["each"] = Kept(n.each)]
    BY <1>7, KeptFields
  <2>2. "key" \in DOMAIN n
    BY <1>1, <1>7 DEF HasFields, NodeFields
  <2>3. k.key = n.key
    BY <2>1, <2>2
  <2> QED
    BY <1>1, <1>3, <1>4, <1>7, <2>3 DEF NodeParsesRule, IsStorable
<1>8. CASE n.kind = "literal"
  <2>1. k = [n EXCEPT !["lit"] = EncodeLiteral(n.lit)]
    BY <1>8, KeptFields
  <2>2. "lit" \in DOMAIN n
    BY <1>1, <1>8 DEF HasFields, NodeFields
  <2>3. k.lit = EncodeLiteral(n.lit)
    BY <2>1, <2>2
  <2>4. LiteralParses(k.lit)
    BY <1>1, <1>8, <2>3, LiteralsSurvive DEF IsStorable
  <2> QED
    BY <1>3, <1>4, <1>8, <2>4 DEF NodeParsesRule
<1>9. CASE n.kind = "object"
  <2>1. k = [n EXCEPT !["shape"] = [i \in DOMAIN n.shape |-> Kept(n.shape[i])]]
    BY <1>9, KeptFields
  <2>2. {"shape", "required"} \subseteq DOMAIN n
    BY <1>1, <1>9 DEF HasFields, NodeFields
  <2>3. k.required = n.required /\ DOMAIN k.shape = DOMAIN n.shape
    BY <2>1, <2>2
  <2> QED
    BY <1>1, <1>3, <1>4, <1>9, <2>3 DEF NodeParsesRule, IsStorable
<1>10. CASE n.kind = "discriminatedUnion"
  BY <1>3, <1>4, <1>10, ChoicesKept DEF NodeParsesRule
<1>11. CASE n.kind \in {"tuple", "union", "intersection", "nullable", "optional", "transform"}
  BY <1>3, <1>4, <1>11 DEF NodeParsesRule
<1>12. CASE n.kind \in {"string", "number", "enum"}
  BY <1>1, <1>4, <1>5, <1>12 DEF NodeParsesRule, IsStorable
<1>13. CASE n.kind \notin {"array", "record", "literal", "object", "discriminatedUnion", "tuple", "union",
                           "intersection", "nullable", "optional", "transform", "string", "number", "enum"}
  BY <1>3, <1>4, <1>13 DEF NodeParsesRule
<1> QED
  BY <1>6, <1>7, <1>8, <1>9, <1>10, <1>11, <1>12, <1>13

\* What a snapshot keeps of a node: it is accepted, it is written as it is, it means
\* the node, and it refers to the same definitions.
LEMMA KeptIsRead ==
  ASSUME NEW f, IsForest(f), SnapshotRules(f)
  PROVE  \A n \in f.nodes :
           /\ NodeParses(Kept(n)) /\ Written(Kept(n)) = Kept(n)
           /\ Meant(Kept(n)) = n /\ Named(Kept(n)) = Named(n)
<1> DEFINE Fine(n) == /\ NodeParses(Kept(n)) /\ Written(Kept(n)) = Kept(n)
                      /\ Meant(Kept(n)) = n /\ Named(Kept(n)) = Named(n)
           B == {n \in f.nodes : ~Fine(n)}
<1>1. SUFFICES ASSUME B # {} PROVE FALSE
  OBVIOUS
<1>2. \A m \in f.nodes : f.size[m] \in Nat
  BY DEF IsForest
<1>3. PICK n \in B : \A c \in f.nodes : f.size[c] < f.size[n] => c \notin B
  <2> HIDE DEF Fine
  <2> QED
    BY <1>1, <1>2, SmallestNode
<1>4. n \in f.nodes /\ ~Fine(n)
  OBVIOUS
<1>5. \A c \in Children(n) : c \in f.nodes /\ Fine(c)
  BY <1>3, <1>4 DEF IsForest
<1> HIDE DEF B
<1>6. IsStorable(n)
  BY <1>4 DEF IsForest
<1> DEFINE k == Kept(n)
           mean == [c \in Children(k) |-> Meant(c)]
           write == [c \in Children(k) |-> Written(c)]
           id == [c \in Children(n) |-> c]
           keep == [c \in Children(n) |-> Kept(c)]
           null == [c \in {Kept(c) : c \in Children(n)} |-> Null]
           none == [c \in Children(n) |-> Null]
<1>7. k.kind = n.kind /\ Children(k) = {Kept(c) : c \in Children(n)}
  <2>1. \A c \in Children(n) : null[Kept(c)] = none[c]
    OBVIOUS
  <2> HIDE DEF null, none
  <2> QED
    BY <1>4, <2>1, KeptReplaced
<1>8. \A c \in Children(n) : mean[Kept(c)] = id[c] /\ write[Kept(c)] = keep[c]
  BY <1>5, <1>7
<1>9. NodeParses(k)
  BY <1>4, <1>5, KeptParses
<1>10. n.kind # "literal" => WithChildren(k, mean) = n /\ WithChildren(k, write) = k
  <2>1. keep = [c \in Children(n) |-> Kept(c)] /\ \A c \in Children(n) : id[c] = c
    OBVIOUS
  <2> HIDE DEF mean, write, id, keep
  <2>2. n.kind # "literal" => WithChildren(k, mean) = WithChildren(n, id) /\ WithChildren(k, write) = WithChildren(n, keep)
    BY <1>4, <1>8, KeptReplaced
  <2>3. WithChildren(n, id) = n
    BY <1>6, <2>1, SameChildren
  <2>4. n.kind # "literal" => WithChildren(n, keep) = k
    BY <1>4, <2>1, KeptIs
  <2> QED
    BY <2>2, <2>3, <2>4
<1>11. /\ Meant(k) = IF k.kind = "literal" THEN [WithChildren(k, mean) EXCEPT !["lit"] = Decoded(WithChildren(k, mean)["lit"])]
                     ELSE WithChildren(k, mean)
       /\ Written(k) = CASE k.kind = "literal" -> [WithChildren(k, write) EXCEPT !["lit"] = Jsoned(WithChildren(k, write)["lit"])]
                         [] k.kind = "enum" -> [WithChildren(k, write) EXCEPT !["values"] = {Jsoned(v) : v \in WithChildren(k, write)["values"]}]
                         [] OTHER -> WithChildren(k, write)
  BY <1>4 DEF SnapshotRules, MeantRule, WrittenRule
<1>12. Meant(k) = n /\ Written(k) = k
  <2>1. CASE n.kind = "literal"
    <3>1. "lit" \in DOMAIN n /\ n = [x \in NodeFields(n.kind) |-> n[x]] /\ IsLiteral(n.lit)
      BY <1>6, <2>1 DEF IsStorable, HasFields, NodeFields
    <3>2. k = [n EXCEPT !["lit"] = EncodeLiteral(n.lit)]
      BY <1>4, <2>1, KeptFields
    <3>3. WithChildren(k, mean) = k /\ WithChildren(k, write) = k
      BY <1>7, <2>1, ReplacedFields
    <3>4. Meant(k) = [k EXCEPT !["lit"] = Decoded(k["lit"])]
      BY <1>7, <1>11, <2>1, <3>3
    <3>5. Written(k) = [k EXCEPT !["lit"] = Jsoned(k["lit"])]
      BY <1>7, <1>11, <2>1, <3>3
    <3> HIDE DEF k
    <3>6. k["lit"] = EncodeLiteral(n.lit)
      BY <3>1, <3>2
    <3>7. Meant(k) = [n EXCEPT !["lit"] = n["lit"]]
      BY <3>1, <3>2, <3>4, <3>6, Twice, LiteralsSurvive
    <3>8. Meant(k) = n
      BY <3>1, <3>7, Unchanged
    <3>9. Written(k) = [n EXCEPT !["lit"] = EncodeLiteral(n.lit)]
      BY <3>1, <3>2, <3>5, <3>6, Twice, LiteralsSurvive
    <3> QED
      BY <3>2, <3>8, <3>9
  <2>2. CASE n.kind = "enum"
    <3>1. n = [x \in NodeFields(n.kind) |-> n[x]] /\ EnumParses(n.values)
      BY <1>6, <2>2 DEF IsStorable, HasFields
    <3>2. k = n
      BY <1>4, <2>2, KeptFields
    <3>3. Written(k) = [n EXCEPT !["values"] = {Jsoned(v) : v \in n["values"]}]
      BY <1>7, <1>10, <1>11, <2>2, <3>2
    <3>4. Written(k) = [n EXCEPT !["values"] = n["values"]]
      BY <3>1, <3>3, WordsSurvive
    <3>5. Written(k) = n
      BY <3>1, <3>4, Unchanged
    <3> QED
      BY <1>7, <1>10, <1>11, <2>2, <3>2, <3>5
  <2>3. CASE n.kind \notin {"literal", "enum"}
    BY <1>7, <1>10, <1>11, <2>3
  <2> QED
    BY <2>1, <2>2, <2>3
<1>13. Named(k) = Named(n)
  <2>1. Named(n) = NamedRule(n) /\ Named(k) = NamedRule(k)
    BY <1>4 DEF SnapshotRules
  <2>2. CASE n.kind = "reference"
    <3>1. k = n
      BY <1>4, <2>2, KeptFields
    <3> QED
      BY <3>1
  <2>3. CASE n.kind # "reference"
    <3>1. Named(k) = UNION {Named(c) : c \in Children(k)} /\ Named(n) = UNION {Named(c) : c \in Children(n)}
      BY <1>7, <2>1, <2>3 DEF NamedRule
    <3>2. {Named(c) : c \in Children(k)} = {Named(c) : c \in Children(n)}
      BY <1>5, <1>7
    <3> QED
      BY <3>1, <3>2
  <2> QED
    BY <2>2, <2>3
<1> QED
  BY <1>4, <1>9, <1>12, <1>13

Grows(grown, step, U) ==
  \A ids \in SUBSET U :
    LET more == ids \cup UNION {step[id] : id \in ids}
    IN grown[ids] = IF more = ids THEN ids ELSE grown[more]

\* Sets that grow until they are closed under a step: where they end is the smallest
\* closed set around them.
LEMMA LeastClosed ==
  ASSUME NEW U, IsFiniteSet(U), NEW step, \A id \in U : step[id] \subseteq U,
         NEW grown,
         Grows(grown, step, U)
  PROVE  \A ids \in SUBSET U :
           /\ ids \subseteq grown[ids] /\ grown[ids] \subseteq U
           /\ \A id \in grown[ids] : step[id] \subseteq grown[ids]
           /\ \A C : ids \subseteq C /\ (\A id \in C \cap U : step[id] \subseteq C) => grown[ids] \subseteq C
<1> DEFINE Fine(ids) ==
             /\ ids \subseteq grown[ids] /\ grown[ids] \subseteq U
             /\ \A id \in grown[ids] : step[id] \subseteq grown[ids]
             /\ \A C : ids \subseteq C /\ (\A id \in C \cap U : step[id] \subseteq C) => grown[ids] \subseteq C
           B == {ids \in SUBSET U : ~Fine(ids)}
           Left == {Cardinality(U \ ids) : ids \in B}
<1>1. SUFFICES ASSUME B # {} PROVE FALSE
  OBVIOUS
<1>2. \A ids \in SUBSET U : Cardinality(U \ ids) \in Nat
  <2>1. \A ids \in SUBSET U : IsFiniteSet(U \ ids)
    BY FS_Subset
  <2> QED
    BY <2>1, FS_CardinalityType
<1>3. Left \in SUBSET Nat /\ Left # {}
  <2>1. \A ids \in B : ids \in SUBSET U
    OBVIOUS
  <2>2. PICK b : b \in B
    BY <1>1
  <2>3. Cardinality(U \ b) \in Left
    BY <2>2
  <2> HIDE DEF B
  <2> QED
    BY <1>2, <2>1, <2>3
<1>4. PICK least \in Left : \A k \in Left : least <= k
  <2> HIDE DEF Left
  <2> QED
    BY <1>3, Smallest
<1>5. PICK ids \in B : Cardinality(U \ ids) = least
  <2> HIDE DEF B
  <2> QED
    BY <1>4
<1>6. ids \in SUBSET U /\ ~Fine(ids)
  OBVIOUS
<1> DEFINE more == ids \cup UNION {step[id] : id \in ids}
<1>7. more \in SUBSET U /\ grown[ids] = IF more = ids THEN ids ELSE grown[more]
  BY <1>6 DEF Grows
<1>8. CASE more = ids
  <2>1. grown[ids] = ids /\ \A id \in ids : step[id] \subseteq ids
    BY <1>7, <1>8
  <2>2. Fine(ids)
    BY <1>6, <2>1
  <2> QED
    BY <1>6, <2>2
<1>9. CASE more # ids
  <2>1. grown[ids] = grown[more] /\ ids \subseteq more
    BY <1>7, <1>9
  <2>2. IsFiniteSet(U \ ids) /\ IsFiniteSet(U \ more)
    BY FS_Subset
  <2>3. U \ more \subseteq U \ ids /\ U \ more # U \ ids
    BY <1>6, <1>7, <1>9, <2>1
  <2>4. Cardinality(U \ more) < Cardinality(U \ ids)
    <3>1. Cardinality(U \ more) <= Cardinality(U \ ids) /\ Cardinality(U \ more) # Cardinality(U \ ids)
      BY <2>2, <2>3, FS_Subset
    <3>2. Cardinality(U \ more) \in Nat /\ Cardinality(U \ ids) \in Nat
      BY <1>2, <1>6, <1>7
    <3> HIDE DEF more
    <3> QED
      BY <3>1, <3>2
  <2>5. Fine(more)
    <3>1. ASSUME ~Fine(more) PROVE FALSE
      <4>1. more \in B
        BY <1>7, <3>1
      <4>2. Cardinality(U \ more) \in Left
        BY <4>1
      <4>3. Cardinality(U \ more) \in Nat /\ Cardinality(U \ ids) \in Nat
        BY <1>2, <1>6, <1>7
      <4> HIDE DEF more, Left
      <4>4. least <= Cardinality(U \ more)
        BY <1>4, <4>2
      <4> QED
        BY <1>5, <2>4, <4>3, <4>4
    <3> QED
      BY <3>1
  <2>6. Fine(ids)
    <3>1. /\ ids \subseteq grown[ids] /\ grown[ids] \subseteq U
          /\ \A id \in grown[ids] : step[id] \subseteq grown[ids]
      BY <2>1, <2>5
    <3>2. ASSUME NEW C, ids \subseteq C, \A id \in C \cap U : step[id] \subseteq C
          PROVE  grown[ids] \subseteq C
      <4>1. more \subseteq C
        BY <1>6, <3>2
      <4>2. grown[more] \subseteq C
        BY <2>5, <3>2, <4>1
      <4> QED
        BY <2>1, <4>2
    <3> QED
      BY <3>1, <3>2
  <2> QED
    BY <1>6, <2>6
<1> QED
  BY <1>8, <1>9

\* The contracts of the pool, with all their definitions, are nodes of a forest.
IsPoolForest(f) ==
  /\ IsForest(f) /\ SnapshotRules(f)
  /\ IsFiniteSet(DOMAIN Definitions)
  /\ \A n \in f.nodes : Named(n) \subseteq DOMAIN Definitions
  /\ \A side \in Sides :
       /\ \A name \in Names : Describe(Pool[name], side) \in f.nodes
       /\ \A id \in DOMAIN Definitions : Describe(Definitions[id], side) \in f.nodes
       /\ \A ids \in SUBSET DOMAIN Definitions : Reached(ids, side) = ReachedRule(ids, side)
  /\ \A g : \A ids \in SUBSET DOMAIN Definitions : Visited(g, ids) = VisitedRule(g, ids)

\* The definitions of a contract are the smallest set that its references reach.
LEMMA DefinitionsAreReached ==
  ASSUME NEW f, IsPoolForest(f), NEW name \in Names, NEW side \in Sides
  PROVE  LET g == Graphs[name][side]
             D == DOMAIN g.definitions
         IN /\ g = [root |-> g.root, definitions |-> [id \in D |-> g.definitions[id]]]
            /\ g.root \in f.nodes /\ D \subseteq DOMAIN Definitions
            /\ \A id \in D : g.definitions[id] \in f.nodes /\ Named(g.definitions[id]) \subseteq D
            /\ Named(g.root) \subseteq D
            /\ \A C : /\ Named(g.root) \subseteq C
                      /\ \A id \in C \cap D : Named(g.definitions[id]) \subseteq C
                      => D \subseteq C
<1> DEFINE U == DOMAIN Definitions
           step == [id \in U |-> Named(Describe(Definitions[id], side))]
           grown == [ids \in SUBSET U |-> Reached(ids, side)]
           root == Describe(Pool[name], side)
           D == Reached(Named(root), side)
           g == Graphs[name][side]
<1>1. IsFiniteSet(U) /\ root \in f.nodes /\ Named(root) \in SUBSET U
  BY DEF IsPoolForest
<1>2. \A id \in U : Describe(Definitions[id], side) \in f.nodes /\ step[id] \subseteq U
  BY DEF IsPoolForest
<1>3. Grows(grown, step, U)
  <2>1. SUFFICES ASSUME NEW ids \in SUBSET U
                 PROVE  LET more == ids \cup UNION {step[id] : id \in ids}
                        IN grown[ids] = IF more = ids THEN ids ELSE grown[more]
    BY DEF Grows
  <2> DEFINE more == ids \cup UNION {step[id] : id \in ids}
  <2>2. more \in SUBSET U
    BY <1>2
  <2>3. {step[id] : id \in ids} = {Named(Describe(Definitions[id], side)) : id \in ids}
    OBVIOUS
  <2>4. Reached(ids, side) = IF more = ids THEN ids ELSE Reached(more, side)
    BY <2>3 DEF IsPoolForest, ReachedRule
  <2> QED
    BY <2>2, <2>4
<1>4. /\ Named(root) \subseteq D /\ D \subseteq U
      /\ \A id \in D : step[id] \subseteq D
      /\ \A C : Named(root) \subseteq C /\ (\A id \in C \cap U : step[id] \subseteq C) => D \subseteq C
  <2>1. grown[Named(root)] = D
    BY <1>1
  <2> DEFINE start == Named(root)
  <2>2. start \in SUBSET U
    BY <1>1
  <2> HIDE DEF grown, step, D, root, U, start
  <2>3. /\ start \subseteq grown[start] /\ grown[start] \subseteq U
        /\ \A id \in grown[start] : step[id] \subseteq grown[start]
        /\ \A C : start \subseteq C /\ (\A id \in C \cap U : step[id] \subseteq C) => grown[start] \subseteq C
    <3>1. \A id \in U : step[id] \subseteq U
      BY <1>2
    <3>2. IsFiniteSet(U)
      BY <1>1
    <3> QED
      BY ONLY <3>1, <3>2, <1>3, <2>2, LeastClosed
  <2> QED
    BY <2>1, <2>3 DEF start
<1>5. g = [root |-> root, definitions |-> [id \in D |-> Describe(Definitions[id], side)]]
  BY DEF Graphs, Graph, NodeOf, Sides
<1> HIDE DEF D, root, g
<1>6. /\ g.root = root /\ DOMAIN g.definitions = D
      /\ \A id \in D : g.definitions[id] = Describe(Definitions[id], side)
      /\ g.definitions = [id \in D |-> g.definitions[id]]
  BY <1>5
<1>7. \A id \in D : step[id] = Named(g.definitions[id])
  BY <1>4, <1>6
<1>8. ASSUME NEW C, Named(root) \subseteq C, \A id \in C \cap D : Named(g.definitions[id]) \subseteq C
      PROVE  D \subseteq C
  <2>1. Named(root) \subseteq C \cap D
    BY <1>4, <1>8
  <2>2. \A id \in (C \cap D) \cap U : step[id] \subseteq C \cap D
    BY <1>4, <1>7, <1>8
  <2> HIDE DEF step
  <2>3. D \subseteq C \cap D
    BY <1>4, <2>1, <2>2
  <2> QED
    BY <2>3
<1> HIDE DEF step
<1>9. g = [root |-> g.root, definitions |-> [id \in D |-> g.definitions[id]]]
  BY <1>5, <1>6
<1> QED
  BY <1>1, <1>2, <1>4, <1>6, <1>7, <1>8, <1>9 DEF g

\* What a walk over a graph visits is the smallest set that its definitions close.
LEMMA VisitedIsLeast ==
  ASSUME NEW f, IsPoolForest(f), NEW g, DOMAIN g.definitions \subseteq DOMAIN Definitions,
         \A id \in DOMAIN g.definitions : Named(g.definitions[id]) \subseteq DOMAIN Definitions,
         NEW ids \in SUBSET DOMAIN Definitions
  PROVE  LET V == Visited(g, ids) IN
         /\ ids \subseteq V
         /\ \A id \in V \cap DOMAIN g.definitions : Named(g.definitions[id]) \subseteq V
         /\ \A C : /\ ids \subseteq C
                   /\ \A id \in C \cap DOMAIN g.definitions : Named(g.definitions[id]) \subseteq C
                   => V \subseteq C
<1> DEFINE U == DOMAIN Definitions
           D == DOMAIN g.definitions
           step == [id \in U |-> IF id \in D THEN Named(g.definitions[id]) ELSE {}]
           grown == [some \in SUBSET U |-> Visited(g, some)]
<1>1. IsFiniteSet(U)
  BY DEF IsPoolForest
<1>2. \A id \in U : step[id] \subseteq U
  OBVIOUS
<1>3. Grows(grown, step, U)
  <2>1. SUFFICES ASSUME NEW some \in SUBSET U
                 PROVE  LET more == some \cup UNION {step[id] : id \in some}
                        IN grown[some] = IF more = some THEN some ELSE grown[more]
    BY DEF Grows
  <2> DEFINE more == some \cup UNION {step[id] : id \in some}
  <2>2. more \in SUBSET U
    BY <1>2
  <2>3. UNION {step[id] : id \in some} = UNION {Named(g.definitions[id]) : id \in some \cap D}
    OBVIOUS
  <2>4. Visited(g, some) = IF more = some THEN some ELSE Visited(g, more)
    <3>1. Visited(g, some) = VisitedRule(g, some)
      BY DEF IsPoolForest
    <3> QED
      BY ONLY <2>3, <3>1 DEF VisitedRule
  <2> QED
    BY <2>2, <2>4
<1>4. grown[ids] = Visited(g, ids)
  OBVIOUS
<1>5. \A id \in D : id \in U /\ step[id] = Named(g.definitions[id])
  OBVIOUS
<1>6. \A id \in U \ D : step[id] = {}
  OBVIOUS
<1> HIDE DEF grown, step, D, U
<1>7. ids \in SUBSET U
  BY DEF U
<1>8. /\ ids \subseteq grown[ids] /\ grown[ids] \subseteq U
      /\ \A id \in grown[ids] : step[id] \subseteq grown[ids]
      /\ \A C : ids \subseteq C /\ (\A id \in C \cap U : step[id] \subseteq C) => grown[ids] \subseteq C
  BY ONLY <1>1, <1>2, <1>3, <1>7, LeastClosed
<1>9. ASSUME NEW C, ids \subseteq C, \A id \in C \cap D : Named(g.definitions[id]) \subseteq C
      PROVE  Visited(g, ids) \subseteq C
  <2>1. \A id \in C \cap U : step[id] \subseteq C
    BY <1>5, <1>6, <1>9
  <2> QED
    BY <1>4, <1>8, <1>9, <2>1
<1>10. \A id \in Visited(g, ids) \cap D : Named(g.definitions[id]) \subseteq Visited(g, ids)
  BY <1>4, <1>5, <1>8
<1> QED
  BY <1>4, <1>8, <1>9, <1>10 DEF D

\* A contract of the pool is read back from its snapshot, and refused when the
\* snapshot lost a definition.
LEMMA ReadsBack ==
  ASSUME NEW f, IsPoolForest(f), NEW name \in Names, NEW side \in Sides
  PROVE  /\ Snapshots[name][side] = [is |-> "read", graph |-> Graphs[name][side]]
         /\ \A id \in DOMAIN Graphs[name][side].definitions :
              ReadBack(Without(Files[name][side], id)) = Refused
<1> DEFINE g == Graphs[name][side]
           D == DOMAIN g.definitions
           e == OfGraph(Encoded, g)
           k == [root |-> Kept(g.root), definitions |-> [id \in D |-> Kept(g.definitions[id])]]
<1>1. /\ g = [root |-> g.root, definitions |-> [id \in D |-> g.definitions[id]]]
      /\ g.root \in f.nodes /\ D \subseteq DOMAIN Definitions
      /\ \A id \in D : g.definitions[id] \in f.nodes /\ Named(g.definitions[id]) \subseteq D
      /\ Named(g.root) \subseteq D
      /\ \A C : /\ Named(g.root) \subseteq C
                /\ \A id \in C \cap D : Named(g.definitions[id]) \subseteq C
                => D \subseteq C
  BY DefinitionsAreReached
<1>2. Files[name][side] = Stored(g) /\ Snapshots[name][side] = ReadBack(Stored(g))
  BY DEF Files, Snapshots
<1> HIDE DEF g
<1>3. \A n \in f.nodes : /\ NodeParses(Kept(n)) /\ Written(Kept(n)) = Kept(n)
                         /\ Meant(Kept(n)) = n /\ Named(Kept(n)) = Named(n)
  BY KeptIsRead DEF IsPoolForest
<1>4. OfGraph(Written, e) = k
  BY DEF OfGraph, Kept
<1>5. Stored(g) = [graph |-> k, fingerprint |-> k]
  BY <1>4 DEF Stored, Fingerprint
<1>6. /\ k.root = Kept(g.root) /\ DOMAIN k.definitions = D
      /\ \A id \in D : k.definitions[id] = Kept(g.definitions[id])
  OBVIOUS
<1>7. Fingerprint(k) = k
  <2>1. OfGraph(Written, k) = [root |-> Written(Kept(g.root)),
                               definitions |-> [id \in D |-> Written(Kept(g.definitions[id]))]]
    BY DEF OfGraph
  <2>2. \A id \in D : Written(Kept(g.definitions[id])) = Kept(g.definitions[id])
    BY <1>1, <1>3
  <2>3. Written(Kept(g.root)) = Kept(g.root)
    BY <1>1, <1>3
  <2> QED
    BY <2>1, <2>2, <2>3 DEF Fingerprint
<1>8. OfGraph(Meant, k) = g
  <2>1. OfGraph(Meant, k) = [root |-> Meant(Kept(g.root)),
                             definitions |-> [id \in D |-> Meant(Kept(g.definitions[id]))]]
    BY DEF OfGraph
  <2>2. \A id \in D : Meant(Kept(g.definitions[id])) = g.definitions[id]
    BY <1>1, <1>3
  <2>3. Meant(Kept(g.root)) = g.root
    BY <1>1, <1>3
  <2>4. OfGraph(Meant, k) = [root |-> g.root, definitions |-> [id \in D |-> g.definitions[id]]]
    BY <2>1, <2>2, <2>3
  <2> QED
    BY ONLY <1>1, <2>4
<1> HIDE DEF k, e
<1>9. NodeParses(k.root) /\ \A id \in D : NodeParses(k.definitions[id])
  BY <1>1, <1>3, <1>6
<1>10. Named(k.root) = Named(g.root) /\ \A id \in D : Named(k.definitions[id]) = Named(g.definitions[id])
  BY <1>1, <1>3, <1>6
<1>11. Resolves(k)
  <2> DEFINE V == Visited(k, Named(k.root))
  <2>1. /\ DOMAIN k.definitions \subseteq DOMAIN Definitions
        /\ \A id \in DOMAIN k.definitions : Named(k.definitions[id]) \subseteq DOMAIN Definitions
        /\ Named(k.root) \in SUBSET DOMAIN Definitions
    BY <1>1, <1>6, <1>10
  <2>2. /\ Named(k.root) \subseteq V
        /\ \A id \in V \cap DOMAIN k.definitions : Named(k.definitions[id]) \subseteq V
        /\ \A C : /\ Named(k.root) \subseteq C
                  /\ \A id \in C \cap DOMAIN k.definitions : Named(k.definitions[id]) \subseteq C
                  => V \subseteq C
    BY <2>1, VisitedIsLeast
  <2> HIDE DEF V
  <2>3. D \subseteq V
    BY <1>1, <1>6, <1>10, <2>2
  <2>4. V \subseteq D
    BY <1>1, <1>6, <1>10, <2>2
  <2> QED
    BY <1>6, <2>3, <2>4 DEF Resolves, V
<1>12. ReadBack(Stored(g)) = [is |-> "read", graph |-> g]
  BY <1>5, <1>6, <1>7, <1>8, <1>9, <1>11 DEF ReadBack
<1>13. ASSUME NEW id \in D PROVE ReadBack(Without(Stored(g), id)) = Refused
  <2> DEFINE h == Without(Stored(g), id).graph
             V == Visited(h, Named(h.root))
  <2>1. h = [k EXCEPT !["definitions"] = [d \in D \ {id} |-> k.definitions[d]]]
    BY <1>5, <1>6 DEF Without
  <2>2. "definitions" \in DOMAIN k /\ "root" \in DOMAIN k
    BY DEF k
  <2> HIDE DEF h
  <2>3. /\ h.root = k.root /\ DOMAIN h.definitions = D \ {id}
        /\ \A d \in D \ {id} : h.definitions[d] = k.definitions[d]
    BY <2>1, <2>2
  <2>4. /\ DOMAIN h.definitions \subseteq DOMAIN Definitions
        /\ \A d \in DOMAIN h.definitions : Named(h.definitions[d]) \subseteq DOMAIN Definitions
        /\ Named(h.root) \in SUBSET DOMAIN Definitions
    BY <1>1, <1>10, <2>3
  <2>5. /\ Named(h.root) \subseteq V
        /\ \A d \in V \cap DOMAIN h.definitions : Named(h.definitions[d]) \subseteq V
    BY <2>4, VisitedIsLeast
  <2> HIDE DEF V
  <2>6. ASSUME V = D \ {id} PROVE FALSE
    <3>1. Named(g.root) \subseteq D \ {id}
      BY <1>10, <2>3, <2>5, <2>6
    <3>2. \A d \in (D \ {id}) \cap D : Named(g.definitions[d]) \subseteq D \ {id}
      BY <1>10, <2>3, <2>5, <2>6
    <3>3. D \subseteq D \ {id}
      BY <1>1, <3>1, <3>2
    <3> QED
      BY <3>3
  <2>7. ~Resolves(h)
    BY <2>3, <2>6 DEF Resolves, V
  <2> QED
    BY <2>7 DEF ReadBack, h
<1> QED
  BY <1>2, <1>12, <1>13 DEF g

-----------------------------------------------------------------------------
(* Reviews. *)

\* What is under review stays what it is.
UnderReview == previous \in Names /\ next \in Names /\ mode \in Modes

LEMMA ReviewStarts == Init => UnderReview
BY DEF Init, UnderReview

LEMMA ReviewSteps == UnderReview /\ [Next]_vars => UnderReview'
BY DEF UnderReview, Next, vars, CompareV1, CompareV2, Review, Report, Construct, ConnectContracts,
       CheckConnection, Connect, ExportJsonSchema, ExportOpenApi

\* A snapshot that was written is read back and means what it meant, however its
\* definitions refer to one another, and one that lost any definition is refused.
THEOREM SnapshotsAreReadBack ==
  ASSUME NEW f, IsPoolForest(f)
  PROVE  Spec => []SnapshotsReadBack
<1>1. UnderReview => SnapshotsReadBack
  BY ReadsBack DEF UnderReview, SnapshotsReadBack
<1> QED
  BY <1>1, ReviewStarts, ReviewSteps, PTL DEF Spec

\* Anonymous checks are only where a comparison of a contract with itself looks: not
\* in definitions, and not on a reference that is a contract.
AnonymousIsInPlainSight(f) ==
  /\ \A n \in f.nodes : /\ HasAnonymous(n) <=> HasAnonymousRule(n)
                        /\ AnonymousOpaque(n, n) = AnonymousOpaqueRule(n, n)
  /\ \A name \in Names : LET g == Graphs[name]["input"] IN
       /\ \A id \in DOMAIN g.definitions : ~HasAnonymous(g.definitions[id])
       /\ g.root.kind = "reference" => g.root.refs = <<>>
       /\ \A ctx : Compare(g.root, g.root, ctx) = CompareRule(g.root, g.root, ctx)

\* A contract with an anonymous check is not compared with itself any further.
LEMMA AnonymousIsSeen ==
  ASSUME NEW f, IsForest(f), AnonymousIsInPlainSight(f)
  PROVE  \A n \in f.nodes : HasAnonymous(n) => AnonymousOpaque(n, n) = Unproven("opaque.anonymous")
<1> DEFINE Seen(n) == HasAnonymous(n) => AnonymousOpaque(n, n) = Unproven("opaque.anonymous")
           B == {n \in f.nodes : ~Seen(n)}
<1>1. SUFFICES ASSUME B # {} PROVE FALSE
  OBVIOUS
<1>2. \A m \in f.nodes : f.size[m] \in Nat
  BY DEF IsForest
<1>3. PICK n \in B : \A c \in f.nodes : f.size[c] < f.size[n] => c \notin B
  <2> HIDE DEF Seen
  <2> QED
    BY <1>1, <1>2, SmallestNode
<1>4. n \in f.nodes /\ HasAnonymous(n) /\ AnonymousOpaque(n, n) # Unproven("opaque.anonymous")
  OBVIOUS
<1>5. \A c \in Children(n) : HasAnonymous(c) => AnonymousOpaque(c, c) # {}
  <2>1. \A c \in Children(n) : c \in f.nodes /\ c \notin B
    BY <1>3, <1>4 DEF IsForest
  <2>2. \A c \in Children(n) : HasAnonymous(c) => AnonymousOpaque(c, c) = Unproven("opaque.anonymous")
    BY <2>1
  <2> QED
    BY <2>2 DEF Unproven, Finding
<1> HIDE DEF B
<1>6. AnonymousOpaque(n, n) = AnonymousOpaqueRule(n, n)
  BY <1>4 DEF AnonymousIsInPlainSight
<1>7. IsAnonymous(n) \/ \E c \in Children(n) : HasAnonymous(c)
  BY <1>4 DEF AnonymousIsInPlainSight, HasAnonymousRule
<1>8. CASE IsAnonymous(n)
  BY <1>4, <1>6, <1>8 DEF AnonymousOpaqueRule, Pick
<1>9. CASE \E c \in Children(n) : HasAnonymous(c)
  <2>1. PICK c \in Children(n) : AnonymousOpaque(c, c) # {}
    BY <1>5, <1>9
  <2>2. CASE n.kind \in {"array", "intersection", "record", "nullable", "optional", "transform"}
    BY <1>4, <1>6, <2>1, <2>2 DEF AnonymousOpaqueRule, Pick, Children
  <2>3. CASE n.kind = "tuple"
    <3>1. PICK i \in DOMAIN n.items : AnonymousOpaque(n.items[i], n.items[i]) # {}
      BY <2>1, <2>3 DEF Children, Range
    <3> QED
      BY <1>4, <1>6, <2>3, <3>1 DEF AnonymousOpaqueRule, Pick
  <2>4. CASE n.kind \in {"union", "discriminatedUnion"}
    <3>1. PICK i \in DOMAIN n.choices : AnonymousOpaque(n.choices[i], n.choices[i]) # {}
      BY <2>1, <2>4 DEF Children, Range
    <3> QED
      BY <1>4, <1>6, <2>4, <3>1 DEF AnonymousOpaqueRule, Pick
  <2>5. CASE n.kind = "object"
    <3>1. PICK i \in DOMAIN n.shape : AnonymousOpaque(n.shape[i], n.shape[i]) # {}
      BY <2>1, <2>5 DEF Children, Range
    <3> QED
      BY <1>4, <1>6, <2>5, <3>1 DEF AnonymousOpaqueRule, Pick
  <2> QED
    BY <2>1, <2>2, <2>3, <2>4, <2>5 DEF Children
<1> QED
  BY <1>7, <1>8, <1>9

\* Neither comparison calls such a contract safe.
LEMMA AnonymousIsFound ==
  ASSUME NEW f, IsPoolForest(f), AnonymousIsInPlainSight(f), NEW name \in Names,
         GraphHasAnonymous(Graphs[name]["input"])
  PROVE  LET g == Graphs[name]["input"] IN
         /\ CompareSnapshots(g.root, g.root) = Unproven("opaque.anonymous")
         /\ CompareGraphs(g, g) = Unproven("opaque.anonymous")
<1> DEFINE g == Graphs[name]["input"]
<1>1. /\ g.root \in f.nodes
      /\ \A id \in DOMAIN g.definitions : ~HasAnonymous(g.definitions[id])
  <2>1. "input" \in Sides
    BY DEF Sides
  <2> QED
    BY <2>1, DefinitionsAreReached DEF AnonymousIsInPlainSight
<1>2. /\ g.root.kind = "reference" => g.root.refs = <<>>
      /\ \A ctx : Compare(g.root, g.root, ctx) = CompareRule(g.root, g.root, ctx)
      /\ HasAnonymous(g.root) <=> HasAnonymousRule(g.root)
  BY <1>1 DEF AnonymousIsInPlainSight
<1>3. HasAnonymous(g.root)
  BY <1>1 DEF GraphHasAnonymous
<1> HIDE DEF g
<1>4. AnonymousOpaque(g.root, g.root) = Unproven("opaque.anonymous")
  BY <1>1, <1>3, AnonymousIsSeen DEF IsPoolForest
<1>5. g.root.kind # "reference"
  BY <1>2, <1>3 DEF HasAnonymousRule, IsAnonymous, Children, Range
<1>6. \A ctx : Compare(g.root, g.root, ctx) = Unproven("opaque.anonymous")
  BY <1>2, <1>4, <1>5 DEF CompareRule, Unproven, Finding
<1>7. CompareGraphs(g, g) = Unproven("opaque.anonymous")
  <2>1. ~ \A x \in Unproven("opaque.anonymous") : x.code # "opaque.anonymous"
    BY DEF Unproven, Finding
  <2> QED
    BY <1>6, <2>1 DEF CompareGraphs
<1>8. CompareSnapshots(g.root, g.root) = Unproven("opaque.anonymous")
  BY <1>6 DEF CompareSnapshots
<1> QED
  BY <1>7, <1>8 DEF g

\* What a comparison reads is the contract.
LEMMA InputIsRead ==
  ASSUME NEW f, IsPoolForest(f), NEW name \in Names
  PROVE  Read(name, "input") = Graphs[name]["input"]
<1>1. "input" \in Sides
  BY DEF Sides
<1>2. Snapshots[name]["input"] = [is |-> "read", graph |-> Graphs[name]["input"]]
  BY <1>1, ReadsBack
<1> QED
  BY <1>2 DEF Read

\* What a comparison of one contract with itself reports.
LEMMA AnonymousIsReported ==
  ASSUME NEW by, NEW findings, UnderReview, Review(by, FALSE, findings, findings),
         findings = Unproven("opaque.anonymous")
  PROVE  report'.status # "safe"
<1> DEFINE told == (IF Asked("backward") THEN Directed("backward", findings) ELSE {})
                   \cup (IF Asked("forward") THEN Directed("forward", findings) ELSE {})
<1>1. report'.status = Status(told)
  BY DEF Review, Report, NoReport
<1>2. Asked("backward") \/ Asked("forward")
  BY DEF UnderReview, Modes, Asked
<1>3. \A d : \E x \in Directed(d, findings) : x.status = "unknown"
  <2>1. [code |-> "opaque.anonymous", status |-> "unknown"] \in findings
    BY DEF Unproven, Finding
  <2>2. \A d : [direction |-> d, code |-> "opaque.anonymous", status |-> "unknown"] \in Directed(d, findings)
    BY <2>1 DEF Directed
  <2>3. \A d : [direction |-> d, code |-> "opaque.anonymous", status |-> "unknown"].status = "unknown"
    OBVIOUS
  <2> QED
    BY ONLY <2>2, <2>3
<1>4. \E x \in told : x.status = "unknown"
  BY <1>2, <1>3
<1> HIDE DEF told
<1>5. "unknown" \in Statuses(told)
  BY <1>4 DEF Statuses
<1> QED
  BY <1>1, <1>5 DEF Status, Aggregate

\* A contract with anonymous behaviour is not even safe against itself, in either
\* format and in any direction.
THEOREM AnonymousStaysUnsafe ==
  ASSUME NEW f, IsPoolForest(f), AnonymousIsInPlainSight(f)
  PROVE  Spec => []AnonymousIsNeverSafe
<1>1. Init => AnonymousIsNeverSafe
  BY DEF Init, NoReport, AnonymousIsNeverSafe, Compared
<1>2. UnderReview /\ AnonymousIsNeverSafe /\ [Next]_vars => AnonymousIsNeverSafe'
  <2> SUFFICES ASSUME UnderReview, AnonymousIsNeverSafe, [Next]_vars,
                      Compared', previous' = next', GraphHasAnonymous(Graphs[next']["input"])
               PROVE  report'.status # "safe"
    BY DEF AnonymousIsNeverSafe
  <2>1. previous \in Names /\ next \in Names
    BY DEF UnderReview
  <2>2. ASSUME NEW renamed \in BOOLEAN, CompareV1(renamed) PROVE report'.status # "safe"
    <3> DEFINE r == Read(previous, "input").root
    <3>1. previous' = previous /\ next' = next /\ report'.renamed = renamed
      BY <2>2 DEF CompareV1, Review, Report, NoReport
    <3>2. renamed = FALSE /\ next = previous
      BY <3>1 DEF Compared
    <3>3. Read(previous, "input") = Graphs[previous]["input"]
      BY <2>1, InputIsRead
    <3>4. CompareSnapshots(r, r) = Unproven("opaque.anonymous")
      BY <2>1, <3>1, <3>2, <3>3, AnonymousIsFound
    <3>5. Review("v1", FALSE, CompareSnapshots(r, r), CompareSnapshots(r, r))
      BY <2>2, <3>2 DEF CompareV1
    <3> QED
      BY <3>4, <3>5, AnonymousIsReported
  <2>3. ASSUME NEW renamed \in BOOLEAN, CompareV2(renamed) PROVE report'.status # "safe"
    <3> DEFINE r == Read(previous, "input")
    <3>1. previous' = previous /\ next' = next /\ report'.renamed = renamed
      BY <2>3 DEF CompareV2, Review, Report, NoReport
    <3>2. renamed = FALSE /\ next = previous
      BY <3>1 DEF Compared
    <3>3. Read(previous, "input") = Graphs[previous]["input"]
      BY <2>1, InputIsRead
    <3>4. CompareGraphs(r, r) = Unproven("opaque.anonymous")
      BY <2>1, <3>1, <3>2, <3>3, AnonymousIsFound
    <3>5. Review("v2", FALSE, CompareGraphs(r, r), CompareGraphs(r, r))
      BY <2>3, <3>2 DEF CompareV2
    <3> QED
      BY <3>4, <3>5, AnonymousIsReported
  <2>4. Construct \/ ConnectContracts => ~Compared'
    BY DEF Construct, ConnectContracts, NoReport, Compared
  <2>5. CheckConnection => ~Compared'
    BY DEF CheckConnection, Connect, Report, NoReport, Compared
  <2>6. (\E o \in ExportOptions : ExportJsonSchema(o)) \/ ExportOpenApi => ~Compared'
    BY DEF ExportJsonSchema, ExportOpenApi, NoReport, Compared
  <2>7. CASE UNCHANGED vars
    BY <2>7 DEF vars, AnonymousIsNeverSafe, Compared
  <2> QED
    BY <2>2, <2>3, <2>4, <2>5, <2>6, <2>7 DEF Next
<1> QED
  BY <1>1, <1>2, ReviewStarts, ReviewSteps, PTL DEF Spec

-----------------------------------------------------------------------------
(* Nodes that a search for counterexamples reconstructs. *)

\* The kinds of such nodes.
Searched == {"string", "number", "boolean", "literal", "enum", "unknown", "never", "array",
             "tuple", "union", "discriminatedUnion", "object", "nullable", "optional"}

IsUndefined(n) == n.kind = "literal" /\ n.lit = Undefined

\* A set of nodes without checks, closed under children.  A literal undefined may have
\* checks where the set is loose: it disappears when undefined is taken away.
IsSimple(X, loose) ==
  \A n \in X : /\ n.kind \in Searched /\ Children(n) \subseteq X
               /\ n.refs = <<>> \/ (loose /\ IsUndefined(n))

Simple(g, loose) == {n \in g.nodes : \E X \in SUBSET g.nodes : n \in X /\ IsSimple(X, loose)}

\* A simple node has no checks, and its children are simple.
LEMMA SimpleIs ==
  ASSUME NEW g, NEW loose, NEW n \in Simple(g, loose)
  PROVE  /\ n \in g.nodes /\ n.kind \in Searched
         /\ \A c \in Children(n) : c \in Simple(g, loose)
         /\ n.refs = <<>> \/ (loose /\ IsUndefined(n))
<1>1. PICK X \in SUBSET g.nodes : n \in X /\ IsSimple(X, loose)
  BY DEF Simple
<1>2. \A c \in Children(n) : c \in X
  BY <1>1 DEF IsSimple
<1>3. \A c \in X : c \in Simple(g, loose)
  BY <1>1 DEF Simple
<1> QED
  BY <1>1, <1>2, <1>3 DEF IsSimple

\* And so is every node whose children are.
LEMMA SimpleWhen ==
  ASSUME NEW g, NEW loose, NEW n \in g.nodes, n.kind \in Searched,
         \A c \in Children(n) : c \in Simple(g, loose),
         n.refs = <<>> \/ (loose /\ IsUndefined(n))
  PROVE  n \in Simple(g, loose)
<1> DEFINE X == Simple(g, loose) \cup {n}
<1>1. X \in SUBSET g.nodes /\ n \in X
  BY DEF Simple
<1>2. IsSimple(X, loose)
  BY SimpleIs DEF IsSimple
<1> QED
  BY <1>1, <1>2 DEF Simple

\* What the search needs to know: parsing, describing and reconstructing follow their
\* rules on the nodes and on the schemas that they stand for, and the choices of a
\* discriminated union are objects with a tag.
IsTag(shape, by) == by \in DOMAIN shape /\ shape[by].kind \in {"literal", "enum"}

IsSearch(g, w) ==
  /\ LazyDepth \in Nat /\ SchemaDepth \in Nat /\ Attempts \in Nat /\ "anonymous" \notin Warnings
  /\ \A s \in w.schemas : s.kind = "discriminatedUnion" =>
       \A i \in DOMAIN s.choices : s.choices[i].kind = "object" /\ IsTag(s.choices[i].shape, s.by)
  /\ \A n \in g.nodes :
       /\ n.kind = "object" => n.shape = [k \in DOMAIN n.shape |-> n.shape[k]]
       /\ Rebuilt(n) = RebuiltRule(n)
       /\ \A depth \in Nat : Reconstructs(n, depth) <=> ReconstructsRule(n, depth)
       /\ Describe(Rebuilt(n), "input") = DescribeRule(Rebuilt(n), "input")
       /\ \A v, holds : \A d \in Nat : Parse(Rebuilt(n), v, holds, d) = ParseRule(Rebuilt(n), v, holds, d)

\* What can be reconstructed is simple.
LEMMA ReconstructedIsSimple ==
  ASSUME NEW g, NEW w, IsSearch(g, w), IsGraph(g), NEW n \in g.nodes, NEW depth \in Nat, Reconstructs(n, depth)
  PROVE  n \in Simple(g, FALSE)
<1> DEFINE X == {m \in g.nodes : \E k \in Nat : Reconstructs(m, k)}
<1>1. X \in SUBSET g.nodes /\ n \in X
  OBVIOUS
<1>2. ASSUME NEW m \in X
      PROVE  m.kind \in Searched /\ Children(m) \subseteq X /\ m.refs = <<>>
  <2>1. PICK k \in Nat : Reconstructs(m, k)
    OBVIOUS
  <2>2. ReconstructsRule(m, k)
    BY <2>1 DEF IsSearch
  <2>3. IsNode(m, g)
    BY DEF IsGraph
  <2>4. m.kind \in Searched
    BY <2>2, <2>3 DEF ReconstructsRule, IsNode, Searched
  <2>5. \A c \in Children(m) : c \in g.nodes /\ Reconstructs(c, k + 1)
    BY <2>2, <2>3 DEF ReconstructsRule, IsNode
  <2>6. k + 1 \in Nat
    OBVIOUS
  <2> QED
    BY <2>2, <2>4, <2>5, <2>6 DEF ReconstructsRule
<1>3. IsSimple(X, FALSE)
  BY <1>2 DEF IsSimple
<1> QED
  BY <1>1, <1>3 DEF Simple

\* The schema of a simple node has its fields, and the schemas of its children.
RebuiltFields(r, n) ==
  /\ r.kind = n.kind /\ r.refs = n.refs
  /\ n.kind \in Leaves => r = n
  /\ n.kind = "array" => r.item = Rebuilt(n.item) /\ r.min = n.min /\ r.max = n.max
  /\ n.kind = "tuple" => r.items = [i \in DOMAIN n.items |-> Rebuilt(n.items[i])]
  /\ n.kind \in {"union", "discriminatedUnion"} =>
       r.choices = [i \in DOMAIN n.choices |-> Rebuilt(n.choices[i])]
  /\ n.kind = "discriminatedUnion" => r.by = n.by
  /\ n.kind = "object" =>
       r.shape = [k \in DOMAIN n.shape |-> Rebuilt(n.shape[k])] /\ r.policy = n.policy
  /\ n.kind \in {"nullable", "optional"} => r.inner = Rebuilt(n.inner)

\* It has them whatever the node is.
LEMMA RebuiltIs ==
  ASSUME NEW g, NEW w, IsSearch(g, w), IsWellFormed(g), NEW loose, NEW n \in Simple(g, loose)
  PROVE  RebuiltFields(Rebuilt(n), n)
<1> DEFINE r == Rebuilt(n)
           new == [c \in Children(n) |-> Rebuilt(c)]
           below == WithChildren(n, new)
<1>1. n \in g.nodes /\ n.kind \in Searched /\ HasFields(n) /\ Rebuilt(n) = RebuiltRule(n)
  BY SimpleIs DEF IsSearch, IsWellFormed
<1>2. n = [f \in NodeFields(n.kind) |-> n[f]]
  BY <1>1 DEF HasFields
<1>3. r = IF n.kind = "object" THEN ObjectOf(below.shape, n.policy) ELSE below
  BY <1>1 DEF RebuiltRule
<1>4. CASE n.kind \in Leaves
  <2>1. below = n
    BY <1>4, ReplacedFields DEF Leaves
  <2> QED
    BY <1>3, <1>4, <2>1 DEF RebuiltFields, Leaves
<1>5. CASE n.kind = "array"
  <2>1. n.item \in Children(n)
    BY <1>5 DEF Children
  <2>2. below = [n EXCEPT !["item"] = Rebuilt(n.item)]
    BY <1>5, <2>1, ReplacedFields
  <2>3. DOMAIN n = {"kind", "refs", "item", "min", "max"}
    BY <1>2, <1>5 DEF NodeFields
  <2> HIDE DEF below
  <2> QED
    BY <1>3, <1>5, <2>2, <2>3 DEF RebuiltFields, Leaves
<1>6. CASE n.kind = "tuple"
  <2>1. \A i \in DOMAIN n.items : n.items[i] \in Children(n)
    BY <1>6 DEF Children, Range
  <2>2. below = [n EXCEPT !["items"] = [i \in DOMAIN n.items |-> new[n.items[i]]]]
    BY <1>6, ReplacedFields
  <2>3. [i \in DOMAIN n.items |-> new[n.items[i]]] = [i \in DOMAIN n.items |-> Rebuilt(n.items[i])]
    BY <2>1
  <2>4. DOMAIN n = {"kind", "refs", "items"}
    BY <1>2, <1>6 DEF NodeFields
  <2> HIDE DEF below, new
  <2> QED
    BY <1>3, <1>6, <2>2, <2>3, <2>4 DEF RebuiltFields, Leaves
<1>7. CASE n.kind \in {"union", "discriminatedUnion"}
  <2>1. \A i \in DOMAIN n.choices : n.choices[i] \in Children(n)
    BY <1>7 DEF Children, Range
  <2>2. below = [n EXCEPT !["choices"] = [i \in DOMAIN n.choices |-> new[n.choices[i]]]]
    BY <1>7, ReplacedFields
  <2>3. [i \in DOMAIN n.choices |-> new[n.choices[i]]] = [i \in DOMAIN n.choices |-> Rebuilt(n.choices[i])]
    BY <2>1
  <2>4. /\ {"kind", "refs", "choices"} \subseteq DOMAIN n
        /\ n.kind = "discriminatedUnion" => "by" \in DOMAIN n
    BY <1>2, <1>7 DEF NodeFields
  <2> HIDE DEF below, new
  <2> QED
    BY <1>3, <1>7, <2>2, <2>3, <2>4 DEF RebuiltFields, Leaves
<1>8. CASE n.kind = "object"
  <2>1. \A k \in DOMAIN n.shape : n.shape[k] \in Children(n)
    BY <1>8 DEF Children, Range
  <2>2. below = [n EXCEPT !["shape"] = [k \in DOMAIN n.shape |-> new[n.shape[k]]]]
    BY <1>8, ReplacedFields
  <2>3. [k \in DOMAIN n.shape |-> new[n.shape[k]]] = [k \in DOMAIN n.shape |-> Rebuilt(n.shape[k])]
    BY <2>1
  <2>4. DOMAIN n = {"kind", "refs", "shape", "policy", "required"}
    BY <1>2, <1>8 DEF NodeFields
  <2>5. n.refs = <<>>
    BY <1>8, SimpleIs DEF IsUndefined
  <2> HIDE DEF below, new
  <2>6. below.shape = [k \in DOMAIN n.shape |-> Rebuilt(n.shape[k])]
    BY <2>2, <2>3, <2>4
  <2> QED
    BY <1>3, <1>8, <2>5, <2>6 DEF RebuiltFields, Leaves, ObjectOf
<1>9. CASE n.kind \in {"nullable", "optional"}
  <2>1. n.inner \in Children(n)
    BY <1>9 DEF Children
  <2>2. below = [n EXCEPT !["inner"] = Rebuilt(n.inner)]
    BY <1>9, <2>1, ReplacedFields
  <2>3. DOMAIN n = {"kind", "refs", "inner"}
    BY <1>2, <1>9 DEF NodeFields
  <2> HIDE DEF below
  <2> QED
    BY <1>3, <1>9, <2>2, <2>3 DEF RebuiltFields, Leaves
<1> QED
  BY <1>1, <1>4, <1>5, <1>6, <1>7, <1>8, <1>9 DEF Searched, Leaves

\* Two schemas of one shape whose parts parse the values V alike: the one under the
\* checks h with d resolutions left, the other under k with e.
PartsAlike(V, s, r, h, d, k, e) ==
  LET Same(a, b) == \A x \in V : Parse(a, x, h, d) = Parse(b, x, k, e)
  IN /\ r.kind = s.kind
     /\ s.kind \in Leaves => \A f \in NodeFields(s.kind) : r[f] = s[f]
     /\ s.kind = "array" => r.min = s.min /\ r.max = s.max /\ Same(s.item, r.item)
     /\ s.kind = "tuple" => Len(r.items) = Len(s.items)
     /\ s.kind = "tuple" => \A i \in 1 .. Len(s.items) : Same(s.items[i], r.items[i])
     /\ s.kind \in {"union", "discriminatedUnion"} =>
          DOMAIN r.choices = DOMAIN s.choices /\ \A i \in DOMAIN s.choices : Same(s.choices[i], r.choices[i])
     /\ s.kind = "discriminatedUnion" =>
          /\ r.by = s.by
          /\ \A i \in DOMAIN s.choices : Selecting(r, r.choices[i]) = Selecting(s, s.choices[i])
     /\ s.kind = "object" =>
          /\ r.policy = s.policy /\ DOMAIN r.shape = DOMAIN s.shape
          /\ \A p \in DOMAIN s.shape : /\ MayBeAbsent(r.shape[p]) <=> MayBeAbsent(s.shape[p])
                                       /\ Same(s.shape[p], r.shape[p])
     /\ s.kind \in {"nullable", "optional"} => Same(s.inner, r.inner)

\* Schemas of one kind whose parts parse alike parse alike.
LEMMA AlikeInShape ==
  ASSUME NEW w, NEW s, IsSchema(s, w), s.kind \in Searched, NEW V, NEW v \in V, IsValue(v, V),
         NEW r, NEW h, NEW d, NEW k, NEW e, PartsAlike(V, s, r, h, d, k, e)
  PROVE  ParseBase(s, v, h, d) = ParseBase(r, v, k, e)
<1>1. r.kind = s.kind
  BY DEF PartsAlike
<1>2. CASE s.kind \in Leaves
  <2>1. \A f \in NodeFields(s.kind) : r[f] = s[f]
    BY <1>2 DEF PartsAlike
  <2>2. CASE s.kind = "string"
    BY <1>1, <2>1, <2>2 DEF ParseBase, NodeFields, StringAccepts
  <2>3. CASE s.kind = "number"
    BY <1>1, <2>1, <2>3 DEF ParseBase, NodeFields, NumberAccepts
  <2>4. CASE s.kind \in {"boolean", "literal", "enum", "unknown", "never"}
    BY <1>1, <2>1, <2>4 DEF ParseBase, NodeFields
  <2> QED
    BY <1>2, <2>2, <2>3, <2>4 DEF Leaves
<1>3. CASE s.kind = "array"
  <2>1. r.min = s.min /\ r.max = s.max /\ \A x \in V : Parse(s.item, x, h, d) = Parse(r.item, x, k, e)
    BY <1>3 DEF PartsAlike
  <2>2. CASE v.tag # "array"
    BY <1>1, <1>3, <2>2 DEF ParseBase, ParseArray
  <2>3. CASE v.tag = "array"
    <3>1. \A i \in DOMAIN v.items : v.items[i] \in V
      BY <2>3 DEF IsValue
    <3>2. ParseItems([i \in DOMAIN v.items |-> s.item], v, h, d) = ParseItems([i \in DOMAIN v.items |-> r.item], v, k, e)
      BY <2>1, <3>1 DEF ParseItems
    <3>3. ParseArray(s, v, h, d) = ParseArray(r, v, k, e)
      BY <2>1, <3>2, Zenon DEF ParseArray
    <3> QED
      BY <1>1, <1>3, <3>3 DEF ParseBase
  <2> QED
    BY <2>2, <2>3
<1>4. CASE s.kind = "tuple"
  <2>1. Len(r.items) = Len(s.items)
    BY <1>4 DEF PartsAlike
  <2>2. \A i \in 1 .. Len(s.items) : \A x \in V : Parse(s.items[i], x, h, d) = Parse(r.items[i], x, k, e)
    BY <1>4 DEF PartsAlike
  <2>3. CASE v.tag # "array" \/ Len(v.items) # Len(s.items)
    BY <1>1, <1>4, <2>1, <2>3 DEF ParseBase, ParseTuple
  <2>4. CASE v.tag = "array" /\ Len(v.items) = Len(s.items)
    <3>1. DOMAIN v.items = 1 .. Len(s.items) /\ \A i \in DOMAIN v.items : v.items[i] \in V
      BY <2>4 DEF IsValue
    <3>2. ParseItems(s.items, v, h, d) = ParseItems(r.items, v, k, e)
      BY <2>2, <3>1 DEF ParseItems
    <3>3. ParseTuple(s, v, h, d) = ParseTuple(r, v, k, e)
      BY <2>1, <3>2, Zenon DEF ParseTuple
    <3> QED
      BY <1>1, <1>4, <3>3 DEF ParseBase
  <2> QED
    BY <2>3, <2>4
<1>5. CASE s.kind \in {"union", "discriminatedUnion"}
  <2>1. DOMAIN r.choices = DOMAIN s.choices
    BY <1>5 DEF PartsAlike
  <2>2. \A i \in DOMAIN s.choices : \A x \in V : Parse(s.choices[i], x, h, d) = Parse(r.choices[i], x, k, e)
    BY <1>5 DEF PartsAlike
  <2>3. CASE s.kind = "union"
    <3>1. [i \in DOMAIN s.choices |-> Parse(s.choices[i], v, h, d)]
          = [i \in DOMAIN r.choices |-> Parse(r.choices[i], v, k, e)]
      BY <2>1, <2>2
    <3>2. ParseUnion(s, v, h, d) = ParseUnion(r, v, k, e)
      BY <3>1 DEF ParseUnion
    <3> QED
      BY <1>1, <2>3, <3>2 DEF ParseBase
  <2>4. CASE s.kind = "discriminatedUnion"
    <3>1. r.by = s.by /\ \A i \in DOMAIN s.choices : Selecting(r, r.choices[i]) = Selecting(s, s.choices[i])
      BY <2>4 DEF PartsAlike
    <3> DEFINE selected == {i \in DOMAIN s.choices : v.props[s.by] \in Selecting(s, s.choices[i])}
               chosen == {i \in DOMAIN r.choices : v.props[r.by] \in Selecting(r, r.choices[i])}
    <3>2. selected = chosen
      BY <2>1, <3>1
    <3>3. ParseDiscriminated(s, v, h, d) =
            IF v.tag # "object" \/ s.by \notin DOMAIN v.props \/ selected = {} THEN Rejected
            ELSE Parse(s.choices[Min(selected)], v, h, d)
      BY DEF ParseDiscriminated
    <3>4. ParseDiscriminated(r, v, k, e) =
            IF v.tag # "object" \/ r.by \notin DOMAIN v.props \/ chosen = {} THEN Rejected
            ELSE Parse(r.choices[Min(chosen)], v, k, e)
      BY DEF ParseDiscriminated
    <3>5. ASSUME selected # {} PROVE Min(selected) \in DOMAIN s.choices
      <4>1. DOMAIN s.choices \subseteq Nat
        BY <2>4 DEF IsSchema
      <4>2. selected \in SUBSET Nat /\ selected \subseteq DOMAIN s.choices
        BY <4>1
      <4> HIDE DEF selected
      <4> QED
        BY <3>5, <4>2, LeastIndex
    <3> QED
      BY <1>1, <2>2, <2>4, <3>1, <3>2, <3>3, <3>4, <3>5 DEF ParseBase
  <2> QED
    BY <1>5, <2>3, <2>4
<1>6. CASE s.kind = "object"
  <2>1. r.policy = s.policy /\ DOMAIN r.shape = DOMAIN s.shape
    BY <1>6 DEF PartsAlike
  <2>2. \A p \in DOMAIN s.shape : /\ MayBeAbsent(r.shape[p]) <=> MayBeAbsent(s.shape[p])
                                  /\ \A x \in V : Parse(s.shape[p], x, h, d) = Parse(r.shape[p], x, k, e)
    BY <1>6 DEF PartsAlike
  <2>3. CASE v.tag # "object"
    BY <1>1, <1>6, <2>3 DEF ParseBase, ParseObject
  <2>4. CASE v.tag = "object"
    <3> DEFINE Made(policy, present, parts, missing, kept) ==
                 LET extra == DOMAIN v.props \ present
                     passed == IF policy = "passthrough" THEN extra ELSE {}
                 IN Gather(Range(parts), missing = {} /\ (policy = "reject" => extra = {}),
                           Obj([p \in kept \cup passed |->
                                  IF p \in kept THEN parts[p].data ELSE v.props[p]]))
               present == DOMAIN s.shape \cap DOMAIN v.props
               parts == [p \in present |-> Parse(s.shape[p], v.props[p], h, d)]
               missing == {p \in DOMAIN s.shape \ present : ~MayBeAbsent(s.shape[p])}
               kept == {p \in present : ~(MayBeAbsent(s.shape[p]) /\ parts[p].data = Undefined)}
               present2 == DOMAIN r.shape \cap DOMAIN v.props
               parts2 == [p \in present2 |-> Parse(r.shape[p], v.props[p], k, e)]
               missing2 == {p \in DOMAIN r.shape \ present2 : ~MayBeAbsent(r.shape[p])}
               kept2 == {p \in present2 : ~(MayBeAbsent(r.shape[p]) /\ parts2[p].data = Undefined)}
    <3>1. present2 = present
      BY <2>1
    <3>2. parts2 = parts
      BY <2>2, <2>4, <3>1 DEF IsValue
    <3>3. missing2 = missing
      BY <2>1, <2>2, <3>1
    <3>4. kept2 = kept
      BY <2>2, <3>1, <3>2
    <3>5. /\ ParseObject(s, v, h, d) = Made(s.policy, present, parts, missing, kept)
          /\ ParseObject(r, v, k, e) = Made(r.policy, present2, parts2, missing2, kept2)
      BY <2>4, Zenon DEF ParseObject
    <3>6. Made(s.policy, present, parts, missing, kept) = Made(r.policy, present, parts, missing, kept)
      BY <2>1
    <3> HIDE DEF Made, present, parts, missing, kept, present2, parts2, missing2, kept2
    <3>7. ParseObject(s, v, h, d) = ParseObject(r, v, k, e)
      BY <3>1, <3>2, <3>3, <3>4, <3>5, <3>6
    <3> QED
      BY <1>1, <1>6, <3>7 DEF ParseBase
  <2> QED
    BY <2>3, <2>4
<1>7. CASE s.kind \in {"nullable", "optional"}
  <2>1. \A x \in V : Parse(s.inner, x, h, d) = Parse(r.inner, x, k, e)
    BY <1>7 DEF PartsAlike
  <2>2. Parse(s.inner, v, h, d) = Parse(r.inner, v, k, e)
    BY <2>1
  <2> QED
    BY <1>1, <1>7, <2>2 DEF ParseBase
<1> QED
  BY <1>2, <1>3, <1>4, <1>5, <1>6, <1>7 DEF Searched, Leaves

\* A node without checks describes the schema that it stands for.
LEMMA RebuiltDescribes ==
  ASSUME NEW g, NEW w, IsSearch(g, w), IsWellFormed(g)
  PROVE  \A n \in Simple(g, FALSE) : Input(Rebuilt(n)) = n
<1> DEFINE B == {n \in g.nodes : n \in Simple(g, FALSE) /\ Input(Rebuilt(n)) # n}
<1>1. SUFFICES ASSUME B # {} PROVE FALSE
  BY SimpleIs
<1>2. \A m \in g.nodes : g.size[m] \in Nat
  BY DEF IsWellFormed, IsGraph, IsNode
<1>3. PICK n \in B : \A c \in g.nodes : g.size[c] < g.size[n] => c \notin B
  BY <1>1, <1>2, SmallestNode
<1>4. n \in g.nodes /\ n \in Simple(g, FALSE) /\ Input(Rebuilt(n)) # n
  OBVIOUS
<1>5. n.kind \in Searched /\ n.refs = <<>> /\ HasFields(n) /\ IsNode(n, g)
  BY <1>4, SimpleIs DEF IsWellFormed, IsGraph
<1>6. \A c \in Children(n) : Input(Rebuilt(c)) = c
  BY <1>3, <1>4, <1>5, SimpleIs DEF IsNode
<1> HIDE DEF B
<1> DEFINE r == Rebuilt(n)
           b == DescribeBase(r, "input")
<1>0. RebuiltFields(r, n) /\ \A c \in Children(n) : RebuiltFields(Rebuilt(c), c)
  BY <1>4, SimpleIs, RebuiltIs
<1>7. Input(r) = Refined(b, r.refs) /\ r.refs = <<>> /\ r.kind = n.kind
  BY <1>0, <1>4, <1>5 DEF RebuiltFields, IsSearch, DescribeRule, Input
<1>8. n = [f \in NodeFields(n.kind) |-> n[f]]
  BY <1>5 DEF HasFields
<1>9. ASSUME b = n PROVE FALSE
  <2>1. Refined(n, <<>>) = [n EXCEPT !["refs"] = <<>>]
    BY <1>5 DEF Refined
  <2>2. [n EXCEPT !["refs"] = n["refs"]] = n
    BY <1>8, Unchanged
  <2> QED
    BY <1>4, <1>5, <1>7, <1>9, <2>1, <2>2
<1>10. CASE n.kind \in Leaves
  <2>1. r = n
    BY <1>0, <1>10 DEF RebuiltFields
  <2>2. b = [n EXCEPT !["refs"] = <<>>]
    BY <1>10, <2>1 DEF DescribeBase, Leaves
  <2>3. [n EXCEPT !["refs"] = n["refs"]] = n
    BY <1>8, Unchanged
  <2> QED
    BY <1>5, <1>9, <2>2, <2>3
<1>11. CASE n.kind = "array"
  <2>1. r.item = Rebuilt(n.item) /\ r.min = n.min /\ r.max = n.max
    BY <1>0, <1>11 DEF RebuiltFields
  <2>2. Describe(Rebuilt(n.item), "input") = n.item
    BY <1>6, <1>11 DEF Children, Input
  <2>3. b = ArrayOf(n.item, n.min, n.max)
    BY <1>7, <1>11, <2>1, <2>2 DEF DescribeBase
  <2>4. ArrayOf(n.item, n.min, n.max) = n
    BY <1>5, <1>8, <1>11 DEF ArrayOf, NodeFields
  <2> QED
    BY <1>9, <2>3, <2>4
<1>12. CASE n.kind = "tuple"
  <2>1. r.items = [i \in DOMAIN n.items |-> Rebuilt(n.items[i])]
    BY <1>0, <1>12 DEF RebuiltFields
  <2>2. \A i \in DOMAIN n.items : Describe(Rebuilt(n.items[i]), "input") = n.items[i]
    BY <1>6, <1>12 DEF Children, Input, Range
  <2>3. n.items = [i \in DOMAIN n.items |-> n.items[i]]
    BY <1>5, <1>12 DEF IsNode
  <2>4. [i \in DOMAIN r.items |-> Describe(r.items[i], "input")] = n.items
    BY <2>1, <2>2, <2>3
  <2>5. b = Tuple(n.items)
    BY <1>7, <1>12, <2>4 DEF DescribeBase
  <2>6. Tuple(n.items) = n
    BY <1>5, <1>8, <1>12 DEF Tuple, NodeFields
  <2> QED
    BY <1>9, <2>5, <2>6
<1>13. CASE n.kind \in {"union", "discriminatedUnion"}
  <2>1. r.choices = [i \in DOMAIN n.choices |-> Rebuilt(n.choices[i])] /\ (n.kind = "discriminatedUnion" => r.by = n.by)
    BY <1>0, <1>13 DEF RebuiltFields
  <2>2. \A i \in DOMAIN n.choices : Describe(Rebuilt(n.choices[i]), "input") = n.choices[i]
    BY <1>6, <1>13 DEF Children, Input, Range
  <2>3. n.choices = [i \in DOMAIN n.choices |-> n.choices[i]]
    BY <1>5, <1>13 DEF IsNode
  <2>4. [i \in DOMAIN r.choices |-> Describe(r.choices[i], "input")] = n.choices
    BY <2>1, <2>2, <2>3
  <2>5. CASE n.kind = "union"
    <3>1. b = Union(n.choices)
      BY <1>7, <2>4, <2>5 DEF DescribeBase
    <3>2. Union(n.choices) = n
      BY <1>5, <1>8, <2>5 DEF Union, NodeFields
    <3> QED
      BY <1>9, <3>1, <3>2
  <2>6. CASE n.kind = "discriminatedUnion"
    <3>1. b = Discriminated(n.by, n.choices)
      BY <1>7, <2>1, <2>4, <2>6 DEF DescribeBase
    <3>2. Discriminated(n.by, n.choices) = n
      BY <1>5, <1>8, <2>6 DEF Discriminated, NodeFields
    <3> QED
      BY <1>9, <3>1, <3>2
  <2> QED
    BY <1>13, <2>5, <2>6
<1>14. CASE n.kind = "object"
  <2>1. r.shape = [k \in DOMAIN n.shape |-> Rebuilt(n.shape[k])] /\ r.policy = n.policy
    BY <1>0, <1>14 DEF RebuiltFields
  <2>2. \A k \in DOMAIN n.shape : n.shape[k] \in Children(n)
    BY <1>14 DEF Children, Range
  <2>3. \A k \in DOMAIN n.shape : Describe(Rebuilt(n.shape[k]), "input") = n.shape[k]
    BY <1>6, <2>2 DEF Input
  <2>4. \A k \in DOMAIN n.shape : Rebuilt(n.shape[k]).kind = n.shape[k].kind
    BY <1>0, <2>2 DEF RebuiltFields
  <2>5. [k \in DOMAIN r.shape |-> Describe(r.shape[k], "input")] = [k \in DOMAIN n.shape |-> n.shape[k]]
    BY <2>1, <2>3
  <2>6. {k \in DOMAIN r.shape : ~MayBeAbsent(r.shape[k])} = {k \in DOMAIN n.shape : n.shape[k].kind # "optional"}
    BY <2>1, <2>4 DEF MayBeAbsent
  <2>7. n.required = {k \in DOMAIN n.shape : n.shape[k].kind # "optional"} /\ n.shape = [k \in DOMAIN n.shape |-> n.shape[k]]
    BY <1>4, <1>5, <1>14 DEF IsNode, IsSearch
  <2>8. b = [kind |-> "object", refs |-> <<>>, policy |-> n.policy, shape |-> n.shape, required |-> n.required]
    BY <1>7, <1>14, <2>1, <2>5, <2>6, <2>7 DEF DescribeBase
  <2>9. [kind |-> "object", refs |-> <<>>, policy |-> n.policy, shape |-> n.shape, required |-> n.required] = n
    BY <1>5, <1>8, <1>14 DEF NodeFields
  <2> QED
    BY <1>9, <2>8, <2>9
<1>15. CASE n.kind \in {"nullable", "optional"}
  <2>1. r.inner = Rebuilt(n.inner)
    BY <1>0, <1>15 DEF RebuiltFields
  <2>2. Describe(Rebuilt(n.inner), "input") = n.inner
    BY <1>6, <1>15 DEF Children, Input
  <2>3. CASE n.kind = "nullable"
    <3>1. b = Nullable(n.inner)
      BY <1>7, <2>1, <2>2, <2>3 DEF DescribeBase
    <3>2. Nullable(n.inner) = n
      BY <1>5, <1>8, <2>3 DEF Nullable, NodeFields
    <3> QED
      BY <1>9, <3>1, <3>2
  <2>4. CASE n.kind = "optional"
    <3>1. b = Optional(n.inner)
      BY <1>7, <2>1, <2>2, <2>4 DEF DescribeBase
    <3>2. Optional(n.inner) = n
      BY <1>5, <1>8, <2>4 DEF Optional, NodeFields
    <3> QED
      BY <1>9, <3>1, <3>2
  <2> QED
    BY <1>15, <2>3, <2>4
<1> QED
  BY <1>5, <1>10, <1>11, <1>12, <1>13, <1>14, <1>15 DEF Searched, Leaves

\* The schemas that simple nodes stand for.
SearchWorld(g) ==
  LET schemas == {Rebuilt(n) : n \in Simple(g, FALSE)}
  IN [schemas |-> schemas, size |-> [s \in schemas |-> g.size[Input(s)]]]

\* They are a world.
LEMMA RebuiltWorld ==
  ASSUME NEW g, NEW w, IsSearch(g, w), IsWellFormed(g), IsWorld(w)
  PROVE  IsWorld(SearchWorld(g)) /\ \A n \in Simple(g, FALSE) : Rebuilt(n) \in SearchWorld(g).schemas
<1> DEFINE x == SearchWorld(g)
<1>1. /\ x.schemas = {Rebuilt(n) : n \in Simple(g, FALSE)}
      /\ \A s \in x.schemas : x.size[s] = g.size[Input(s)]
  BY DEF SearchWorld
<1>2. \A n \in Simple(g, FALSE) : Rebuilt(n) \in x.schemas /\ x.size[Rebuilt(n)] = g.size[n]
  BY <1>1, RebuiltDescribes
<1> HIDE DEF x
<1>3. ASSUME NEW n \in Simple(g, FALSE) PROVE IsSchema(Rebuilt(n), x)
  <2> DEFINE r == Rebuilt(n)
  <2>1. /\ n \in g.nodes /\ n.kind \in Searched /\ n.refs = <<>>
        /\ HasFields(n) /\ IsNode(n, g)
        /\ \A c \in Children(n) : c \in Simple(g, FALSE)
    BY SimpleIs DEF IsWellFormed, IsGraph
  <2>2. RebuiltFields(r, n)
    BY RebuiltIs
  <2> HIDE DEF r
  <2>3. r.kind = n.kind /\ r.refs = <<>>
    BY <2>1, <2>2 DEF RebuiltFields
  <2>4. \A c \in Children(n) : Rebuilt(c) \in x.schemas /\ x.size[Rebuilt(c)] < x.size[r]
    BY <1>2, <2>1 DEF IsNode, r
  <2>5. Parts(r) \subseteq {Rebuilt(c) : c \in Children(n)}
    <3>1. CASE n.kind = "array"
      BY <2>2, <2>3, <3>1 DEF RebuiltFields, Parts, Children
    <3>2. CASE n.kind = "tuple"
      BY <2>2, <2>3, <3>2 DEF RebuiltFields, Parts, Children, Range
    <3>3. CASE n.kind \in {"union", "discriminatedUnion"}
      BY <2>2, <2>3, <3>3 DEF RebuiltFields, Parts, Children, Range
    <3>4. CASE n.kind = "object"
      BY <2>2, <2>3, <3>4 DEF RebuiltFields, Parts, Children, Range
    <3>5. CASE n.kind \in {"nullable", "optional"}
      BY <2>2, <2>3, <3>5 DEF RebuiltFields, Parts, Children
    <3>6. CASE n.kind \in Leaves
      BY <2>3, <3>6 DEF Parts, Leaves
    <3> QED
      BY <2>1, <3>1, <3>2, <3>3, <3>4, <3>5, <3>6 DEF Searched, Leaves
  <2>6. n.kind = "tuple" => r.items \in Seq(x.schemas)
    <3> SUFFICES ASSUME n.kind = "tuple" PROVE r.items \in Seq(x.schemas)
      OBVIOUS
    <3>1. n.items \in Seq(g.nodes) /\ r.items = [i \in DOMAIN n.items |-> Rebuilt(n.items[i])]
      BY <2>1, <2>2 DEF IsNode, RebuiltFields
    <3>2. \A i \in DOMAIN n.items : n.items[i] \in Children(n)
      BY DEF Children, Range
    <3> QED
      BY <2>4, <3>1, <3>2
  <2>7. n.kind \in {"union", "discriminatedUnion"} => r.choices \in Seq(x.schemas)
    <3> SUFFICES ASSUME n.kind \in {"union", "discriminatedUnion"} PROVE r.choices \in Seq(x.schemas)
      OBVIOUS
    <3>1. n.choices \in Seq(g.nodes) /\ r.choices = [i \in DOMAIN n.choices |-> Rebuilt(n.choices[i])]
      BY <2>1, <2>2 DEF IsNode, RebuiltFields
    <3>2. \A i \in DOMAIN n.choices : n.choices[i] \in Children(n)
      BY DEF Children, Range
    <3> QED
      BY <2>4, <3>1, <3>2
  <2>8. n.kind \in Leaves => HasFields(r)
    BY <2>1, <2>2 DEF RebuiltFields
  <2>9. x.size[r] \in Nat
    BY <1>2, <2>1 DEF IsNode, r
  <2>10. r.refs \in Seq(Ids)
    BY <2>3
  <2> QED
    BY <2>1, <2>3, <2>4, <2>5, <2>6, <2>7, <2>8, <2>9, <2>10 DEF IsSchema, Searched, Leaves, r
<1>4. \A n \in Simple(g, FALSE) : /\ Describe(Rebuilt(n), "input") = DescribeRule(Rebuilt(n), "input")
                           /\ \A v, holds : \A d \in Nat : Parse(Rebuilt(n), v, holds, d) = ParseRule(Rebuilt(n), v, holds, d)
  BY SimpleIs DEF IsSearch
<1>5. \A left, right : Merge(left, right) = MergeRule(left, right)
  BY DEF IsWorld
<1>6. \A s \in x.schemas : /\ IsSchema(s, x)
                           /\ Describe(s, "input") = DescribeRule(s, "input")
                           /\ \A v, holds : \A d \in Nat : Parse(s, v, holds, d) = ParseRule(s, v, holds, d)
  BY <1>1, <1>3, <1>4
<1>7. IsWorld(x)
  BY <1>5, <1>6 DEF IsWorld
<1> QED
  BY <1>2, <1>7 DEF x

\* The parts of a schema that stands for a node parse alike when the schemas of the
\* children of the node do.
LEMMA RebuiltAlike ==
  ASSUME NEW g, NEW w, IsSearch(g, w), IsWellFormed(g), NEW n \in Simple(g, FALSE),
         NEW h, NEW d, NEW k, NEW e,
         \A c \in Children(n) : \A v \in g.values : Parse(Rebuilt(c), v, h, d) = Parse(Rebuilt(c), v, k, e)
  PROVE  PartsAlike(g.values, Rebuilt(n), Rebuilt(n), h, d, k, e)
<1> DEFINE r == Rebuilt(n)
<1>1. RebuiltFields(r, n) /\ IsNode(n, g)
  BY RebuiltIs, SimpleIs DEF IsWellFormed, IsGraph
<1>2. r.kind = n.kind
  BY <1>1 DEF RebuiltFields
<1>3. n.kind = "array" => \A v \in g.values : Parse(r.item, v, h, d) = Parse(r.item, v, k, e)
  BY <1>1 DEF RebuiltFields, Children
<1>4. n.kind = "tuple" => \A i \in 1 .. Len(r.items) : \A v \in g.values : Parse(r.items[i], v, h, d) = Parse(r.items[i], v, k, e)
  <2> SUFFICES ASSUME n.kind = "tuple", NEW i \in 1 .. Len(r.items)
               PROVE  \A v \in g.values : Parse(r.items[i], v, h, d) = Parse(r.items[i], v, k, e)
    OBVIOUS
  <2>1. n.items \in Seq(g.nodes) /\ r.items = [j \in DOMAIN n.items |-> Rebuilt(n.items[j])]
    BY <1>1 DEF IsNode, RebuiltFields
  <2>2. i \in DOMAIN n.items
    BY <2>1
  <2>3. r.items[i] = Rebuilt(n.items[i]) /\ n.items[i] \in Children(n)
    BY <2>1, <2>2 DEF Children, Range
  <2> QED
    BY <2>3
<1>5. n.kind \in {"union", "discriminatedUnion"} =>
        \A i \in DOMAIN r.choices : \A v \in g.values : Parse(r.choices[i], v, h, d) = Parse(r.choices[i], v, k, e)
  BY <1>1 DEF RebuiltFields, Children, Range
<1>6. n.kind = "object" =>
        \A p \in DOMAIN r.shape : \A v \in g.values : Parse(r.shape[p], v, h, d) = Parse(r.shape[p], v, k, e)
  BY <1>1 DEF RebuiltFields, Children, Range
<1>7. n.kind \in {"nullable", "optional"} => \A v \in g.values : Parse(r.inner, v, h, d) = Parse(r.inner, v, k, e)
  BY <1>1 DEF RebuiltFields, Children
<1> HIDE DEF r
<1> QED
  BY <1>2, <1>3, <1>4, <1>5, <1>6, <1>7 DEF PartsAlike, r

\* Whether it matters to the schemas of simple nodes which checks hold.
Indifferent(g, h, k, d) ==
  \A n \in Simple(g, FALSE) : \A v \in g.values : Parse(Rebuilt(n), v, h, d) = Parse(Rebuilt(n), v, k, d)

\* No check matters to what stands for a node without checks.
LEMMA NothingHolds ==
  ASSUME NEW g, NEW w, IsSearch(g, w), IsWellFormed(g), IsWorld(w),
         NEW h, NEW k, NEW d \in Nat
  PROVE  Indifferent(g, h, k, d)
<1> DEFINE B == {n \in g.nodes : n \in Simple(g, FALSE) /\ \E v \in g.values : Parse(Rebuilt(n), v, h, d) # Parse(Rebuilt(n), v, k, d)}
<1>1. SUFFICES ASSUME B # {} PROVE FALSE
  BY SimpleIs DEF Indifferent
<1>2. \A m \in g.nodes : g.size[m] \in Nat
  BY DEF IsWellFormed, IsGraph, IsNode
<1>3. PICK n \in B : \A c \in g.nodes : g.size[c] < g.size[n] => c \notin B
  BY <1>1, <1>2, SmallestNode
<1>4. n \in g.nodes /\ n \in Simple(g, FALSE)
  OBVIOUS
<1>5. PICK v \in g.values : Parse(Rebuilt(n), v, h, d) # Parse(Rebuilt(n), v, k, d)
  OBVIOUS
<1>6. n.kind \in Searched /\ n.refs = <<>> /\ IsNode(n, g)
  BY <1>4, SimpleIs DEF IsWellFormed, IsGraph
<1>7. \A c \in Children(n) : \A x \in g.values : Parse(Rebuilt(c), x, h, d) = Parse(Rebuilt(c), x, k, d)
  BY <1>3, <1>4, <1>6, SimpleIs DEF IsNode
<1> HIDE DEF B
<1> DEFINE r == Rebuilt(n)
<1>8. PartsAlike(g.values, r, r, h, d, k, d)
  BY <1>4, <1>7, RebuiltAlike
<1>9. IsWorld(SearchWorld(g)) /\ r \in SearchWorld(g).schemas
  BY <1>4, RebuiltWorld
<1>10. IsSchema(r, SearchWorld(g)) /\ Parse(r, v, h, d) = ParseRule(r, v, h, d) /\ Parse(r, v, k, d) = ParseRule(r, v, k, d)
  BY <1>9 DEF IsWorld
<1>16. RebuiltFields(r, n)
  BY <1>4, RebuiltIs
<1>12. IsValue(v, g.values)
  BY DEF IsWellFormed, IsGraph
<1> HIDE DEF r
<1>11. r.kind = n.kind /\ r.refs = <<>>
  BY <1>6, <1>16 DEF RebuiltFields
<1>13. ParseBase(r, v, h, d) = ParseBase(r, v, k, d)
  BY <1>6, <1>8, <1>10, <1>11, <1>12, AlikeInShape
<1>14. \A held : Range(r.refs) \subseteq held \cup Warnings
  BY <1>11 DEF Range
<1>15. ParseRule(r, v, h, d) = ParseRule(r, v, k, d)
  BY <1>13, <1>14 DEF ParseRule
<1> QED
  BY <1>5, <1>10, <1>15 DEF r

\* Nor does it exhaust the stack.
LEMMA NothingOverflows ==
  ASSUME NEW g, NEW w, IsSearch(g, w), IsWellFormed(g), IsWorld(w), NEW h, NEW d \in Nat
  PROVE  \A n \in Simple(g, FALSE) : \A v \in g.values : Parse(Rebuilt(n), v, h, d) # Overflow
<1> DEFINE B == {n \in g.nodes : n \in Simple(g, FALSE) /\ \E v \in g.values : Parse(Rebuilt(n), v, h, d) = Overflow}
<1>1. SUFFICES ASSUME B # {} PROVE FALSE
  BY SimpleIs
<1>2. \A m \in g.nodes : g.size[m] \in Nat
  BY DEF IsWellFormed, IsGraph, IsNode
<1>3. PICK n \in B : \A c \in g.nodes : g.size[c] < g.size[n] => c \notin B
  BY <1>1, <1>2, SmallestNode
<1>4. n \in g.nodes /\ n \in Simple(g, FALSE)
  OBVIOUS
<1>5. PICK v \in g.values : Parse(Rebuilt(n), v, h, d) = Overflow
  OBVIOUS
<1>6. n.kind \in Searched /\ n.refs = <<>> /\ IsNode(n, g)
  BY <1>4, SimpleIs DEF IsWellFormed, IsGraph
<1>7. \A c \in Children(n) : \A x \in g.values : Parse(Rebuilt(c), x, h, d) # Overflow
  BY <1>3, <1>4, <1>6, SimpleIs DEF IsNode
<1> HIDE DEF B
<1> DEFINE r == Rebuilt(n)
<1>8. IsWorld(SearchWorld(g)) /\ r \in SearchWorld(g).schemas
  BY <1>4, RebuiltWorld
<1>9. IsSchema(r, SearchWorld(g)) /\ Parse(r, v, h, d) = ParseRule(r, v, h, d) /\ IsValue(v, g.values)
  BY <1>8 DEF IsWorld, IsWellFormed, IsGraph
<1>10. RebuiltFields(r, n)
  BY <1>4, RebuiltIs
<1> HIDE DEF r
<1>11. r.kind = n.kind
  BY <1>10 DEF RebuiltFields
<1>12. ParseBase(r, v, h, d) = Overflow
  BY <1>5, <1>9, OutcomesDiffer DEF ParseRule, r
<1>13. \A parts, accepted, x : Overflow \notin parts => Gather(parts, accepted, x) # Overflow
  BY OutcomesDiffer DEF Gather, Accept
<1>14. \A accepted, x : Accept(accepted, x) # Overflow
  BY OutcomesDiffer DEF Accept
<1>15. CASE n.kind \in Leaves
  <2>1. CASE n.kind = "string"
    BY <1>11, <1>12, <1>14, <2>1 DEF ParseBase
  <2>2. CASE n.kind = "number"
    BY <1>11, <1>12, <1>14, <2>2 DEF ParseBase
  <2>3. CASE n.kind \in {"boolean", "literal", "enum"}
    BY <1>11, <1>12, <1>14, <2>3 DEF ParseBase
  <2>4. CASE n.kind \in {"unknown", "never"}
    BY <1>11, <1>12, <2>4, OutcomesDiffer DEF ParseBase
  <2> QED
    BY <1>15, <2>1, <2>2, <2>3, <2>4 DEF Leaves
<1>16. CASE n.kind = "array"
  <2>1. ParseArray(r, v, h, d) = Overflow
    BY <1>11, <1>12, <1>16 DEF ParseBase
  <2>2. \A x \in g.values : Parse(r.item, x, h, d) # Overflow
    BY <1>7, <1>10, <1>16 DEF RebuiltFields, Children
  <2> DEFINE parts == ParseItems([i \in DOMAIN v.items |-> r.item], v, h, d)
  <2>3. v.tag = "array" => Overflow \notin Range(parts)
    <3> SUFFICES ASSUME v.tag = "array", NEW i \in DOMAIN v.items PROVE parts[i] # Overflow
      BY DEF ParseItems, Range
    <3>1. v.items[i] \in g.values
      BY <1>9 DEF IsValue
    <3> QED
      BY <2>2, <3>1 DEF ParseItems
  <2> HIDE DEF parts
  <2> QED
    BY <1>13, <2>1, <2>3, OutcomesDiffer DEF ParseArray, parts
<1>17. CASE n.kind = "tuple"
  <2>1. ParseTuple(r, v, h, d) = Overflow
    BY <1>11, <1>12, <1>17 DEF ParseBase
  <2>2. \A i \in DOMAIN r.items : \A x \in g.values : Parse(r.items[i], x, h, d) # Overflow
    BY <1>7, <1>10, <1>17 DEF RebuiltFields, Children, Range
  <2> DEFINE parts == ParseItems(r.items, v, h, d)
  <2>3. r.items \in Seq(SearchWorld(g).schemas)
    BY <1>9, <1>11, <1>17 DEF IsSchema
  <2>4. v.tag = "array" /\ Len(v.items) = Len(r.items) => Overflow \notin Range(parts)
    <3> SUFFICES ASSUME v.tag = "array", Len(v.items) = Len(r.items), NEW i \in DOMAIN v.items
                 PROVE  parts[i] # Overflow
      BY DEF ParseItems, Range
    <3>1. v.items[i] \in g.values /\ i \in DOMAIN r.items
      BY <1>9, <2>3 DEF IsValue
    <3> QED
      BY <2>2, <3>1 DEF ParseItems
  <2> HIDE DEF parts
  <2> QED
    BY <1>13, <2>1, <2>4, OutcomesDiffer DEF ParseTuple, parts
<1>18. CASE n.kind = "union"
  <2>1. ParseUnion(r, v, h, d) = Overflow
    BY <1>11, <1>12, <1>18 DEF ParseBase
  <2>2. \A i \in DOMAIN r.choices : Parse(r.choices[i], v, h, d) # Overflow
    BY <1>7, <1>10, <1>18 DEF RebuiltFields, Children, Range
  <2> DEFINE parts == [i \in DOMAIN r.choices |-> Parse(r.choices[i], v, h, d)]
             hits == {i \in DOMAIN parts : parts[i] # Rejected}
  <2>3. \A i \in DOMAIN parts : parts[i] # Overflow
    BY <2>2
  <2>4. ParseUnion(r, v, h, d) = IF hits = {} THEN Rejected ELSE parts[Min(hits)]
    BY DEF ParseUnion
  <2>5. r.choices \in Seq(SearchWorld(g).schemas)
    BY <1>9, <1>11, <1>18 DEF IsSchema
  <2>6. hits \in SUBSET Nat /\ hits \subseteq DOMAIN parts
    BY <2>5
  <2> HIDE DEF parts, hits
  <2> QED
    BY <2>1, <2>3, <2>4, <2>6, LeastIndex, OutcomesDiffer
<1>19. CASE n.kind = "discriminatedUnion"
  <2>1. ParseDiscriminated(r, v, h, d) = Overflow
    BY <1>11, <1>12, <1>19 DEF ParseBase
  <2>2. \A i \in DOMAIN r.choices : Parse(r.choices[i], v, h, d) # Overflow
    BY <1>7, <1>10, <1>19 DEF RebuiltFields, Children, Range
  <2> DEFINE selected == {i \in DOMAIN r.choices : v.props[r.by] \in Selecting(r, r.choices[i])}
  <2>3. ParseDiscriminated(r, v, h, d) =
          IF v.tag # "object" \/ r.by \notin DOMAIN v.props \/ selected = {} THEN Rejected
          ELSE Parse(r.choices[Min(selected)], v, h, d)
    BY DEF ParseDiscriminated
  <2>4. r.choices \in Seq(SearchWorld(g).schemas)
    BY <1>9, <1>11, <1>19 DEF IsSchema
  <2>5. selected \in SUBSET Nat /\ selected \subseteq DOMAIN r.choices
    BY <2>4
  <2> HIDE DEF selected
  <2> QED
    BY <2>1, <2>2, <2>3, <2>5, LeastIndex, OutcomesDiffer
<1>20. CASE n.kind = "object"
  <2>1. ParseObject(r, v, h, d) = Overflow
    BY <1>11, <1>12, <1>20 DEF ParseBase
  <2>2. \A p \in DOMAIN r.shape : \A x \in g.values : Parse(r.shape[p], x, h, d) # Overflow
    BY <1>7, <1>10, <1>20 DEF RebuiltFields, Children, Range
  <2> DEFINE present == DOMAIN r.shape \cap DOMAIN v.props
             parts == [p \in present |-> Parse(r.shape[p], v.props[p], h, d)]
  <2>3. v.tag = "object" => Overflow \notin Range(parts)
    BY <1>9, <2>2 DEF Range, IsValue
  <2>4. \A accepted, x : v.tag = "object" => Gather(Range(parts), accepted, x) # Overflow
    BY <1>13, <2>3
  <2> QED
    BY <2>1, <2>4, OutcomesDiffer DEF ParseObject
<1>21. CASE n.kind \in {"nullable", "optional"}
  <2>1. \A x \in g.values : Parse(r.inner, x, h, d) # Overflow
    BY <1>7, <1>10, <1>21 DEF RebuiltFields, Children
  <2> QED
    BY <1>11, <1>12, <1>21, <2>1, OutcomesDiffer DEF ParseBase
<1> QED
  BY <1>6, <1>15, <1>16, <1>17, <1>18, <1>19, <1>20, <1>21 DEF Searched, Leaves

\* Two sequences that are empty together are empty.
LEMMA EmptyTogether ==
  ASSUME NEW T, NEW a \in Seq(T), NEW b \in Seq(T), a \o b = <<>>
  PROVE  a = <<>> /\ b = <<>>
<1>1. Len(a \o b) = Len(a) + Len(b) /\ Len(a) \in Nat /\ Len(b) \in Nat
  OBVIOUS
<1>2. Len(a \o b) = 0
  OBVIOUS
<1>3. Len(a) = 0 /\ Len(b) = 0
  BY <1>1, <1>2
<1> QED
  BY <1>3

\* The outcome of a schema is that of its base when its checks cannot fail.
LEMMA BaseOf ==
  ASSUME NEW g, NEW w, IsSearch(g, w), NEW n \in g.nodes, NEW v, NEW h, NEW d \in Nat
  PROVE  /\ ParseBase(Rebuilt(n), v, h, d) = Rejected => Parse(Rebuilt(n), v, h, d) = Rejected
         /\ Rebuilt(n).refs = <<>> => Parse(Rebuilt(n), v, h, d) = ParseBase(Rebuilt(n), v, h, d)
         /\ Parse(Rebuilt(n), v, h, d) \in {Rejected, ParseBase(Rebuilt(n), v, h, d)}
<1>1. Parse(Rebuilt(n), v, h, d) = ParseRule(Rebuilt(n), v, h, d)
  BY DEF IsSearch
<1>2. Rebuilt(n).refs = <<>> => Range(Rebuilt(n).refs) \subseteq h \cup Warnings
  BY DEF Range
<1> QED
  BY <1>1, <1>2 DEF ParseRule

\* A composite that is parsed is not undefined.
LEMMA CompositesAreDefined ==
  ASSUME NEW g, NEW w, IsSearch(g, w), IsWellFormed(g), NEW loose, NEW n \in Simple(g, loose),
         n.kind \in {"array", "tuple", "object"}, NEW v, NEW h, NEW d \in Nat
  PROVE  Parse(Rebuilt(n), v, h, d) # Ok(Undefined)
<1> DEFINE r == Rebuilt(n)
<1>1. RebuiltFields(r, n)
  BY RebuiltIs
<1>2. r.kind = n.kind
  BY <1>1 DEF RebuiltFields
<1>3. \A x : Ok(List(x)) # Ok(Undefined) /\ Ok(Obj(x)) # Ok(Undefined)
  <2>1. \A x : List(x) # Undefined /\ Obj(x) # Undefined
    BY DEF List, Obj, Undefined
  <2> QED
    BY <2>1, OutcomesDiffer
<1>4. Rejected # Ok(Undefined) /\ Overflow # Ok(Undefined)
  BY OutcomesDiffer
<1>5. \A parts, accepted, x : Gather(parts, accepted, x) \in {Overflow, Rejected, Ok(x)}
  BY DEF Gather, Accept
<1> HIDE DEF r
<1>6. ParseBase(r, v, h, d) # Ok(Undefined)
  <2>1. CASE n.kind = "array"
    <3>1. ParseArray(r, v, h, d) # Ok(Undefined)
      BY <1>3, <1>4, <1>5 DEF ParseArray
    <3> QED
      BY <1>2, <2>1, <3>1 DEF ParseBase
  <2>2. CASE n.kind = "tuple"
    <3>1. ParseTuple(r, v, h, d) # Ok(Undefined)
      BY <1>3, <1>4, <1>5 DEF ParseTuple
    <3> QED
      BY <1>2, <2>2, <3>1 DEF ParseBase
  <2>3. CASE n.kind = "object"
    <3>1. ParseObject(r, v, h, d) # Ok(Undefined)
      BY <1>3, <1>4, <1>5 DEF ParseObject
    <3> QED
      BY <1>2, <2>3, <3>1 DEF ParseBase
  <2> QED
    BY <2>1, <2>2, <2>3
<1>7. n \in g.nodes
  BY SimpleIs
<1> QED
  BY <1>4, <1>6, <1>7, BaseOf DEF r

\* What is left without undefined is not undefined.
LEMMA NeverUndefined ==
  ASSUME NEW g, IsWellFormed(g)
  PROVE  \A n \in g.excluded : ~IsUndefined(ExcludeUndefined(n))
<1> DEFINE B == {n \in g.nodes : n \in g.excluded /\ IsUndefined(ExcludeUndefined(n))}
<1>1. SUFFICES ASSUME B # {} PROVE FALSE
  BY Excluded
<1>2. \A m \in g.nodes : g.size[m] \in Nat
  BY DEF IsWellFormed, IsGraph, IsNode
<1>3. PICK n \in B : \A c \in g.nodes : g.size[c] < g.size[n] => c \notin B
  BY <1>1, <1>2, SmallestNode
<1>4. n \in g.nodes /\ n \in g.excluded /\ IsUndefined(ExcludeUndefined(n)) /\ HasFields(n)
  BY DEF IsWellFormed
<1>5. \A c \in Children(n) : c \in g.excluded => ~IsUndefined(ExcludeUndefined(c))
  BY <1>3, <1>4 DEF IsWellFormed, IsGraph, IsNode
<1> HIDE DEF B
<1>6. CASE n.kind = "optional"
  <2> DEFINE e == ExcludeUndefined(n.inner)
  <2>1. n.inner \in g.excluded /\ n.inner \in Children(n) /\ ExcludeUndefined(n) = Refined(e, n.refs)
    BY <1>4, <1>6, Excluded
  <2>2. HasFields(e) /\ n.refs \in Seq(Ids)
    BY <1>4, <2>1, Excluded DEF IsWellFormed, HasFields
  <2>3. /\ Refined(e, n.refs).kind = e.kind
        /\ \A f \in NodeFields(e.kind) \ {"refs"} : Refined(e, n.refs)[f] = e[f]
    BY <2>2, RefinedFields
  <2>4. e.kind = "literal" => Refined(e, n.refs).lit = e.lit
    BY <2>3 DEF NodeFields
  <2> QED
    BY <1>4, <1>5, <2>1, <2>3, <2>4 DEF IsUndefined
<1>7. CASE n.kind \in {"nullable", "union"}
  BY <1>4, <1>7, Excluded DEF IsUndefined
<1>8. CASE n.kind \in LosesChecks
  <2> DEFINE one == <<"anonymous">>
  <2>2. ExcludeUndefined(n) = Refined(n, one) /\ one \in Seq(Ids)
    BY <1>4, <1>8, Excluded, Anonymous
  <2> HIDE DEF one
  <2>1. ExcludeUndefined(n).kind = n.kind
    BY <1>4, <2>2, RefinedFields
  <2> QED
    BY <1>4, <1>8, <2>1 DEF IsUndefined, LosesChecks
<1>9. CASE IsUndefined(n)
  <2>1. ExcludeUndefined(n) = Never
    BY <1>4, <1>9, Excluded DEF IsUndefined
  <2> QED
    BY <1>4, <2>1 DEF IsUndefined, Never
<1>10. CASE n.kind \notin LosesChecks \cup {"optional", "nullable", "union"} /\ ~IsUndefined(n)
  BY <1>4, <1>10, Excluded DEF IsUndefined
<1> QED
  BY <1>6, <1>7, <1>8, <1>9, <1>10

\* A node whose rest is simple is simple, but that it may have named undefined, and an
\* optional or an unchecked node is its inner node.
LEMMA SimpleRest ==
  ASSUME NEW g, IsWellFormed(g), NEW n \in g.excluded, ExcludeUndefined(n) \in Simple(g, TRUE)
  PROVE  /\ n.kind \notin LosesChecks
         /\ n.kind = "optional" => n.refs = <<>> /\ ExcludeUndefined(n) = ExcludeUndefined(n.inner)
         /\ n.kind \in {"nullable", "union"} => n.refs = <<>>
         /\ n.kind \in {"optional", "nullable", "union"} =>
              \A c \in Children(n) : c \in g.excluded /\ ExcludeUndefined(c) \in Simple(g, TRUE)
<1> DEFINE e == ExcludeUndefined(n)
<1>1. n \in g.nodes /\ HasFields(n) /\ n.refs \in Seq(Ids)
  BY Excluded DEF IsWellFormed, HasFields
<1>2. e \in g.nodes /\ e.refs = <<>> /\ \A c \in Children(e) : c \in Simple(g, TRUE)
  BY SimpleIs, NeverUndefined
<1>3. n.kind \notin LosesChecks
  <2> SUFFICES ASSUME n.kind \in LosesChecks PROVE FALSE
    OBVIOUS
  <2> DEFINE one == <<"anonymous">>
  <2>1. e = Refined(n, one) /\ one \in Seq(Ids) /\ Len(one) = 1
    BY Excluded, Anonymous
  <2> HIDE DEF one, e
  <2>2. e.refs = n.refs \o one
    BY <1>1, <2>1, RefinedFields
  <2>3. n.refs \o one = <<>>
    BY <1>2, <2>2 DEF e
  <2>4. one = <<>>
    BY ONLY <1>1, <2>1, <2>3, EmptyTogether
  <2> QED
    BY <2>1, <2>4
<1>4. ASSUME n.kind = "optional"
      PROVE  n.refs = <<>> /\ e = ExcludeUndefined(n.inner) /\ n.inner \in g.excluded
  <2> DEFINE i == ExcludeUndefined(n.inner)
  <2>1. n.inner \in g.excluded /\ e = Refined(i, n.refs)
    BY <1>4, Excluded
  <2>2. HasFields(i)
    BY <2>1, Excluded DEF IsWellFormed
  <2> HIDE DEF i, e
  <2>3. i.refs \in Seq(Ids) /\ i = [f \in NodeFields(i.kind) |-> i[f]]
    BY <2>2 DEF HasFields
  <2>4. e.refs = i.refs \o n.refs
    BY <1>1, <2>1, <2>2, RefinedFields
  <2>5. i.refs = <<>> /\ n.refs = <<>>
    <3>1. i.refs \o n.refs = <<>>
      BY <1>2, <2>4 DEF e
    <3> QED
      BY <1>1, <2>3, <3>1, EmptyTogether
  <2>6. e = [i EXCEPT !["refs"] = i["refs"]]
    BY <2>1, <2>5 DEF Refined
  <2>7. e = i
    BY <2>3, <2>6, Unchanged
  <2> QED
    BY <2>1, <2>5, <2>7 DEF i
<1>5. ASSUME n.kind = "nullable"
      PROVE  n.refs = <<>> /\ n.inner \in g.excluded /\ ExcludeUndefined(n.inner) \in Simple(g, TRUE)
  BY <1>2, <1>5, Excluded DEF Children
<1>6. ASSUME n.kind = "union"
      PROVE  /\ n.refs = <<>>
             /\ \A i \in DOMAIN n.choices : n.choices[i] \in g.excluded /\ ExcludeUndefined(n.choices[i]) \in Simple(g, TRUE)
  <2>1. /\ e.kind = "union" /\ e.refs = n.refs
        /\ e.choices = [i \in DOMAIN n.choices |-> ExcludeUndefined(n.choices[i])]
        /\ \A i \in DOMAIN n.choices : n.choices[i] \in g.excluded
    BY <1>6, Excluded
  <2>2. \A i \in DOMAIN n.choices : e.choices[i] \in Children(e) /\ e.choices[i] = ExcludeUndefined(n.choices[i])
    BY <2>1 DEF Children, Range
  <2> HIDE DEF e
  <2> QED
    BY <1>2, <2>1, <2>2
<1> QED
  BY <1>3, <1>4, <1>5, <1>6 DEF Children, Range

\* The node was simple when what is left of it without undefined is.
LEMMA SimpleBefore ==
  ASSUME NEW g, IsWellFormed(g)
  PROVE  \A n \in g.excluded : ExcludeUndefined(n) \in Simple(g, TRUE) => n \in Simple(g, TRUE)
<1> DEFINE B == {n \in g.nodes : n \in g.excluded /\ ExcludeUndefined(n) \in Simple(g, TRUE) /\ n \notin Simple(g, TRUE)}
<1>1. SUFFICES ASSUME B # {} PROVE FALSE
  BY Excluded
<1>2. \A m \in g.nodes : g.size[m] \in Nat
  BY DEF IsWellFormed, IsGraph, IsNode
<1>3. PICK n \in B : \A c \in g.nodes : g.size[c] < g.size[n] => c \notin B
  BY <1>1, <1>2, SmallestNode
<1>4. n \in g.nodes /\ n \in g.excluded /\ ExcludeUndefined(n) \in Simple(g, TRUE) /\ n \notin Simple(g, TRUE)
  OBVIOUS
<1>5. \A c \in Children(n) : c \in g.excluded /\ ExcludeUndefined(c) \in Simple(g, TRUE) => c \in Simple(g, TRUE)
  BY <1>3, <1>4 DEF IsWellFormed, IsGraph, IsNode
<1> HIDE DEF B
<1>6. CASE n.kind \in {"optional", "nullable", "union"}
  <2>1. n.refs = <<>> /\ \A c \in Children(n) : c \in Simple(g, TRUE)
    BY <1>4, <1>5, <1>6, SimpleRest
  <2> QED
    BY <1>4, <1>6, <2>1, SimpleWhen DEF Searched
<1>7. CASE IsUndefined(n)
  <2>1. n.kind \in Searched /\ Children(n) = {}
    BY <1>7 DEF IsUndefined, Searched, Children
  <2> QED
    BY <1>4, <1>7, <2>1, SimpleWhen
<1>8. CASE n.kind \notin {"optional", "nullable", "union"} /\ ~IsUndefined(n)
  <2>1. n.kind \notin LosesChecks
    BY <1>4, SimpleRest
  <2>2. ExcludeUndefined(n) = n
    BY <1>4, <1>8, <2>1, Excluded DEF IsUndefined
  <2> QED
    BY <1>4, <2>2
<1> QED
  BY <1>6, <1>7, <1>8

\* What is left rejects undefined, and nothing else has changed.
RestParses(n, V, h, d) ==
  LET r == Rebuilt(n)
      e == Rebuilt(ExcludeUndefined(n))
  IN /\ Parse(e, Undefined, h, d) = Rejected
     /\ \A v \in V : v # Undefined => Parse(r, v, h, d) = Parse(e, v, h, d) /\ Parse(r, v, h, d) # Ok(Undefined)

\* That is so at every node, by induction over its size.
LEMMA RestIsAlike ==
  ASSUME NEW g, NEW w, IsSearch(g, w), IsWellFormed(g), NEW h, NEW d \in Nat
  PROVE  \A n \in g.excluded : ExcludeUndefined(n) \in Simple(g, TRUE) => RestParses(n, g.values, h, d)
<1> DEFINE Fails(n) == ExcludeUndefined(n) \in Simple(g, TRUE) /\ ~RestParses(n, g.values, h, d)
           B == {n \in g.nodes : n \in g.excluded /\ Fails(n)}
<1>1. SUFFICES ASSUME B # {} PROVE FALSE
  BY Excluded
<1>2. \A m \in g.nodes : g.size[m] \in Nat
  BY DEF IsWellFormed, IsGraph, IsNode
<1>3. PICK n \in B : \A c \in g.nodes : g.size[c] < g.size[n] => c \notin B
  <2> HIDE DEF Fails
  <2> QED
    BY <1>1, <1>2, SmallestNode
<1>4. n \in g.nodes /\ n \in g.excluded /\ ExcludeUndefined(n) \in Simple(g, TRUE) /\ ~RestParses(n, g.values, h, d)
  OBVIOUS
<1>5. \A c \in Children(n) : c \in g.excluded /\ ExcludeUndefined(c) \in Simple(g, TRUE) => RestParses(c, g.values, h, d)
  <2>1. \A c \in Children(n) : c \in g.nodes /\ c \notin B
    BY <1>3, <1>4 DEF IsWellFormed, IsGraph, IsNode
  <2> QED
    BY <2>1
<1> HIDE DEF B, Fails
<1> DEFINE x == ExcludeUndefined(n)
           r == Rebuilt(n)
           e == Rebuilt(x)
<1>6. n \in Simple(g, TRUE) /\ x \in Simple(g, TRUE)
  BY <1>4, SimpleBefore
<1>7. n \in g.nodes /\ x \in g.nodes /\ n.kind \in Searched /\ IsNode(n, g)
  BY <1>4, <1>6, SimpleIs DEF IsWellFormed, IsGraph
<1>8. RebuiltFields(r, n) /\ RebuiltFields(e, x)
  BY <1>6, RebuiltIs
<1>9. \A v : /\ r.refs = <<>> => Parse(r, v, h, d) = ParseBase(r, v, h, d)
             /\ e.refs = <<>> => Parse(e, v, h, d) = ParseBase(e, v, h, d)
             /\ ParseBase(r, v, h, d) = Rejected => Parse(r, v, h, d) = Rejected
             /\ ParseBase(e, v, h, d) = Rejected => Parse(e, v, h, d) = Rejected
             /\ Parse(r, v, h, d) \in {Rejected, ParseBase(r, v, h, d)}
  BY <1>7, BaseOf
<1>10. x.refs = <<>> /\ e.refs = <<>>
  BY <1>4, <1>6, <1>8, SimpleIs, NeverUndefined DEF RebuiltFields
<1>11. \A v : Rejected # Ok(v)
  BY OutcomesDiffer
<1>12. Undefined # Null
  BY DEF Undefined, Null
<1> HIDE DEF r, e
<1>13. CASE n.kind = "optional"
  <2>1. n.refs = <<>> /\ x = ExcludeUndefined(n.inner) /\ RestParses(n.inner, g.values, h, d)
    BY <1>4, <1>5, <1>13, SimpleRest DEF Children
  <2>2. r.kind = "optional" /\ r.refs = <<>> /\ r.inner = Rebuilt(n.inner)
    BY <1>8, <1>13, <2>1 DEF RebuiltFields
  <2>3. \A v : v # Undefined => Parse(r, v, h, d) = Parse(Rebuilt(n.inner), v, h, d)
    BY <1>9, <2>2 DEF ParseBase
  <2> QED
    BY <1>4, <2>1, <2>3 DEF RestParses, e, r
<1>14. CASE n.kind = "nullable"
  <2>1. n.refs = <<>> /\ RestParses(n.inner, g.values, h, d)
    BY <1>4, <1>5, <1>14, SimpleRest DEF Children
  <2>2. x.kind = "nullable" /\ x.inner = ExcludeUndefined(n.inner)
    BY <1>4, <1>14, Excluded
  <2> HIDE DEF x
  <2>3. /\ r.kind = "nullable" /\ r.refs = <<>> /\ r.inner = Rebuilt(n.inner)
        /\ e.kind = "nullable" /\ e.inner = Rebuilt(x.inner)
    BY <1>8, <1>14, <2>1, <2>2 DEF RebuiltFields
  <2>4. \A v : /\ Parse(r, v, h, d) = IF v = Null THEN Ok(v) ELSE Parse(Rebuilt(n.inner), v, h, d)
               /\ Parse(e, v, h, d) = IF v = Null THEN Ok(v) ELSE Parse(Rebuilt(ExcludeUndefined(n.inner)), v, h, d)
    BY <1>9, <1>10, <2>2, <2>3 DEF ParseBase
  <2>5. Ok(Null) # Ok(Undefined)
    BY <1>12, OutcomesDiffer
  <2> QED
    BY <1>4, <1>12, <2>1, <2>4, <2>5 DEF RestParses, e, r, x
<1>15. CASE n.kind = "union"
  <2>1. n.refs = <<>> /\ \A i \in DOMAIN n.choices : RestParses(n.choices[i], g.values, h, d)
    BY <1>4, <1>5, <1>15, SimpleRest DEF Children, Range
  <2>2. x.kind = "union" /\ x.choices = [i \in DOMAIN n.choices |-> ExcludeUndefined(n.choices[i])]
    BY <1>4, <1>15, Excluded
  <2>3. n.choices \in Seq(g.nodes)
    BY <1>7, <1>15 DEF IsNode
  <2> HIDE DEF x
  <2>4. /\ r.kind = "union" /\ r.refs = <<>> /\ r.choices = [i \in DOMAIN n.choices |-> Rebuilt(n.choices[i])]
        /\ e.kind = "union" /\ e.choices = [i \in DOMAIN x.choices |-> Rebuilt(x.choices[i])]
    BY <1>8, <1>15, <2>1, <2>2 DEF RebuiltFields
  <2>5. \A v : Parse(r, v, h, d) = ParseUnion(r, v, h, d) /\ Parse(e, v, h, d) = ParseUnion(e, v, h, d)
    BY <1>9, <1>10, <2>4 DEF ParseBase
  <2>6. \A i \in DOMAIN n.choices :
          r.choices[i] = Rebuilt(n.choices[i]) /\ e.choices[i] = Rebuilt(ExcludeUndefined(n.choices[i]))
    BY <2>2, <2>4
  <2>7. DOMAIN r.choices = DOMAIN n.choices /\ DOMAIN e.choices = DOMAIN n.choices
    BY <2>2, <2>4
  <2>8. Parse(e, Undefined, h, d) = Rejected
    <3> DEFINE tried == [i \in DOMAIN e.choices |-> Parse(e.choices[i], Undefined, h, d)]
    <3>1. \A i \in DOMAIN tried : tried[i] = Rejected
      BY <2>1, <2>6, <2>7 DEF RestParses
    <3> QED
      BY <2>5, <3>1 DEF ParseUnion
  <2>9. ASSUME NEW v \in g.values, v # Undefined
        PROVE  Parse(r, v, h, d) = Parse(e, v, h, d) /\ Parse(r, v, h, d) # Ok(Undefined)
    <3> DEFINE tried == [i \in DOMAIN r.choices |-> Parse(r.choices[i], v, h, d)]
               tried2 == [i \in DOMAIN e.choices |-> Parse(e.choices[i], v, h, d)]
               hits == {i \in DOMAIN tried : tried[i] # Rejected}
    <3>1. \A i \in DOMAIN n.choices : tried[i] = tried2[i] /\ tried[i] # Ok(Undefined)
      BY <2>1, <2>6, <2>7, <2>9 DEF RestParses
    <3>2. DOMAIN tried = DOMAIN n.choices /\ DOMAIN tried2 = DOMAIN n.choices
      BY <2>7
    <3>3. tried = tried2
      BY <2>7, <3>1
    <3>4. ParseUnion(r, v, h, d) = ParseUnion(e, v, h, d)
      BY <3>3 DEF ParseUnion
    <3>5. ParseUnion(r, v, h, d) = IF hits = {} THEN Rejected ELSE tried[Min(hits)]
      BY DEF ParseUnion
    <3>6. hits \in SUBSET Nat /\ hits \subseteq DOMAIN n.choices
      BY <2>3, <3>2
    <3> HIDE DEF tried, hits, tried2
    <3> QED
      BY <1>11, <2>5, <3>1, <3>4, <3>5, <3>6, LeastIndex
  <2> QED
    BY <1>4, <2>8, <2>9 DEF RestParses, e, r, x
<1>16. CASE IsUndefined(n)
  <2>1. x = Never /\ r.kind = "literal" /\ r.lit = Undefined
    <3>1. x = Never
      BY <1>4, <1>16, Excluded DEF IsUndefined
    <3>2. r = n
      BY <1>8, <1>16 DEF IsUndefined, RebuiltFields, Leaves
    <3> QED
      BY <1>16, <3>1, <3>2 DEF IsUndefined
  <2>2. e.kind = "never"
    BY <1>8, <2>1 DEF RebuiltFields, Never
  <2>3. \A v : Parse(e, v, h, d) = Rejected
    BY <1>9, <2>2 DEF ParseBase
  <2>4. \A v : v # Undefined => Parse(r, v, h, d) = Rejected
    BY <1>9, <2>1 DEF ParseBase, Accept
  <2> QED
    BY <1>4, <1>11, <2>3, <2>4 DEF RestParses, e, r, x
<1>17. CASE n.kind \notin {"optional", "nullable", "union"} /\ ~IsUndefined(n)
  <2>1. n.kind \notin LosesChecks
    BY <1>4, SimpleRest
  <2>2. x = n
    BY <1>4, <1>17, <2>1, Excluded DEF IsUndefined
  <2>3. r = e /\ r.kind = n.kind
    BY <1>8, <2>2 DEF r, e, RebuiltFields
  <2>4. \A t : Ok(t) = Ok(Undefined) => t = Undefined
    BY OutcomesDiffer
  <2>5. \A a, t : t # Undefined => Accept(a, t) # Ok(Undefined)
    BY <1>11, <2>4 DEF Accept
  <2>6. Undefined.tag = "undefined"
    BY DEF Undefined
  <2>7. CASE n.kind \in {"string", "number", "boolean", "never"}
    <3>1. ParseBase(r, Undefined, h, d) = Rejected
      BY <2>3, <2>6, <2>7 DEF ParseBase, Accept
    <3>2. \A v : v # Undefined => ParseBase(r, v, h, d) # Ok(Undefined)
      BY <1>11, <2>3, <2>5, <2>7 DEF ParseBase
    <3> QED
      BY <1>4, <1>9, <1>11, <2>3, <3>1, <3>2 DEF RestParses, e, r, x
  <2>8. CASE n.kind \in {"literal", "enum"}
    <3>0. r = n
      BY <1>8, <2>8 DEF RebuiltFields, Leaves
    <3>1. ParseBase(r, Undefined, h, d) = Rejected
      <4>1. CASE n.kind = "literal"
        BY <1>17, <3>0, <4>1 DEF ParseBase, Accept, IsUndefined
      <4>2. CASE n.kind = "enum"
        <5>1. Undefined \notin n.values
          BY <1>4, <4>2 DEF IsWellFormed, Excludes
        <5> QED
          BY <3>0, <4>2, <5>1 DEF ParseBase, Accept
      <4> QED
        BY <2>8, <4>1, <4>2
    <3>2. \A v : v # Undefined => ParseBase(r, v, h, d) # Ok(Undefined)
      BY <2>3, <2>5, <2>8 DEF ParseBase
    <3> QED
      BY <1>4, <1>9, <1>11, <2>3, <3>1, <3>2 DEF RestParses, e, r, x
  <2>9. CASE n.kind \in {"array", "tuple", "object"}
    <3>1. ParseBase(r, Undefined, h, d) = Rejected
      BY <2>3, <2>6, <2>9 DEF ParseBase, ParseArray, ParseTuple, ParseObject
    <3>2. \A v : Parse(r, v, h, d) # Ok(Undefined)
      BY <1>6, <2>9, CompositesAreDefined DEF r
    <3> QED
      BY <1>4, <1>9, <2>3, <3>1, <3>2 DEF RestParses, e, r, x
  <2>10. CASE n.kind = "discriminatedUnion"
    <3>1. ParseBase(r, Undefined, h, d) = Rejected
      BY <2>3, <2>6, <2>10 DEF ParseBase, ParseDiscriminated
    <3>2. /\ r.choices = [i \in DOMAIN n.choices |-> Rebuilt(n.choices[i])]
          /\ n.choices \in Seq(g.nodes) /\ \A i \in DOMAIN n.choices : n.choices[i].kind = "object"
      BY <1>7, <1>8, <2>10 DEF RebuiltFields, IsNode
    <3>3. \A i \in DOMAIN n.choices : n.choices[i] \in Simple(g, TRUE)
      BY <1>6, <2>10, SimpleIs DEF Children, Range
    <3>4. \A i \in DOMAIN n.choices : \A v : Parse(Rebuilt(n.choices[i]), v, h, d) # Ok(Undefined)
      BY <3>2, <3>3, CompositesAreDefined
    <3>5. ASSUME NEW v PROVE ParseDiscriminated(r, v, h, d) # Ok(Undefined)
      <4> DEFINE selected == {i \in DOMAIN r.choices : v.props[r.by] \in Selecting(r, r.choices[i])}
      <4>1. ParseDiscriminated(r, v, h, d) =
              IF v.tag # "object" \/ r.by \notin DOMAIN v.props \/ selected = {} THEN Rejected
              ELSE Parse(r.choices[Min(selected)], v, h, d)
        BY DEF ParseDiscriminated
      <4>2. selected \in SUBSET Nat /\ selected \subseteq DOMAIN n.choices
        BY <3>2
      <4> HIDE DEF selected
      <4>3. selected # {} => Min(selected) \in DOMAIN n.choices
        BY <4>2, LeastIndex
      <4>4. \A i \in DOMAIN n.choices : Parse(r.choices[i], v, h, d) # Ok(Undefined)
        BY <3>2, <3>4
      <4> QED
        BY <1>11, <4>1, <4>3, <4>4
    <3>6. \A v : ParseBase(r, v, h, d) # Ok(Undefined)
      BY <2>3, <2>10, <3>5 DEF ParseBase
    <3> QED
      BY <1>4, <1>9, <1>11, <2>3, <3>1, <3>6 DEF RestParses, e, r, x
  <2> QED
    BY <1>7, <1>17, <2>1, <2>7, <2>8, <2>9, <2>10 DEF Searched, LosesChecks
<1> QED
  BY <1>13, <1>14, <1>15, <1>16, <1>17

\* The values of a tag, and tags with the same values.
TagValues(p) == IF p.kind = "enum" THEN p.values ELSE {p.lit}
SameTag(p, q) == TagValues(p) = TagValues(q)

\* A discriminated union is described with its tag.
LEMMA DescribedBy ==
  ASSUME NEW w, NEW s, IsSchema(s, w), Describe(s, "input") = DescribeRule(s, "input"), s.kind = "discriminatedUnion"
  PROVE  Input(s).by = s.by
<1> DEFINE b == DescribeBase(s, "input")
<1>1. b = Discriminated(s.by, [i \in DOMAIN s.choices |-> Describe(s.choices[i], "input")])
  BY DEF DescribeBase
<1>2. b.refs = <<>> /\ b.by = s.by /\ {"refs", "by"} \subseteq DOMAIN b
  BY <1>1 DEF Discriminated
<1>3. s.refs \in Seq(Ids)
  BY DEF IsSchema
<1>4. Input(s) = Refined(b, s.refs)
  BY DEF Input, DescribeRule
<1> HIDE DEF b
<1>5. Refined(b, s.refs)["by"] = b["by"]
  BY <1>2, <1>3, Rechecked
<1> QED
  BY <1>2, <1>4, <1>5

\* What stands for a choice has its tag.
LEMMA TagKept ==
  ASSUME NEW g, NEW w, IsSearch(g, w), IsWorld(w), DescribesInput(g, w),
         NEW c \in w.schemas, c.kind = "object", NEW by, IsTag(c.shape, by), Input(c) \in Simple(g, TRUE)
  PROVE  /\ by \in DOMAIN Rebuilt(Input(c)).shape
         /\ SameTag(Rebuilt(Input(c)).shape[by], c.shape[by])
<1> DEFINE n == Input(c)
           p == c.shape[by]
<1>1. IsWellFormed(g) /\ IsSchema(c, w) /\ Describe(c, "input") = DescribeRule(c, "input")
  BY DEF DescribesInput, IsWorld
<1>2. n.kind = "object" /\ n.shape = [k \in DOMAIN c.shape |-> Input(c.shape[k])]
  BY <1>1, Described
<1>3. by \in DOMAIN c.shape /\ p.kind \in {"literal", "enum"}
  BY DEF IsTag
<1>4. p \in w.schemas
  BY <1>1, <1>3 DEF IsSchema, Parts, Range
<1>5. IsSchema(p, w) /\ Describe(p, "input") = DescribeRule(p, "input")
  BY <1>4 DEF IsWorld
<1>6. Input(p).kind = p.kind /\ \A f \in NodeFields(p.kind) : Input(p)[f] = p[f]
  BY <1>3, <1>5, DescribedLeaf DEF Leaves
<1>7. n.shape[by] = Input(p) /\ by \in DOMAIN n.shape
  BY <1>2, <1>3
<1>8. Input(p) \in Simple(g, TRUE)
  BY <1>2, <1>7, SimpleIs DEF Children, Range
<1>9. RebuiltFields(Rebuilt(n), n) /\ RebuiltFields(Rebuilt(Input(p)), Input(p))
  BY <1>1, <1>8, RebuiltIs
<1>10. Rebuilt(Input(p)) = Input(p)
  BY <1>3, <1>6, <1>9 DEF RebuiltFields, Leaves
<1>11. by \in DOMAIN Rebuilt(n).shape /\ Rebuilt(n).shape[by] = Input(p)
  BY <1>2, <1>7, <1>9, <1>10 DEF RebuiltFields
<1>12. SameTag(Input(p), p)
  BY <1>3, <1>6 DEF SameTag, TagValues, NodeFields
<1> QED
  BY <1>11, <1>12

\* A schema whose node is simple parses as what stands for its node, in every shape.
LEMMA ShapesAlike ==
  ASSUME NEW g, NEW w, IsSearch(g, w), IsWorld(w), DescribesInput(g, w),
         NEW s \in w.schemas, s.kind \in Searched, Input(s) \in Simple(g, TRUE),
         NEW h, NEW d \in Nat,
         \A p \in Parts(s) : \A v \in g.values : Parse(p, v, h, d) = Parse(Rebuilt(Input(p)), v, h, d)
  PROVE  PartsAlike(g.values, s, Rebuilt(Input(s)), h, d, h, d)
<1> DEFINE n == Input(s)
           r == Rebuilt(n)
           Same(a, b) == \A v \in g.values : Parse(a, v, h, d) = Parse(b, v, h, d)
<1>1. IsSchema(s, w) /\ Describe(s, "input") = DescribeRule(s, "input")
  BY DEF IsWorld
<1>2. IsWellFormed(g) /\ n \in g.nodes
  BY DEF DescribesInput, Input
<1>3. RebuiltFields(r, n)
  BY <1>2, RebuiltIs
<1>4. \A p \in Parts(s) : Same(p, Rebuilt(Input(p)))
  OBVIOUS
<1> HIDE DEF Same, r
<1>5. CASE s.kind \in Leaves
  <2>1. n.kind = s.kind /\ \A f \in NodeFields(s.kind) : n[f] = s[f]
    BY <1>1, <1>5, DescribedLeaf
  <2>2. r = n
    BY <1>3, <1>5, <2>1 DEF RebuiltFields
  <2> QED
    BY <1>5, <2>1, <2>2 DEF PartsAlike, Leaves, r
<1>6. CASE s.kind = "array"
  <2>1. n.kind = "array" /\ n.item = Input(s.item) /\ n.min = s.min /\ n.max = s.max
    BY <1>1, <1>6, Described
  <2>2. r.kind = "array" /\ r.item = Rebuilt(Input(s.item)) /\ r.min = s.min /\ r.max = s.max
    BY <1>3, <2>1 DEF RebuiltFields
  <2>3. Same(s.item, r.item)
    BY <1>4, <1>6, <2>2 DEF Parts
  <2> QED
    BY <1>6, <2>2, <2>3 DEF PartsAlike, Leaves, r, Same
<1>7. CASE s.kind = "tuple"
  <2>1. n.kind = "tuple" /\ n.items = [i \in DOMAIN s.items |-> Input(s.items[i])] /\ s.items \in Seq(w.schemas)
    BY <1>1, <1>7, Described DEF IsSchema
  <2>2. r.kind = "tuple" /\ r.items = [i \in DOMAIN n.items |-> Rebuilt(n.items[i])]
    BY <1>3, <2>1 DEF RebuiltFields
  <2>3. r.items = [i \in DOMAIN s.items |-> Rebuilt(Input(s.items[i]))]
    BY <2>1, <2>2
  <2>4. Len(r.items) = Len(s.items) /\ DOMAIN s.items = 1 .. Len(s.items)
    BY <2>1, <2>3
  <2>5. \A i \in 1 .. Len(s.items) : Same(s.items[i], r.items[i])
    BY <1>4, <1>7, <2>3, <2>4 DEF Parts, Range
  <2> QED
    BY <1>7, <2>2, <2>4, <2>5 DEF PartsAlike, Leaves, r, Same
<1>8. CASE s.kind \in {"union", "discriminatedUnion"}
  <2>1. n.kind = s.kind /\ n.choices = [i \in DOMAIN s.choices |-> Input(s.choices[i])]
    BY <1>1, <1>8, Described
  <2>2. r.kind = s.kind /\ r.choices = [i \in DOMAIN n.choices |-> Rebuilt(n.choices[i])] /\ (s.kind = "discriminatedUnion" => r.by = n.by)
    BY <1>3, <1>8, <2>1 DEF RebuiltFields
  <2>3. DOMAIN r.choices = DOMAIN s.choices /\ \A i \in DOMAIN s.choices : r.choices[i] = Rebuilt(Input(s.choices[i]))
    BY <2>1, <2>2
  <2>4. \A i \in DOMAIN s.choices : Same(s.choices[i], r.choices[i])
    BY <1>4, <1>8, <2>3 DEF Parts, Range
  <2>5. s.kind = "discriminatedUnion" =>
          r.by = s.by /\ \A i \in DOMAIN s.choices : Selecting(r, r.choices[i]) = Selecting(s, s.choices[i])
    <3> SUFFICES ASSUME s.kind = "discriminatedUnion"
                 PROVE  r.by = s.by /\ \A i \in DOMAIN s.choices : Selecting(r, r.choices[i]) = Selecting(s, s.choices[i])
      OBVIOUS
    <3>1. r.by = s.by
      BY <1>1, <2>2, DescribedBy
    <3>2. ASSUME NEW i \in DOMAIN s.choices PROVE Selecting(r, r.choices[i]) = Selecting(s, s.choices[i])
      <4>1. s.choices[i] \in Parts(s) /\ s.choices[i] \in w.schemas
        BY <1>1, <1>8 DEF Parts, Range, IsSchema
      <4>2. Input(s.choices[i]) \in Children(n)
        BY <1>8, <2>1 DEF Children, Range
      <4>3. Input(s.choices[i]) \in Simple(g, TRUE)
        BY <4>2, SimpleIs
      <4>4. s.choices[i].kind = "object" /\ IsTag(s.choices[i].shape, s.by)
        BY DEF IsSearch
      <4>5. /\ s.by \in DOMAIN Rebuilt(Input(s.choices[i])).shape
            /\ SameTag(Rebuilt(Input(s.choices[i])).shape[s.by], s.choices[i].shape[s.by])
        BY <4>1, <4>3, <4>4, TagKept
      <4>6. Selecting(s, s.choices[i]) = TagValues(s.choices[i].shape[s.by])
        BY DEF Selecting, TagValues
      <4>7. Selecting(r, r.choices[i]) = TagValues(r.choices[i].shape[s.by])
        BY <3>1 DEF Selecting, TagValues
      <4> QED
        BY <2>3, <4>5, <4>6, <4>7 DEF SameTag
    <3> QED
      BY <3>1, <3>2
  <2> QED
    BY <1>8, <2>2, <2>3, <2>4, <2>5 DEF PartsAlike, Leaves, r, Same
<1>9. CASE s.kind = "object"
  <2>1. /\ n.kind = "object" /\ n.policy = s.policy
        /\ n.shape = [k \in DOMAIN s.shape |-> Input(s.shape[k])]
        /\ n.required = {k \in DOMAIN s.shape : ~MayBeAbsent(s.shape[k])}
    BY <1>1, <1>9, Described
  <2>2. r.kind = "object" /\ r.shape = [k \in DOMAIN n.shape |-> Rebuilt(n.shape[k])] /\ r.policy = s.policy
    BY <1>3, <2>1 DEF RebuiltFields
  <2>3. DOMAIN r.shape = DOMAIN s.shape /\ \A k \in DOMAIN s.shape : r.shape[k] = Rebuilt(n.shape[k])
    BY <2>1, <2>2
  <2>4. \A k \in DOMAIN s.shape : Same(s.shape[k], r.shape[k])
    BY <1>4, <1>9, <2>1, <2>3 DEF Parts, Range
  <2>5. ASSUME NEW k \in DOMAIN s.shape PROVE MayBeAbsent(r.shape[k]) <=> MayBeAbsent(s.shape[k])
    <3>1. n.required = {i \in DOMAIN n.shape : n.shape[i].kind # "optional"} /\ DOMAIN n.shape = DOMAIN s.shape
      BY <1>2, <2>1 DEF IsWellFormed, IsGraph, IsNode
    <3>2. n.shape[k].kind = "optional" <=> MayBeAbsent(s.shape[k])
      BY <2>1, <3>1
    <3>3. n.shape[k] \in Simple(g, TRUE)
      BY <2>1, <3>1, SimpleIs DEF Children, Range
    <3>4. RebuiltFields(Rebuilt(n.shape[k]), n.shape[k])
      BY <1>2, <3>3, RebuiltIs
    <3>5. r.shape[k].kind = n.shape[k].kind
      BY <2>3, <3>4 DEF RebuiltFields
    <3> QED
      BY <3>2, <3>5 DEF MayBeAbsent
  <2> QED
    BY <1>9, <2>2, <2>3, <2>4, <2>5 DEF PartsAlike, Leaves, r, Same
<1>10. CASE s.kind \in {"nullable", "optional"}
  <2>1. n.kind = s.kind /\ n.inner = Input(s.inner)
    BY <1>1, <1>10, Described
  <2>2. r.kind = s.kind /\ r.inner = Rebuilt(Input(s.inner))
    BY <1>3, <1>10, <2>1 DEF RebuiltFields
  <2>3. Same(s.inner, r.inner)
    BY <1>4, <1>10, <2>2 DEF Parts
  <2> QED
    BY <1>10, <2>2, <2>3 DEF PartsAlike, Leaves, r, Same
<1> QED
  BY <1>5, <1>6, <1>7, <1>8, <1>9, <1>10 DEF Searched, Leaves

\* Whether the schemas whose nodes are simple parse as what stands for their nodes.
AlikeIn(g, w, h, d) ==
  \A s \in w.schemas : Input(s) \in Simple(g, TRUE) =>
    \A v \in g.values : Parse(s, v, h, d) = Parse(Rebuilt(Input(s)), v, h, d)

\* They do.
LEMMA ParsesAlike ==
  ASSUME NEW g, NEW w, IsSearch(g, w), IsWorld(w), DescribesInput(g, w), NEW h, NEW d \in Nat
  PROVE  AlikeIn(g, w, h, d)
<1> DEFINE Alike(s) == \A v \in g.values : Parse(s, v, h, d) = Parse(Rebuilt(Input(s)), v, h, d)
           Bad == {x \in w.schemas \X Nat : x[2] = d /\ Input(x[1]) \in Simple(g, TRUE) /\ ~Alike(x[1])}
<1>1. SUFFICES ASSUME Bad # {} PROVE FALSE
  <2>1. \A s \in w.schemas : <<s, d>> \notin Bad => (Input(s) \in Simple(g, TRUE) => Alike(s))
    OBVIOUS
  <2> QED
    BY <2>1 DEF AlikeIn
<1>2. Bad \in SUBSET (w.schemas \X Nat)
  OBVIOUS
<1>3. \A s \in w.schemas : w.size[s] \in Nat
  BY DEF IsWorld, IsSchema
<1>4. PICK s \in w.schemas, e \in Nat :
        /\ <<s, e>> \in Bad
        /\ \A r \in w.schemas, k \in Nat : k < e \/ (k = e /\ w.size[r] < w.size[s]) => <<r, k>> \notin Bad
  <2> HIDE DEF Bad
  <2> QED
    BY <1>1, <1>2, <1>3, SmallestSchema
<1>5. Input(s) \in Simple(g, TRUE) /\ ~Alike(s) /\ e = d
  BY <1>4
<1>6. \A r \in w.schemas : w.size[r] < w.size[s] /\ Input(r) \in Simple(g, TRUE) => Alike(r)
  BY <1>4, <1>5
<1> HIDE DEF Bad
<1>7. IsSchema(s, w) /\ Describe(s, "input") = DescribeRule(s, "input") /\ IsWellFormed(g)
  BY DEF IsWorld, DescribesInput
<1>8. \A p \in Parts(s) : p \in w.schemas /\ w.size[p] < w.size[s]
  BY <1>7 DEF IsSchema
<1>9. PICK v \in g.values : Parse(s, v, h, d) # Parse(Rebuilt(Input(s)), v, h, d)
  BY <1>5
<1> HIDE DEF Alike
<1> DEFINE n == Input(s)
           r == Rebuilt(n)
<1>10. n \in g.nodes /\ n.kind \in Searched /\ RebuiltFields(r, n) /\ IsNode(n, g)
  BY <1>5, <1>7, SimpleIs, RebuiltIs DEF IsWellFormed, IsGraph
<1>11. r.refs = n.refs
  BY <1>10 DEF RebuiltFields
<1>12. Parse(s, v, h, d) = ParseRule(s, v, h, d) /\ Parse(r, v, h, d) = ParseRule(r, v, h, d)
  BY <1>10 DEF IsWorld, IsSearch
<1>13. IsValue(v, g.values)
  BY <1>7 DEF IsWellFormed, IsGraph
<1> HIDE DEF r
<1>14. CASE s.kind \in Searched
  <2>1. n.refs = s.refs
    <3>1. s.kind \in Leaves => n.refs = s.refs
      BY <1>7, DescribedLeaf DEF NodeFields
    <3>2. s.kind \in Searched \ Leaves => n.refs = s.refs
      BY <1>7, Described DEF Searched, Leaves
    <3> QED
      BY <1>14, <3>1, <3>2
  <2>2. \A p \in Parts(s) : Input(p) \in Simple(g, TRUE)
    <3>1. \A p \in Parts(s) : Input(p) \in Children(n)
      <4>1. CASE s.kind \in Leaves
        BY <4>1 DEF Leaves, Parts
      <4>2. CASE s.kind = "array"
        <5>1. n.kind = "array" /\ n.item = Input(s.item)
          BY <1>7, <4>2, Described
        <5> QED
          BY <4>2, <5>1 DEF Parts, Children
      <4>3. CASE s.kind = "tuple"
        <5>1. n.kind = "tuple" /\ n.items = [i \in DOMAIN s.items |-> Input(s.items[i])]
          BY <1>7, <4>3, Described
        <5> QED
          BY <4>3, <5>1 DEF Parts, Children, Range
      <4>4. CASE s.kind \in {"union", "discriminatedUnion"}
        <5>1. n.kind = s.kind /\ n.choices = [i \in DOMAIN s.choices |-> Input(s.choices[i])]
          BY <1>7, <4>4, Described
        <5> QED
          BY <4>4, <5>1 DEF Parts, Children, Range
      <4>5. CASE s.kind = "object"
        <5>1. n.kind = "object" /\ n.shape = [i \in DOMAIN s.shape |-> Input(s.shape[i])]
          BY <1>7, <4>5, Described
        <5> QED
          BY <4>5, <5>1 DEF Parts, Children, Range
      <4>6. CASE s.kind \in {"nullable", "optional"}
        <5>1. n.kind = s.kind /\ n.inner = Input(s.inner)
          BY <1>7, <4>6, Described
        <5> QED
          BY <4>6, <5>1 DEF Parts, Children
      <4> QED
        BY <1>14, <4>1, <4>2, <4>3, <4>4, <4>5, <4>6 DEF Searched, Leaves
    <3> QED
      BY <1>5, <3>1, SimpleIs
  <2>3. \A p \in Parts(s) : \A x \in g.values : Parse(p, x, h, d) = Parse(Rebuilt(Input(p)), x, h, d)
    BY <1>6, <1>8, <2>2 DEF Alike
  <2>4. PartsAlike(g.values, s, r, h, d, h, d)
    BY <1>5, <1>14, <2>3, ShapesAlike DEF r
  <2>5. ParseBase(s, v, h, d) = ParseBase(r, v, h, d)
    BY <1>7, <1>13, <1>14, <2>4, AlikeInShape
  <2>6. ParseRule(s, v, h, d) = ParseRule(r, v, h, d)
    BY <1>11, <2>1, <2>5 DEF ParseRule
  <2> QED
    BY <1>9, <1>12, <2>6 DEF r
<1>15. CASE s.kind = "defined"
  <2> DEFINE m == Input(s.inner)
             x == ExcludeUndefined(m)
  <2>1. n = Refined(x, s.refs) /\ m \in g.excluded /\ s.refs \in Seq(Ids)
    BY <1>7, <1>15, Described DEF DescribesInput, Input, IsSchema
  <2>2. HasFields(x)
    BY <1>7, <2>1, Excluded DEF IsWellFormed
  <2> HIDE DEF x
  <2>3. x.refs \in Seq(Ids) /\ x = [f \in NodeFields(x.kind) |-> x[f]]
    BY <2>2 DEF HasFields
  <2>4. /\ n.kind = x.kind /\ n.refs = x.refs \o s.refs
        /\ \A f \in NodeFields(x.kind) \ {"refs"} : n[f] = x[f]
    <3>1. /\ Refined(x, s.refs).kind = x.kind /\ Refined(x, s.refs).refs = x.refs \o s.refs
          /\ \A f \in NodeFields(x.kind) \ {"refs"} : Refined(x, s.refs)[f] = x[f]
      BY <2>1, <2>2, RefinedFields
    <3> QED
      BY <2>1, <3>1
  <2>5. ~IsUndefined(n)
    <3>1. ~IsUndefined(x)
      BY <1>7, <2>1, NeverUndefined DEF x
    <3> QED
      BY <2>4, <3>1 DEF IsUndefined, NodeFields
  <2>6. n.refs = <<>>
    BY <1>5, <2>5, SimpleIs
  <2>7. x.refs = <<>> /\ s.refs = <<>>
    BY <2>1, <2>3, <2>4, <2>6, EmptyTogether
  <2>8. n = x
    <3>1. n = [x EXCEPT !["refs"] = x["refs"]]
      BY <2>1, <2>7 DEF Refined
    <3> QED
      BY <2>3, <3>1, Unchanged
  <2>9. x \in Simple(g, TRUE)
    BY <1>5, <2>8
  <2>10. m \in Simple(g, TRUE) /\ RestParses(m, g.values, h, d)
    BY <1>7, <2>1, <2>9, SimpleBefore, RestIsAlike DEF x
  <2>11. Parse(s.inner, v, h, d) = Parse(Rebuilt(m), v, h, d)
    <3>1. Alike(s.inner)
      BY <1>6, <1>8, <1>15, <2>10 DEF Parts
    <3> QED
      BY <3>1 DEF Alike
  <2>12. Parse(s, v, h, d) = ParseDefined(s, v, h, d)
    <3>1. Range(s.refs) \subseteq h \cup Warnings
      BY <2>7 DEF Range
    <3> QED
      BY <1>12, <1>15, <3>1 DEF ParseRule, ParseBase
  <2>13. r = Rebuilt(x)
    BY <2>8 DEF r
  <2>14. CASE v = Undefined
    BY <1>9, <2>10, <2>12, <2>13, <2>14 DEF ParseDefined, RestParses, r, x
  <2>15. CASE v # Undefined
    BY <1>9, <2>10, <2>11, <2>12, <2>13, <2>15 DEF ParseDefined, RestParses, r, x
  <2> QED
    BY <2>14, <2>15
<1>16. CASE s.kind \notin Searched \cup {"defined"}
  <2>1. s.kind \in {"intersection", "record", "transform", "lazy", "pipeline"}
    BY <1>7, <1>16 DEF IsSchema, Searched, Leaves
  <2>2. n.kind \in {"intersection", "record", "transform", "reference"}
    BY <1>7, <2>1, Described
  <2> QED
    BY <1>10, <2>2 DEF Searched
<1> QED
  BY <1>14, <1>15, <1>16

\* A graph of the nodes that a search reconstructs, one of those of g.
Searching(g, definitions, upper) ==
  [nodes |-> Simple(g, FALSE), size |-> g.size, values |-> g.values, excluded |-> {},
   definitions |-> definitions, upper |-> upper, holds |-> IF upper THEN {"anonymous"} ELSE {}]

\* It is a graph that describes the schemas that stand for its nodes.
LEMMA SearchingIs ==
  ASSUME NEW g, NEW w, IsSearch(g, w), IsWellFormed(g), IsWorld(w), NEW D, NEW upper \in BOOLEAN
  PROVE  LET x == Searching(g, D, upper) IN
         /\ IsGraph(x) /\ NodeRules(x) /\ \A n \in x.nodes : IsPlain(n)
         /\ DescribesInput(x, SearchWorld(g)) /\ KeepsDefined(SearchWorld(g), x)
<1> DEFINE x == Searching(g, D, upper)
           sw == SearchWorld(g)
<1>1. /\ x.nodes = Simple(g, FALSE) /\ x.size = g.size /\ x.values = g.values /\ x.excluded = {}
      /\ x.upper = upper
  BY DEF Searching
<1> HIDE DEF x
<1>2. ASSUME NEW n \in x.nodes
      PROVE  /\ n \in g.nodes /\ IsNode(n, g) /\ HasFields(n) /\ n.kind \in Searched /\ n.refs = <<>>
             /\ \A c \in Children(n) : c \in x.nodes
  <2>1. n \in Simple(g, FALSE)
    BY <1>1
  <2>2. /\ n \in g.nodes /\ n.kind \in Searched /\ n.refs = <<>>
        /\ \A c \in Children(n) : c \in Simple(g, FALSE)
    BY <2>1, SimpleIs
  <2> QED
    BY <1>1, <2>2 DEF IsWellFormed, IsGraph
<1>3. ASSUME NEW n \in x.nodes PROVE IsNode(n, x)
  <2>1. /\ n \in g.nodes /\ IsNode(n, g) /\ HasFields(n) /\ n.kind \in Searched /\ n.refs = <<>>
        /\ \A c \in Children(n) : c \in x.nodes
    BY <1>2
  <2>2. \A v : LiteralOf(v) \in g.nodes => LiteralOf(v) \in x.nodes
    <3> SUFFICES ASSUME NEW v, LiteralOf(v) \in g.nodes PROVE LiteralOf(v) \in Simple(g, FALSE)
      BY <1>1
    <3> DEFINE l == LiteralOf(v)
    <3>1. l.kind \in Searched /\ l.refs = <<>> /\ Children(l) = {}
      BY DEF LiteralOf, Searched, Children
    <3> HIDE DEF l
    <3>2. l \in g.nodes
      BY DEF l
    <3>3. l \in Simple(g, FALSE)
      BY <3>1, <3>2, SimpleWhen
    <3> QED
      BY <3>3 DEF l
  <2>3. n.kind = "tuple" => n.items \in Seq(x.nodes)
    <3> SUFFICES ASSUME n.kind = "tuple" PROVE n.items \in Seq(x.nodes)
      OBVIOUS
    <3>1. n.items \in Seq(g.nodes) /\ \A i \in DOMAIN n.items : n.items[i] \in x.nodes
      BY <2>1 DEF IsNode, Children, Range
    <3> QED
      BY <3>1
  <2>4. n.kind \in {"union", "discriminatedUnion"} => n.choices \in Seq(x.nodes)
    <3> SUFFICES ASSUME n.kind \in {"union", "discriminatedUnion"} PROVE n.choices \in Seq(x.nodes)
      OBVIOUS
    <3>1. n.choices \in Seq(g.nodes) /\ \A i \in DOMAIN n.choices : n.choices[i] \in x.nodes
      BY <2>1 DEF IsNode, Children, Range
    <3> QED
      BY <3>1
  <2> QED
    BY <1>1, <2>1, <2>2, <2>3, <2>4 DEF IsNode, Searched
<1>4. IsGraph(x)
  BY <1>1, <1>3 DEF IsGraph, IsWellFormed
<1>5. NodeRules(x)
  BY <1>2 DEF NodeRules, IsWellFormed
<1>6. \A n \in x.nodes : IsPlain(n)
  <2>1. ASSUME NEW n \in x.nodes PROVE IsPlain(n)
    <3>1. n.kind \in Searched /\ n.refs = <<>> /\ \A c \in Children(n) : c \in x.nodes /\ c.refs = <<>>
      BY <1>2
    <3>2. n.kind = "object" => \A k \in DOMAIN n.shape : n.shape[k].refs = <<>>
      BY <3>1 DEF Children, Range
    <3> QED
      BY <3>1, <3>2 DEF IsPlain, Searched
  <2> QED
    BY <2>1
<1>7. ASSUME NEW s \in sw.schemas
      PROVE  Describe(s, "input") \in x.nodes /\ s.kind \in Searched
  <2>1. PICK n \in Simple(g, FALSE) : s = Rebuilt(n)
    BY DEF SearchWorld
  <2>2. Input(s) = n
    BY <2>1, RebuiltDescribes
  <2>3. RebuiltFields(s, n) /\ n.kind \in Searched
    BY <2>1, RebuiltIs, SimpleIs
  <2> QED
    BY <1>1, <2>2, <2>3 DEF RebuiltFields, Input
<1>8. IsWellFormed(x)
  BY <1>1, <1>2, <1>4, <1>5 DEF IsWellFormed, Excludes
<1>9. DescribesInput(x, sw)
  BY <1>7, <1>8 DEF DescribesInput, Searched
<1>10. KeepsDefined(sw, x)
  BY <1>7 DEF KeepsDefined, Searched
<1> QED
  BY <1>4, <1>5, <1>6, <1>9, <1>10 DEF x

\* Whether the comparison of two graphs follows its rule on the nodes of a search.
Compares(g, s, t) == PairRules([nodes |-> g.nodes, definitions |-> s.definitions],
                               [nodes |-> g.nodes, definitions |-> t.definitions])

\* No two nodes that a value tells apart are safe.
LEMMA SearchRefutes ==
  ASSUME NEW g, NEW w, IsSearch(g, w), IsWellFormed(g), IsWorld(w),
         NEW s, NEW t, Compares(g, s, t), s.root \in Simple(g, FALSE), t.root \in Simple(g, FALSE),
         NEW v \in g.values, Takes(s.root, v), ~Takes(t.root, v)
  PROVE  Status(CompareGraphs(s, t)) # "safe"
<1> DEFINE m == s.root
           n == t.root
           gs == Searching(g, s.definitions, TRUE)
           gt == Searching(g, t.definitions, FALSE)
           sw == SearchWorld(g)
<1> SUFFICES ASSUME Status(CompareGraphs(s, t)) = "safe" PROVE FALSE
  OBVIOUS
<1>1. /\ gs.nodes = Simple(g, FALSE) /\ gs.values = g.values /\ gs.definitions = s.definitions
      /\ gs.upper = TRUE /\ gs.holds = {"anonymous"}
      /\ gt.nodes = Simple(g, FALSE) /\ gt.values = g.values /\ gt.definitions = t.definitions
      /\ gt.upper = FALSE /\ gt.holds = {}
  BY DEF Searching
<1>2. /\ IsGraph(gs) /\ NodeRules(gs) /\ DescribesInput(gs, sw)
      /\ IsGraph(gt) /\ NodeRules(gt) /\ DescribesInput(gt, sw)
      /\ \A c \in gt.nodes : IsPlain(c)
      /\ KeepsDefined(sw, gt)
  BY SearchingIs
<1> HIDE DEF gs, gt
<1>3. PairRules(gs, gt)
  <2>1. Simple(g, FALSE) \subseteq g.nodes
    BY DEF Simple
  <2>2. \A active : Context(gs, gt, active) = Context(s, t, active)
    BY <1>1 DEF Context
  <2>3. \A a \in g.nodes, b \in g.nodes :
          /\ AnonymousOpaque(a, b) = AnonymousOpaqueRule(a, b)
          /\ \A active \in SUBSET (g.nodes \X g.nodes) :
               Compare(a, b, Context(s, t, active)) = CompareRule(a, b, Context(s, t, active))
    BY DEF Compares, PairRules, Context
  <2> SUFFICES ASSUME NEW a \in gs.nodes, NEW b \in gt.nodes,
                      NEW active \in SUBSET (gs.nodes \X gt.nodes)
               PROVE  /\ AnonymousOpaque(a, b) = AnonymousOpaqueRule(a, b)
                      /\ Compare(a, b, Context(gs, gt, active)) = CompareRule(a, b, Context(gs, gt, active))
    BY DEF PairRules
  <2>4. a \in g.nodes /\ b \in g.nodes /\ active \in SUBSET (g.nodes \X g.nodes)
    BY <1>1, <2>1
  <2> QED
    BY <2>2, <2>3, <2>4
<1>4. IsComparison(gs, gt, {})
  BY <1>1, <1>2, <1>3 DEF IsComparison
<1>5. s # t
  OBVIOUS
<1>6. CompareGraphs(s, t) = Compare(m, n, Context(gs, gt, {}))
  BY <1>1, <1>5 DEF CompareGraphs, Context
<1>7. LazyDepth \in Nat /\ "anonymous" \notin {} \cup Warnings
  BY DEF IsSearch
<1>8. IsWorld(sw) /\ Rebuilt(m) \in sw.schemas /\ Rebuilt(n) \in sw.schemas /\ Input(Rebuilt(m)) = m /\ Input(Rebuilt(n)) = n
  BY RebuiltWorld, RebuiltDescribes
<1>9. \A h, k : \A x \in Simple(g, FALSE) : Parse(Rebuilt(x), v, h, LazyDepth) = Parse(Rebuilt(x), v, k, LazyDepth)
  <2> SUFFICES ASSUME NEW h, NEW k, NEW x \in Simple(g, FALSE)
               PROVE  Parse(Rebuilt(x), v, h, LazyDepth) = Parse(Rebuilt(x), v, k, LazyDepth)
    OBVIOUS
  <2> HIDE DEF sw, m, n
  <2>1. Indifferent(g, h, k, LazyDepth)
    BY <1>7, NothingHolds
  <2> QED
    BY <2>1 DEF Indifferent
<1>10. Parse(Rebuilt(m), v, {} \cup {"anonymous"}, LazyDepth).is = "ok"
  BY <1>9 DEF Takes, SafeParse
<1>11. Parse(Rebuilt(n), v, {}, LazyDepth) # Rejected
  <2>1. Status(Compare(Input(Rebuilt(m)), Input(Rebuilt(n)), Context(gs, gt, {}))) = "safe"
    BY <1>6, <1>8
  <2> HIDE DEF sw, m, n
  <2> QED
    BY <1>1, <1>2, <1>4, <1>7, <1>8, <1>10, <2>1, SafeSchemas
<1>12. Parse(Rebuilt(n), v, {}, LazyDepth).is = "ok"
  BY <1>7, <1>8, <1>11, Results, NothingOverflows, Accepted
<1> QED
  BY <1>12 DEF Takes, SafeParse

\* What is simple is simple where less is asked.
LEMMA SimpleIsLoose ==
  ASSUME NEW g, NEW n \in Simple(g, FALSE)
  PROVE  n \in Simple(g, TRUE)
BY DEF Simple, IsSimple

-----------------------------------------------------------------------------
(* Witnesses. *)

\* A world and its nodes in which every search of a review takes place: the contracts
\* are among the schemas, what is reconstructed is a node, comparisons follow their
\* rules, and what is generated are values.
IsReview(g, w) ==
  /\ IsWorld(w) /\ DescribesInput(g, w) /\ IsSearch(g, w)
  /\ \A name \in Names : Pool[name] \in w.schemas
  /\ \A a, b \in Names : \A s \in {Graphs[a]["input"], Projected(a)} :
       LET t == Graphs[b]["input"] IN
       /\ Compares(g, s, t)
       /\ Reconstructs(s.root, 0) => s.root \in g.nodes
       /\ Reconstructs(s.root, 0) /\ Reconstructs(t.root, 0) =>
            Generate(s.root, t.root) \in Seq(g.values) /\ Generate(t.root, s.root) \in Seq(g.values)

\* A value that tells apart two nodes that are reconstructed.
Apart(g, m, n, v) ==
  Reconstructs(m, 0) /\ Reconstructs(n, 0) /\ v \in g.values /\ Takes(m, v) /\ ~Takes(n, v)

\* An example that is found tells the two nodes apart.
LEMMA FoundDiffers ==
  ASSUME NEW g, NEW m, NEW n, Attempts \in Nat,
         Reconstructs(m, 0) /\ Reconstructs(n, 0) =>
           Generate(m, n) \in Seq(g.values) /\ Generate(n, m) \in Seq(g.values),
         NEW examples, examples = ConstructCounterexample(m, n),
         NEW found \in SUBSET examples.differ, found # {}
  PROVE  Min(found) \in found /\ Apart(g, m, n, examples.tried[Min(found)])
<1> DEFINE all == Generate(m, n) \o Generate(n, m)
           tried == Taken(all, Attempts)
           differ == {i \in DOMAIN tried : Takes(m, tried[i]) /\ ~Takes(n, tried[i])}
<1>1. Reconstructs(m, 0) /\ Reconstructs(n, 0)
  BY DEF ConstructCounterexample
<1>2. examples = [tried |-> tried, differ |-> differ]
  BY <1>1 DEF ConstructCounterexample
<1>3. examples.tried = tried /\ examples.differ = differ
  BY <1>2
<1>4. all \in Seq(g.values)
  BY <1>1
<1> HIDE DEF all
<1>5. DOMAIN tried \subseteq Nat /\ \A i \in DOMAIN tried : tried[i] \in g.values
  <2> DEFINE most == Min({Attempts, Len(all)})
  <2>1. most \in Nat /\ most <= Len(all)
    <3>1. {Attempts, Len(all)} \in SUBSET Nat /\ {Attempts, Len(all)} # {}
      BY <1>4
    <3> QED
      BY <3>1, LeastIndex
  <2> HIDE DEF most
  <2>2. tried = SubSeq(all, 1, most)
    BY DEF Taken, most
  <2>3. DOMAIN tried = 1 .. most /\ \A i \in 1 .. most : tried[i] = all[i]
    BY <1>4, <2>1, <2>2
  <2> HIDE DEF tried
  <2> QED
    BY <1>4, <2>1, <2>3
<1> HIDE DEF tried
<1>6. found \in SUBSET Nat
  BY <1>3, <1>5
<1>7. Min(found) \in found
  BY <1>6, LeastIndex
<1> QED
  BY <1>1, <1>3, <1>5, <1>7 DEF Apart

\* A contract that is reconstructed parses as what stands for it.
LEMMA ContractTakes ==
  ASSUME NEW g, NEW w, IsReview(g, w), NEW a \in Names, Reconstructs(Graphs[a]["input"].root, 0),
         NEW v \in g.values, NEW h
  PROVE  SafeParse(Pool[a], v, h) = SafeParse(Rebuilt(Graphs[a]["input"].root), v, h)
<1> DEFINE n == Graphs[a]["input"].root
<1>1. n = Input(Pool[a])
  BY DEF Graphs, Graph, NodeOf, Sides, Input
<1>2. /\ IsWorld(w) /\ DescribesInput(g, w) /\ IsSearch(g, w) /\ IsGraph(g) /\ LazyDepth \in Nat
      /\ Pool[a] \in w.schemas
  BY DEF IsReview, IsSearch, DescribesInput, IsWellFormed
<1>3. n \in g.nodes
  BY <1>1, <1>2 DEF DescribesInput, Input
<1> HIDE DEF n
<1>4. n \in Simple(g, TRUE)
  BY <1>2, <1>3, ReconstructedIsSimple, SimpleIsLoose DEF n
<1>5. AlikeIn(g, w, h, LazyDepth)
  BY <1>2, ParsesAlike
<1>6. Parse(Pool[a], v, h, LazyDepth) = Parse(Rebuilt(n), v, h, LazyDepth)
  BY <1>1, <1>2, <1>4, <1>5 DEF AlikeIn
<1> QED
  BY <1>6 DEF SafeParse, n

\* What the report has to say of a witness.
Witnessed(source, target, v) ==
  /\ SafeParse(Pool[source], v, {}).is = "ok"
  /\ SafeParse(Pool[target], v, Checks \cup {"anonymous"}) = Rejected
  /\ Status(CompareGraphs(Graphs[source]["input"], Graphs[target]["input"])) # "safe"

\* A value that tells apart what two contracts take is a witness.
LEMMA ApartIsWitnessed ==
  ASSUME NEW g, NEW w, IsReview(g, w), NEW a \in Names, NEW b \in Names, NEW v,
         Apart(g, Graphs[a]["input"].root, Graphs[b]["input"].root, v)
  PROVE  Witnessed(a, b, v)
<1> DEFINE s == Graphs[a]["input"]
           t == Graphs[b]["input"]
<1>0. /\ Reconstructs(s.root, 0) /\ Reconstructs(t.root, 0)
      /\ v \in g.values /\ Takes(s.root, v) /\ ~Takes(t.root, v)
  BY DEF Apart
<1>1. s.root = Input(Pool[a]) /\ t.root = Input(Pool[b])
  BY DEF Graphs, Graph, NodeOf, Sides, Input
<1>2. Pool[a] \in w.schemas /\ Pool[b] \in w.schemas /\ Compares(g, s, t)
  BY DEF IsReview
<1>3. IsWorld(w) /\ DescribesInput(g, w) /\ IsSearch(g, w) /\ IsWellFormed(g) /\ IsGraph(g) /\ LazyDepth \in Nat
  BY DEF IsReview, IsSearch, DescribesInput, IsWellFormed
<1>4. s.root \in g.nodes /\ t.root \in g.nodes
  BY <1>1, <1>2, <1>3 DEF DescribesInput, Input
<1> HIDE DEF s, t
<1>5. s.root \in Simple(g, FALSE) /\ t.root \in Simple(g, FALSE)
  BY <1>0, <1>3, <1>4, ReconstructedIsSimple
<1>7. \A h : /\ SafeParse(Pool[a], v, h) = SafeParse(Rebuilt(s.root), v, h)
             /\ SafeParse(Pool[b], v, h) = SafeParse(Rebuilt(t.root), v, h)
  BY <1>0, ContractTakes DEF s, t
<1>8. SafeParse(Pool[a], v, {}).is = "ok"
  BY <1>0, <1>7 DEF Takes
<1>9. SafeParse(Pool[b], v, Checks \cup {"anonymous"}) = Rejected
  <2> DEFINE r == Rebuilt(t.root)
             all == Checks \cup {"anonymous"}
  <2>1. Parse(r, v, {}, LazyDepth).is # "ok"
    BY <1>0 DEF SafeParse, Takes
  <2>2. IsResult(Parse(r, v, {}, LazyDepth))
    BY <1>3, <1>5, RebuiltWorld, Results
  <2>3. Parse(r, v, {}, LazyDepth) # Overflow
    BY <1>0, <1>3, <1>5, NothingOverflows
  <2>4. Parse(r, v, {}, LazyDepth) = Rejected
    BY <2>1, <2>2, <2>3, Accepted
  <2> HIDE DEF all
  <2>5. Indifferent(g, {}, all, LazyDepth)
    BY <1>3, NothingHolds
  <2> QED
    BY <1>0, <1>5, <1>7, <2>4, <2>5 DEF SafeParse, Indifferent, all
<1>10. Status(CompareGraphs(s, t)) # "safe"
  BY <1>0, <1>2, <1>3, <1>5, SearchRefutes
<1> QED
  BY <1>8, <1>9, <1>10 DEF Witnessed, s, t

\* What is constructed from two contracts that are read.
LEMMA ExamplesAre ==
  ASSUME NEW f, IsPoolForest(f), NEW a \in Readable, NEW b \in Readable
  PROVE  /\ Examples[a][b] = ConstructCounterexample(Graphs[a]["input"].root, Graphs[b]["input"].root)
         /\ ConnectionExamples[a][b] = ConstructCounterexample(Projected(a).root, Graphs[b]["input"].root)
<1>1. a \in Names /\ b \in Names
  BY DEF Readable
<1>2. Read(a, "input") = Graphs[a]["input"] /\ Read(b, "input") = Graphs[b]["input"]
  BY <1>1, InputIsRead
<1> QED
  BY <1>2 DEF Examples, ConnectionExamples

\* A report of a comparison has no witness.
LEMMA NoWitnessIsReported ==
  ASSUME NEW by, NEW renamed, NEW findings, Report(by, renamed, findings), NEW d \in Directions
  PROVE  report'.witness[d] = NoWitness
BY DEF Report, NoReport

\* Findings are as bad as they were, in whatever direction they are reported.
LEMMA DirectedStatuses ==
  ASSUME NEW d, NEW F
  PROVE  Statuses(Directed(d, F)) = Statuses(F)
<1>1. ASSUME NEW f \in F PROVE f.status \in Statuses(Directed(d, F))
  <2>1. [direction |-> d, code |-> f.code, status |-> f.status] \in Directed(d, F)
    BY DEF Directed
  <2>2. [direction |-> d, code |-> f.code, status |-> f.status].status = f.status
    OBVIOUS
  <2> QED
    BY <2>1, <2>2 DEF Statuses
<1>2. ASSUME NEW x \in Directed(d, F) PROVE x.status \in Statuses(F)
  <2>1. PICK f \in F : x = [direction |-> d, code |-> f.code, status |-> f.status]
    BY DEF Directed
  <2>2. x.status = f.status
    BY <2>1
  <2> QED
    BY <2>2 DEF Statuses
<1> QED
  BY <1>1, <1>2 DEF Statuses

\* A witness is a value that the source accepts and the target rejects, whatever its
\* checks do; of a connection it is one that the producer emits as it is; and where
\* there is one no comparison of the two says safe.
THEOREM WitnessesAreReal ==
  ASSUME NEW f, IsPoolForest(f), NEW g, NEW w, IsReview(g, w)
  PROVE  Spec => []WitnessIsReal
<1> DEFINE Real(r, a, b, v) ==
             /\ SafeParse(Pool[a], v, {}).is = "ok"
             /\ r.by = "contracts" => SafeParse(Pool[a], v, {}) = Ok(v)
             /\ SafeParse(Pool[b], v, Checks \cup {"anonymous"}) = Rejected
             /\ r.status # "safe"
             /\ Status(CompareGraphs(Graphs[a]["input"], Graphs[b]["input"])) # "safe"
<1>1. Init => WitnessIsReal
  BY DEF Init, NoReport, WitnessIsReal
<1>2. UnderReview /\ WitnessIsReal /\ [Next]_vars => WitnessIsReal'
  <2> SUFFICES ASSUME UnderReview, WitnessIsReal, [Next]_vars, NEW d \in Directions, report'.witness[d] # NoWitness
               PROVE  Real(report', Source(d)', Target(d)', report'.witness[d])
    BY DEF WitnessIsReal
  <2> DEFINE a == Source(d)
             b == Target(d)
             v == report'.witness[d]
  <2> HIDE DEF Real
  <2>1. previous \in Names /\ next \in Names
    BY DEF UnderReview
  <2>2. Attempts \in Nat /\ LazyDepth \in Nat
    BY DEF IsReview, IsSearch
  <2>3. CASE Construct
    <3>1. previous' = previous /\ next' = next /\ previous \in Readable /\ next \in Readable
      BY <2>3 DEF Construct
    <3>2. a \in Readable /\ b \in Readable /\ a \in Names /\ b \in Names /\ Source(d)' = a /\ Target(d)' = b
      BY <2>1, <3>1 DEF Source, Target
    <3> DEFINE examples == Examples[a][b]
               found == {i \in examples.differ : TRUE}
               m == Graphs[a]["input"].root
               n == Graphs[b]["input"].root
    <3>3. report'.witness = [direction \in Directions |->
            IF ~Asked(direction) THEN NoWitness
            ELSE FirstThat(IF direction = "backward" THEN Examples[previous][next]
                           ELSE Examples[next][previous], LAMBDA x : TRUE)]
          /\ report'.by = "examples" /\ report'.status = "none"
      BY <2>3 DEF Construct, NoReport
    <3>4. v = FirstThat(examples, LAMBDA x : TRUE)
      BY <3>3 DEF Source, Target, Directions
    <3>5. found # {} /\ v = examples.tried[Min(found)]
      BY <3>4 DEF FirstThat
    <3>6. examples = ConstructCounterexample(m, n)
      BY <3>2, ExamplesAre
    <3>7. found \in SUBSET examples.differ
      OBVIOUS
    <3>8. Reconstructs(m, 0) /\ Reconstructs(n, 0) =>
            Generate(m, n) \in Seq(g.values) /\ Generate(n, m) \in Seq(g.values)
      BY <3>2 DEF IsReview
    <3> HIDE DEF examples, found, m, n
    <3>9. Apart(g, m, n, v)
      BY <2>2, <3>5, <3>6, <3>7, <3>8, FoundDiffers
    <3>10. Witnessed(a, b, v)
      BY <3>2, <3>9, ApartIsWitnessed DEF m, n
    <3> QED
      BY <3>2, <3>3, <3>10 DEF Witnessed, Real
  <2>4. CASE ConnectContracts
    <3> DEFINE s == Projected(previous)
               t == Read(next, "input")
               input == Read(previous, "input").root
               examples == ConnectionExamples[previous][next]
               found == {i \in examples.differ : Emits(input, examples.tried[i])}
               witness == FirstThat(examples, LAMBDA x : Emits(input, x))
               findings == Directed("backward", CompareGraphs(s, t))
    <3>1. previous' = previous /\ next' = next /\ previous \in Readable /\ next \in Readable
      BY <2>4 DEF ConnectContracts
    <3>2. \E told : /\ report' = [NoReport EXCEPT !.by = "contracts", !.status = Status(told), !.findings = told,
                                                  !.witness["backward"] = witness]
                    /\ witness # NoWitness => told = findings
      BY <2>4 DEF ConnectContracts
    <3>3. PICK told : /\ report' = [NoReport EXCEPT !.by = "contracts", !.status = Status(told), !.findings = told,
                                                    !.witness["backward"] = witness]
                      /\ witness # NoWitness => told = findings
      BY <3>2
    <3> HIDE DEF witness, findings
    <3>4. /\ report'.by = "contracts" /\ report'.status = Status(told)
          /\ report'.witness["backward"] = witness /\ report'.witness["forward"] = NoWitness
      BY <3>3 DEF NoReport, Directions
    <3>5. d = "backward" /\ v = witness /\ a = previous /\ b = next /\ Source(d)' = previous /\ Target(d)' = next
      BY <3>1, <3>4 DEF Directions, Source, Target
    <3>6. found # {} /\ v = examples.tried[Min(found)]
      BY <3>5 DEF FirstThat, witness
    <3>7. t = Graphs[next]["input"] /\ input = Graphs[previous]["input"].root
      BY <2>1, InputIsRead
    <3>8. examples = ConstructCounterexample(s.root, t.root)
      BY <3>1, <3>7, ExamplesAre
    <3>9. found \in SUBSET examples.differ
      OBVIOUS
    <3>10. /\ Reconstructs(s.root, 0) /\ Reconstructs(t.root, 0) =>
                Generate(s.root, t.root) \in Seq(g.values) /\ Generate(t.root, s.root) \in Seq(g.values)
           /\ Reconstructs(s.root, 0) => s.root \in g.nodes
           /\ Reconstructs(t.root, 0) => t.root \in g.nodes
           /\ Compares(g, s, t)
      BY <2>1, <3>7 DEF IsReview
    <3>11. \A i \in found : Emits(input, examples.tried[i])
      OBVIOUS
    <3> HIDE DEF s, t, input, examples, found
    <3>0. Min(found) \in found /\ Apart(g, s.root, t.root, v)
      BY <2>2, <3>6, <3>8, <3>9, <3>10, FoundDiffers
    <3>12. /\ Reconstructs(s.root, 0) /\ Reconstructs(t.root, 0) /\ Min(found) \in found
           /\ v \in g.values /\ Takes(s.root, v) /\ ~Takes(t.root, v)
      BY <3>0 DEF Apart
    <3>13. Emits(input, v)
      BY <3>6, <3>11, <3>12
    <3>14. Reconstructs(input, 0) /\ SafeParse(Rebuilt(input), v, {}) = Ok(v) /\ Takes(input, v)
      BY <3>13, OutcomesDiffer DEF Emits, Takes
    <3>15. Witnessed(previous, next, v)
      <4>1. Apart(g, Graphs[previous]["input"].root, Graphs[next]["input"].root, v)
        BY <3>7, <3>12, <3>14 DEF Apart
      <4> QED
        BY <2>1, <4>1, ApartIsWitnessed
    <3>16. SafeParse(Pool[previous], v, {}) = Ok(v)
      BY <2>1, <2>2, <3>7, <3>12, <3>14, ContractTakes
    <3>17. Status(CompareGraphs(s, t)) # "safe"
      <4>1. s.root \in Simple(g, FALSE) /\ t.root \in Simple(g, FALSE)
        BY <3>10, <3>12, ReconstructedIsSimple DEF IsReview, DescribesInput, IsWellFormed
      <4> QED
        BY <3>10, <3>12, <4>1, SearchRefutes DEF IsReview, DescribesInput
    <3>18. Status(told) = Status(CompareGraphs(s, t))
      <4>1. told = Directed("backward", CompareGraphs(s, t))
        BY <3>3, <3>5 DEF findings
      <4>2. Statuses(told) = Statuses(CompareGraphs(s, t))
        BY <4>1, DirectedStatuses
      <4> QED
        BY <4>2 DEF Status
    <3> QED
      BY <3>4, <3>5, <3>15, <3>16, <3>17, <3>18 DEF Witnessed, Real
  <2>5. CASE \E renamed \in BOOLEAN : CompareV1(renamed) \/ CompareV2(renamed)
    <3>1. \E by, renamed, findings : Report(by, renamed, findings)
      BY <2>5 DEF CompareV1, CompareV2, Review
    <3> QED
      BY <3>1, NoWitnessIsReported
  <2>6. CASE CheckConnection
    <3>1. \/ \E by, renamed, findings : Report(by, renamed, findings)
          \/ report' = [NoReport EXCEPT !.by = "connection", !.status = "thrown"]
      BY <2>6 DEF CheckConnection, Connect
    <3>2. CASE \E by, renamed, findings : Report(by, renamed, findings)
      BY <3>2, NoWitnessIsReported
    <3>3. CASE report' = [NoReport EXCEPT !.by = "connection", !.status = "thrown"]
      BY <3>3 DEF NoReport
    <3> QED
      BY <3>1, <3>2, <3>3
  <2>7. CASE (\E o \in ExportOptions : ExportJsonSchema(o)) \/ ExportOpenApi
    <3>1. \E by, o, doc : report' = [NoReport EXCEPT !.by = by, !.options = o, !.document = doc]
      <4>1. CASE \E o \in ExportOptions : ExportJsonSchema(o)
        BY <4>1 DEF ExportJsonSchema
      <4>2. CASE ExportOpenApi
        <5>1. report' = [NoReport EXCEPT !.by = "openapi", !.document = SafeToOpenApi(Pool[previous], Pool[next])]
          BY <4>2 DEF ExportOpenApi
        <5>2. report' = [NoReport EXCEPT !.by = "openapi", !.options = ComponentOptions,
                                         !.document = SafeToOpenApi(Pool[previous], Pool[next])]
          BY <5>1 DEF NoReport
        <5> QED
          BY <5>2
      <4> QED
        BY <2>7, <4>1, <4>2
    <3>2. report'.witness = NoReport.witness
      BY <3>1 DEF NoReport
    <3> QED
      BY <3>2 DEF NoReport
  <2>8. CASE UNCHANGED vars
    BY <2>8 DEF vars, WitnessIsReal, Real, Source, Target
  <2> QED
    BY <2>3, <2>4, <2>5, <2>6, <2>7, <2>8 DEF Next
<1> QED
  BY <1>1, <1>2, ReviewStarts, ReviewSteps, PTL DEF Spec

=============================================================================
