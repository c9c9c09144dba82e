------------------------------ MODULE Snapshots ------------------------------
(***************************************************************************)
(* Contract snapshots (packages/compat/src/index.ts): createContract-      *)
(* Snapshot(V2), the JSON file a snapshot is kept in, and parseContract-   *)
(* Snapshot(V2), which reads it back.                                      *)
(*                                                                         *)
(* A snapshot holds one graph per side and a fingerprint of its canonical  *)
(* text.  The text is a hash of nothing but itself here: two texts have    *)
(* one fingerprint when they are the same.  Ids and annotations are left   *)
(* out; both are strings that are kept as they are.                        *)
(***************************************************************************)
EXTENDS ContractCompare

\* Recursive operators; each is given its rule.
CONSTANTS Encoded(_), Written(_), NodeParses(_), Visited(_, _), Meant(_)

Special(name) == [tag |-> "special", name |-> name]

\* mutant: only what has no JSON text at all is encoded
EncodeLiteralMissing(v) ==
  CASE v = Undefined -> Special("undefined")
    [] v = NotANumber -> Special("nan")
    [] OTHER -> v

\* encodeLiteral: the values that JSON would lose.
EncodeLiteral(v) ==
  CASE v = Undefined -> Special("undefined")
    [] v = NotANumber -> Special("nan")
    [] v = MinusZero -> Special("-0")
    [] OTHER -> v

\* definitionToGraphNode
EncodedRule(n) ==
  LET below == WithChildren(n, [c \in Children(n) |-> Encoded(c)])
  IN IF n.kind = "literal" THEN [below EXCEPT !.lit = EncodeLiteral(@)] ELSE below

\* What JSON.stringify and JSON.parse make of a scalar that is written as it is.
Jsoned(v) ==
  CASE v = NotANumber -> Null
    [] v = MinusZero -> Halves(0)
    [] OTHER -> v

\* The same of a node: canonicalStringify, and the file.
WrittenRule(n) ==
  LET below == WithChildren(n, [c \in Children(n) |-> Written(c)])
  IN CASE n.kind = "literal" -> [below EXCEPT !.lit = Jsoned(@)]
       [] n.kind = "enum" -> [below EXCEPT !.values = {Jsoned(v) : v \in @}]
       [] OTHER -> below

OfGraph(Op(_), g) ==
  [root |-> Op(g.root), definitions |-> [id \in DOMAIN g.definitions |-> Op(g.definitions[id])]]

\* canonicalStringify and createHash
Fingerprint(g) == OfGraph(Written, g)

\* definitionGraphToSnapshot, and the file it is written to.
Stored(g) ==
  LET encoded == OfGraph(Encoded, g)
  IN [graph |-> OfGraph(Written, encoded), fingerprint |-> Fingerprint(encoded)]

-----------------------------------------------------------------------------
(* What parseContractNode and parseContractGraphNode accept. *)

IsFinite(v) == v.tag = "number"
IsWord(v) == v.tag = "string" \/ IsFinite(v)

\* parseLengthConstraints
LengthsParse(min, max) == min >= 0 /\ min <= max

\* parseNumberConstraints
NumberParses(n) ==
  /\ n.multiple >= 0
  /\ n.min <= n.max
  /\ n.integer => RoundUp(n.min) <= RoundDown(n.max)

\* parseLiteral
LiteralParses(v) == v = Null \/ v.tag \in {"string", "boolean", "special"} \/ IsFinite(v)

\* parseEnumValues: also of the values that select a choice.
EnumParses(values) == values # {} /\ \A v \in values : IsWord(v) /\ v # MinusZero

\* validateDiscriminatedUnionChoices
ChoicesParse(n) ==
  /\ n.choices # <<>>
  /\ \A i \in DOMAIN n.choices :
       LET choice == n.choices[i]
       IN /\ choice.kind = "object"
          /\ n.by \in choice.required
          /\ choice.shape[n.by].kind \in {"literal", "enum"}
          /\ EnumParses(Selecting(n, choice))
  /\ \A i, j \in DOMAIN n.choices :
       i # j => Selecting(n, n.choices[i]) \cap Selecting(n, n.choices[j]) = {}

NodeParsesRule(n) ==
  /\ \A c \in Children(n) : NodeParses(c)
  /\ CASE n.kind \in {"string", "array"} -> LengthsParse(n.min, n.max)
       [] n.kind = "record" -> LengthsParse(n.key.min, n.key.max)
       [] n.kind = "number" -> NumberParses(n)
       [] n.kind = "literal" -> LiteralParses(n.lit)
       [] n.kind = "enum" -> EnumParses(n.values)
       [] n.kind = "discriminatedUnion" -> ChoicesParse(n)
       [] n.kind = "object" -> n.required \subseteq DOMAIN n.shape
       [] OTHER -> TRUE

\* The definitions a graph reaches from its root; a missing one is named, too.
VisitedRule(g, ids) ==
  LET more == ids \cup UNION {Named(g.definitions[id]) : id \in ids \cap DOMAIN g.definitions}
  IN IF more = ids THEN ids ELSE Visited(g, more)

\* validateContractGraph: every reference has its definition, every definition is
\* referred to.
Resolves(g) == Visited(g, Named(g.root)) = DOMAIN g.definitions

-----------------------------------------------------------------------------
(* Reading. *)

\* The value that a rule sees in a literal of a snapshot.
Decoded(v) ==
  CASE v = Special("undefined") -> Undefined
    [] v = Special("nan") -> NotANumber
    [] v = Special("-0") -> MinusZero
    [] OTHER -> v

MeantRule(n) ==
  LET below == WithChildren(n, [c \in Children(n) |-> Meant(c)])
  IN IF n.kind = "literal" THEN [below EXCEPT !.lit = Decoded(@)] ELSE below

Refused == [is |-> "refused"]

\* parseContractGraphSnapshot: what a file says, unless something is wrong with it.
ReadBack(stored) ==
  LET g == stored.graph
      parses == NodeParses(g.root) /\ \A id \in DOMAIN g.definitions : NodeParses(g.definitions[id])
  IN IF parses /\ Resolves(g) /\ stored.fingerprint = Fingerprint(g)
     THEN [is |-> "read", graph |-> OfGraph(Meant, g)]
     ELSE Refused

\* A file that lost a definition, and was sealed again.
Without(stored, id) ==
  LET g == [stored.graph EXCEPT !.definitions = [d \in DOMAIN @ \ {id} |-> stored.graph.definitions[d]]]
  IN [graph |-> g, fingerprint |-> Fingerprint(g)]

=============================================================================
