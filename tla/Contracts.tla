------------------------------ MODULE Contracts ------------------------------
(***************************************************************************)
(* Contract graphs: what a schema tells about itself (describeContract and *)
(* describeOutputBound in packages/core/src/schema.ts).                    *)
(*                                                                         *)
(* A node has the fields of the schema it describes.  An object node also  *)
(* names its required properties, a lazy schema becomes a reference, and   *)
(* an output that a transform produces is opaque.  A side is "input",      *)
(* "output" or "bound", an upper bound on the outputs.                     *)
(***************************************************************************)
EXTENDS Schemas

\* Recursive operators; each is given its rule.
CONSTANTS ExcludeUndefined(_), Describe(_, _), Project(_), Named(_),
          Reached(_, _)

Reference(to) == [kind |-> "reference", refs |-> <<>>, to |-> to]
Opaque(id) == [kind |-> "opaque", refs |-> <<>>, id |-> id]

\* The nodes directly below a node.
Children(n) ==
  CASE n.kind = "array" -> {n.item}
    [] n.kind = "tuple" -> Range(n.items)
    [] n.kind \in {"union", "discriminatedUnion"} -> Range(n.choices)
    [] n.kind = "intersection" -> {n.left, n.right}
    [] n.kind = "object" -> Range(n.shape)
    [] n.kind = "record" -> {n.each}
    [] n.kind \in {"nullable", "optional", "transform"} -> {n.inner}
    [] OTHER -> {}

\* A node with every child c replaced by new[c].
WithChildren(n, new) ==
  CASE n.kind = "array" -> [n EXCEPT !.item = new[@]]
    [] n.kind = "tuple" -> [n EXCEPT !.items = [i \in DOMAIN @ |-> new[n.items[i]]]]
    [] n.kind \in {"union", "discriminatedUnion"} ->
         [n EXCEPT !.choices = [i \in DOMAIN @ |-> new[n.choices[i]]]]
    [] n.kind = "intersection" -> [n EXCEPT !.left = new[@], !.right = new[@]]
    [] n.kind = "object" -> [n EXCEPT !.shape = [k \in DOMAIN @ |-> new[n.shape[k]]]]
    [] n.kind = "record" -> [n EXCEPT !.each = new[@]]
    [] n.kind \in {"nullable", "optional", "transform"} -> [n EXCEPT !.inner = new[@]]
    [] OTHER -> n

\* DefinedSchema: the node of a schema from which undefined is taken away.
ExcludeUndefinedRule(n) ==
  CASE n.kind = "optional" -> Refined(ExcludeUndefined(n.inner), n.refs)
    [] n.kind = "nullable" -> [n EXCEPT !.inner = ExcludeUndefined(@)]
    [] n.kind = "union" ->
         [n EXCEPT !.choices = [i \in DOMAIN @ |-> ExcludeUndefined(n.choices[i])]]
    [] n.kind = "literal" /\ n.lit = Undefined -> Never
    [] n.kind \in {"unknown", "reference", "transform", "opaque", "intersection"} ->
         Refined(n, <<"anonymous">>)
    [] OTHER -> n

DescribePipeline(s, side) ==
  CASE side = "bound" -> Describe(s.second, side)
    [] side = "output" -> Refined(Describe(s.second, side), <<"anonymous">>)
    [] side = "input" -> Refined(Transform(Describe(s.first, side), "anonymous"), <<"anonymous">>)

DescribeBase(s, side) ==
  CASE s.kind = "array" -> ArrayOf(Describe(s.item, side), s.min, s.max)
    [] s.kind = "tuple" -> Tuple([i \in DOMAIN s.items |-> Describe(s.items[i], side)])
    [] s.kind = "union" -> Union([i \in DOMAIN s.choices |-> Describe(s.choices[i], side)])
    [] s.kind = "discriminatedUnion" ->
         Discriminated(s.by, [i \in DOMAIN s.choices |-> Describe(s.choices[i], side)])
    [] s.kind = "intersection" -> Intersection(Describe(s.left, side), Describe(s.right, side))
    [] s.kind = "object" ->
         [kind |-> "object", refs |-> <<>>, policy |-> s.policy,
          shape |-> [k \in DOMAIN s.shape |-> Describe(s.shape[k], side)],
          required |-> {k \in DOMAIN s.shape : ~MayBeAbsent(s.shape[k])}]
    [] s.kind = "record" -> RecordOf(s.key, Describe(s.each, side))
    [] s.kind = "nullable" -> Nullable(Describe(s.inner, side))
    [] s.kind = "optional" -> Optional(Describe(s.inner, side))
    [] s.kind = "lazy" -> Reference(s.to)
    [] s.kind = "defined" -> ExcludeUndefined(Describe(s.inner, side))
    [] s.kind = "pipeline" -> DescribePipeline(s, side)
    [] s.kind = "transform" -> IF side = "input" THEN Transform(Describe(s.inner, side), s.id)
                               ELSE Opaque(s.id)
    [] OTHER -> [s EXCEPT !.refs = <<>>]

DescribeRule(s, side) == Refined(DescribeBase(s, side), s.refs)

\* describeOutputBound: what a strip object leaves out cannot be emitted, and
\* the merged outputs of an intersection are opaque.
ProjectRule(n) ==
  CASE n.kind = "intersection" -> Opaque("anonymous")
    [] n.kind = "transform" -> n
    [] OTHER -> LET below == WithChildren(n, [c \in Children(n) |-> Project(c)])
                IN IF n.kind = "object" /\ n.policy = "strip"
                   THEN [below EXCEPT !.policy = "reject"] ELSE below

NodeOf(s, side) == IF side = "bound" THEN Project(Describe(s, side)) ELSE Describe(s, side)

\* The ids of the references in a node.
NamedRule(n) ==
  IF n.kind = "reference" THEN {n.to} ELSE UNION {Named(child) : child \in Children(n)}

\* The definitions a set of ids reaches.
ReachedRule(ids, side) ==
  LET more == ids \cup UNION {Named(Describe(Definitions[id], side)) : id \in ids}
  IN IF more = ids THEN ids ELSE Reached(more, side)

\* describeContractGraph: the definitions are those the schema refers to, also
\* where the projection of a bound leaves the reference out.
Graph(s, side) ==
  [root |-> NodeOf(s, side),
   definitions |-> [id \in Reached(Named(Describe(s, side)), side) |->
                      NodeOf(Definitions[id], side)]]

=============================================================================
