--------------------------- MODULE ContractMeaning ---------------------------
(***************************************************************************)
(* What a contract graph says of values, apart from how its schema parses  *)
(* them and from how two contracts are compared.                           *)
(*                                                                         *)
(* A graph g is a record: its nodes, with everything below them, their     *)
(* definitions and sizes, the values it is asked about, and the checks     *)
(* that hold.  It is read as an upper bound on what its schema accepts, or *)
(* as a lower bound on what its schema does not reject.  The two readings  *)
(* differ where a node does not tell everything: how an intersection       *)
(* merges, which choice a discriminator selects, what a transform emits,   *)
(* and in that a stack that is exhausted neither accepts nor rejects.      *)
(***************************************************************************)
EXTENDS ContractCompare

IsScalar(v) == v.tag \notin {"array", "object"}

RefsHold(g, n) == Range(n.refs) \subseteq g.holds \cup Warnings

\* Whether a node accepts a value with d resolutions of references left, when R
\* says what the nodes below it and the definitions accept.
Accepts(R, g, n, v, d) ==
  LET In(m, w) == <<m, w, d>> \in R
  IN /\ RefsHold(g, n)
     /\ \/ n.kind = "string" /\ v.tag = "string" /\ StringAccepts(n, v.text)
        \/ n.kind = "number" /\ v.tag = "number" /\ NumberAccepts(n, v.num)
        \/ n.kind = "boolean" /\ v.tag = "boolean"
        \/ n.kind = "literal" /\ v = n.lit
        \/ n.kind = "enum" /\ v \in n.values
        \/ n.kind = "unknown"
        \/ /\ n.kind = "array" /\ v.tag = "array"
           /\ Len(v.items) >= n.min /\ Len(v.items) <= n.max
           /\ \A i \in DOMAIN v.items : In(n.item, v.items[i])
        \/ /\ n.kind = "tuple" /\ v.tag = "array"
           /\ Len(v.items) = Len(n.items)
           /\ \A i \in DOMAIN n.items : In(n.items[i], v.items[i])
        \/ n.kind = "union" /\ \E i \in DOMAIN n.choices : In(n.choices[i], v)
        \/ /\ n.kind = "discriminatedUnion" /\ g.upper
           /\ \E i \in DOMAIN n.choices : In(n.choices[i], v)
        \/ /\ n.kind = "intersection"
           /\ IF g.upper THEN In(n.left, v) /\ In(n.right, v)
              ELSE IsLiteralAcceptanceDecidable(n) /\ IsScalar(v) /\ AcceptsLiteral(n, v)
        \/ /\ n.kind = "object" /\ v.tag = "object"
           /\ n.required \subseteq DOMAIN v.props
           /\ n.policy = "reject" => DOMAIN v.props \subseteq DOMAIN n.shape
           /\ \A k \in DOMAIN n.shape \cap DOMAIN v.props : In(n.shape[k], v.props[k])
        \/ /\ n.kind = "record" /\ v.tag = "object"
           /\ \A k \in DOMAIN v.props : StringAccepts(n.key, k) /\ In(n.each, v.props[k])
        \/ n.kind = "nullable" /\ (v = Null \/ In(n.inner, v))
        \/ n.kind = "optional" /\ (v = Undefined \/ In(n.inner, v))
        \/ n.kind = "transform" /\ In(n.inner, v)
        \/ n.kind = "opaque" /\ g.upper
        \/ /\ n.kind = "reference"
           /\ IF d = 0 THEN ~g.upper ELSE <<g.definitions[n.to], v, d - 1>> \in R

Triples(g) == g.nodes \X g.values \X Nat

\* The smallest relation that is closed under the rule.
IsClosed(R, g) ==
  \A n \in g.nodes, v \in g.values, d \in Nat : Accepts(R, g, n, v, d) => <<n, v, d>> \in R

Meaning(g) == {x \in Triples(g) : \A R \in SUBSET Triples(g) : IsClosed(R, g) => x \in R}

Means(g, n, v, d) == <<n, v, d>> \in Meaning(g)

-----------------------------------------------------------------------------
(* What graphs and values are. *)

Lengths(n) == n.min \in Nat /\ n.max \in Nat

IsValue(v, V) ==
  /\ v.tag = "string" => Len(v.text) \in Nat
  /\ v.tag = "number" => v.num \in Int
  /\ v.tag = "array" => v.items \in Seq(V)
  /\ v.tag = "object" => \A k \in DOMAIN v.props : v.props[k] \in V /\ Len(k) \in Nat

\* The fields of a node, the nodes directly below it and their sizes, and the nodes
\* of the literals that it stands for when it is one of the choices of a union.
IsNode(n, g) ==
  /\ g.size[n] \in Nat
  /\ \A c \in Children(n) : c \in g.nodes /\ g.size[c] < g.size[n]
  /\ n.kind \in {"string", "number", "boolean", "literal", "enum", "unknown", "never", "array",
                 "tuple", "union", "discriminatedUnion", "intersection", "object", "record",
                 "nullable", "optional", "transform", "reference", "opaque"}
  /\ n.kind \in {"string", "array"} => Lengths(n)
  /\ n.kind = "record" => Lengths(n.key)
  /\ n.kind = "number" =>
       n.integer \in BOOLEAN /\ n.min \in Int /\ n.max \in Int /\ n.multiple \in Nat
  /\ n.kind = "literal" => IsScalar(n.lit)
  /\ n.kind = "enum" =>
       /\ IsFiniteSet(n.values)
       /\ \A v \in n.values : IsScalar(v) /\ LiteralOf(v) \in g.nodes /\ g.size[LiteralOf(v)] <= g.size[n]
  /\ n.kind = "tuple" => n.items \in Seq(g.nodes)
  /\ n.kind \in {"union", "discriminatedUnion"} => n.choices \in Seq(g.nodes)
  /\ n.kind = "discriminatedUnion" => \A i \in DOMAIN n.choices : n.choices[i].kind = "object"
  /\ n.kind = "object" =>
       /\ n.required = {k \in DOMAIN n.shape : n.shape[k].kind # "optional"}
       /\ n.policy \in {"reject", "strip", "passthrough"}
  /\ n.kind = "nullable" => LiteralOf(Null) \in g.nodes /\ g.size[LiteralOf(Null)] <= g.size[n]
  /\ n.kind = "optional" =>
       LiteralOf(Undefined) \in g.nodes /\ g.size[LiteralOf(Undefined)] <= g.size[n]
  /\ n.kind = "reference" => g.definitions[n.to] \in g.nodes

IsGraph(g) ==
  /\ \A n \in g.nodes : IsNode(n, g)
  /\ \A v \in g.values : IsValue(v, g.values)
  /\ g.upper \in BOOLEAN

\* What the comparison does not look at: checks on a reference, on an optional
\* property, and on a choice of a union that has choices of its own.
Choosing == {"union", "nullable", "optional"}

IsPlain(n) ==
  /\ n.kind # "opaque"
  /\ n.kind = "reference" => n.refs = <<>>
  /\ n.kind = "object" =>
       \A k \in DOMAIN n.shape : n.shape[k].kind = "optional" => n.shape[k].refs = <<>>
  /\ n.kind \in Choosing => \A c \in Children(n) : c.kind \in Choosing => c.refs = <<>>

\* The recursive operators are solutions of their rules, on the nodes of a graph and
\* on those of two.
NodeRules(g) ==
  \A n \in g.nodes :
    /\ IsProvablyEmpty(n) <=> IsProvablyEmptyRule(n)
    /\ IsProvablyUniversal(n) <=> IsProvablyUniversalRule(n)
    /\ IsLiteralAcceptanceDecidable(n) <=> IsLiteralAcceptanceDecidableRule(n)
    /\ \A v : AcceptsLiteral(n, v) <=> AcceptsLiteralRule(n, v)
    /\ ExpandChoices(n) = ExpandChoicesRule(n)

Context(s, t, active) ==
  [graph |-> TRUE, source |-> s.definitions, target |-> t.definitions, active |-> active]

PairRules(s, t) ==
  \A m \in s.nodes, n \in t.nodes :
    /\ AnonymousOpaque(m, n) = AnonymousOpaqueRule(m, n)
    /\ \A active \in SUBSET (s.nodes \X t.nodes) :
         Compare(m, n, Context(s, t, active)) = CompareRule(m, n, Context(s, t, active))

\* A comparison of two graphs over the same values, where the source is read as what
\* may be accepted and the target as what surely is not rejected.  Whatever an
\* anonymous check does, it is held against the contract: it holds on the source and
\* not on the target.
IsComparison(s, t, holds) ==
  /\ IsGraph(s) /\ IsGraph(t) /\ s.upper /\ ~t.upper /\ s.values = t.values
  /\ t.holds = holds /\ s.holds = holds \cup {"anonymous"}
  /\ \A n \in t.nodes : IsPlain(n)
  /\ NodeRules(s) /\ NodeRules(t) /\ PairRules(s, t)

-----------------------------------------------------------------------------
(* Schemas and the graphs that describe them. *)

\* The schemas directly below a schema.
Parts(s) ==
  CASE s.kind = "array" -> {s.item}
    [] s.kind = "tuple" -> Range(s.items)
    [] s.kind \in {"union", "discriminatedUnion"} -> Range(s.choices)
    [] s.kind = "intersection" -> {s.left, s.right}
    [] s.kind = "object" -> Range(s.shape)
    [] s.kind = "record" -> {s.each}
    [] s.kind \in {"nullable", "optional", "transform", "defined"} -> {s.inner}
    [] s.kind = "pipeline" -> {s.first, s.second}
    [] OTHER -> {}

\* The fields of a node; a schema without parts has those of its node.
NodeFields(kind) ==
  {"kind", "refs"} \cup
  CASE kind = "string" -> {"min", "max", "pattern"}
    [] kind = "number" -> {"integer", "min", "max", "multiple"}
    [] kind = "literal" -> {"lit"}
    [] kind = "enum" -> {"values"}
    [] kind = "array" -> {"item", "min", "max"}
    [] kind = "tuple" -> {"items"}
    [] kind = "union" -> {"choices"}
    [] kind = "discriminatedUnion" -> {"by", "choices"}
    [] kind = "intersection" -> {"left", "right"}
    [] kind = "object" -> {"shape", "policy", "required"}
    [] kind = "record" -> {"key", "each"}
    [] kind \in {"nullable", "optional"} -> {"inner"}
    [] kind = "transform" -> {"inner", "id"}
    [] kind = "reference" -> {"to"}
    [] kind = "opaque" -> {"id"}
    [] OTHER -> {}

\* The identities of checks.
Ids == STRING \cup {"anonymous"}

HasFields(n) == n = [f \in NodeFields(n.kind) |-> n[f]] /\ n.refs \in Seq(Ids)

Leaves == {"string", "number", "boolean", "literal", "enum", "unknown", "never"}

\* A world w is a record: schemas, with everything below them and what their lazy
\* schemas resolve to, and their sizes.
IsSchema(s, w) ==
  /\ w.size[s] \in Nat
  /\ \A c \in Parts(s) : c \in w.schemas /\ w.size[c] < w.size[s]
  /\ s.kind \in Leaves \cup
       {"array", "tuple", "union", "discriminatedUnion", "intersection", "object", "record",
        "nullable", "optional", "transform", "lazy", "defined", "pipeline"}
  /\ s.refs \in Seq(Ids)
  /\ s.kind \in Leaves => HasFields(s)
  /\ s.kind = "tuple" => s.items \in Seq(w.schemas)
  /\ s.kind \in {"union", "discriminatedUnion"} => s.choices \in Seq(w.schemas)
  /\ s.kind = "lazy" => Definitions[s.to] \in w.schemas

IsWorld(w) ==
  /\ \A s \in w.schemas :
       /\ IsSchema(s, w)
       /\ Describe(s, "input") = DescribeRule(s, "input")
       /\ \A v, holds : \A d \in Nat : Parse(s, v, holds, d) = ParseRule(s, v, holds, d)
  /\ \A left, right : Merge(left, right) = MergeRule(left, right)

\* A graph has a further field: the nodes from which undefined is taken away.
Excludes(g) ==
  \A n \in g.excluded :
    /\ n \in g.nodes /\ ExcludeUndefined(n) \in g.nodes
    /\ ExcludeUndefined(n) = ExcludeUndefinedRule(n)
    /\ n.kind \in {"nullable", "optional", "union"} => Children(n) \subseteq g.excluded
    /\ n.kind = "enum" => Undefined \notin n.values

IsWellFormed(g) ==
  IsGraph(g) /\ NodeRules(g) /\ Excludes(g) /\ \A n \in g.nodes : HasFields(n)

\* A graph that describes what the schemas of a world take.
DescribesInput(g, w) ==
  /\ IsWellFormed(g)
  /\ \A s \in w.schemas :
       /\ Describe(s, "input") \in g.nodes
       /\ s.kind = "defined" => Describe(s.inner, "input") \in g.excluded
       /\ s.kind = "lazy" => g.definitions[s.to] = Describe(Definitions[s.to], "input")

\* No schema that is defined makes undefined of another value.
KeepsDefined(w, g) ==
  \A s \in w.schemas : s.kind = "defined" =>
    \A v \in g.values, d \in Nat :
      v # Undefined => Parse(s.inner, v, g.holds, d) # Ok(Undefined)

=============================================================================
