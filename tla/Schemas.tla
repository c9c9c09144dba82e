------------------------------- MODULE Schemas -------------------------------
(***************************************************************************)
(* Runtime schemas (packages/core/src/schema.ts).                          *)
(*                                                                         *)
(* A schema is a record with its kind, its checks and the fields of its    *)
(* class.  Parse is safeParse without its diagnostics: what a schema makes *)
(* of a value.                                                             *)
(*                                                                         *)
(* Numbers are counted in halves, so that 1 is one half and 2 is one.      *)
(* A pattern stands for a pattern or a format.  An absent lower bound is   *)
(* -Infinity for a number and 0 for a length, an absent upper bound is     *)
(* Infinity, an absent multipleOf is 0.  A string has the length TLC       *)
(* counts.  Annotations are left out: they change no parse.                *)
(***************************************************************************)
EXTENDS Integers, Sequences, FiniteSets, FiniteSetsExt, SequencesExt

\* A recursive operator is a constant, and what it computes in terms of itself is
\* its rule: Parse is a solution of Parse(s, v, h, d) = ParseRule(s, v, h, d).
CONSTANTS Merge(_, _), Parse(_, _, _, _)

CONSTANTS Definitions,   \* what the getter of a lazy schema returns, by id
          PatternTexts,  \* the texts each pattern matches
          Warnings,      \* the identities of checks that only warn
          LazyDepth      \* resolutions of lazy schemas the stack has room for

Infinity == 1000

-----------------------------------------------------------------------------
(* Values. *)

Text(t) == [tag |-> "string", text |-> t]
Halves(n) == [tag |-> "number", num |-> n, minus |-> FALSE]
MinusZero == [tag |-> "number", num |-> 0, minus |-> TRUE]
NotANumber == [tag |-> "nan"]
Bool(b) == [tag |-> "boolean", bool |-> b]
Null == [tag |-> "null"]
Undefined == [tag |-> "undefined"]
List(items) == [tag |-> "array", items |-> items]
Obj(props) == [tag |-> "object", props |-> props]

Each(f, Op(_)) == [k \in DOMAIN f |-> Op(f[k])]

\* What a transform makes of a value; behaviours differ in their id.
Mapped(id, v) ==
  IF id = "erase" THEN Undefined ELSE [tag |-> "mapped", by |-> id, from |-> v]

-----------------------------------------------------------------------------
(* Schemas. *)

StringOf(min, max, pattern) ==
  [kind |-> "string", refs |-> <<>>, min |-> min, max |-> max, pattern |-> pattern]
NumberOf(integer, min, max, multiple) ==
  [kind |-> "number", refs |-> <<>>, integer |-> integer, min |-> min, max |-> max,
   multiple |-> multiple]
BooleanOf == [kind |-> "boolean", refs |-> <<>>]
LiteralOf(v) == [kind |-> "literal", refs |-> <<>>, lit |-> v]
EnumOf(values) == [kind |-> "enum", refs |-> <<>>, values |-> values]
Unknown == [kind |-> "unknown", refs |-> <<>>]
Never == [kind |-> "never", refs |-> <<>>]
ArrayOf(item, min, max) ==
  [kind |-> "array", refs |-> <<>>, item |-> item, min |-> min, max |-> max]
Tuple(items) == [kind |-> "tuple", refs |-> <<>>, items |-> items]
Union(choices) == [kind |-> "union", refs |-> <<>>, choices |-> choices]
Discriminated(by, choices) ==
  [kind |-> "discriminatedUnion", refs |-> <<>>, by |-> by, choices |-> choices]
Intersection(left, right) ==
  [kind |-> "intersection", refs |-> <<>>, left |-> left, right |-> right]
ObjectOf(shape, policy) ==
  [kind |-> "object", refs |-> <<>>, shape |-> shape, policy |-> policy]
RecordOf(key, each) == [kind |-> "record", refs |-> <<>>, key |-> key, each |-> each]
Nullable(inner) == [kind |-> "nullable", refs |-> <<>>, inner |-> inner]
Optional(inner) == [kind |-> "optional", refs |-> <<>>, inner |-> inner]
Lazy(to) == [kind |-> "lazy", refs |-> <<>>, to |-> to]
Defined(inner) == [kind |-> "defined", refs |-> <<>>, inner |-> inner]
Pipeline(first, second) ==
  [kind |-> "pipeline", refs |-> <<>>, first |-> first, second |-> second]
Transform(inner, id) == [kind |-> "transform", refs |-> <<>>, inner |-> inner, id |-> id]

\* A schema or a node with further checks; a check without an id is "anonymous".
Refined(s, ids) == [s EXCEPT !.refs = @ \o ids]

-----------------------------------------------------------------------------
(* Parsing: a value is accepted with an output, or rejected, or parsing never *)
(* comes back because the stack is exhausted.                                  *)

Ok(v) == [is |-> "ok", data |-> v]
Rejected == [is |-> "rejected"]
Overflow == [is |-> "overflow"]

Accept(accepted, v) == IF accepted THEN Ok(v) ELSE Rejected

\* The outcome of a composite: every part is parsed, whatever the others did.
Gather(parts, accepted, v) ==
  IF Overflow \in parts THEN Overflow ELSE Accept(accepted /\ Rejected \notin parts, v)

StringAccepts(s, t) ==
  /\ Len(t) >= s.min
  /\ Len(t) <= s.max
  /\ s.pattern # "none" => t \in PatternTexts[s.pattern]

NumberAccepts(s, n) ==
  /\ s.integer => n % 2 = 0
  /\ n >= s.min
  /\ n <= s.max
  /\ s.multiple # 0 => n % s.multiple = 0

\* mergeIntersectionOutputs
MergeRule(left, right) ==
  IF left = right THEN Ok(left)
  ELSE IF left.tag = "array" /\ right.tag = "array" /\ Len(left.items) = Len(right.items)
  THEN LET parts == [i \in DOMAIN left.items |-> Merge(left.items[i], right.items[i])]
       IN Gather(Range(parts), TRUE, List([i \in DOMAIN parts |-> parts[i].data]))
  ELSE IF left.tag = "object" /\ right.tag = "object"
  THEN LET both == DOMAIN left.props \cap DOMAIN right.props
           parts == [k \in both |-> Merge(left.props[k], right.props[k])]
       IN Gather(Range(parts), TRUE,
                 Obj([k \in DOMAIN left.props \cup DOMAIN right.props |->
                        IF k \in both THEN parts[k].data
                        ELSE IF k \in DOMAIN left.props THEN left.props[k]
                        ELSE right.props[k]]))
  ELSE Rejected

ParseItems(items, v, holds, depth) ==
  [i \in DOMAIN v.items |-> Parse(items[i], v.items[i], holds, depth)]

ParseArray(s, v, holds, depth) ==
  IF v.tag # "array" THEN Rejected
  ELSE LET parts == ParseItems([i \in DOMAIN v.items |-> s.item], v, holds, depth)
       IN Gather(Range(parts), Len(v.items) >= s.min /\ Len(v.items) <= s.max,
                 List([i \in DOMAIN parts |-> parts[i].data]))

ParseTuple(s, v, holds, depth) ==
  IF v.tag # "array" \/ Len(v.items) # Len(s.items) THEN Rejected
  ELSE LET parts == ParseItems(s.items, v, holds, depth)
       IN Gather(Range(parts), TRUE, List([i \in DOMAIN parts |-> parts[i].data]))

\* The first choice that accepts gives the output.
ParseUnion(s, v, holds, depth) ==
  LET tried == [i \in DOMAIN s.choices |-> Parse(s.choices[i], v, holds, depth)]
      settled == {i \in DOMAIN tried : tried[i] # Rejected}
  IN IF settled = {} THEN Rejected ELSE tried[Min(settled)]

\* The values of the discriminator that select a choice.
Selecting(s, choice) ==
  LET property == choice.shape[s.by]
  IN IF property.kind = "enum" THEN property.values ELSE {property.lit}

ParseDiscriminated(s, v, holds, depth) ==
  LET selected == {i \in DOMAIN s.choices : v.props[s.by] \in Selecting(s, s.choices[i])}
  IN IF v.tag # "object" \/ s.by \notin DOMAIN v.props \/ selected = {} THEN Rejected
     ELSE Parse(s.choices[Min(selected)], v, holds, depth)

ParseIntersection(s, v, holds, depth) ==
  LET left == Parse(s.left, v, holds, depth)
      right == Parse(s.right, v, holds, depth)
  IN IF Overflow \in {left, right} THEN Overflow
     ELSE IF Rejected \in {left, right} THEN Rejected
     ELSE Merge(left.data, right.data)

\* isOptionalSchema
MayBeAbsent(s) == s.kind = "optional"

\* An optional property that parses to undefined is left out of the output.
ParseObject(s, v, holds, depth) ==
  IF v.tag # "object" THEN Rejected
  ELSE LET present == DOMAIN s.shape \cap DOMAIN v.props
           missing == {k \in DOMAIN s.shape \ present : ~MayBeAbsent(s.shape[k])}
           extra == DOMAIN v.props \ present
           parts == [k \in present |-> Parse(s.shape[k], v.props[k], holds, depth)]
           kept == {k \in present : ~(MayBeAbsent(s.shape[k]) /\ parts[k].data = Undefined)}
           passed == IF s.policy = "passthrough" THEN extra ELSE {}
       IN Gather(Range(parts), missing = {} /\ (s.policy = "reject" => extra = {}),
                 Obj([k \in kept \cup passed |->
                        IF k \in kept THEN parts[k].data ELSE v.props[k]]))

ParseRecord(s, v, holds, depth) ==
  IF v.tag # "object" THEN Rejected
  ELSE LET parts == [k \in DOMAIN v.props |-> Parse(s.each, v.props[k], holds, depth)]
       IN Gather(Range(parts), \A k \in DOMAIN v.props : StringAccepts(s.key, k),
                 Obj([k \in DOMAIN parts |-> parts[k].data]))

\* DefinedSchema: undefined is neither an input nor an output.
ParseDefined(s, v, holds, depth) ==
  LET inner == Parse(s.inner, v, holds, depth)
  IN IF v = Undefined \/ inner = Ok(Undefined) THEN Rejected ELSE inner

ParsePipeline(s, v, holds, depth) ==
  LET first == Parse(s.first, v, holds, depth)
  IN IF first.is = "ok" THEN Parse(s.second, first.data, holds, depth) ELSE first

ParseTransform(s, v, holds, depth) ==
  LET inner == Parse(s.inner, v, holds, depth)
  IN IF inner.is = "ok" THEN Ok(Mapped(s.id, inner.data)) ELSE inner

ParseBase(s, v, holds, depth) ==
  CASE s.kind = "string" -> Accept(v.tag = "string" /\ StringAccepts(s, v.text), v)
    [] s.kind = "number" -> Accept(v.tag = "number" /\ NumberAccepts(s, v.num), v)
    [] s.kind = "boolean" -> Accept(v.tag = "boolean", v)
    [] s.kind = "literal" -> Accept(v = s.lit, v)
    [] s.kind = "enum" -> Accept(v \in s.values, v)
    [] s.kind = "unknown" -> Ok(v)
    [] s.kind = "never" -> Rejected
    [] s.kind = "array" -> ParseArray(s, v, holds, depth)
    [] s.kind = "tuple" -> ParseTuple(s, v, holds, depth)
    [] s.kind = "union" -> ParseUnion(s, v, holds, depth)
    [] s.kind = "discriminatedUnion" -> ParseDiscriminated(s, v, holds, depth)
    [] s.kind = "intersection" -> ParseIntersection(s, v, holds, depth)
    [] s.kind = "object" -> ParseObject(s, v, holds, depth)
    [] s.kind = "record" -> ParseRecord(s, v, holds, depth)
    [] s.kind = "nullable" -> IF v = Null THEN Ok(v) ELSE Parse(s.inner, v, holds, depth)
    [] s.kind = "optional" -> IF v = Undefined THEN Ok(v) ELSE Parse(s.inner, v, holds, depth)
    [] s.kind = "lazy" -> IF depth = 0 THEN Overflow
                          ELSE Parse(Definitions[s.to], v, holds, depth - 1)
    [] s.kind = "defined" -> ParseDefined(s, v, holds, depth)
    [] s.kind = "pipeline" -> ParsePipeline(s, v, holds, depth)
    [] s.kind = "transform" -> ParseTransform(s, v, holds, depth)

\* A check that warns never rejects; any other passes when its predicate holds.
ParseRule(s, v, holds, depth) ==
  LET base == ParseBase(s, v, holds, depth)
  IN IF base.is = "ok" /\ ~(Range(s.refs) \subseteq holds \cup Warnings)
     THEN Rejected ELSE base

\* safeParse of a root, under the checks that hold.
SafeParse(s, v, holds) == Parse(s, v, holds, LazyDepth)

=============================================================================
