--------------------------- MODULE ContractCompare ---------------------------
(***************************************************************************)
(* The compatibility rules (packages/compat/src/index.ts): does every      *)
(* value of a source contract stay a value of a target contract?           *)
(*                                                                         *)
(* The code hands both contracts and a direction around and looks source   *)
(* and target up in every rule; here they are the two arguments.           *)
(*                                                                         *)
(* An analysis is the set of its findings.  A finding keeps its code and   *)
(* its status; one that says "safe" is left out, for it changes no status. *)
(* A property only one side has is named as in the backward direction.     *)
(* Two inline nodes that are equal are one node for the active pairs.      *)
(***************************************************************************)
EXTENDS Contracts

\* Recursive operators; each is given its rule.
CONSTANTS IsProvablyEmpty(_), IsProvablyInhabited(_), IsProvablyIdentity(_),
          IsProvablyUniversal(_), IsProvablyNarrow(_),
          IsLiteralAcceptanceDecidable(_), AcceptsLiteral(_, _), Families(_),
          ExpandChoices(_), AnonymousOpaque(_, _), Compare(_, _, _)

Finding(code, status) == {[code |-> code, status |-> status]}
Unproven(code) == Finding(code, "unknown")
Breaking(code) == Finding(code, "breaking")
Safe == {}

Statuses(findings) == {f.status : f \in findings}

\* aggregateStatus
Aggregate(statuses) ==
  IF "breaking" \in statuses THEN "breaking"
  ELSE IF "unknown" \in statuses THEN "unknown" ELSE "safe"

Status(findings) == Aggregate(Statuses(findings))

Pick(safe, otherwise) == IF safe THEN Safe ELSE otherwise

-----------------------------------------------------------------------------
(* What can be told of one node. *)

\* unwrapObjectProperty
Unwrapped(n) == IF n.kind = "optional" THEN n.inner ELSE n

\* Halves rounded to whole numbers, up and down.
RoundUp(n) == IF n \in {-Infinity, Infinity} THEN n ELSE n + (n % 2)
RoundDown(n) == IF n \in {-Infinity, Infinity} THEN n ELSE n - (n % 2)

IsProvablyEmptyRule(n) ==
  CASE n.kind = "never" -> TRUE
    [] n.kind = "number" -> n.integer /\ RoundUp(n.min) > RoundDown(n.max)
    [] n.kind = "array" -> n.min > 0 /\ IsProvablyEmpty(n.item)
    [] n.kind = "tuple" -> \E i \in DOMAIN n.items : IsProvablyEmpty(n.items[i])
    [] n.kind \in {"union", "discriminatedUnion"} ->
         \A i \in DOMAIN n.choices : IsProvablyEmpty(n.choices[i])
    [] n.kind = "intersection" -> IsProvablyEmpty(n.left) \/ IsProvablyEmpty(n.right)
    [] n.kind = "object" -> \E k \in n.required : IsProvablyEmpty(Unwrapped(n.shape[k]))
    [] n.kind = "transform" -> IsProvablyEmpty(n.inner)
    [] OTHER -> FALSE

IsProvablyInhabitedRule(n) ==
  /\ n.refs = <<>>
  /\ CASE n.kind = "string" -> n.pattern = "none" /\ n.min <= 1
       [] n.kind = "number" ->
            n.multiple = 0 /\ (n.integer => RoundUp(n.min) <= RoundDown(n.max))
       [] n.kind = "array" -> n.min = 0 \/ IsProvablyInhabited(n.item)
       [] n.kind = "tuple" -> \A i \in DOMAIN n.items : IsProvablyInhabited(n.items[i])
       [] n.kind \in {"union", "discriminatedUnion"} ->
            \E i \in DOMAIN n.choices : IsProvablyInhabited(n.choices[i])
       [] n.kind = "object" -> \A k \in n.required : IsProvablyInhabited(Unwrapped(n.shape[k]))
       [] OTHER -> n.kind \in {"boolean", "literal", "enum", "unknown", "record",
                               "nullable", "optional"}

IsProvablyIdentityRule(n) ==
  /\ n.kind \notin {"intersection", "transform", "reference", "opaque"}
  /\ n.kind = "object" => n.policy # "strip"
  /\ \A child \in Children(n) : IsProvablyIdentity(child)

IsProvablyUniversalRule(n) ==
  /\ n.refs = <<>>
  /\ \/ n.kind = "unknown"
     \/ n.kind \in {"nullable", "optional"} /\ IsProvablyUniversal(n.inner)
     \/ /\ n.kind = "union"
        /\ \A i \in DOMAIN n.choices : IsProvablyIdentity(n.choices[i])
        /\ \E i \in DOMAIN n.choices : IsProvablyUniversal(n.choices[i])

\* isProvablyNonUniversalInputNode
IsProvablyNarrowRule(n) ==
  CASE n.kind \in {"nullable", "optional", "transform"} -> IsProvablyNarrow(n.inner)
    [] n.kind \in {"union", "discriminatedUnion"} ->
         \A i \in DOMAIN n.choices : IsProvablyNarrow(n.choices[i])
    [] n.kind = "intersection" -> IsProvablyNarrow(n.left) \/ IsProvablyNarrow(n.right)
    [] OTHER -> n.kind \notin {"unknown", "reference", "opaque"}

IsLiteralAcceptanceDecidableRule(n) ==
  /\ n.refs = <<>>
  /\ n.kind \notin {"transform", "reference", "opaque"}
  /\ n.kind \in {"nullable", "optional", "union", "discriminatedUnion", "intersection"} =>
       \A child \in Children(n) : IsLiteralAcceptanceDecidable(child)

\* nodeAcceptsLiteral
AcceptsLiteralRule(n, v) ==
  CASE n.kind = "unknown" -> TRUE
    [] n.kind = "literal" -> n.lit = v
    [] n.kind = "enum" -> v \in n.values
    [] n.kind = "nullable" -> v = Null \/ AcceptsLiteral(n.inner, v)
    [] n.kind = "optional" -> v = Undefined \/ AcceptsLiteral(n.inner, v)
    [] n.kind \in {"union", "discriminatedUnion"} ->
         \E i \in DOMAIN n.choices : AcceptsLiteral(n.choices[i], v)
    [] n.kind = "intersection" -> AcceptsLiteral(n.left, v) /\ AcceptsLiteral(n.right, v)
    [] n.kind = "string" -> v.tag = "string" /\ StringAccepts(n, v.text)
    [] n.kind = "boolean" -> v.tag = "boolean"
    [] n.kind = "number" -> v.tag = "number" /\ NumberAccepts(n, v.num)
    [] OTHER -> FALSE

\* runtimeValueFamilies
AllFamilies ==
  {"array", "boolean", "null", "number", "object", "other", "string", "undefined"}

FamilyOf(v) == IF v.tag = "nan" THEN "number" ELSE v.tag

FamiliesRule(n) ==
  CASE n.kind \in {"string", "number", "boolean"} -> {n.kind}
    [] n.kind = "literal" -> {FamilyOf(n.lit)}
    [] n.kind = "enum" -> {FamilyOf(v) : v \in n.values}
    [] n.kind = "never" -> {}
    [] n.kind \in {"array", "tuple"} -> {"array"}
    [] n.kind \in {"union", "discriminatedUnion"} ->
         UNION {Families(n.choices[i]) : i \in DOMAIN n.choices}
    [] n.kind = "intersection" -> Families(n.left) \cap Families(n.right)
    [] n.kind \in {"object", "record"} -> {"object"}
    [] n.kind = "nullable" -> Families(n.inner) \cup {"null"}
    [] n.kind = "optional" -> Families(n.inner) \cup {"undefined"}
    [] n.kind = "transform" -> Families(n.inner)
    [] n.kind \in {"unknown", "reference", "opaque"} -> AllFamilies

AreProvablyDisjoint(m, n) ==
  \/ IsProvablyEmpty(m) \/ IsProvablyEmpty(n)
  \/ IF m.kind = "literal" /\ IsLiteralAcceptanceDecidable(n) THEN ~AcceptsLiteral(n, m.lit)
     ELSE IF n.kind = "literal" /\ IsLiteralAcceptanceDecidable(m) THEN ~AcceptsLiteral(m, n.lit)
     ELSE Families(m) \cap Families(n) = {}

\* expandChoices: the choices of a union, of nullable and of optional, flattened.
ExpandChoicesRule(n) ==
  CASE n.kind = "union" ->
         FlattenSeq([i \in DOMAIN n.choices |-> ExpandChoices(n.choices[i])])
    [] n.kind = "nullable" -> Append(ExpandChoices(n.inner), LiteralOf(Null))
    [] n.kind = "optional" -> Append(ExpandChoices(n.inner), LiteralOf(Undefined))
    [] n.kind = "enum" /\ n.refs = <<>> -> SetToSeq({LiteralOf(v) : v \in n.values})
    [] OTHER -> <<n>>

-----------------------------------------------------------------------------
(* Behaviour that a contract only names. *)

IsAnonymous(n) ==
  \/ "anonymous" \in Range(n.refs)
  \/ n.kind \in {"transform", "opaque"} /\ n.id = "anonymous"

\* findAnonymousOpaque: both nodes are walked as long as they have the same shape.
AnonymousOpaqueRule(s, t) ==
  LET Below(m, n) == {i \in DOMAIN m : i \in DOMAIN n /\ AnonymousOpaque(m[i], n[i]) # {}}
  IN Pick(/\ ~IsAnonymous(s) /\ ~IsAnonymous(t)
          /\ s.kind = t.kind =>
               CASE s.kind = "array" -> AnonymousOpaque(s.item, t.item) = {}
                 [] s.kind = "tuple" -> Below(s.items, t.items) = {}
                 [] s.kind \in {"union", "discriminatedUnion"} -> Below(s.choices, t.choices) = {}
                 [] s.kind = "intersection" -> /\ AnonymousOpaque(s.left, t.left) = {}
                                               /\ AnonymousOpaque(s.right, t.right) = {}
                 [] s.kind = "object" -> Below(s.shape, t.shape) = {}
                 [] s.kind = "record" -> AnonymousOpaque(s.each, t.each) = {}
                 [] s.kind \in {"nullable", "optional", "transform"} ->
                      AnonymousOpaque(s.inner, t.inner) = {}
                 [] OTHER -> TRUE,
          Unproven("opaque.anonymous"))

\* compareOpaque
OpaqueChanged(s, t) ==
  \/ s.refs # t.refs
  \/ /\ "transform" \in {s.kind, t.kind}
     /\ (s.kind # t.kind \/ s.id # t.id)
  \/ /\ "opaque" \in {s.kind, t.kind}
     /\ (s.kind # t.kind \/ s.id # t.id)

-----------------------------------------------------------------------------
(* Rules for two nodes of one kind.                                         *)
(* A context holds the definitions of both graphs and the pairs of nodes    *)
(* under comparison; `graph` is FALSE for snapshots of the first format.    *)

CompareStrings(s, t) ==
  IF s.pattern # t.pattern THEN Unproven("string.pattern.changed")
  ELSE Pick(s.min >= t.min /\ s.max <= t.max, Breaking("string.length.changed"))

IsIntegerOnly(n) ==
  n.integer \/ (n.min = n.max /\ n.min # -Infinity /\ n.min % 2 = 0)

Divides(divisor, n) == divisor # 0 /\ n % divisor = 0

CompareNumbers(s, t) ==
  LET Low(n) == IF IsIntegerOnly(n) THEN RoundUp(n.min) ELSE n.min
      High(n) == IF IsIntegerOnly(n) THEN RoundDown(n.max) ELSE n.max
      wider == /\ Low(s) >= Low(t) /\ High(s) <= High(t)
               /\ \/ ~IsIntegerOnly(t) \/ IsIntegerOnly(s)
                  \/ s.multiple # 0 /\ Divides(2, s.multiple)
      multiple == \/ t.multiple \in {0, s.multiple}
                  \/ s.multiple # 0 /\ Divides(t.multiple, s.multiple)
                  \/ IsIntegerOnly(s) /\ Divides(t.multiple, 2)
  IN Pick(wider, Finding("number.constraints.changed",
                         IF s.multiple = 0 THEN "breaking" ELSE "unknown"))
     \cup Pick(multiple, Unproven("number.multiple_of.changed"))

\* An array of nothing has no items, whatever its length constraints.
ArrayMin(n) == IF IsProvablyEmpty(n.item) THEN 0 ELSE n.min
ArrayMax(n) == IF IsProvablyEmpty(n.item) THEN 0 ELSE n.max

CompareArrays(s, t, ctx) ==
  LET contained == ArrayMin(s) >= ArrayMin(t) /\ ArrayMax(s) <= ArrayMax(t)
      witnessed == (ArrayMin(s) = 0 /\ ArrayMin(t) > 0) \/ IsProvablyInhabited(s.item)
  IN Pick(contained, Finding("array.length.changed",
                             IF witnessed THEN "breaking" ELSE "unknown"))
     \cup (IF ArrayMax(s) = 0 THEN Safe ELSE Compare(s.item, t.item, ctx))

CompareTuples(s, t, ctx) ==
  IF Len(s.items) # Len(t.items)
  THEN Finding("tuple.length.changed", IF IsProvablyInhabited(s) THEN "breaking" ELSE "unknown")
  ELSE UNION {Compare(s.items[i], t.items[i], ctx) : i \in DOMAIN s.items}

CompareTupleArray(s, t, ctx) ==
  IF s.kind = "tuple"
  THEN Pick(Len(s.items) >= t.min /\ Len(s.items) <= t.max, Breaking("tuple.array.changed"))
       \cup UNION {Compare(s.items[i], t.item, ctx) : i \in DOMAIN s.items}
  ELSE LET length == Len(t.items)
           exact == ArrayMin(s) = length /\ ArrayMax(s) = length
           witnessed == (ArrayMin(s) = 0 /\ length # 0) \/ IsProvablyInhabited(s.item)
       IN IF exact THEN UNION {Compare(s.item, t.items[i], ctx) : i \in DOMAIN t.items}
          ELSE Finding("tuple.array.changed", IF witnessed THEN "breaking" ELSE "unknown")

CompareRecords(s, t, ctx) ==
  CompareStrings(s.key, t.key) \cup Compare(s.each, t.each, ctx)

CompareEnum(s, t) ==
  IF ~IsLiteralAcceptanceDecidable(t) THEN Unproven("enum.values.changed")
  ELSE Pick(\A v \in s.values : AcceptsLiteral(t, v), Breaking("enum.values.changed"))

-----------------------------------------------------------------------------
(* Objects. *)

PolicyChange(s, t) ==
  Pick(s.policy \in {t.policy, "reject"}, Breaking("object.unknown_properties.changed"))

\* A property that only the target declares.
PropertyAdded(s, t, k) ==
  CASE k \in t.required -> Breaking("object.property.added.required")
    [] k \notin t.required /\ s.policy = "reject" -> Safe
    [] k \notin t.required /\ s.policy = "strip" -> Breaking("object.property.added.optional")
    [] k \notin t.required /\ s.policy = "passthrough" ->
         Pick(IsProvablyUniversal(t.shape[k]),
              Finding("object.property.added.optional",
                      IF IsProvablyNarrow(t.shape[k]) THEN "breaking" ELSE "unknown"))

\* A property that only the source declares.
PropertyRemoved(s, t, k) ==
  IF t.policy \in {"reject", "strip"} THEN Breaking("object.property.removed")
  ELSE Pick(IsProvablyIdentity(s.shape[k]), Unproven("object.property.removed"))

\* mutant: requiredness of source and target swapped
PropertyKeptSwapped(s, t, k, ctx) ==
  Pick(k \in s.required => k \in t.required, Breaking("object.property.requiredness.changed"))
  \cup Compare(Unwrapped(s.shape[k]), Unwrapped(t.shape[k]), ctx)

PropertyKept(s, t, k, ctx) ==
  Pick(k \in t.required => k \in s.required, Breaking("object.property.requiredness.changed"))
  \cup Compare(Unwrapped(s.shape[k]), Unwrapped(t.shape[k]), ctx)

CompareObjects(s, t, ctx) ==
  PolicyChange(s, t)
  \cup (UNION {PropertyAdded(s, t, k) : k \in DOMAIN t.shape \ DOMAIN s.shape})
  \cup (UNION {PropertyRemoved(s, t, k) : k \in DOMAIN s.shape \ DOMAIN t.shape})
  \cup (UNION {PropertyKept(s, t, k, ctx) : k \in DOMAIN s.shape \cap DOMAIN t.shape})

-----------------------------------------------------------------------------
(* Unions and kinds that differ. *)

\* mutant: a choice that no single target contains is taken for a counterexample
ChoiceStatusNoCover(choice, targets, ctx) ==
  LET candidates == {Status(Compare(choice, targets[i], ctx)) : i \in DOMAIN targets}
  IN IF "safe" \in candidates THEN "safe"
     ELSE IF "breaking" \in candidates THEN "breaking" ELSE "unknown"

\* The status of one source choice; the findings below it are not kept.
ChoiceStatus(choice, targets, ctx) ==
  LET candidates == {Status(Compare(choice, targets[i], ctx)) : i \in DOMAIN targets}
  IN IF "safe" \in candidates THEN "safe"
     ELSE IF Len(targets) > 1 /\ choice.kind # "literal"
     THEN IF /\ IsProvablyInhabited(choice)
             /\ \A i \in DOMAIN targets : AreProvablyDisjoint(choice, targets[i])
          THEN "breaking" ELSE "unknown"
     ELSE IF "unknown" \in candidates THEN "unknown" ELSE "breaking"

CompareUnion(s, t, ctx) ==
  LET sources == ExpandChoices(s)
      targets == ExpandChoices(t)
      status == Aggregate({ChoiceStatus(sources[i], targets, ctx) : i \in DOMAIN sources})
  IN Pick(status = "safe", Finding("union.choices.changed", status))

Primitive == {"string", "number", "boolean"}

KindChanged(s, t) ==
  Finding("contract.kind.changed",
          IF \/ s.kind \in Primitive /\ t.kind \in Primitive \cup {"literal"}
             \/ s.kind = "literal" /\ t.kind \in Primitive
          THEN "breaking" ELSE "unknown")

CompareSameKind(s, t, ctx) ==
  CASE s.kind = "string" -> CompareStrings(s, t)
    [] s.kind = "number" -> CompareNumbers(s, t)
    [] s.kind = "literal" -> Pick(s.lit = t.lit, Breaking("literal.value.changed"))
    [] s.kind = "discriminatedUnion" -> Unproven("discriminated_union.changed")
    [] s.kind = "intersection" -> Unproven("intersection.changed")
    [] s.kind = "array" -> CompareArrays(s, t, ctx)
    [] s.kind = "tuple" -> CompareTuples(s, t, ctx)
    [] s.kind = "object" -> CompareObjects(s, t, ctx)
    [] s.kind = "record" -> CompareRecords(s, t, ctx)
    [] s.kind = "transform" -> Compare(s.inner, t.inner, ctx)
    [] OTHER -> Safe

\* nullable and optional, which add the value `extra` to their inner node.
CompareWrapped(s, t, kind, extra, ctx) ==
  IF s.kind = kind /\ t.kind = kind THEN Compare(s.inner, t.inner, ctx)
  ELSE IF t.kind = kind THEN IF s.kind = "literal" /\ s.lit = extra THEN Safe
                             ELSE Compare(s, t.inner, ctx)
  ELSE Breaking("contract.kind.changed")

CompareStructure(s, t, ctx) ==
  IF IsProvablyEmpty(s) \/ t.kind = "unknown" THEN Safe
  ELSE IF IsProvablyEmpty(t)
    THEN Finding("contract.target.empty", IF IsProvablyInhabited(s) THEN "breaking" ELSE "unknown")
  ELSE IF s.kind = "unknown" THEN Breaking("contract.kind.changed")
  ELSE IF "union" \in {s.kind, t.kind} THEN CompareUnion(s, t, ctx)
  ELSE IF s.kind = "literal" /\ t.kind # "literal" /\ IsLiteralAcceptanceDecidable(t)
    THEN Pick(AcceptsLiteral(t, s.lit), Breaking("literal.value.not_accepted"))
  ELSE IF s.kind = "enum" THEN CompareEnum(s, t)
  ELSE IF "nullable" \in {s.kind, t.kind} THEN CompareWrapped(s, t, "nullable", Null, ctx)
  ELSE IF "optional" \in {s.kind, t.kind} THEN CompareWrapped(s, t, "optional", Undefined, ctx)
  ELSE IF {s.kind, t.kind} = {"tuple", "array"} THEN CompareTupleArray(s, t, ctx)
  ELSE IF s.kind # t.kind THEN KindChanged(s, t)
  ELSE CompareSameKind(s, t, ctx)

-----------------------------------------------------------------------------
(* compareReferenceNodes and compareNodes. *)

Resolved(n, definitions) == IF n.kind = "reference" THEN definitions[n.to] ELSE n

\* mutant: a pair met again is reported instead of assumed
CompareReferenceReported(s, t, ctx) ==
  LET pair == <<s, t>>
  IN IF pair \in ctx.active THEN Unproven("reference.recursive")
     ELSE Compare(Resolved(s, ctx.source), Resolved(t, ctx.target),
                  [ctx EXCEPT !.active = @ \cup {pair}])

\* A pair that is being compared already is taken to be safe.
CompareReference(s, t, ctx) ==
  LET pair == <<s, t>>
  IN IF pair \in ctx.active THEN Safe
     ELSE Compare(Resolved(s, ctx.source), Resolved(t, ctx.target),
                  [ctx EXCEPT !.active = @ \cup {pair}])

CompareRule(s, t, ctx) ==
  IF ctx.graph /\ "reference" \in {s.kind, t.kind} THEN CompareReference(s, t, ctx)
  ELSE IF AnonymousOpaque(s, t) # {} THEN AnonymousOpaque(s, t)
  ELSE IF ~ctx.graph /\ s = t THEN Safe
  ELSE IF OpaqueChanged(s, t) THEN Unproven("opaque.changed")
  ELSE CompareStructure(s, t, ctx)

\* mutant: equal graphs are safe whatever they hold
CompareGraphsEqual(source, target) ==
  IF source = target THEN Safe
  ELSE Compare(source.root, target.root,
               [graph |-> TRUE, source |-> source.definitions, target |-> target.definitions,
                active |-> {}])

\* compareContractGraphs: equal graphs are safe unless a finding says that one
\* of their behaviours is anonymous.
CompareGraphs(source, target) ==
  LET ctx == [graph |-> TRUE, source |-> source.definitions, target |-> target.definitions,
              active |-> {}]
      findings == Compare(source.root, target.root, ctx)
  IN IF source = target /\ \A f \in findings : f.code # "opaque.anonymous"
     THEN Safe ELSE findings

\* Snapshots of the first format hold the input node and nothing else.
CompareSnapshots(s, t) ==
  Compare(s, t,
          [graph |-> FALSE, source |-> <<>>, target |-> <<>>, active |-> {}])

=============================================================================
