----------------------------- MODULE JsonSchemas -----------------------------
(***************************************************************************)
(* JSON Schema export (packages/json-schema/src/index.ts), the components  *)
(* of an OpenAPI document (packages/api/src/openapi.ts), and what a        *)
(* JSON Schema validator makes of both.                                    *)
(*                                                                         *)
(* A document is a function from keywords to what they say; {} and true    *)
(* are the document without keywords.  Draft 7 knows two forms of items:   *)
(* the one for a tuple is the keyword "items[]".  A "$ref" is the sequence *)
(* of the segments of its pointer, "$schema" is the name of a draft, and   *)
(* format and pattern are one keyword, as they are in Schemas.             *)
(* Annotations, "$id", issues and their texts are left out.                *)
(***************************************************************************)
EXTENDS Contracts

\* Recursive operators; each is given its rule.
CONSTANTS IsJson(_), Convert(_, _, _), Representable(_), IsWire(_),
          HasNonJson(_), Rebase(_, _), AcceptsAbsence(_, _, _),
          Targets(_, _), Valid(_, _, _, _)

Drafts == {"draft-2020-12", "draft-07"}

AnyJson == <<>>
NoJson == [not |-> AnyJson]

Where(condition, keywords) == IF condition THEN keywords ELSE <<>>

\* The values JSON has, and serializeJson writes; a negative zero is none of them.
IsJsonRule(v) ==
  \/ v = Null \/ v.tag \in {"string", "boolean"}
  \/ v.tag = "number" /\ v # MinusZero
  \/ v.tag = "array" /\ \A i \in DOMAIN v.items : IsJson(v.items[i])
  \/ v.tag = "object" /\ \A k \in DOMAIN v.props : IsJson(v.props[k])

-----------------------------------------------------------------------------
(* convertDefinition. *)

\* convertStringConstraints
StringDoc(s) ==
  [type |-> "string"] @@ Where(s.min > 0, [minLength |-> s.min])
  @@ Where(s.max # Infinity, [maxLength |-> s.max])
  @@ Where(s.pattern # "none", [pattern |-> s.pattern])

NumberDoc(n) ==
  [type |-> IF n.integer THEN "integer" ELSE "number"]
  @@ Where(n.min # -Infinity, [minimum |-> n.min])
  @@ Where(n.max # Infinity, [maximum |-> n.max])
  @@ Where(n.multiple # 0, [multipleOf |-> n.multiple])

\* What JSON.stringify leaves of { const: value }.
LiteralDoc(v) ==
  CASE v = Undefined -> AnyJson
    [] v = NotANumber -> [const |-> Null]
    [] v = MinusZero -> [const |-> Halves(0)]
    [] OTHER -> [const |-> v]

\* mutant: the keywords of draft 2020-12 whatever the target
TupleDocLatest(items, draft) ==
  [type |-> "array", minItems |-> Len(items), maxItems |-> Len(items), prefixItems |-> items]

\* convertTupleDefinition
TupleDoc(items, draft) ==
  [type |-> "array", minItems |-> Len(items), maxItems |-> Len(items)]
  @@ IF draft = "draft-07" THEN ("items[]" :> items) @@ [additionalItems |-> NoJson]
     ELSE [prefixItems |-> items]

\* mutant: an output is closed, whatever the policy
ObjectDocClosed(n, properties, side) ==
  [type |-> "object", properties |-> properties, required |-> n.required,
   additionalProperties |-> IF n.policy # "reject" /\ side = "input" THEN AnyJson ELSE NoJson]

\* convertObjectDefinition
ObjectDoc(n, properties, side) ==
  [type |-> "object", properties |-> properties, required |-> n.required,
   additionalProperties |->
     IF n.policy = "passthrough" \/ (n.policy = "strip" /\ side = "input") THEN AnyJson ELSE NoJson]

DefinitionsKeyword(draft) == IF draft = "draft-07" THEN "definitions" ELSE "$defs"

ConvertRule(n, draft, side) ==
  LET Sub(c) == Convert(c, draft, side)
  IN CASE n.kind = "string" -> StringDoc(n)
       [] n.kind = "number" -> NumberDoc(n)
       [] n.kind = "boolean" -> [type |-> "boolean"]
       [] n.kind = "literal" -> LiteralDoc(n.lit)
       [] n.kind = "enum" -> [enum |-> n.values]
       [] n.kind \in {"unknown", "opaque"} -> AnyJson
       [] n.kind = "never" -> NoJson
       [] n.kind = "array" ->
            [type |-> "array", items |-> Sub(n.item)]
            @@ Where(n.min > 0, [minItems |-> n.min])
            @@ Where(n.max # Infinity, [maxItems |-> n.max])
       [] n.kind = "tuple" -> TupleDoc(Each(n.items, Sub), draft)
       [] n.kind = "union" -> [anyOf |-> Each(n.choices, Sub)]
       [] n.kind = "discriminatedUnion" -> [oneOf |-> Each(n.choices, Sub)]
       [] n.kind = "intersection" -> [allOf |-> <<Sub(n.left), Sub(n.right)>>]
       [] n.kind = "object" -> ObjectDoc(n, Each(n.shape, Sub), side)
       [] n.kind = "record" ->
            [type |-> "object", additionalProperties |-> Sub(n.each), propertyNames |-> StringDoc(n.key)]
       [] n.kind = "nullable" -> [anyOf |-> <<Sub(n.inner), [type |-> "null"]>>]
       [] n.kind \in {"optional", "transform"} -> Sub(n.inner)
       [] n.kind = "reference" -> "$ref" :> <<DefinitionsKeyword(draft), n.to>>

\* No issue is found: every check and every opaque output is one.
RepresentableRule(n) ==
  n.refs = <<>> /\ n.kind # "opaque" /\ \A c \in Children(n) : Representable(c)

GraphRepresentable(g) ==
  Representable(g.root) /\ \A id \in DOMAIN g.definitions : Representable(g.definitions[id])

-----------------------------------------------------------------------------
(* safeToJsonSchema. *)

\* The options of an export: the side, the mode, the target and the $schema that
\* were asked for, if any.
ExportOptions ==
  [side : {"input", "output"}, mode : {"exact", "output-bound"},
   target : Drafts \cup {"none"}, schema : Drafts \cup {"none"}]

\* resolveJsonSchemaTarget
TargetOf(o) ==
  IF o.target # "none" THEN o.target ELSE IF o.schema # "none" THEN o.schema ELSE "draft-2020-12"

OptionsFit(o) ==
  /\ o.mode = "output-bound" => o.side = "output"
  /\ "none" \in {o.target, o.schema} \/ o.target = o.schema

NoDocument == [is |-> "refused"]

SafeToJsonSchema(s, o) ==
  LET g == Graph(s, IF o.mode = "output-bound" THEN "bound" ELSE o.side)
      draft == TargetOf(o)
      defs == [id \in DOMAIN g.definitions |-> Convert(g.definitions[id], draft, o.side)]
      dialect == IF o.schema # "none" THEN o.schema ELSE o.target
  IN IF ~OptionsFit(o) \/ ~GraphRepresentable(g) THEN NoDocument
     ELSE [is |-> "document",
           doc |-> Convert(g.root, draft, o.side)
                   @@ Where(defs # <<>>, DefinitionsKeyword(draft) :> defs)
                   @@ Where(dialect # "none", "$schema" :> dialect)]

-----------------------------------------------------------------------------
(* safeToOpenApi: an endpoint that takes a body and answers with a response. *)

\* validateWireGraph, from the catalog (packages/api/src/catalog.ts).
IsWireRule(n) ==
  /\ n.kind \notin {"transform", "opaque"}
  /\ n.kind = "object" => n.policy # "strip"
  /\ \A c \in Children(n) : IsWire(c)

GraphIsWire(g) == IsWire(g.root) /\ \A id \in DOMAIN g.definitions : IsWire(g.definitions[id])

\* nonJsonArtifactPath: of the values in a document, a literal or an enum may hold
\* what JSON does not have.
HasNonJsonRule(n) ==
  \/ n.kind = "literal" /\ ~IsJson(n.lit)
  \/ n.kind = "enum" /\ \E v \in n.values : ~IsJson(v)
  \/ \E c \in Children(n) : HasNonJson(c)

GraphHasNonJson(g) ==
  HasNonJson(g.root) \/ \E id \in DOMAIN g.definitions : HasNonJson(g.definitions[id])

\* rebaseSchema: the names of properties and definitions are taken for keywords.
RebaseRule(doc, at) ==
  LET Sub(d) == Rebase(d, at)
      Entries(map) == [k \in DOMAIN map |-> IF k \in {"const", "enum", "examples"} THEN map[k]
                                            ELSE Sub(map[k])]
  IN [k \in DOMAIN doc |->
        CASE k = "$ref" -> at \o doc[k]
          [] k \in {"items", "not", "additionalProperties", "propertyNames"} -> Sub(doc[k])
          [] k \in {"anyOf", "oneOf", "allOf", "prefixItems"} -> Each(doc[k], Sub)
          [] k \in {"properties", "$defs"} -> Entries(doc[k])
          [] OTHER -> doc[k]]

\* acceptsAbsence
AcceptsAbsenceRule(n, g, seen) ==
  /\ n \notin seen
  /\ CASE n.kind \in {"optional", "unknown"} -> TRUE
       [] n.kind = "literal" -> n.lit = Undefined
       [] n.kind = "union" ->
            \E i \in DOMAIN n.choices : AcceptsAbsence(n.choices[i], g, seen \cup {n})
       [] n.kind = "intersection" ->
            AcceptsAbsence(n.left, g, seen \cup {n}) /\ AcceptsAbsence(n.right, g, seen \cup {n})
       [] n.kind = "reference" -> AcceptsAbsence(g.definitions[n.to], g, seen \cup {n})
       [] OTHER -> FALSE

ComponentOptions == [side |-> "input", mode |-> "exact", target |-> "draft-2020-12", schema |-> "none"]

\* Responses are converted before the body.
SafeToOpenApi(body, response) ==
  LET schemas == [Schema1 |-> response, Schema2 |-> body]
      Component(name) == SafeToJsonSchema(schemas[name], ComponentOptions)
      G(s) == Graph(s, "input")
  IN IF \E name \in DOMAIN schemas : \/ ~GraphIsWire(G(schemas[name]))
                                     \/ Component(name) = NoDocument
                                     \/ GraphHasNonJson(G(schemas[name]))
     THEN NoDocument
     ELSE [is |-> "document", required |-> ~AcceptsAbsence(G(body).root, G(body), {}),
           doc |-> [components |->
                     [name \in DOMAIN schemas |->
                        Rebase(Component(name).doc, <<"components", name>>)]]]

-----------------------------------------------------------------------------
(* A validator: whether a value satisfies the document at a pointer of a root. *)

DraftOf(root) == IF "$schema" \in DOMAIN root THEN root["$schema"] ELSE "draft-2020-12"

\* The keywords that say something about an instance.
Heeded(doc, draft) ==
  IF draft = "draft-07"
  THEN IF "$ref" \in DOMAIN doc THEN {"$ref"} ELSE DOMAIN doc \ {"prefixItems"}
  ELSE DOMAIN doc \ {"items[]", "additionalItems"}

TypeIs(type, v) ==
  CASE type = "integer" -> v.tag = "number" /\ v.num % 2 = 0
    [] OTHER -> v.tag = type

\* The document a pointer leads to; none when it leads nowhere.
TargetsRule(node, pointer) ==
  IF pointer = <<>> THEN {node}
  ELSE IF Head(pointer) \in DOMAIN node THEN Targets(node[Head(pointer)], Tail(pointer))
  ELSE {}

Heeds(k, doc, v, root, draft) ==
  LET Sat(d, value) == Valid(d, value, root, draft)
      Items == v.tag = "array"
      Props == v.tag = "object"
      prefix == IF draft = "draft-07" THEN "items[]" ELSE "prefixItems"
      first == IF prefix \in DOMAIN doc THEN Len(doc[prefix]) ELSE 0
      named == IF "properties" \in DOMAIN doc THEN DOMAIN doc["properties"] ELSE {}
  IN CASE k = "type" -> TypeIs(doc[k], v)
       [] k = "const" -> v = doc[k]
       [] k = "enum" -> v \in doc[k]
       [] k = "not" -> ~Sat(doc[k], v)
       [] k = "anyOf" -> \E i \in DOMAIN doc[k] : Sat(doc[k][i], v)
       [] k = "allOf" -> \A i \in DOMAIN doc[k] : Sat(doc[k][i], v)
       [] k = "oneOf" -> Cardinality({i \in DOMAIN doc[k] : Sat(doc[k][i], v)}) = 1
       [] k = "$ref" -> \E d \in Targets(root, doc[k]) : Sat(d, v)
       [] k = "minLength" -> v.tag = "string" => Len(v.text) >= doc[k]
       [] k = "maxLength" -> v.tag = "string" => Len(v.text) <= doc[k]
       [] k = "pattern" -> v.tag = "string" => v.text \in PatternTexts[doc[k]]
       [] k = "minimum" -> v.tag = "number" => v.num >= doc[k]
       [] k = "maximum" -> v.tag = "number" => v.num <= doc[k]
       [] k = "multipleOf" -> v.tag = "number" => v.num % doc[k] = 0
       [] k = "minItems" -> Items => Len(v.items) >= doc[k]
       [] k = "maxItems" -> Items => Len(v.items) <= doc[k]
       [] k = prefix -> Items => \A i \in 1..Min({first, Len(v.items)}) : Sat(doc[k][i], v.items[i])
       [] k \in {"items", "additionalItems"} ->
            Items => \A i \in first + 1 .. Len(v.items) : Sat(doc[k], v.items[i])
       [] k = "properties" ->
            Props => \A p \in named \cap DOMAIN v.props : Sat(doc[k][p], v.props[p])
       [] k = "required" -> Props => doc[k] \subseteq DOMAIN v.props
       [] k = "additionalProperties" ->
            Props => \A p \in DOMAIN v.props \ named : Sat(doc[k], v.props[p])
       [] k = "propertyNames" -> Props => \A p \in DOMAIN v.props : Sat(doc[k], Text(p))
       [] OTHER -> TRUE

ValidRule(doc, v, root, draft) == \A k \in Heeded(doc, draft) : Heeds(k, doc, v, root, draft)

\* A whole document, and one component of it.
Validates(doc, v) == Valid(doc, v, doc, DraftOf(doc))
ComponentValidates(document, name, v) ==
  Valid(document.components[name], v, document, "draft-2020-12")

=============================================================================
