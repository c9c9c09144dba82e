--------------------------- MODULE Counterexamples ---------------------------
(***************************************************************************)
(* Construction of counterexamples (packages/compat/src/counterexamples.ts)*)
(* from what two snapshots say: a value that one of the schemas accepts    *)
(* and the other rejects.                                                  *)
(*                                                                         *)
(* Candidates come in the order in which the code yields them.  The reason *)
(* why there is no witness is left out, and so are the limits that no pool *)
(* of this project comes near: nodes, widths, lengths, sizes and the work  *)
(* budget.  The number next to a bound is half a unit away from it.        *)
(***************************************************************************)
EXTENDS Snapshots

\* Recursive operators; each is given its rule.
CONSTANTS Reconstructs(_, _), Rebuilt(_), Repeat(_, _), Generate(_, _),
          HasProjection(_)

CONSTANTS SchemaDepth,  \* levels of a node that are reconstructed below the root
          PoolSize,     \* candidates kept for a part of a value
          Attempts      \* candidates tried for a witness

NoWitness == [tag |-> "none"]
NoHint == [kind |-> "none"]

Scalar(v) == v = Null \/ v.tag \in {"string", "boolean"} \/ (v.tag = "number" /\ v # MinusZero)

Taken(seq, most) == SubSeq(seq, 1, Min({most, Len(seq)}))

-----------------------------------------------------------------------------
(* reconstruct: the schema that a node stands for. *)

ReconstructsRule(n, depth) ==
  /\ depth <= SchemaDepth
  /\ n.refs = <<>>
  /\ n.kind \notin {"record", "intersection", "transform", "reference", "opaque"}
  /\ n.kind = "literal" => Scalar(n.lit)
  /\ n.kind = "string" => n.pattern = "none"
  /\ n.kind = "object" => \A k \in DOMAIN n.shape : k \in n.required <=> n.shape[k].kind # "optional"
  /\ \A c \in Children(n) : Reconstructs(c, depth + 1)

RebuiltRule(n) ==
  LET below == WithChildren(n, [c \in Children(n) |-> Rebuilt(c)])
  IN IF n.kind = "object" THEN ObjectOf(below.shape, n.policy) ELSE below

Takes(n, v) == SafeParse(Rebuilt(n), v, {}).is = "ok"

-----------------------------------------------------------------------------
(* candidates and generate. *)

Seeds == <<Null, Bool(FALSE), Bool(TRUE), Text(""), Halves(0), Halves(-2), Halves(2)>>

\* The shortest lengths, and those around the bounds, each one once.
LengthsAround(bounds) ==
  LET near == FlattenSeq(Each(SelectSeq(bounds, LAMBDA b : b # Infinity),
                              LAMBDA b : <<b - 1, b, b + 1>>))
  IN FoldLeft(LAMBDA seen, l : IF l < 0 \/ Contains(seen, l) THEN seen ELSE Append(seen, l),
              <<0, 1>>, near)

RepeatRule(t, times) == IF times = 0 THEN "" ELSE t \o Repeat(t, times - 1)

Candidates(n) ==
  CASE n.kind = "literal" -> IF Scalar(n.lit) THEN <<n.lit>> ELSE <<>>
    [] n.kind = "enum" -> SetToSeq(n.values)
    [] n.kind = "string" ->
         FlattenSeq(Each(LengthsAround(<<n.min, n.max>>),
                   LAMBDA l : IF l = 0 THEN <<Text("")>>
                              ELSE <<Text(Repeat("a", l)), Text(Repeat("b", l))>>))
    [] n.kind = "number" ->
         FlattenSeq(Each(SelectSeq(<<n.min, n.max>>, LAMBDA b : b \notin {-Infinity, Infinity}),
                   LAMBDA b : Each(<<b, b - 1, b + 1, RoundDown(b), RoundUp(b)>>, Halves)))
    [] OTHER -> <<>>

IsUnion(n) == n.kind \in {"union", "discriminatedUnion"}

\* The first candidates of a part that the part accepts.
Pooled(n, hint) == Taken(SelectSeq(Generate(n, hint), LAMBDA v : Takes(n, v)), PoolSize)

PropertyHint(hint, k) ==
  IF hint.kind = "object" /\ k \in DOMAIN hint.shape THEN hint.shape[k] ELSE NoHint

\* A valid object, then the same with one property changed, or one too many.
ObjectsOf(n, hint, choices) ==
  LET base == [k \in n.required |-> choices[k][1]]
      With(k, v) == Obj([p \in n.required \cup {k} |-> IF p = k THEN v ELSE base[p]])
      unasked == IF hint.kind = "object" THEN DOMAIN hint.shape \ DOMAIN n.shape ELSE {}
      One(k, values) == Each(values, LAMBDA v : With(k, v))
  IN IF \E k \in n.required : choices[k] = <<>> THEN <<>>
     ELSE <<Obj(base)>>
          \o FlattenSeq(Each(SetToSeq(DOMAIN n.shape), LAMBDA k : One(k, choices[k])))
          \o IF n.policy = "reject" THEN <<>>
             ELSE <<With("extra", Null)>> \o FlattenSeq(Each(SetToSeq(unasked), LAMBDA k : One(k, Seeds)))

GenerateObject(n, hint) ==
  ObjectsOf(n, hint, [k \in DOMAIN n.shape |-> Pooled(n.shape[k], PropertyHint(hint, k))])

ItemHint(hint, i) ==
  IF hint.kind = "tuple" /\ i \in DOMAIN hint.items THEN hint.items[i]
  ELSE IF hint.kind = "array" THEN hint.item ELSE NoHint

TuplesOf(choices) ==
  LET base == [i \in DOMAIN choices |-> choices[i][1]]
  IN IF \E i \in DOMAIN choices : choices[i] = <<>> THEN <<>>
     ELSE <<List(base)>>
          \o FlattenSeq([i \in DOMAIN choices |->
                     Each(choices[i], LAMBDA v : List([base EXCEPT ![i] = v]))])

GenerateTuple(n, hint) == TuplesOf([i \in DOMAIN n.items |-> Pooled(n.items[i], ItemHint(hint, i))])

ArraysOf(lengths, choices) ==
  LET Sized(l) == LET base == [i \in 1..l |-> choices[1]]
                  IN <<List(base)>> \o Each(choices, LAMBDA v : List([base EXCEPT ![1] = v]))
  IN FlattenSeq(Each(lengths, LAMBDA l : IF l = 0 THEN <<List(<<>>)>>
                                         ELSE IF choices = <<>> THEN <<>> ELSE Sized(l)))

GenerateArray(n, hint) ==
  LET hinted == hint.kind = "array"
  IN ArraysOf(LengthsAround(<<n.min, n.max>> \o IF hinted THEN <<hint.min, hint.max>> ELSE <<>>),
              Pooled(n.item, IF hinted THEN hint.item ELSE NoHint))

GenerateRule(n, hint) ==
  IF IsUnion(hint) /\ ~IsUnion(n)
  THEN FlattenSeq(Each(hint.choices, LAMBDA choice : Generate(n, choice)))
  ELSE CASE n.kind \in {"optional", "nullable"} ->
              (IF n.kind = "nullable" THEN <<Null>> ELSE <<>>)
              \o Generate(n.inner, IF hint.kind \in {"optional", "nullable"} THEN hint.inner ELSE hint)
         [] IsUnion(n) -> FlattenSeq(Each(n.choices, LAMBDA choice : Generate(choice, hint)))
         [] n.kind = "object" -> GenerateObject(n, hint)
         [] n.kind = "tuple" -> GenerateTuple(n, hint)
         [] n.kind = "array" -> GenerateArray(n, hint)
         [] OTHER -> Candidates(n) \o Candidates(hint) \o Seeds

-----------------------------------------------------------------------------
\* constructCounterexample: the values that are tried, in the order of the search, and
\* the places of those that differ.
ConstructCounterexample(source, target) ==
  LET tried == Taken(Generate(source, target) \o Generate(target, source), Attempts)
  IN IF Reconstructs(source, 0) /\ Reconstructs(target, 0)
     THEN [tried |-> tried,
           differ |-> {i \in DOMAIN tried : Takes(source, tried[i]) /\ ~Takes(target, tried[i])}]
     ELSE [tried |-> <<>>, differ |-> {}]

\* The first that a validator lets pass.
FirstThat(examples, Passes(_)) ==
  LET found == {i \in examples.differ : Passes(examples.tried[i])}
  IN IF found = {} THEN NoWitness ELSE examples.tried[Min(found)]

\* mutant: parsing the witness may change it
EmitsAnything(input, v) == Reconstructs(input, 0) /\ Takes(input, v)

\* outputWitnessValidator: parsing the value yields the value.
Emits(input, v) == Reconstructs(input, 0) /\ SafeParse(Rebuilt(input), v, {}) = Ok(v)

\* An object that strips, or an intersection, was projected.
HasProjectionRule(n) ==
  \/ n.kind = "intersection"
  \/ n.kind = "object" /\ n.policy = "strip"
  \/ n.kind # "transform" /\ \E c \in Children(n) : HasProjection(c)

=============================================================================
