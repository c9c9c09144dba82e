--------------------------- MODULE MCContractReview ---------------------------
(* The recursion of ContractReview, pools of schemas, and values to try them on. *)
EXTENDS ContractReview, ContractMeaning

(* Every recursive operator is its rule.  LET keeps the coverage statistics of *)
(* TLC from unrolling it.                                                      *)
MCMerge(left, right) == LET is == MergeRule(left, right) IN is
MCParse(s, v, holds, depth) == LET is == ParseRule(s, v, holds, depth) IN is
MCExcludeUndefined(n) == LET is == ExcludeUndefinedRule(n) IN is
MCDescribe(s, side) == LET is == DescribeRule(s, side) IN is
MCProject(n) == LET is == ProjectRule(n) IN is
MCNamed(n) == LET is == NamedRule(n) IN is
MCReached(ids, side) == LET is == ReachedRule(ids, side) IN is
MCIsProvablyEmpty(n) == LET is == IsProvablyEmptyRule(n) IN is
MCIsProvablyInhabited(n) == LET is == IsProvablyInhabitedRule(n) IN is
MCIsProvablyIdentity(n) == LET is == IsProvablyIdentityRule(n) IN is
MCIsProvablyUniversal(n) == LET is == IsProvablyUniversalRule(n) IN is
MCIsProvablyNarrow(n) == LET is == IsProvablyNarrowRule(n) IN is
MCIsLiteralAcceptanceDecidable(n) == LET is == IsLiteralAcceptanceDecidableRule(n) IN is
MCAcceptsLiteral(n, v) == LET is == AcceptsLiteralRule(n, v) IN is
MCFamilies(n) == LET is == FamiliesRule(n) IN is
MCExpandChoices(n) == LET is == ExpandChoicesRule(n) IN is
MCAnonymousOpaque(s, t) == LET is == AnonymousOpaqueRule(s, t) IN is
MCCompare(s, t, ctx) == LET is == CompareRule(s, t, ctx) IN is
MCEncoded(n) == LET is == EncodedRule(n) IN is
MCWritten(n) == LET is == WrittenRule(n) IN is
MCNodeParses(n) == LET is == NodeParsesRule(n) IN is
MCVisited(g, ids) == LET is == VisitedRule(g, ids) IN is
MCMeant(n) == LET is == MeantRule(n) IN is
MCReconstructs(n, depth) == LET is == ReconstructsRule(n, depth) IN is
MCRebuilt(n) == LET is == RebuiltRule(n) IN is
MCRepeat(t, times) == LET is == RepeatRule(t, times) IN is
MCGenerate(n, hint) == LET is == GenerateRule(n, hint) IN is
MCHasProjection(n) == LET is == HasProjectionRule(n) IN is
MCIsJson(v) == LET is == IsJsonRule(v) IN is
MCConvert(n, draft, side) == LET is == ConvertRule(n, draft, side) IN is
MCRepresentable(n) == LET is == RepresentableRule(n) IN is
MCIsWire(n) == LET is == IsWireRule(n) IN is
MCHasNonJson(n) == LET is == HasNonJsonRule(n) IN is
MCRebase(doc, at) == LET is == RebaseRule(doc, at) IN is
MCAcceptsAbsence(n, g, seen) == LET is == AcceptsAbsenceRule(n, g, seen) IN is
MCTargets(node, pointer) == LET is == TargetsRule(node, pointer) IN is
MCValid(doc, v, root, draft) == LET is == ValidRule(doc, v, root, draft) IN is
MCHasAnonymous(n) == LET is == HasAnonymousRule(n) IN is
MCHasIntersection(n) == LET is == HasIntersectionRule(n) IN is

-----------------------------------------------------------------------------
(* Pools and values. *)

Str == StringOf(0, Infinity, "none")
Num == NumberOf(FALSE, -Infinity, Infinity, 0)
Int1 == NumberOf(TRUE, -Infinity, Infinity, 0)
Tree(name) == ObjectOf([child |-> Optional(Lazy(name))], "reject")

MCPatternTexts == [word |-> {"a", "ab"}]
MCWarnings == {"warning:w"}

MCDefinitions ==
  [tree |-> Tree("tree"),
   twin |-> ObjectOf([child |-> Optional(Tree("twin"))], "reject"),
   list |-> Union(<<LiteralOf(Null), ObjectOf([head |-> Str, tail |-> Lazy("list")], "reject")>>),
   kept |-> ObjectOf([child |-> Optional(Refined(Lazy("kept"), <<"r">>))], "reject"),
   hidden |-> Refined(Str, <<"anonymous">>),
   loop |-> Nullable(Lazy("loop"))]

CorePool ==
  [string |-> Str,
   nonempty |-> StringOf(1, Infinity, "none"),
   short |-> StringOf(0, 1, "none"),
   word |-> StringOf(0, Infinity, "word"),
   refined |-> Refined(Str, <<"r">>),
   warned |-> Refined(Str, <<"warning:w">>),
   anonymous |-> Refined(Str, <<"anonymous">>),
   number |-> Num,
   integer |-> Int1,
   digit |-> NumberOf(FALSE, 0, 4, 0),
   whole |-> NumberOf(FALSE, -Infinity, Infinity, 2),
   halves |-> NumberOf(FALSE, -Infinity, Infinity, 1),
   one |-> NumberOf(FALSE, 2, 2, 0),
   boolean |-> BooleanOf,
   bits |-> Union(<<LiteralOf(Bool(TRUE)), LiteralOf(Bool(FALSE))>>),
   a |-> LiteralOf(Text("a")),
   minus |-> LiteralOf(MinusZero),
   nan |-> LiteralOf(NotANumber),
   null |-> LiteralOf(Null),
   undefined |-> LiteralOf(Undefined),
   ab |-> EnumOf({Text("a"), Text("b")}),
   zero |-> EnumOf({Halves(0)}),
   unknown |-> Unknown,
   never |-> Never,
   texts |-> ArrayOf(Str, 0, Infinity),
   texts1 |-> ArrayOf(Str, 1, 1),
   empty |-> ArrayOf(Never, 0, Infinity),
   single |-> Tuple(<<Str>>),
   pair |-> Tuple(<<Str, Num>>),
   either |-> Union(<<Str, Num>>),
   other |-> Union(<<Num, BooleanOf, Str>>),
   maybe |-> Nullable(Str),
   absent |-> Optional(Str),
   loose |-> Nullable(Optional(Str)),
   closed |-> ObjectOf([a |-> Str], "reject"),
   closedOpt |-> ObjectOf([a |-> Optional(Str)], "reject"),
   wider |-> ObjectOf([a |-> Str, b |-> Optional(Num)], "reject"),
   strip |-> ObjectOf([a |-> Str], "strip"),
   open |-> ObjectOf([a |-> Str], "passthrough"),
   openOpt |-> ObjectOf([a |-> Str, b |-> Optional(Unknown)], "passthrough"),
   openNull |-> ObjectOf([a |-> Str, b |-> Optional(Nullable(Num))], "passthrough"),
   nested |-> ObjectOf([a |-> ObjectOf([a |-> Str], "strip")], "reject"),
   nestedOpen |-> ObjectOf([a |-> ObjectOf([a |-> Str], "passthrough")], "reject"),
   mapping |-> ObjectOf([a |-> Transform(Str, "t")], "reject"),
   mappingOpen |-> ObjectOf([a |-> Transform(Str, "t")], "passthrough"),
   nothing |-> ObjectOf(<<>>, "passthrough"),
   record |-> RecordOf(Str, Str),
   record1 |-> RecordOf(StringOf(1, 1, "none"), Num),
   both |-> Intersection(ObjectOf([a |-> Str], "strip"), ObjectOf([b |-> Num], "strip")),
   tagged |-> Discriminated("a", <<ObjectOf([a |-> LiteralOf(Text("a"))], "reject"),
                                   ObjectOf([a |-> LiteralOf(Text("b")), b |-> Num], "reject")>>),
   mapped |-> Transform(Str, "t"),
   mappedShort |-> Transform(StringOf(0, 1, "none"), "t"),
   erased |-> Transform(Str, "erase"),
   piped |-> Pipeline(Transform(Str, "erase"), Optional(Num)),
   defined |-> Defined(Optional(Str)),
   tree |-> Lazy("tree"),
   twin |-> Lazy("twin"),
   unrolled |-> Tree("tree"),
   list |-> Lazy("list"),
   shadowed |-> Union(<<ObjectOf([a |-> StringOf(0, 0, "none")], "strip"),
                        ObjectOf([a |-> Str], "passthrough")>>),
   folded |-> Intersection(Lazy("tree"), Lazy("tree")),
   rows |-> ArrayOf(ObjectOf([a |-> Str], "reject"), 0, Infinity),
   rowsOpen |-> ArrayOf(ObjectOf([a |-> Optional(Str)], "reject"), 0, 2),
   choice |-> Tuple(<<Union(<<Str, BooleanOf>>), Num>>)]

\* The same tree, with a check on every reference.
LazyPool ==
  [tree |-> Lazy("tree"),
   kept |-> Refined(Lazy("kept"), <<"r">>)]

\* An optional property, and the same with a check on it.
OptionalPool ==
  [plain |-> ObjectOf([a |-> Optional(Str)], "reject"),
   checked |-> ObjectOf([a |-> Refined(Optional(Str), <<"r">>)], "reject")]

\* A union, and the same with a check on one of its choices.
NestedPool ==
  [plain |-> Union(<<Num, Nullable(Str)>>),
   checked |-> Union(<<Num, Refined(Nullable(Str), <<"r">>)>>)]

\* An anonymous check behind a reference that is a choice of a union.
HiddenPool == [hidden |-> Union(<<Num, Lazy("hidden")>>)]

\* A union whose first choice makes undefined of a value, before undefined is taken away.
DefinedPool ==
  [plain |-> Str, defined |-> Defined(Union(<<Transform(Str, "erase"), Str>>))]

\* A cycle that passes through nothing but nullable.
UnguardedPool == [maybe |-> Nullable(Str), loop |-> Lazy("loop")]

\* Sources with one value, and a target that is that value.
SingletonPool ==
  [one |-> NumberOf(FALSE, 2, 2, 0), two |-> LiteralOf(Halves(2)),
   blank |-> StringOf(0, 0, "none"), empty |-> LiteralOf(Text(""))]

\* A nullable source, and a target that is optional outside and nullable inside.
WrapperPool == [maybe |-> Nullable(Str), looser |-> Optional(Nullable(Str))]

\* A property that a checked pipeline may leave undefined.
ConnectionPool ==
  [producer |-> ObjectOf([a |-> Pipeline(Transform(Str, "erase"), Optional(Str))], "strip"),
   consumer |-> ObjectOf([a |-> Str], "strip")]

\* A property with the name of a keyword, and a reference below it.
KeywordPool == [keyword |-> ObjectOf([const |-> Lazy("tree")], "reject"), string |-> Str]

MCTwins == {<<"tree", "twin">>, <<"twin", "tree">>, <<"tree", "unrolled">>,
            <<"unrolled", "twin">>, <<"list", "list">>}

NoTwins == {}

A == Text("a")
Leaf == Obj(<<>>)

MCValues ==
  {Text(""), A, Text("b"), Text("ab")}
  \cup {Halves(n) : n \in {-2, 0, 1, 2, 3, 4, 6}} \cup {MinusZero, NotANumber}
  \cup {Bool(TRUE), Null, Undefined, [tag |-> "other"]}
  \cup {List(<<>>), List(<<A>>), List(<<A, A>>), List(<<Halves(1)>>), List(<<A, Halves(0)>>)}
  \cup {List(<<Obj([a |-> A])>>), List(<<Leaf>>), List(<<Bool(TRUE), Halves(0)>>),
        List(<<Obj([a |-> A]), Obj([a |-> A]), Obj([a |-> A])>>)}
  \cup {Leaf, Obj([a |-> A]), Obj([a |-> Halves(2)]), Obj([b |-> Halves(2)]),
        Obj([a |-> A, b |-> Halves(2)]), Obj([a |-> A, b |-> A]),
        Obj([a |-> Text("b"), b |-> Halves(2)]), Obj([a |-> Undefined]), Obj([a |-> A, b |-> Undefined]),
        Obj([a |-> Leaf]), Obj([a |-> Obj([a |-> A])]), Obj([a |-> Obj([a |-> A, b |-> A])]),
        Obj([a |-> A, b |-> Null]), Obj([aa |-> A]), Obj([a |-> Text(""), b |-> Halves(2)]), Obj([const |-> Leaf]), Obj([child |-> Leaf]), Obj([child |-> Obj([child |-> Leaf])]),
        Obj([child |-> Obj([child |-> A])]),
        Obj([head |-> A, tail |-> Null]),
        Obj([head |-> A, tail |-> Obj([head |-> Text("b"), tail |-> Null])])}

-----------------------------------------------------------------------------
(* The theorems about contracts are about worlds of schemas and graphs that *)
(* describe them.  The pool that is reviewed is one.                        *)

RECURSIVE SchemasUnder(_), NodesUnder(_), ValuesUnder(_)
SchemasUnder(s) == {s} \cup UNION {SchemasUnder(c) : c \in Parts(s)}
NodesUnder(n) == {n} \cup UNION {NodesUnder(c) : c \in Children(n)}
ValuesUnder(v) ==
  {v} \cup UNION {ValuesUnder(c) : c \in IF v.tag = "array" THEN Range(v.items)
                                        ELSE IF v.tag = "object" THEN Range(v.props) ELSE {}}

Used == UNION {DOMAIN Graphs[name]["input"].definitions : name \in Names}

PoolWorld ==
  LET schemas == UNION {SchemasUnder(Pool[name]) : name \in Names}
                 \cup UNION {SchemasUnder(Definitions[id]) : id \in Used}
  IN [schemas |-> schemas, size |-> [s \in schemas |-> Cardinality(SchemasUnder(s))]]

PoolGraph(upper, holds) ==
  LET described == UNION {NodesUnder(Describe(s, "input")) : s \in PoolWorld.schemas}
      maybe == UNION {{n \in NodesUnder(Describe(s.inner, "input")) : n.kind # "object"} :
                       s \in {x \in PoolWorld.schemas : x.kind = "defined"}}
      given == UNION {n.values : n \in {m \in described : m.kind = "enum"}} \cup {Null, Undefined}
      nodes == described \cup {LiteralOf(v) : v \in given}
               \cup UNION {NodesUnder(ExcludeUndefined(n)) : n \in maybe}
  IN [nodes |-> nodes, size |-> [n \in nodes |-> Cardinality(NodesUnder(n))],
      values |-> UNION {ValuesUnder(v) : v \in Values}, excluded |-> maybe,
      definitions |-> [id \in Used |-> Describe(Definitions[id], "input")],
      upper |-> upper, holds |-> holds]

\* What is assumed of schemas and graphs, but for the rules of recursive operators,
\* which MCParse and the others follow wherever TLC evaluates them.
PoolIsDescribed(g, w) ==
  /\ IsGraph(g) /\ Excludes(g) /\ \A n \in g.nodes : HasFields(n) /\ IsPlain(n)
  /\ \A s \in w.schemas :
       /\ IsSchema(s, w) /\ Describe(s, "input") \in g.nodes
       /\ s.kind = "defined" => Describe(s.inner, "input") \in g.excluded
       /\ s.kind = "lazy" => g.definitions[s.to] = Describe(Definitions[s.to], "input")
       /\ s.kind = "defined" => \A v \in g.values, d \in 0 .. LazyDepth :
            v # Undefined => Parse(s.inner, v, g.holds, d) # Ok(Undefined)

ASSUME CorePoolIsDescribed ==
  Pool = CorePool =>
    \A upper \in BOOLEAN, holds \in SUBSET Checks :
      PoolIsDescribed(PoolGraph(upper, holds), PoolWorld)
=============================================================================
