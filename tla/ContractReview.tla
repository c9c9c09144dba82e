---------------------------- MODULE ContractReview ----------------------------
(***************************************************************************)
(* Reviews of two contracts (packages/compat/src/index.ts):                *)
(* compareContractSnapshots, compareContractSnapshotsV2, createContract-   *)
(* Counterexamples, checkContractConnection and checkSchemaConnection, for *)
(* snapshots and schemas taken from a pool.                                *)
(*                                                                         *)
(* What a report says is held against what the schemas do: every value of  *)
(* Values is parsed by both.  A check with an id behaves the same wherever *)
(* it appears, and no one knows how; an anonymous one is in the worst case *)
(* satisfied by all values on the source side and by none on the target.   *)
(***************************************************************************)
EXTENDS Counterexamples, JsonSchemas

\* Recursive operators; each is given its rule.
CONSTANTS HasAnonymous(_), HasIntersection(_)

CONSTANTS Pool,     \* the schemas under review, by name
          Values,   \* the values they are tried on
          Checks,   \* the identities of checks in the pool that reject
          Twins     \* pairs of names whose schemas describe the same values

VARIABLES previous, next, mode, report

vars == <<previous, next, mode, report>>

Names == DOMAIN Pool
Modes == {"backward", "forward", "full"}
Directions == {"backward", "forward"}

\* Contract graphs and outcomes of the pool, tabulated once.
Sides == {"input", "output"}
Graphs == [n \in Names |-> [side \in Sides \cup {"bound"} |-> Graph(Pool[n], side)]]
Files == [n \in Names |-> [side \in Sides |-> Stored(Graphs[n][side])]]
Snapshots == [n \in Names |-> [side \in Sides |-> ReadBack(Files[n][side])]]
Outcomes ==
  [n \in Names |-> [holds \in SUBSET (Checks \cup {"anonymous"}) |->
     [v \in Values |-> SafeParse(Pool[n], v, holds)]]]

\* The snapshot of a name, once it is read, and what a producer is projected to.
Read(n, side) == Snapshots[n][side].graph
Projected(n) == OfGraph(Project, Read(n, "output"))

\* The values that two contracts differ in, and that a producer and a consumer do.
Readable == {n \in Names : \A side \in Sides : Snapshots[n][side] # Refused}
Examples ==
  [s \in Readable |-> [t \in Readable |->
     ConstructCounterexample(Read(s, "input").root, Read(t, "input").root)]]
ConnectionExamples ==
  [s \in Readable |-> [t \in Readable |->
     ConstructCounterexample(Projected(s).root, Read(t, "input").root)]]

NoReport ==
  [by |-> "none", renamed |-> FALSE, status |-> "none", findings |-> {},
   witness |-> [direction \in Directions |-> NoWitness],
   options |-> ComponentOptions, document |-> NoDocument]

Init ==
  /\ previous \in Names
  /\ next \in Names
  /\ mode \in Modes
  /\ report = NoReport

-----------------------------------------------------------------------------
Directed(direction, findings) ==
  {[direction |-> direction, code |-> f.code, status |-> f.status] : f \in findings}

Report(by, renamed, findings) ==
  report' = [NoReport EXCEPT !.by = by, !.renamed = renamed, !.status = Status(findings),
                             !.findings = findings]

Asked(direction) == mode \in {direction, "full"}

\* What a comparison reports: contracts with another id are not compared, the
\* others in each direction that was asked for.
Review(by, renamed, backward, forward) ==
  /\ report = NoReport /\ {previous, next} \subseteq Readable
  /\ Report(by, renamed,
       IF renamed THEN Directed("backward", Unproven("contract.id.changed"))
       ELSE (IF Asked("backward") THEN Directed("backward", backward) ELSE {})
            \cup (IF Asked("forward") THEN Directed("forward", forward) ELSE {}))
  /\ UNCHANGED <<previous, next, mode>>

\* The first format describes no lazy schema.
FirstFormat(n) == Named(Graphs[n]["input"].root) = {}

CompareV1(renamed) ==
  /\ FirstFormat(previous)
  /\ FirstFormat(next)
  /\ LET s == Read(previous, "input").root
         t == Read(next, "input").root
     IN Review("v1", renamed, CompareSnapshots(s, t), CompareSnapshots(t, s))

CompareV2(renamed) ==
  LET s == Read(previous, "input")
      t == Read(next, "input")
  IN Review("v2", renamed, CompareGraphs(s, t), CompareGraphs(t, s))

\* createContractCounterexamples
Construct ==
  /\ report = NoReport /\ {previous, next} \subseteq Readable
  /\ report' = [NoReport EXCEPT !.by = "examples",
       !.witness = [direction \in Directions |->
          IF ~Asked(direction) THEN NoWitness
          ELSE FirstThat(IF direction = "backward" THEN Examples[previous][next]
                         ELSE Examples[next][previous], LAMBDA v : TRUE)]]
  /\ UNCHANGED <<previous, next, mode>>

\* checkContractConnection: previous produces, next consumes.  What was projected
\* breaks nothing as long as no value is known that is emitted.
ConnectContracts ==
  LET input == Read(previous, "input").root
      output == Read(previous, "output")
      witness == FirstThat(ConnectionExamples[previous][next], LAMBDA v : Emits(input, v))
      findings == Directed("backward", CompareGraphs(Projected(previous), Read(next, "input")))
      unproven == /\ Status(findings) = "breaking"
                  /\ HasProjection(output.root)
                     \/ \E id \in DOMAIN output.definitions : HasProjection(output.definitions[id])
                  /\ witness = NoWitness
      told == IF unproven THEN Directed("backward", Unproven("connection.production.unproven"))
              ELSE findings
  IN /\ report = NoReport /\ {previous, next} \subseteq Readable /\ mode = "backward"
     /\ report' = [NoReport EXCEPT !.by = "contracts", !.status = Status(told), !.findings = told,
                                   !.witness["backward"] = witness]
     /\ UNCHANGED <<previous, next, mode>>

\* A bound that is not contained proves nothing about what is emitted.
Downgraded(f) ==
  IF f.status = "breaking"
  THEN [f EXCEPT !.code = "connection.production.unproven", !.status = "unknown"] ELSE f

\* checkSchemaConnection: previous produces, next consumes.  It throws when the
\* bound does not refer to a definition that it has.
Connect(produced) ==
  LET findings == Directed("backward", CompareGraphs(produced, Graphs[next]["input"]))
  IN /\ report = NoReport
     /\ mode = "backward"
     /\ IF Resolves(produced)
        THEN Report("connection", FALSE, {Downgraded(f) : f \in findings})
        ELSE report' = [NoReport EXCEPT !.by = "connection", !.status = "thrown"]
     /\ UNCHANGED <<previous, next, mode>>

\* mutant: what the producer takes is compared, not what it emits
CheckConnectionInput == Connect(Graphs[previous]["input"])

CheckConnection == Connect(Graphs[previous]["bound"])

\* safeToJsonSchema and, for what it may ask, toStandardJsonSchema.
ExportJsonSchema(o) ==
  /\ report = NoReport /\ mode = "backward" /\ previous = next
  /\ report' = [NoReport EXCEPT !.by = "json", !.options = o, !.document = SafeToJsonSchema(Pool[next], o)]
  /\ UNCHANGED <<previous, next, mode>>

\* safeToOpenApi: previous is the body of the request, next that of the response.
ExportOpenApi ==
  /\ report = NoReport /\ mode = "backward"
  /\ report' = [NoReport EXCEPT !.by = "openapi",
                               !.document = SafeToOpenApi(Pool[previous], Pool[next])]
  /\ UNCHANGED <<previous, next, mode>>

Next ==
  \/ \E renamed \in BOOLEAN : CompareV1(renamed) \/ CompareV2(renamed)
  \/ Construct \/ ConnectContracts \/ CheckConnection
  \/ \E o \in ExportOptions : ExportJsonSchema(o)
  \/ ExportOpenApi

Spec == Init /\ [][Next]_vars

-----------------------------------------------------------------------------
(* What the reports are held against. *)

Source(direction) == IF direction = "backward" THEN previous ELSE next
Target(direction) == IF direction = "backward" THEN next ELSE previous

\* What a source and a target make of a value when exactly `holds` of the
\* checks with an id are satisfied.
AtSource(n, holds, v) == Outcomes[n][holds \cup {"anonymous"}][v]
AtTarget(n, holds, v) == Outcomes[n][holds][v]

Contained(s, t) ==
  \A holds \in SUBSET Checks, v \in Values :
    AtSource(s, holds, v).is = "ok" => AtTarget(t, holds, v).is = "ok"

\* The properties of an object that hold something.
Held(v) == {<<k, v.props[k]>> : k \in {k \in DOMAIN v.props : v.props[k] # Undefined}}

BothObjects == Pool[previous].kind = "object" /\ Pool[next].kind = "object"

\* A value that the target rejects or turns into something else, all checks satisfied.
Counterexample(s, t) ==
  \E v \in Values :
    LET holds == Checks \cup {"anonymous"}
    IN Outcomes[s][holds][v].is = "ok" /\ Outcomes[t][holds][v] # Outcomes[s][holds][v]

\* A value that previous emits and next rejects or turns into something else.
EmittedCounterexample ==
  \E v \in Values :
    LET all == Checks \cup {"anonymous"}
        emitted == Outcomes[previous][all][v]
    IN emitted.is = "ok" /\ SafeParse(Pool[next], emitted.data, all) # emitted

Compared == report.by \in {"v1", "v2"} /\ ~report.renamed

HasAnonymousRule(n) == IsAnonymous(n) \/ \E child \in Children(n) : HasAnonymous(child)

GraphHasAnonymous(g) ==
  HasAnonymous(g.root) \/ \E id \in DOMAIN g.definitions : HasAnonymous(g.definitions[id])

\* What an exported document has to agree with: values that JSON has.
JsonValues == {v \in Values : IsJson(v)}

HasIntersectionRule(n) == n.kind = "intersection" \/ \E c \in Children(n) : HasIntersection(c)

AgreesWith(name, Holds(_)) ==
  \A v \in JsonValues : Holds(v) <=> Outcomes[name][{}][v].is = "ok"

-----------------------------------------------------------------------------
(* Properties. *)

\* "safe means containment is proven": in the directions that were asked for no
\* value that the source accepts is rejected by the target.  Policies are
\* "intentionally stricter than input acceptance alone because strip and passthrough
\* produce different outputs": between two object contracts both also parse what
\* both accept to the same properties, of those that hold something.
SafeIsContained ==
  Compared /\ report.status = "safe" =>
    \A d \in Directions : Asked(d) =>
      /\ Contained(Source(d), Target(d))
      /\ BothObjects => \A holds \in SUBSET Checks, v \in Values :
           LET source == AtSource(Source(d), holds, v)
               target == AtTarget(Target(d), holds, v)
           IN source.is = "ok" /\ target.is = "ok" => Held(source.data) = Held(target.data)

\* "breaking means a counterexample class is known": there is a value that the
\* source accepts, or a producer emits, and that the target rejects or parses to
\* another output.
BreakingIsReal ==
  \A f \in report.findings :
    f.status = "breaking" =>
      /\ Compared => Counterexample(Source(f.direction), Target(f.direction))
      /\ report.by = "contracts" => EmittedCounterexample

\* Changed or anonymous behaviour makes any dependent relationship unknown: with
\* anonymous behaviour anywhere in two contracts of one shape nothing is safe.
AnonymousIsNeverSafe ==
  Compared /\ previous = next /\ GraphHasAnonymous(Graphs[next]["input"]) =>
    report.status # "safe"

\* Recursion is compared independently of ids and of how definitions are reused.
TwinsAreSafe ==
  Compared /\ <<previous, next>> \in Twins => report.status = "safe"

\* "Containment proves that successful producer outputs fit the consumer."
ConnectionIsSound ==
  report.by \in {"connection", "contracts"} /\ report.status = "safe" =>
    \A holds \in SUBSET Checks, v \in Values :
      LET emitted == AtSource(previous, holds, v)
      IN emitted.is = "ok" => SafeParse(Pool[next], emitted.data, holds).is = "ok"

\* "Every returned counterexample is rejected by the consumer and is the unchanged
\* output obtained by parsing producerInput": what is offered as a witness is a
\* value that the source accepts and the target rejects, of a connection one that
\* the producer emits, and it is never offered where a comparison says safe.
WitnessIsReal ==
  \A d \in Directions :
    LET v == report.witness[d]
        accepted == SafeParse(Pool[Source(d)], v, {})
    IN v # NoWitness =>
         /\ accepted.is = "ok"
         /\ report.by = "contracts" => accepted = Ok(v)
         /\ SafeParse(Pool[Target(d)], v, Checks \cup {"anonymous"}) = Rejected
         /\ report.status # "safe"
         /\ Status(CompareGraphs(Graphs[Source(d)]["input"], Graphs[Target(d)]["input"])) # "safe"

\* "Native constraints map without approximation": an exported input schema, in the
\* dialect that it names, accepts the JSON values that safeParse accepts and no
\* other; so does each component of an OpenAPI document, and a request body that
\* may be missing is one whose schema accepts undefined.
InputExportIsExact ==
  LET exported == report.document
  IN exported # NoDocument =>
       /\ report.by = "json" /\ report.options.side = "input" /\ ~GraphHasNonJson(Graphs[next]["input"]) =>
            AgreesWith(next, LAMBDA v : Validates(exported.doc, v))
       /\ report.by = "openapi" =>
            /\ AgreesWith(next, LAMBDA v : ComponentValidates(exported.doc, "Schema1", v))
            /\ AgreesWith(previous, LAMBDA v : ComponentValidates(exported.doc, "Schema2", v))
            /\ ~exported.required => Outcomes[previous][{}][Undefined].is = "ok"

\* "This schema bounds successful outputs": what safeParse emits, when it is JSON,
\* satisfies the exported output schema, whichever checks hold.  The exact export of
\* an intersection closes each side on its own and is left out.
OutputExportCovers ==
  report.by = "json" /\ report.options.side = "output" /\ report.document # NoDocument
  /\ ~HasIntersection(Graphs[next]["output"].root) =>
    \A holds \in SUBSET (Checks \cup {"anonymous"}), v \in Values :
      LET emitted == Outcomes[next][holds][v]
      IN emitted.is = "ok" /\ IsJson(emitted.data) => Validates(report.document.doc, emitted.data)

\* A snapshot that was written is read back and means what it meant, and one that
\* lost a definition is refused.
SnapshotsReadBack ==
  \A side \in Sides :
    /\ Snapshots[previous][side] = [is |-> "read", graph |-> Graphs[previous][side]]
    /\ \A id \in DOMAIN Graphs[previous][side].definitions :
         ReadBack(Without(Files[previous][side], id)) = Refused

=============================================================================
