------------------------------ MODULE AsyncParse ------------------------------
(***************************************************************************)
(* safeParseAsync of an object schema (packages/core/src/schema.ts:        *)
(* ObjectSchema.parseBaseAsync and BaseSchema.applyChecksAsync).           *)
(*                                                                         *)
(* A step is one pass of a loop, over the properties, the unknown keys or  *)
(* the refinements of a position.  At every await, and only there, the     *)
(* caller, who still owns the input object, may change it.  The properties *)
(* are schemas of primitives with refinements of their own; the            *)
(* refinements of the object are those of the position after the last      *)
(* property.                                                               *)
(*                                                                         *)
(* A rule is a refinement together with what its callback does: "pass",    *)
(* "fail", "throw" (or reject), or "promise", a promise nobody asked for.  *)
(* A collector that does not pass has added a diagnostic first.            *)
(***************************************************************************)
EXTENDS Integers, Sequences, FiniteSets, FiniteSetsExt, SequencesExt

CONSTANTS Shape,       \* the declared properties, in order
          Required,    \* those that are not optional
          Undeclared,  \* other properties a caller may pass, in order
          Values,      \* what a property may hold
          Typed,       \* the values that the schemas of the properties accept
          Undefined,   \* the value that an optional schema accepts as well
          Rules,       \* what the refinements of all positions may be
          Steady,      \* bound: those under which the caller changes nothing
          MaxChanges   \* bound: the changes the caller makes otherwise

Declared == Range(Shape)
Keys == Declared \cup Range(Undeclared)
Root == Len(Shape) + 1

Checks == [async : BOOLEAN, collector : BOOLEAN, warn : BOOLEAN,
           does : {"pass", "fail", "throw", "promise"}]

ASSUME ParseAssumption ==
  /\ Shape \in Seq(Declared)
  /\ Required \subseteq Declared
  /\ Undeclared \in Seq(Range(Undeclared)) /\ IsInjective(Undeclared)
  /\ Rules \subseteq [1..Root -> Seq(Checks)]
  /\ Declared \cap Range(Undeclared) = {}
  /\ Typed \subseteq Values
  /\ Undefined \in Values \ Typed
  /\ MaxChanges \in Nat

Policies == {"reject", "strip", "passthrough"}

VARIABLES
  policy,   \* unknownProperties
  rules,    \* the refinements at every position
  given,    \* the input as it was at the call
  input,    \* the input as it is
  changes,  \* changes the caller made
  keys,     \* inputKeys
  pos,      \* the property that is being parsed; Root for the object itself
  value,    \* the value that was read from it
  at,       \* the rule that runs or is awaited
  found,    \* diagnostics of the property, or of the object's rules
  output, issues, warnings,
  stage     \* what runs or is awaited

schema == <<policy, rules, given>>
vars == <<policy, rules, given, input, changes, keys, pos, value, at, found,
          output, issues, warnings, stage>>

\* The parse waits for the schema of a position, for a rule, or for the result of
\* a position.
Awaits == {"base", "rule", "settled"}
Stages == Awaits \cup {"idle", "absent", "left", "check", "done"}
Codes == {"missing", "invalid", "unexpected", "custom", "execution"}

\* Positions are named by their property, the last one "root".
NameAt(p) == IF p = Root THEN "root" ELSE Shape[p]
Diagnostics == [code : Codes, of : Keys \cup {"root"}]

Inputs == UNION {[held -> Values] : held \in SUBSET Keys}

TypeOK ==
  /\ policy \in Policies
  /\ rules \in Rules
  /\ {given, input} \subseteq Inputs
  /\ changes \in 0..MaxChanges
  /\ keys \subseteq DOMAIN given
  /\ pos \in 1..Root
  /\ value \in Values
  /\ at \in Nat
  /\ found \in [issues : Seq(Diagnostics), warnings : Seq(Diagnostics)]
  /\ output \in Inputs
  /\ issues \in Seq(Diagnostics)
  /\ warnings \in Seq(Diagnostics)
  /\ stage \in Stages

Nothing == [issues |-> <<>>, warnings |-> <<>>]

Init ==
  /\ policy \in Policies
  /\ rules \in Rules
  /\ given \in Inputs
  /\ input = given
  /\ changes = 0
  /\ keys = {}
  /\ pos = 1
  /\ value = Undefined
  /\ at = 0
  /\ found = Nothing
  /\ output = <<>>
  /\ issues = <<>>
  /\ warnings = <<>>
  /\ stage = "idle"

-----------------------------------------------------------------------------
(* Diagnostics. *)

Note(code, name) == <<[code |-> code, of |-> name]>>

\* Two findings in a row.
Both(m, n) == [issues |-> m.issues \o n.issues, warnings |-> m.warnings \o n.warnings]
Fatal(code, name) == [issues |-> Note(code, name), warnings |-> <<>>]

\* A rule that is not met: a warning or an issue, as the rule says.
Unmet(rule, name) ==
  IF rule.warn THEN [issues |-> <<>>, warnings |-> Note("custom", name)]
  ELSE Fatal("custom", name)

\* A rule whose callback could not be run to its end.
Broken(rule, name) ==
  IF rule.collector THEN [Unmet(rule, name) EXCEPT !.issues = @ \o Note("execution", name)]
  ELSE Fatal("execution", name)

\* mutant: a rejected rule is treated like one that is not met
RunAsyncRuleLenient(rule, name) ==
  IF rule.does = "pass" THEN Nothing ELSE Unmet(rule, name)

\* applyChecksAsync, for one rule: a predicate that throws counts as not met,
\* unless it is an asynchronous one.
RunAsyncRule(rule, name) ==
  CASE rule.does = "pass" -> Nothing
    [] rule.does = "fail" -> Unmet(rule, name)
    [] rule.does = "promise" -> Broken(rule, name)
    [] rule.does = "throw" -> IF rule.async \/ rule.collector THEN Broken(rule, name)
                              ELSE Unmet(rule, name)

Absent(key) == IF key \in Required THEN Note("missing", key) ELSE <<>>

Accepts(key, v) == v \in Typed \/ (v = Undefined /\ key \notin Required)

-----------------------------------------------------------------------------
(* The parse. *)

Names == Shape \o Undeclared
ValueOf(obj, key) == IF key \in DOMAIN obj THEN obj[key] ELSE Undefined

\* The loop over the shape comes to position p: a property that is there is read and
\* its parse is awaited.
ComeTo(p) ==
  /\ pos' = p
  /\ IF p # Root /\ Shape[p] \in DOMAIN input
     THEN stage' = "base" /\ value' = input[Shape[p]]
     ELSE stage' = (IF p = Root THEN "left" ELSE "absent") /\ value' = Undefined

\* safeParseAsync(input)
Call ==
  /\ stage = "idle"
  /\ keys' = DOMAIN input
  /\ ComeTo(1)
  /\ UNCHANGED <<schema, input, changes, at, found, output, issues, warnings>>

\* A property that is absent at its turn is passed over.
PassOver ==
  /\ stage = "absent"
  /\ issues' = issues \o Absent(Shape[pos])
  /\ ComeTo(pos + 1)
  /\ UNCHANGED <<schema, input, changes, keys, at, found, output, warnings>>

\* After the last property: the keys that were there at the call and were not parsed.
\* One after another they are rejected, or their values are read now; one that is
\* gone reads as undefined.
RejectKey ==
  /\ stage = "left" /\ policy = "reject"
  /\ \E i \in DOMAIN Names :
       /\ Names[i] \in keys /\ \A j \in 1..i - 1 : Names[j] \notin keys
       /\ issues' = issues \o Note("unexpected", Names[i])
       /\ keys' = keys \ {Names[i]}
  /\ UNCHANGED <<schema, input, changes, pos, value, at, found, output, warnings, stage>>

\* The object itself is complete, and its own parse resolves.
Complete ==
  /\ stage = "left" /\ (policy = "reject" => keys = {})
  /\ output' = IF policy # "passthrough" THEN output
               ELSE [k \in DOMAIN output \cup keys |-> IF k \in keys THEN ValueOf(input, k) ELSE output[k]]
  /\ stage' = "base"
  /\ UNCHANGED <<schema, input, changes, keys, pos, value, at, found, issues, warnings>>

\* The rules come to index i: one that is asynchronous is awaited.
Onward(i) ==
  /\ at' = i
  /\ stage' = IF i > Len(rules[pos]) THEN "settled"
              ELSE IF rules[pos][i].async THEN "rule" ELSE "check"

\* The schema at this position has looked at its value; rules run on what it accepts.
BaseSettles ==
  /\ stage = "base"
  /\ IF IF pos = Root THEN issues = <<>> ELSE Accepts(Shape[pos], value)
     THEN Onward(1) /\ UNCHANGED found
     ELSE /\ found' = IF pos = Root THEN Nothing ELSE Fatal("invalid", Shape[pos])
          /\ stage' = "settled"
          /\ UNCHANGED at
  /\ UNCHANGED <<schema, input, changes, keys, pos, value, output, issues, warnings>>

\* A synchronous rule has run, or the promise of an asynchronous one settles.
RuleSettles ==
  /\ stage \in {"check", "rule"}
  /\ found' = Both(found, RunAsyncRule(rules[pos][at], NameAt(pos)))
  /\ Onward(at + 1)
  /\ UNCHANGED <<schema, input, changes, keys, pos, value, output, issues, warnings>>

\* What a property whose parse has settled adds to the output.
Emitted == found.issues = <<>> /\ ~(Shape[pos] \notin Required /\ value = Undefined)
With(out, key, v) == [k \in DOMAIN out \cup {key} |-> IF k = key THEN v ELSE out[k]]

\* mutant: the keys that were parsed are not taken off
PropertySettlesKeeping ==
  /\ stage = "settled" /\ pos # Root
  /\ output' = IF Emitted THEN With(output, Shape[pos], value) ELSE output
  /\ issues' = issues \o found.issues
  /\ warnings' = warnings \o found.warnings
  /\ found' = Nothing
  /\ ComeTo(pos + 1)
  /\ UNCHANGED <<schema, input, changes, at, keys>>

\* mutant: the property is read again for the output
PropertySettlesRereading ==
  /\ stage = "settled" /\ pos # Root
  /\ keys' = keys \ {Shape[pos]}
  /\ output' = IF Emitted THEN With(output, Shape[pos], ValueOf(input, Shape[pos])) ELSE output
  /\ issues' = issues \o found.issues
  /\ warnings' = warnings \o found.warnings
  /\ found' = Nothing
  /\ ComeTo(pos + 1)
  /\ UNCHANGED <<schema, input, changes, at>>

\* The parse of a property has settled; the loop goes on.
PropertySettles ==
  /\ stage = "settled" /\ pos # Root
  /\ keys' = keys \ {Shape[pos]}
  /\ output' = IF Emitted THEN With(output, Shape[pos], value) ELSE output
  /\ issues' = issues \o found.issues
  /\ warnings' = warnings \o found.warnings
  /\ found' = Nothing
  /\ ComeTo(pos + 1)
  /\ UNCHANGED <<schema, input, changes, at>>

\* safeParseAsync resolves.
ObjectSettles ==
  /\ stage = "settled" /\ pos = Root
  /\ issues' = issues \o found.issues
  /\ warnings' = warnings \o found.warnings
  /\ found' = Nothing
  /\ stage' = "done"
  /\ UNCHANGED <<schema, input, changes, keys, pos, value, at, output>>

\* The caller changes its object while the parse waits.
Change(key) ==
  /\ stage \in Awaits
  /\ rules \notin Steady /\ changes < MaxChanges
  /\ changes' = changes + 1
  /\ \/ key \in DOMAIN input /\ input' = [k \in DOMAIN input \ {key} |-> input[k]]
     \/ \E v \in Values : input' = [k \in DOMAIN input \cup {key} |->
                                      IF k = key THEN v ELSE input[k]]
  /\ UNCHANGED <<schema, keys, pos, value, at, found, output, issues, warnings, stage>>

Next ==
  \/ Call \/ PassOver \/ RejectKey \/ Complete
  \/ BaseSettles \/ RuleSettles \/ PropertySettles \/ ObjectSettles
  \/ \E key \in Keys : Change(key)

Spec == Init /\ [][Next]_vars

-----------------------------------------------------------------------------
(* The synchronous parse of the same schema: parseBase and applyChecks. *)

\* applyChecks, for one rule.
RunRule(rule, name) ==
  CASE rule.does = "pass" -> Nothing
    [] rule.does = "fail" -> Unmet(rule, name)
    [] rule.does = "promise" -> Broken(rule, name)
    [] rule.does = "throw" -> IF rule.collector THEN Broken(rule, name) ELSE Unmet(rule, name)

\* Findings in a row: the first n of them together, for every n.
Upto(parts) ==
  LET first[n \in 0..Len(parts)] == IF n = 0 THEN Nothing ELSE Both(first[n - 1], parts[n])
  IN first

ApplyChecks(p) ==
  Upto([i \in DOMAIN rules[p] |-> RunRule(rules[p][i], NameAt(p))])[Len(rules[p])]

\* What the property at position p contributes.
ParseProperty(p) ==
  LET key == Shape[p]
  IN IF key \notin DOMAIN given THEN [issues |-> Absent(key), warnings |-> <<>>]
     ELSE IF Accepts(key, given[key]) THEN ApplyChecks(p) ELSE Fatal("invalid", key)

\* What a key contributes that is not declared.
Unexpected(key) ==
  IF policy = "reject" /\ key \in DOMAIN given THEN Fatal("unexpected", key) ELSE Nothing

\* The properties in their order, and then the keys that are left.
Parts == [p \in DOMAIN Names |-> IF p < Root THEN ParseProperty(p) ELSE Unexpected(Names[p])]

SyncParse ==
  LET base == Upto(Parts)[Len(Names)]
      all == IF base.issues = <<>> THEN Both(base, ApplyChecks(Root)) ELSE base
      kept == {k \in DOMAIN given \cap Declared : ~(k \notin Required /\ given[k] = Undefined)}
      open == IF policy = "passthrough" THEN DOMAIN given \ Declared ELSE {}
  IN [issues |-> all.issues, warnings |-> all.warnings,
      data |-> IF all.issues = <<>> THEN [k \in kept \cup open |-> given[k]] ELSE <<>>]

AllSync == \A p \in DOMAIN rules : \A i \in DOMAIN rules[p] : ~rules[p][i].async

-----------------------------------------------------------------------------
(* Properties. *)

Succeeded == stage = "done" /\ issues = <<>>

\* "Async parsing runs checks and nested members sequentially in the same order
\* used by synchronous parsing": of a schema without asynchronous rules, and an
\* input that is left alone, both report the same diagnostics and the same data.
AsyncAgreesWithSync ==
  stage = "done" /\ changes = 0 /\ AllSync =>
    [issues |-> issues, warnings |-> warnings,
     data |-> IF issues = <<>> THEN output ELSE <<>>] = SyncParse

\* "Rejections become fatal custom issues": a parse that succeeds has run no
\* asynchronous rule that was rejected, not even one that only warns.
RejectionIsFatal ==
  Succeeded /\ changes = 0 =>
    \A p \in 1..Root : p = Root \/ Shape[p] \in DOMAIN given =>
      ~\E i \in DOMAIN rules[p] : rules[p][i].async /\ rules[p][i].does = "throw"

\* Every required property is there, and what is declared has been accepted.
Validated(out) ==
  /\ Required \subseteq DOMAIN out
  /\ \A k \in DOMAIN out \cap Declared : Accepts(k, out[k])

\* Whatever the caller does to its object meanwhile, a successful parse under
\* reject or strip yields the declared properties only, each of them validated.
ClosedOutputIsValidated ==
  Succeeded /\ policy # "passthrough" => DOMAIN output \subseteq Declared /\ Validated(output)

\* "All policies validate declared properties first": the same under passthrough.
OutputIsValidated == Succeeded => Validated(output)

=============================================================================
