------------------------------ MODULE LazyGraph ------------------------------
(***************************************************************************)
(* Whether a schema has asynchronous rules                                 *)
(* (packages/core/src/schema.ts: hasAsyncRules, LazySchema.resolveSchema). *)
(*                                                                         *)
(* Every synchronous entry point asks first, and a schema remembers its    *)
(* answer.  The answer comes from a walk over a graph that is not finished *)
(* when the schemas are made: a lazy schema has a getter of the            *)
(* application's, which is called until it has given a schema.  It may     *)
(* throw, give something else each time, and parse while it is called: a   *)
(* walk inside it is one of its own, and may call the same getter again.   *)
(*                                                                         *)
(* An eager schema is made from schemas that exist already, so its parts   *)
(* are smaller than it; cycles go through lazy schemas.                    *)
(***************************************************************************)
EXTENDS Integers, Sequences, FiniteSets, SequencesExt

CONSTANTS Lazy, Eager,  \* the schemas, numbered as they are made
          Nowhere,      \* no schema
          MaxParts,     \* bound: the parts of an eager schema
          MaxCalls      \* bound: the calls that are nested in getters

Schemas == Lazy \cup Eager

ASSUME GraphAssumption ==
  /\ Schemas \subseteq Nat /\ IsFiniteSet(Schemas)
  /\ Lazy \cap Eager = {}
  /\ Nowhere \notin Schemas
  /\ {MaxParts, MaxCalls} \subseteq Nat

VARIABLES
  parts,     \* what an eager schema was made from, in the order of the walk
  rules,     \* the schemas with an asynchronous rule of their own
  resolved,  \* what a lazy schema got from its getter
  replaced,  \* history: the lazy schemas that got another schema later
  known,     \* asyncRoots: the answers that are remembered
  calls      \* the calls that have not returned, the innermost first

graph == <<parts, rules, resolved, replaced, known, calls>>

PartsOf(s) == {p \in UNION {[1..n -> {t \in Schemas : t < s}] : n \in 0..MaxParts} : IsInjective(p)}

\* A call is a walk for the schema that is asked, or of a parse or a description
\* that meets a lazy schema.
Frame == [asked : Schemas \cup {Nowhere}, \* by a walk
          ahead : Seq(Schemas),            \* what it has yet to visit, depth first
          seen : SUBSET Schemas,           \* what it has visited
          called : Lazy \cup {Nowhere}]    \* the schema whose getter it has called

GraphTypeOK ==
  /\ parts \in [Eager -> Seq(Schemas)] /\ \A s \in Eager : parts[s] \in PartsOf(s)
  /\ rules \in SUBSET Schemas
  /\ resolved \in [Lazy -> Eager \cup {Nowhere}]
  /\ replaced \in SUBSET Lazy
  /\ known \in [Schemas -> {"open", "sync", "async"}]
  /\ calls \in Seq(Frame)

GraphInit ==
  /\ parts \in {p \in [Eager -> UNION {PartsOf(s) : s \in Eager}] : \A s \in Eager : p[s] \in PartsOf(s)}
  /\ rules \in SUBSET Schemas
  /\ resolved = [l \in Lazy |-> Nowhere]
  /\ replaced = {}
  /\ known = [s \in Schemas |-> "open"]
  /\ calls = <<>>

-----------------------------------------------------------------------------
(* The application.  It runs while nothing is called, and in its getters. *)

call == Head(calls)
Runs == calls # <<>> => call.called # Nowhere

Enter(c) ==
  /\ Runs
  /\ Len(calls) < MaxCalls
  /\ calls' = <<c>> \o calls
  /\ UNCHANGED <<parts, rules, resolved, replaced, known>>

\* hasAsyncRules of a schema whose answer is not remembered.
Ask == \E s \in Schemas :
  known[s] = "open" /\ Enter([asked |-> s, ahead |-> <<s>>, seen |-> {}, called |-> Nowhere])

\* A parse or a description meets a lazy schema that has none yet.
Meet == \E l \in Lazy :
  resolved[l] = Nowhere /\ Enter([asked |-> Nowhere, ahead |-> <<>>, seen |-> {}, called |-> l])

-----------------------------------------------------------------------------
(* The walk.  The next schema that it visits is the first one ahead. *)

Walks == calls # <<>> /\ call.called = Nowhere
Visits(s) == Walks /\ call.ahead # <<>> /\ s = Head(call.ahead) /\ s \notin call.seen

GoOn(c) == calls' = <<c>> \o Tail(calls)

\* The walk has visited s and goes on with what s is made of.
ToParts(s, next) ==
  [call EXCEPT !.seen = @ \cup {s}, !.ahead = next \o Tail(@), !.called = Nowhere]

PassOver ==
  /\ Walks /\ call.ahead # <<>> /\ Head(call.ahead) \in call.seen
  /\ GoOn([call EXCEPT !.ahead = Tail(@)])
  /\ UNCHANGED <<parts, rules, resolved, replaced, known>>

VisitEager == \E s \in Eager \ rules :
  /\ Visits(s)
  /\ GoOn(ToParts(s, parts[s]))
  /\ UNCHANGED <<parts, rules, resolved, replaced, known>>

\* resolveSchema of a lazy schema that has its schema, and of one that asks for it.
VisitLazy == \E l \in Lazy \ rules :
  /\ Visits(l)
  /\ GoOn(IF resolved[l] = Nowhere THEN [call EXCEPT !.called = l]
          ELSE ToParts(l, <<resolved[l]>>))
  /\ UNCHANGED <<parts, rules, resolved, replaced, known>>

\* mutant: the answer is remembered for every schema that the walk came through
AnswerForAll(answer) ==
  /\ known' = [t \in Schemas |-> IF t \in call.seen \cup {call.asked} THEN answer ELSE known[t]]
  /\ calls' = Tail(calls)
  /\ UNCHANGED <<parts, rules, resolved, replaced>>

Answer(answer) ==
  /\ known' = [known EXCEPT ![call.asked] = answer]
  /\ calls' = Tail(calls)
  /\ UNCHANGED <<parts, rules, resolved, replaced>>

FindRule == (\E s \in rules : Visits(s)) /\ Answer("async")
FindNone == Walks /\ call.ahead = <<>> /\ Answer("sync")

-----------------------------------------------------------------------------
(* The getter that was called last. *)

\* It gives a concrete schema, which replaces what was got while it ran.
Give == \E t \in Eager : calls # <<>> /\ call.called # Nowhere /\ LET l == call.called IN
  /\ resolved' = [resolved EXCEPT ![l] = t]
  /\ replaced' = IF resolved[l] \in {Nowhere, t} THEN replaced ELSE replaced \cup {l}
  /\ IF call.asked = Nowhere THEN calls' = Tail(calls) ELSE GoOn(ToParts(l, <<t>>))
  /\ UNCHANGED <<parts, rules, known>>

\* It throws, or gives no schema or a lazy one: the call throws, and a walk is not
\* remembered.
Refuse ==
  /\ calls # <<>> /\ call.called # Nowhere
  /\ calls' = Tail(calls)
  /\ UNCHANGED <<parts, rules, resolved, replaced, known>>

WalkNext == PassOver \/ VisitEager \/ VisitLazy \/ FindRule \/ FindNone
GraphNext == Ask \/ Meet \/ WalkNext \/ Give \/ Refuse

GraphSpec == GraphInit /\ [][GraphNext]_graph

-----------------------------------------------------------------------------
(* Properties. *)

\* What a parse of a schema may come to: its parts, and theirs.
Below(s) == IF s \in Eager THEN ToSet(parts[s]) ELSE {resolved[s]} \ {Nowhere}

Reachable(s) ==
  {t \in Schemas : \A closed \in SUBSET Schemas :
     s \in closed /\ (\A c \in closed : Below(c) \subseteq closed) => t \in closed}

\* What is remembered of a schema stays true, whatever getters do, when and inside
\* which other calls, unless it reaches a lazy schema whose getter came to itself and
\* then gave another schema than it had given there (DetectedBeforeParsing): a schema
\* remembered as synchronous reaches no asynchronous rule and no getter that is still
\* to be asked, and one remembered as asynchronous reaches a rule.
AnswersStand == \A s \in Schemas : known[s] # "open" /\ Reachable(s) \cap replaced = {} =>
  /\ known[s] = "sync" => \A t \in Reachable(s) : t \notin rules /\ (t \in Lazy => resolved[t] # Nowhere)
  /\ known[s] = "async" => Reachable(s) \cap rules # {}

\* "Synchronous entry points detect nested async rules before parsing": what they
\* detect is what is remembered.
DetectedBeforeParsing == \A s \in Schemas : known[s] = "sync" => Reachable(s) \cap rules = {}

=============================================================================
