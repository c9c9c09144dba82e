# SafeShape: a TLA+ verification project

SafeShape is a TypeScript monorepo: a runtime schema library and the tooling
around it (contract snapshots and their comparison, JSON Schema and TypeScript
output, HTTP and API boundaries, a command line, an MCP inspection server). This
directory models the parts of it whose correctness depends on an order of events
or on a chain of pairwise rules, model-checks them with TLC, and proves with TLAPS
the safety of everything that keeps state and the soundness of the comparison of
contracts. All paths below are relative to
`src/packages/` unless they start with `docs/` or `adr/`.

Contents: 1 inventory, 2 how the modules correspond to the code, 3 runs and
bounds, 4 fairness, 5 what is proved, 6 what disagrees with the documentation,
7 what is left out and why, 8 plan.

## 1. Inventory

| Component | State it keeps | Operations | Talks to | What is hard | Correct when |
| --- | --- | --- | --- | --- | --- |
| Execution gate, `mcp/src/limits.ts` | `active`; per call a controller, a timer, a listener, a promise chain | `run(signal, callback)` | the protocol's calls, the application's callbacks | callback, deadline timer and external abort race for one answer, while the slot is given back by the callback alone | slots are counted, callers told the true cause, nothing leaks |
| Protocol server, `mcp/src/protocol.ts` | `state`, `transport`, the map of pending calls | `connect`, `close`, `receive`, `send`, `fail` | transport, `options.call` | every request is a suspended activation; cancellation, id reuse, failing sends and shutdown fall between any two awaits | each request is answered once or its connection is closed, nothing follows a cancellation |
| Inspection server, `mcp/src/server.ts` | one gate | `options.call` | protocol, gate | two capacity counters (map and gate) and two size limits (result and message) | the counters disagree only for abandoned callbacks |
| Stdio transport, `mcp/src/stdio.ts` | `state`, `queuedBytes`, `inFlightWrites`, `writes`; the scanner's buffer, depth, string and escape flags | `start`, `send`, `close`; the input transform | a Node Writable and Readable | write callbacks and `'error'` arrive after `close()`; frames are cut out of chunks | counters exact, queue bounded, errors never unheard; frames bounded and none lost |
| Handler, registry, manifest, inspections, command line (`mcp/src/*`) | registered schemas | tools | server | an awaited callback between two validations; paging | not modelled |
| Runtime schemas, `core/src/schema.ts` | immutable schemas; what lazy schemas resolved to; a cache of "has async rules" | `safeParse`, `safeParseAsync`, builders | refinements, transforms and getters of the application | the asynchronous parse is a second implementation and shares its input with the caller at every await; whether it is needed is asked of an unfinished graph, by calls that nest in getters | both parses agree; what succeeds is validated; a remembered answer stays true |
| Contract descriptions, `core/src/schema.ts` | owners and definitions of lazy ids during a description | `describeContract*`, `describeOutputBound` | snapshots, comparison | recursion, bounds on outputs | what is described over-approximates what is emitted |
| Contract comparison, `compat/src/index.ts` | the pairs under comparison; snapshots as text | `compareContracts`, snapshots v1 and v2 written and read, `checkSchemaConnection`, `checkContractConnection` | core, counterexamples | about twenty pairwise containment rules, coinduction over recursive graphs, shortcuts; literals without a JSON form | "safe" is containment, "breaking" has a counterexample, a snapshot means what it meant |
| Counterexamples, `compat/src/counterexamples.ts` | search budget | witness search | comparison, parse | values are built from a contract alone | a witness is emitted by one side and rejected by the other |
| JSON Schema, TypeScript output (`json-schema`, `typescript`) | none | translation of contracts | contracts | four dialects, bounds on outputs, references | an exact document accepts what `safeParse` accepts, a bound what it emits; TypeScript text not modelled |
| HTTP boundary, `http/src/index.ts` | none | parse requests and responses, recovery by a fallback | core | fallback evaluated lazily, options read again after an await, sync and async twins | nothing is returned that its schema did not accept |
| API client, catalog, OpenAPI (`api/src/*`) | catalog; per call its activation | `call`, export, import, comparison | HTTP, `fetch` | validate, send, decode, validate, with aborts at any await | nothing is sent unvalidated, the result names its cause, an aborted call ends |
| Command line (`cli/src/*`), validation, umbrella package, scripts | files | check, review, print | all | batches of comparisons, files on disk | not modelled |

How they interact: the transport hands frames to the protocol (`onmessage`), the
protocol awaits `options.call`, which runs the inspection through the gate; the
inspection describes and compares contracts. Everything in the library runs on
one JavaScript thread: code between two awaits is atomic, and the concurrency is
the order in which the event loop resumes what awaits. Nothing is persisted, so
there is no crash recovery; the failures are rejected promises, streams that
emit errors, limits, cancellations and deadlines.

`PROJECT.json` lists every component with its status, and under `hazards` each
place in this code that a test hardly reaches, with the properties that watch it.

## 2. Modules and the code

An action runs from one await (or one callback of the event loop) to the next.
Messages, payloads and values are identities or members of a small set.

**SlotGate** is the promise of the gate to its callers, without promises, timers
or signals: take a slot or be refused, be answered once, give the slot back
independently of the answer.

**ExecutionGate** is `ExecutionGate.run`. One element of `Calls` is one call.
Per call it has the chain `Promise.resolve().then(callback).then(...)` (`work`,
`result`), the `abort` promise (`abortReason`), the race (`race`) and the promise
of `run` (`answer`), and a FIFO of microtasks (`jobs`): reactions of one promise
run in the order in which they were attached, so the slot is released before the
race hears of the outcome. Timers fire only when no microtask is left; the
external abort may come at any time between two jobs. A callback may return,
throw, consult the clock, or never settle.

**McpProtocol** is `createProtocolServer`. One element of `Requests` is one
activation of `receive()` for a message with an id; its `stage` says at which
await it is suspended. `pending` is the map of the code, `handed` and `answered`
are histories of what was given to `transport.send` and what it carried out.
Payloads are left out; whether a reply is over `limits.responseBytes` is decided
by the environment.

**McpServer** composes McpProtocol with SlotGate (which ExecutionGate is shown to
implement) as `createSafeShapeMcpServer` does, and gives results a size, so that
the two limits, one on the tool result and one on the message around it, are both
there. Replies other than results are taken to fit.

**StdioTransport** is `BoundedStdioTransport`: `start`, `send` with its write
callback, the `'error'` event a Writable emits after a failed write callback,
`close`, the removal of the error listener by a `setImmediate` chain, and the
replies the transport itself sends for a frame that is not JSON.

**FrameScanner** is `createBoundedInput`, one byte at a time. All state carried
from chunk to chunk is carried from byte to byte, so chunk boundaries need no
model of their own. The properties compare the scanner's flags with a labelling of
the positions of a text: what lies in a string (`Strings`), what is escaped, how deep
the nesting is; and its frames with the lines of the input.

**Schemas** is what `safeParse` makes of a value for each schema class, without
issues and messages. **Contracts** is what the schemas describe: the input side,
the output side and the output bound. **ContractCompare** is the containment analysis of
`compat/src/index.ts` (`compareNodes` and everything below it): each operator is
one function of the code, with the same order of shortcuts. A finding is its
status, code and direction; findings with status safe, paths, wording and
counterexample text are left out. **ContractReview** puts them together: the
entry points `compareContracts` (both formats, each mode), `checkSchemaConnection`,
`checkContractConnection`, `toJsonSchema` and `toOpenApi` pick two schemas of a pool
and report; the properties hold the report against what `Parse` makes of every
value of a finite universe.
Abstractions: metadata and annotations are left out; formats are patterns, that
is sets of texts; numbers are counted in halves; lengths and bounds that are
absent are 0 or an infinity; two inline nodes that are equal are one node in the
set of active pairs; transforms are uninterpreted functions, named by their id;
a check with an id is a set of values, the same in both contracts, and an
anonymous check may be any.

The recursive operators of these modules are constants, and what each computes in
terms of itself is its rule: `Parse` stands for a solution of
`Parse(s, v, h, d) = ParseRule(s, v, h, d)`. MCContractReview gives TLC the recursion
(`MCParse(...) == LET is == ParseRule(...) IN is`, put in the place of `Parse` by the
configurations), so that TLC computes what the proofs reason about.

**ContractMeaning** says what a contract graph means, apart from how its schema parses
and from how two contracts are compared: the smallest relation between nodes, values
and the resolutions left on the stack that is closed under one rule per kind of node
(`Accepts`, `Meaning`). It also says what a graph, a value and a set of schemas
are (`IsGraph`, `IsValue`, `IsWorld`). The theorems about the comparison rest on it, and
`CorePoolIsDescribed` in MCContractReview has TLC evaluate that the schemas of the run
ContractReview and the graph of their nodes are what those definitions ask for.

**Snapshots** writes a contract graph as the JSON text of a snapshot does (which
literals need an encoding, what scalars survive `JSON.stringify`), and reads it back
through every check of `parseContractSnapshot`. **Counterexamples** is the witness
search of `compat/src/counterexamples.ts`: the pool of values that schemas rebuilt
from the two contracts suggest, the objects, tuples and arrays made of them within
the budget, and the check against producer and consumer. **JsonSchemas** is the
translation of a contract to JSON Schema in each dialect and to a component of an
OpenAPI document; a small validator of such documents (`Validates`), external to
the repository, gives them their meaning, including that a validator ignores the
keywords its dialect does not know.

**AsyncParse** is `safeParseAsync` of an object schema with refinements at every
property and on the object itself, next to the synchronous parse of the same
schema. A step is one pass of a loop, over the properties, the other keys or the
refinements of a position; only at the awaits may the caller change the input object
(`Change`). The synchronous parse is a fold over the same positions (`Upto(Parts)`). A
refinement is the verdict of its callback (pass, fail, throw or reject,
or a promise nobody asked for), whether it is asynchronous, a collector, or only
warns. The properties of the object are schemas of primitives.

**AsyncSequence** is `safeParseAsync` of an array, a tuple or a record, next to the
synchronous parse: items are sets of accepted values, positions may be holes, and
the caller replaces, deletes, pushes and pops at every await. The synchronous loop is
a recursive function over positions. **LazyGraph** is
`hasAsyncRules` and `resolveSchema`: the depth-first walk with its set of visited
schemas, the getters of lazy schemas, what they resolved to, and the answers that are
remembered. Nothing here awaits, but a getter is the application's code: it may give any
schema, another one each time, or throw, and it may parse, which starts a walk with a set
of its own and may call the very same getter again. So the state has the stack of the
calls that have not returned (`calls`), each a walk or a parse that met a lazy schema.
`Give` stores what a getter gave whatever is stored by then, as the code does; `replaced`
notes, for the properties, which lazy schemas got another schema that way.

**HttpBoundary** is `http/src/index.ts`: requests section by section, responses by
status, and both recoveries; the asynchronous one is a small state machine
(`RecoveryNext`) whose options the caller may reuse while it waits. **ApiCall** is
`callEndpoint` of the client over that contract and an arbitrary `fetch`. A section
is copied while it is parsed, except by a schema like `unknown()`, whose output is
the caller's own object (`live`). A parse that rejects, because a lazy schema has no
schema, rejects the promise of the call or of the recovery (`ParseThrows`,
`ResponseThrows`).

The MC modules hold constants and symmetries for TLC; MCAsyncSequence also runs
LazyGraph from states in which no sequence is parsed, MCStdioTransport both sides of
the transport, and ApiCall the recovery beside calls: such parts share nothing, and each
has the other at rest. A module whose
constants are plain sets of model values is run directly. Definitions marked `mutant` are
plausible bugs of one definition each; no specification uses them. They are what
shows that a property can fail.

`map` in `PROJECT.json` names the lines each definition stands for.

## 3. Runs and bounds

| Run | Instance | What it shows |
| --- | --- | --- |
| ExecutionGate | 2 calls, 1 slot, callbacks may hang | slot accounting, no leak, true causes, late values suppressed, refinement of SlotGate; every admitted caller is answered; every slot of a callback that settles comes back |
| McpProtocol | 4 requests, 3 ids, concurrency 2, symmetric | the map is exact, at most 2 calls run, handshake first, no answer after a cancellation or close, no request lost |
| McpServer | 3 requests under one id, concurrency 1, results and diagnostics on both sides of each limit, callbacks may hang | slots belong to calls; a refusal by the gate has an abandoned callback behind it; every request ends and a closed server reports its close |
| McpServerOverLimit | the same with 2 ids and diagnostics that fit | disagreement 1 |
| StdioTransport | 3 sends of 4 sizes, concurrency 2; every input of up to 7 bytes, frames of 5 bytes, depth 2 | counters, queue bound, error listener, which goes away after close; the scanner's state is the meaning of the text; limits exact; nothing lost |
| ContractReview | all pairs of the core pool (64 schemas of every kind, with neighbours on each side of a rule), 47 values, one check, 3 modes, 2 formats, connections, snapshots, counterexamples, 4 dialects; 84,630 states | safe is containment and keeps outputs, breaking has a counterexample, anonymous behaviour is never safe, recursion is independent of ids, connections are sound, witnesses are real, snapshots read back, exports are exact or bound outputs |
| ContractReviewOptionalCheck, ContractReviewKeyword | two schemas each | disagreements 2 and 3 |
| AsyncParse | 2 declared properties and an undeclared one, every policy and input; every kind of rule at every position on an input left alone (`SteadyRules`), a few rules that await on an input the caller changes twice; 683,486 states | asynchronous and synchronous parse agree in data, issues, warnings and their order; a rejected rule is fatal; closed outputs are validated whatever the caller does |
| AsyncSequence | inputs of up to 3 items or holes, lengths 1 to 2, tuples of 2, 2 changes; 2 lazy and 2 eager schemas, every graph of up to 2 parts each, one asynchronous rule or none (`OneRule`), 2 nested calls (`MaxCalls`), 2 remembered answers (`TwoAnswers`); 2,536,579 states | both parses agree; items of an output were accepted; remembered answers stand |
| AsyncDetection | the same | disagreement 4 |
| ApiCall | 2 endpoints with params, body, query, typed, bodiless and error responses, a change, aborts, schemas whose parse rejects; both recoveries; 1,946,213 states | nothing unvalidated is sent, one request at most, results name their cause and carry the synchronous diagnostics, recovered data is validated, an aborted call ends |

Why the bounds are enough to be interesting:

* Gate: with one slot and two calls there is a call refused, a call abandoned
  while its slot is held, and a call admitted after a release; each has its own
  queue of at most four microtasks. Liveness speaks of one call at a time; all the
  rest is proved for any number.
* Protocol: 4 requests leave room for a handshake of one and three calls, so that
  an id is reused while its cancelled call is suspended and the capacity refusal
  is reached. The requests are the only bound, no counter is cut off.
* Server: results of 4, 9 and 12 bytes are one that fits, one that fits without
  its envelope and one that does not; diagnostics of 5 and 11 bytes are one that
  fits and one for which the server gives up. A second call under the same id
  follows the first when its caller was told of a deadline while the slot is held.
* Transport: frames of 1, 3, 4 and 5 bytes against a capacity of 8 reach the exact
  fill and the frame that overflows by one.
* Scanner: 7 bytes are a frame of maximal length with its newline and one byte of
  the next; they hold an escaped backslash before a quote and depth 2 inside and
  outside strings.
* Comparison: a rule depends on two nodes and their children, so pairs of schemas
  of depth two or three, one per kind and per side of each bound, fire each
  disjunct. `LazyDepth = 5` is the stack; no value of the universe is that deep.
  Infinity is 1000, larger than every number of the pools.
* Sequences: three items are one past `maxLength` and one past a tuple, so that a
  push is seen by the live iterator; two changes are a pop and a push, which restore
  the length. Two lazy schemas make a cycle with a way out of it. Two calls are a walk
  and what a getter does inside it, which is enough for a getter that comes to itself and
  for an answer that is remembered while another walk runs; one more call inside would do
  to the second what the second does to the first, and the theorem has no bound.
* Client: an endpoint with two sections leaves one to be changed while the other is
  parsed; replies are every status with every kind of body.
* Asynchronous parse: two properties are the least for a key to be absent at its
  turn and present later; `MaxChanges = 2` is removing and putting back. Changes
  are explored under rules that pass, because a property that fails ends in an
  error whatever else happens.

`CHECK_DEADLOCK FALSE` is used throughout: every system here may stop, when its
calls are answered, its sends are settled, its input ends or its report is made.

## 4. Fairness

* Gate: the event loop runs what is queued, so each call's microtasks, its clock
  and its timer are weakly fair (`LoopFairness`). Callbacks are not: nothing makes
  them settle. `EverySlotReturned` therefore has that assumption about the
  application as its premise (`CallbacksSettle`).
* McpServer: the gate answers every admitted call (`EveryCallerAnswered`); sends
  settle because the transport settles them (write callback, or `CountersAgree` after
  a close);
  a transport's close settles; microtasks run. Callbacks may hang (`GateFrees` is
  not fair). Receiving, cancelling and shutting down are never fair.
* StdioTransport: a Writable calls back for every write or is destroyed with an
  error, `'error'` is emitted, `setImmediate` callbacks run. New sends are not fair.

* ApiCall: promises of the application's schemas and of the event loop settle, and
  `fetch` and a body being read honour the signal: once it is aborted they reject
  (`Fairness`). A server is free never to answer, and a caller never to abort.

McpProtocol, ContractReview, AsyncParse and AsyncSequence are checked for safety
only and state no fairness (nor is any assumed of the scanner); what liveness the protocol has is checked on McpServer.

## 5. What is proved

TLC looks at the instances of section 3; the theorems hold for every value of the
constants that the assumptions allow. Every safety property that a run checks of the
gate, the MCP server, the transport, the scanner, the parses, the graph of lazy
schemas and the client is a theorem. So is what the contract modules rest on: that a
comparison which says "safe" is right, for schemas, values and recursions of any
size, that snapshots are read back and that witnesses are real. Each proof module of a state machine has the inductive invariant
first, then one lemma per action that keeps it, then the theorems.

| Module | Theorem | Statement |
| --- | --- | --- |
| ExecutionGateProofs | `TypeCorrect` | `[]TypeOK` |
| | `Accounting` | `active` is the number of unreleased chains and at most `Concurrency` |
| | `Leakfree` | an answered caller leaves no timer and no listener |
| | `LateValues` | no step makes a chain that is aborted or expired settle with a value |
| | `Causes` | an answer is what happened: aborted, out of time, or the callback's |
| | `Refinement` | `Spec => SlotPromise!Spec` |
| McpServerProofs | `TypeCorrect` | `[]TypeOK` of the protocol |
| | `PendingExact` | the map holds exactly the calls under way, at most `Concurrency` |
| | `Answered` | a request that is over was answered or cancelled, or its connection is closed |
| | `Handshake` | `initialize` succeeds once, and before anything else does |
| | `Silent` | no step sends for a request that is cancelled, answered or cut off |
| | `ImplementsProtocol` | the server with its gate implements McpProtocol |
| | `ImplementsGate` | and uses the gate as SlotGate promises |
| | `SlotsBelong` | a slot is held by a call of the map or by an abandoned callback |
| | `Refused` | the gate refuses only when an abandoned callback holds a slot |
| StdioTransportProofs | `TypeCorrect` | `[]TypeOK` |
| | `Counters` | both counters are what is queued and open, within their limits |
| | `ErrorsHeard` | no `'error'` is emitted without a listener |
| | `ScannerTypeCorrect` | `[]ScannerTypeOK`, of the scanner |
| | `ScannerMeansTheText` | the flags are what strings, escapes and nesting mean |
| | `LimitsExact` | a frame is refused exactly when it is over a limit |
| | `FramesAreThePieces` | what is delivered and buffered are the lines of the input |
| AsyncParseProofs | `TypeCorrect` | `[]TypeOK` |
| | `RejectionsAreFatal` | a success on an input left alone ran no rejected rule |
| | `ClosedOutputsAreValidated` | closed outputs are complete and accepted, whatever the caller does |
| | `AgreesWithSync` | data, issues and warnings are those of `safeParse`, in its order |
| AsyncSequenceProofs | `TypeCorrect` | `[]TypeOK` |
| | `ItemsValidated` | items of an output were accepted; lengths hold unless the caller changes them |
| | `AgreesWithSync` | both parses agree on inputs left alone and without holes, records with them |
| | `GraphTypeCorrect` | `[]GraphTypeOK`, of LazyGraph |
| | `RememberedAnswersStand` | a remembered answer stays true, of schemas that reach no lazy schema whose getter came to itself and gave another schema |
| ApiCallProofs | `TypeCorrect` | `[]TypeOK` |
| | `SentIsValidated` | one request at most, of accepted sections |
| | `RecoveryValidated` | recovered data was accepted by the contract |
| | `ResultsHaveCauses` | a result names its cause and carries the synchronous diagnostics |
| ContractProofs | `SafeContracts` | graphs that compare as safe: the target accepts every value that the source accepts |
| | `SafeSchemas` | schemas whose contracts compare as safe: what the source parses the target does not reject |
| ReviewProofs | `SnapshotsAreReadBack` | a snapshot is read back as what it was, and refused without any of its definitions |
| | `AnonymousStaysUnsafe` | a contract with anonymous behaviour is not even safe against itself |
| | `WitnessesAreReal` | a witness is accepted by the source, rejected by the target, and never offered where a comparison says safe |

### Assumptions

Those of the state machines are named, stand in the module that declares the
constants, and TLC evaluates them on every run.

* `ConcurrencyAssumption`, `ProtocolAssumption`, `ServerAssumption`,
  `TransportAssumption`, `ScannerAssumption`: limits are positive integers, which
  `resolveLimits` enforces; sizes are positive; null values are none of the real
  ones. Sets of calls, requests, ids and sends may be infinite.
* `ParseAssumption`: the declared properties and the others are disjoint, the others
  have an order, and what a schema accepts are values; `undefined` is not accepted
  by a schema that requires something.
* `SequenceAssumption`: a hole is no value, `undefined` is one; schemas accept values.
* `GraphAssumption`: schemas are finitely many and numbered as they were made, and
  an eager one is made from earlier ones.
* `HttpAssumption`, `ClientAssumption`: `undefined` is a value and no status is named
  like the default schema; an endpoint declares no cookies and maps statuses, and
  `{}` is not `undefined`.

The theorems about contracts are about any pool, so what they assume of it stands in
their own ASSUME. `CorePoolIsDescribed` evaluates it on the pool of run ContractReview,
but for the rules, which TLC follows by construction.

* The recursive operators follow their rules on the nodes and schemas at hand
  (`NodeRules`, `PairRules`, `SnapshotRules`, the rules in `IsWorld`).
* Schemas and nodes have the fields of their kind and a size by which what is below
  them is smaller (`IsWorld`, `IsGraph`, `IsForest`); a graph has the nodes of the
  schemas (`DescribesInput`), and a pool finitely many definitions (`IsPoolForest`).
* `IsPlain`, `KeepsDefined`: the pool has none of the disagreements of section 6 that
  `LazyPool`, `OptionalPool`, `NestedPool` and `DefinedPool` show. Without either one
  SafeSchemas is false. `AnonymousIsInPlainSight` is the same for `HiddenPool`: no
  anonymous check behind a definition of a contract.
* `IsReview`: the tags of a discriminated union are literals or enums, as its builder
  demands, and what the search builds from values are values.

### Arguments

None of the properties is inductive as it stands.

*Gate.* The inductive invariant is

    IInv == TypeInv /\ SlotInv /\ \A c \in Calls : QueueInv(c) /\ SettledInv(c)

`SlotInv` ties the counter to the set of held slots, and needs to know that the
slot of a call is released once: `QueueInv` says that the release reaction and the
resumption are queued at most once, that a release is queued only for a settled
chain, and that as long as the slot is held no reaction of the race stands before
the release in the queue (`Guarded`). That order is what the refinement rests on:
a caller told its callback's own outcome finds its slot free. `SettledInv` relates
the race and the answer to how far the callback came. A step of one call leaves
every other call's part alone (`Locality`, `Keeps`). `Causes` adds `ReasonInv`, what
each promise settles with is something that happened, and `LeadInv`: a call not yet
answered has the microtask queued that leads to its answer, and once the timer has
fired the race is lost to the deadline or the rejection with it is the *first* in the
queue, so nothing can come between the timer and the answer it causes.

*Protocol and server.* `ProtocolInv` relates every activation to what was sent and
cancelled for it (`RequestInv`), the map to the activations from both sides
(`MapInv`), and the state of the server to the replies that were handed over
(`HandshakeInv`). The disjuncts of `Next` are grouped into kinds of steps first
(`RequestSteps`): a reply handed over, a call continued, a reply too large, an end.
The capacity check compares the size of the map while the property counts
activations; that the two sizes agree is the bijection of `MapSize`. The server is
not proved from the start: a step of the server is a step of the protocol or leaves
it alone, and one of SlotGate or leaves it alone (`StepOfProtocol`, `StepOfGate`), so
it inherits the safety of both; `GateInv` says only what neither knows, that an
admitted call whose caller has no answer is still at its await.

*Transport.* A counter is the cardinality of a set of writes or of bytes: every byte
of a frame in the queue is an element of `Queued`, so that adding and removing a
frame adds and removes a set of a known size, and the sum over all sends needs no
induction. `ListenInv` keeps the error listener while the transport runs, while a
write is open *and* while an error is about to be emitted.

*Scanner.* `FrameInv` says what the flags mean for the frame so far. Strings are
defined by position with a recursive function. `Labels` says which labelling of the
positions this is without recursion; a labelling exists and there is only one
(`LabelsAgree`), and with one more byte the old positions keep their label
(`LabelsGrow`), because whether a position lies in a string depends on what stands
before it alone. That is where an escaped backslash before a quote at the end of a
chunk is decided.

*Object.* `ParseInv` is about positions left behind: diagnostics only grow, so as long
as there are none, every required property behind is in the output and was
accepted when it was read. It holds under any change by the caller; `changes = 0` is a
premise only where a property has it. `AgreeInv` follows the synchronous parse along: it is a
fold over the properties, the remaining keys and the rules (`Upto(Parts)`), and what the
asynchronous one holds is that fold up to where it is.

*Sequences.* `SequenceInv` is the same for items, with `resized` to separate a caller
that replaces items from one that changes the length; `AgreeInv` follows the
synchronous loop (`SyncLoop`); `BoundInv` says that the output of an array has no gap
and is not ahead of what was read.

*Lazy graph.* Every call on the stack keeps an invariant of its own, because each comes
back to a graph that the calls inside it have changed. While a walk is on the stack, what
it has visited has no rule, and what is below it has been visited or is ahead
(`LeavesNothing`), unless what it asks about reaches a schema that was replaced (`Kept`);
when nothing is ahead the visited schemas are closed, and everything reachable is among
them. For a schema that is kept the graph only grows, where a getter had not been
resolved (`ReachableGrows`), so its answer outlives every later step (`AnswersOutlive`),
and so does what a suspended walk knows (`WalkOutlives`).

*Client.* For the request the invariant is

    CallInv == Parsing /\ InSection /\ AllParsed /\ Unsent /\ NothingSentUnvalidated

The output holds only what its schemas accepted (`ParsedIsAccepted`), and as long as
there is no issue every declared section before the current one is in it
(`ParsedBefore`), which `ParseFrom` carries over the sections without a schema
(`Onward`). That the caller cannot take a section away is needed too: what is sent
has every declared section but perhaps the body. `CauseInv` is what each stage knows
of the reply. `SyncInv` unrolls the synchronous parse over the five sections of the
contract (`ParsedUpTo`) and keeps the call at the same place. For the recovery it is
`RecoveryInv == RecoveryTypes /\ Waiting /\ RecoveryIsValidated`: `Waiting` says that
the awaited verdict is of the network value under the status of the call, and that a
fallback offered while the options are untouched is that of the call.

*Comparison.* A graph is read twice: `Meaning` of an upper graph holds whatever its schema
may accept (`AcceptedIsMeant`), that of a lower one nothing that its schema may reject
(`MeantIsNotRejected`). Between the two stands `Claim`: a pair that compares as
safe, and the pairs assumed on the way, carry values from the one to the other. It is
shown for the resolutions left on the stack first and the sizes of both nodes second
(`ClaimHolds`), always by looking at a smallest pair that fails. Every rule of the comparison
is a lemma below `StructureContained`. A reference closes a cycle because the pair it
assumes safe is only used with fewer resolutions left (`ReferenceStep`), whichever of
the two graphs the reference is in.

*Snapshots.* What is kept of a node, `Kept(n) == Written(Encoded(n))`, is accepted
by the parser, is written again as it is and means `n`, by a smallest node that fails.
The definitions of a graph are the smallest set that its references reach
(`DefinitionsAreReached`), so each of them is needed: without one the parser's own walk
meets a name that is not there.

*Witnesses.* What the search reconstructs from is simple: no checks, no
references (`ReconstructedIsSimple`). The schema rebuilt from such a node has that node
as its description (`RebuiltDescribes`), no check and no depth matters to it
(`NothingHolds`, `NothingOverflows`), and the contract's own schema parses like it
(`ParsesAlike`). The hard case of the last is a `DefinedSchema`: its node lost
undefined somewhere below (`RestIsAlike`), and with it perhaps a check. A value that
tells two rebuilt schemas apart then tells the contracts apart, and by SafeSchemas no
comparison of the two says safe (`SearchRefutes`).

### Recursive definitions in proofs

A recursive function over positions stands for the function that satisfies its
equation, so a proof has to show first that there is one. `UptoExists`, `LoopExists` and
`LabelsAgree` do that by looking at the first position at which one is
missing (`FirstPosition`, `Least`), which exists because `<` is well-founded on `Nat`
(`NatLessThanWellFounded`, `WFMin`); then `UptoSteps` and `LoopSteps` give the equation,
and `UptoRests` and `LoopRests` a value that no later position changes.

### Only model-checked

* All liveness: `EveryCallerAnswered`, `EverySlotReturned`, `EveryRequestEnds`,
  `ListenerGoes`, `AbortedCallEnds`. It needs fairness and ENABLED.
* TwinsAreSafe, which asks that the comparison is complete on some pairs, where the
  theorems say that it is sound.
* BreakingIsReal and ConnectionIsSound: pools of section 6 refute both, and which
  contracts are left without them has no short description. A connection is also about
  outputs, of which ContractMeaning says nothing.
* InputExportIsExact and OutputExportCovers: a JSON Schema is a third graph, with its own
  references and a validator outside the repository.
* SafeIsContained as it stands. What it says of rejected values is SafeSchemas, for
  graphs that differ; equal graphs, and equal nodes of the first format, are
  safe by a shortcut that compares nothing, and that objects keep their outputs is false
  of unions inside them.

## 6. Where the code and its documentation disagree

Each of the first four is a run with `expect: violation`, whose trace is the demonstration;
the quotations are in `PROJECT.json` under `findings`.

1. McpServerOverLimit: a tool result within `responseBytes` whose JSON-RPC message
   is over it closes the connection, where a bounded diagnostic is promised.
2. ContractReviewOptionalCheck: a check with an id on an optional property is not
   compared.
3. ContractReviewKeyword: references below a property named `const`, `enum` or
   `examples` are not rebased in an OpenAPI document and dangle.
4. AsyncDetection: the getter of a lazy schema asks about that schema again (it parses
   with it, say). What it gives there is stored, and remembered to be synchronous; when the
   outer call of the getter returns another schema, that one overwrites the first
   (`core/src/schema.ts:2455`). If it has an asynchronous rule, `safeParse` no longer
   refuses before it parses, and notices the rule only for values that come to it.
   AnswersStand and RememberedAnswersStand are about all other graphs.

Further disagreements have no run of their own. The first group is a pool of
`MCContractReview`, which shows its disagreement when it takes the place of the pool
in ContractReviewOptionalCheck.cfg with the property named here:

* `HiddenPool` (AnonymousIsNeverSafe): equal graphs with an anonymous check behind a
  reference that is a choice of a union are called safe (`compat/src/index.ts:726`).
* `ConnectionPool` (ConnectionIsSound): the output bound of a pipeline that may emit
  undefined loses that value inside an object, and the connection is called safe
  (`compat/src/index.ts:264`, against `docs/checked-output.md:61`).
* `LazyPool`, `NestedPool` (SafeIsContained): a check with an id on a recursive
  reference, or on a nullable choice of a union, is not compared either.
* `UnguardedPool` (SafeIsContained): a cycle through `nullable` alone is called safe;
  the guard that `adr/0024-coinductive-contract-graph-comparison.md:26-28` relies on
  ("every cycle passes through a concrete positive container") is not enforced.
* `SingletonPool`, `WrapperPool` (BreakingIsReal): a primitive with one value is
  "breaking" against the literal of that value, and a nullable source against an
  optional target that is nullable inside, without a counterexample.

* `DefinedPool` (SafeIsContained): `defined()` of a union whose first choice transforms a
  value to undefined rejects what its second choice would take, and compares as safe
  (`core/src/schema.ts:2540`, `:2559`).

Others are consequences of a definition:

* `AsyncParse.OutputIsValidated` fails under passthrough: the key set of an object is
  taken once, the object is read after every await, and a declared property that is
  put back late passes through unvalidated (`core/src/schema.ts:2013`, `:2044`, against
  `docs/api/core.md:111`).
* Holes of a sparse array are skipped by the synchronous parse and parsed as
  undefined by the asynchronous one. A tuple that shrinks during an await succeeds
  with fewer items, one that grows throws a TypeError.
* `checkSchemaConnection` throws for an intersection of recursive schemas (`folded` of
  the core pool): the bound has no node that reaches the definitions.
* The exact output export of an intersection closes each side on its own
  (`HasIntersection` in OutputExportCovers). Literals undefined, NaN and -0 are
  exported as `const` values that JSON does not have.
* A union whose earlier choice shadows a later one (`shadowed`) is compared choice by
  choice, as if the later one were reached.
* A body that breaks off because of the signal is reported as "decoding", not
  "network". The body of a schema like `unknown()` may change between its validation
  and its serialization.

Apart from `folded` and `shadowed`, the core pool of run ContractReview leaves these
shapes out, so that what holds besides them is checked. That safe keeps outputs (the
second half of SafeIsContained) is stated for two objects and for
properties that hold something: unions choose their first match and no document
promises that a safe union keeps outputs, and a property that holds undefined
passes through an open object but is left out where it is declared optional.

## 7. What is left out

* Text: messages, redaction, reports, TypeScript output, annotations and ids of JSON
  Schemas, parameters and paths of OpenAPI files.
* OpenAPI import and comparison, and the comparison of catalogs, which rearrange the
  answers of the contract comparison; the MCP handler, whose two validations around
  a callback are those of ApiCall and the gate.
* Input checks of builders and option objects, which throw at once and keep no
  state; `resolveLimits` appears as the assumptions on constants.
* The manifest, the registry and the files the command line reads.
* In the gate: the cost of `performance.now()`; the clock is a flag that becomes
  true once. In the transport: backpressure (`write` returning false), which the
  code does not use. In the protocol: notifications other than `cancelled` and
  `initialized`, which change nothing.
* In the comparison: the order of keys in snapshots, hashes (a fingerprint is the
  contract it is taken of), HTTP presentation, migration diagnostics.
* In the asynchronous parse: unions, intersections and wrappers, which await their
  parts one after another like the classes that are modelled; paths of issues.
* Development scripts, benchmarks, the quality lab and the examples.

## 8. Plan

Done, in the order of importance: SlotGate and ExecutionGate; McpProtocol; McpServer;
StdioTransport and FrameScanner; Schemas, Contracts, ContractCompare and ContractReview;
AsyncParse; Snapshots, Counterexamples and JsonSchemas under ContractReview;
AsyncSequence and LazyGraph; HttpBoundary and ApiCall. Every safety property of all
but the contract modules is proved; of those, the comparison rules, snapshots,
anonymous checks and witnesses.

For the proofs two models became finer, which brought them closer to the code: a step of
AsyncParse is one pass of a loop, and a walk of LazyGraph visits one schema at a time. The
synchronous parses and the strings of the scanner became folds and functions over
positions in place of recursive operators, and the recursive operators of the contract
modules became constants with a rule.

Next, proofs:

1. The equality shortcuts of both formats, so that SafeIsContained is a theorem of the
   reports and not of the comparison alone.
2. ConnectionIsSound for connections whose bound emits no undefined: it takes the upper
   reading of an output bound and SafeContracts.
3. InputExportIsExact in one dialect, for contracts without references.
4. Operators of HttpBoundary: the synchronous recovery against the asynchronous one.

Later, modelling: the MCP handler over the gate, paging of inspections, the review
command of the command line over a batch of contracts one of which fails.
