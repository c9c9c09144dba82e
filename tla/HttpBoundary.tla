----------------------------- MODULE HttpBoundary -----------------------------
(***************************************************************************)
(* HTTP contracts (packages/http/src/index.ts): the sections of a request, *)
(* the schema of a response by its status, and the recovery of a response  *)
(* by a fallback, which is a process of its own here.                      *)
(*                                                                         *)
(* A schema is known by what it is the schema of: a section, a status, or  *)
(* "default", the one for every other status.  It accepts some values, and *)
(* some values make it warn.  Paths and texts of issues are left out: an   *)
(* issue is the section that it came from.                                 *)
(***************************************************************************)
EXTENDS Integers, Sequences, FiniteSets, SequencesExt

CONSTANTS Values,     \* what a section, a body or a fallback may be
          Nothing,    \* undefined
          Statuses,   \* the status codes that occur
          Accepted,   \* the values a schema accepts, by schema
          Noted       \* the values a schema warns about, by schema

Sections == <<"params", "query", "body", "headers", "cookies">>
SchemaNames == Range(Sections) \cup Statuses \cup {"default"}

ASSUME HttpAssumption ==
  /\ Nothing \in Values
  /\ Statuses \cap {"default", "none"} = {}
  /\ Accepted \in [SchemaNames -> SUBSET Values]
  /\ Noted \in [SchemaNames -> SUBSET Values]

-----------------------------------------------------------------------------
(* Requests. *)

NothingParsed == [output |-> <<>>, issues |-> <<>>, warnings |-> <<>>]

\* parseRequestSection: of a section that has a schema.
ParseSection(parsed, section, v) ==
  [output |-> IF v \in Accepted[section]
              THEN [s \in DOMAIN parsed.output \cup {section} |->
                      IF s = section THEN v ELSE parsed.output[s]]
              ELSE parsed.output,
   issues |-> IF v \in Accepted[section] THEN parsed.issues ELSE Append(parsed.issues, section),
   warnings |-> IF v \in Noted[section] THEN Append(parsed.warnings, section) ELSE parsed.warnings]

\* safeParseRequest
SafeParseRequest(declared, request) ==
  LET Parse(parsed, section) ==
        IF section \in declared THEN ParseSection(parsed, section, request[section]) ELSE parsed
      params == Parse(NothingParsed, "params")
      query == Parse(params, "query")
      body == Parse(query, "body")
      headers == Parse(body, "headers")
  IN Parse(headers, "cookies")

-----------------------------------------------------------------------------
(* Responses.  A contract has schemas for some statuses, if it maps statuses at *)
(* all, and perhaps a default.                                                   *)

Contracts == {c \in [mapped : BOOLEAN, responses : SUBSET Statuses, default : {"default", "none"}] :
                ~c.mapped => c.responses = {}}

\* selectResponseSchema
SelectResponseSchema(c, status) ==
  IF status \in c.responses THEN status ELSE c.default

Failed(error) == [ok |-> FALSE, data |-> Nothing, warned |-> FALSE, error |-> error]

\* safeParseResponse
SafeParseResponse(c, v, status) ==
  LET schema == SelectResponseSchema(c, status)
  IN CASE schema # "none" /\ v \in Accepted[schema] ->
            [ok |-> TRUE, data |-> v, warned |-> v \in Noted[schema], error |-> "none"]
       [] schema # "none" /\ v \notin Accepted[schema] ->
            [Failed("invalid") EXCEPT !.warned = v \in Noted[schema]]
       [] schema = "none" /\ c.mapped /\ status # "none" -> Failed("status")
       [] OTHER -> [ok |-> TRUE, data |-> v, warned |-> FALSE, error |-> "none"]

-----------------------------------------------------------------------------
(* recoverHttpResponseAsync.  The options are an object of the caller: the status *)
(* and an eager fallback are read when they are needed.                            *)

VARIABLES
  contract,   \* the contract
  network,    \* the value that came over the network
  options,    \* the options as they are
  asked,      \* the options as they were at the call
  judged,     \* the outcome of the parse that is awaited
  fallback,   \* the fallback, and the status under which it is parsed
  called,     \* times getFallback was called
  outcome,    \* what the promise settles with
  awaiting    \* what recovery waits for

recovery == <<contract, network, options, asked, judged, fallback, called, outcome, awaiting>>

OptionSet ==
  [status : Statuses \cup {"none"}, given : {"fallback", "getFallback", "both", "neither"},
   value : Values]

NotOffered == [value |-> Nothing, status |-> "none"]
Pending == [kind |-> "pending"]

\* No response is recovered.
RecoveryIdle ==
  /\ contract = [mapped |-> FALSE, responses |-> {}, default |-> "none"]
  /\ network = Nothing
  /\ options = [status |-> "none", given |-> "neither", value |-> Nothing]
  /\ asked = options
  /\ judged = Failed("none")
  /\ fallback = NotOffered
  /\ called = 0
  /\ outcome = Pending
  /\ awaiting = "nothing"

RecoveryInit ==
  /\ contract \in Contracts
  /\ network \in Values
  /\ options \in OptionSet
  /\ asked = options
  /\ judged = Failed("none")
  /\ fallback = NotOffered
  /\ called = 0
  /\ outcome = Pending
  /\ awaiting = "call"

\* What a parse settles with decides what the caller is told.
Valid(parse) == [kind |-> "valid", data |-> parse.data, warned |-> parse.warned]
Recovered(parse, error) ==
  [kind |-> "recovered", data |-> parse.data, warned |-> parse.warned, networkError |-> error]
Unavailable(parse, error) ==
  [kind |-> "unavailable", networkError |-> error, fallbackError |-> parse.error]
Thrown == [kind |-> "thrown"]

RecoverCall ==
  /\ awaiting = "call"
  /\ IF options.given \in {"both", "neither"}
     THEN outcome' = Thrown /\ awaiting' = "nothing" /\ UNCHANGED judged
     ELSE /\ judged' = SafeParseResponse(contract, network, options.status)
          /\ awaiting' = "network"
          /\ UNCHANGED outcome
  /\ UNCHANGED <<contract, network, options, asked, fallback, called>>

NetworkIsValid ==
  /\ awaiting = "network" /\ judged.ok
  /\ outcome' = Valid(judged)
  /\ awaiting' = "nothing"
  /\ UNCHANGED <<contract, network, options, asked, judged, fallback, called>>

Offer(v) ==
  /\ fallback' = [value |-> v, status |-> options.status]
  /\ awaiting' = "fallback"

\* getFallback is only called now; it returns a value, or throws.
AskForFallback ==
  /\ awaiting = "network" /\ ~judged.ok
  /\ \/ options.given = "fallback" /\ Offer(options.value) /\ UNCHANGED <<called, outcome>>
     \/ /\ options.given = "getFallback"
        /\ called' = called + 1
        /\ \/ \E v \in Values : Offer(v) /\ UNCHANGED outcome
           \/ outcome' = Thrown /\ awaiting' = "nothing" /\ UNCHANGED fallback
  /\ UNCHANGED <<contract, network, options, asked, judged>>

\* mutant: the fallback is trusted
FallbackSettlesTrusting ==
  /\ awaiting = "fallback"
  /\ outcome' = Recovered([SafeParseResponse(contract, fallback.value, fallback.status)
                             EXCEPT !.data = fallback.value], judged.error)
  /\ awaiting' = "nothing"
  /\ UNCHANGED <<contract, network, options, asked, judged, fallback, called>>

FallbackSettles ==
  LET parse == SafeParseResponse(contract, fallback.value, fallback.status)
  IN /\ awaiting = "fallback"
     /\ outcome' = IF parse.ok THEN Recovered(parse, judged.error) ELSE Unavailable(parse, judged.error)
     /\ awaiting' = "nothing"
     /\ UNCHANGED <<contract, network, options, asked, judged, fallback, called>>

\* A lazy schema has no schema (LazyGraph.Refuse), so the parse that is awaited rejects.
ResponseThrows ==
  /\ awaiting \in {"network", "fallback"}
  /\ outcome' = Thrown
  /\ awaiting' = "nothing"
  /\ UNCHANGED <<contract, network, options, asked, judged, fallback, called>>

\* The caller reuses its options object for another call meanwhile.
ReuseOptions ==
  /\ awaiting \in {"network", "fallback"} /\ options = asked
  /\ \E s \in Statuses \cup {"none"}, v \in Values :
       options' = [options EXCEPT !.status = s, !.value = v]
  /\ UNCHANGED <<contract, network, asked, judged, fallback, called, outcome, awaiting>>

RecoveryNext ==
  \/ RecoverCall \/ NetworkIsValid \/ AskForFallback \/ FallbackSettles
  \/ ResponseThrows \/ ReuseOptions

-----------------------------------------------------------------------------
(* recoverHttpResponse, given what getFallback returns. *)
RecoverHttpResponse(c, v, o, offered) ==
  LET current == SafeParseResponse(c, v, o.status)
      second == SafeParseResponse(c, IF o.given = "fallback" THEN o.value ELSE offered, o.status)
  IN IF current.ok THEN Valid(current)
     ELSE IF second.ok THEN Recovered(second, current.error)
     ELSE Unavailable(second, current.error)

\* Recovery "validates a network value and, only after failure, an eager or lazy
\* fallback through the same contract and status": what it hands out was accepted,
\* the network value under the status of the call and a fallback under the status
\* of its parse, the same unless the caller reuses its options; the fallback is
\* asked for at most once, and never after a valid response.  Left alone, the
\* outcome is that of the synchronous recovery.
RecoveryIsValidated ==
  LET Accepts(v, status) == SafeParseResponse(contract, v, status).ok
  IN /\ outcome.kind = "valid" =>
          outcome.data = network /\ Accepts(network, asked.status) /\ called = 0
     /\ outcome.kind = "recovered" =>
          /\ ~Accepts(network, asked.status)
          /\ Accepts(outcome.data, fallback.status)
          /\ options = asked => Accepts(outcome.data, asked.status)
     /\ called <= 1
     /\ outcome.kind \notin {"pending", "thrown"} /\ options = asked =>
          outcome = RecoverHttpResponse(contract, network, asked, fallback.value)

=============================================================================
