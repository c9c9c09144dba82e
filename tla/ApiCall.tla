------------------------------- MODULE ApiCall -------------------------------
(***************************************************************************)
(* One call of a generated API client (packages/api/src/client.ts:         *)
(* callEndpoint), from the caller's input to its result, over the HTTP     *)
(* contract of the endpoint and a transport that may refuse, hang, answer  *)
(* with any status or cut the body off.                                    *)
(*                                                                         *)
(* One step runs from one await to the next.  The caller still owns the    *)
(* sections of its input and may change what is in them, and may abort.    *)
(* The output of a section is a copy that was made while it was parsed; of *)
(* a schema like unknown() it is the section itself.                       *)
(***************************************************************************)
EXTENDS HttpBoundary

CONSTANTS Endpoints,   \* endpoints: what they declare and how they answer
          Empty,       \* the value {}
          Lossy,       \* the values that have no form on the wire
          MaxChanges   \* bound: the changes the caller makes

ASSUME ClientAssumption ==
  /\ Empty \in Values \ {Nothing}
  /\ Lossy \subseteq Values \ {Nothing}
  /\ MaxChanges \in Nat
  /\ \A e \in Endpoints :
       /\ e.declared \subseteq {"params", "query", "body", "headers"}
       /\ e.live \in BOOLEAN
       /\ DOMAIN e.responses \subseteq Statuses
       /\ Range(e.responses) \subseteq {"json", "no body"}

VARIABLES
  endpoint,  \* the endpoint that is called
  given,     \* the input as it was at the call
  held,      \* the sections of it as they are
  changes,   \* changes the caller made
  aborted,   \* the signal
  section,   \* the section that is parsed
  value,     \* what it was when its parse began
  parsed,    \* what safeParseRequestAsync has so far
  sent,      \* the requests given to fetch
  reply,     \* what came back
  result,    \* what the caller gets
  stage      \* what is awaited

caller == <<endpoint, given>>
client == <<endpoint, given, held, changes, aborted, section, value, parsed, sent, reply, result, stage>>
vars == <<client, recovery>>

Stages == {"idle", "section", "parsed", "fetch", "cancel", "text", "response", "done"}

\* Everything a client may pass: a declared section may be absent, and there may be
\* a property that is none.
ClientInputs(e) == UNION {[keys -> Values] : keys \in SUBSET (e.declared \cup {"other"})}

\* The texts a response may have, apart from JSON: no text, none that is JSON, text of
\* another type, and a body that breaks off.
Texts == {"empty", "malformed", "untyped", "torn"}
Replies == [status : Statuses, text : Texts \cup {"json"}, value : Values]
NoReply == [status |-> "none", text |-> "torn", value |-> Nothing]
NoResult == [kind |-> "none"]

\* The contract that httpEndpoint makes of the statuses with a body.
ContractOf(e) ==
  [mapped |-> TRUE, responses |-> {s \in DOMAIN e.responses : e.responses[s] = "json"}, default |-> "none"]

\* What callEndpoint hands to the contract.
RequestOf(input) ==
  [s \in Range(Sections) |->
     CASE s \in DOMAIN input /\ input[s] # Nothing -> input[s]
       [] s \in {"body", "cookies"} -> Nothing
       [] OTHER -> Empty]

TypeOK ==
  /\ endpoint \in Endpoints
  /\ given \in ClientInputs(endpoint)
  /\ held \in [Range(Sections) -> Values]
  /\ changes \in 0..MaxChanges
  /\ aborted \in BOOLEAN
  /\ section \in 1 .. Len(Sections) + 1
  /\ value \in Values
  /\ DOMAIN parsed.output \subseteq Range(Sections) /\ Range(parsed.output) \subseteq Values
  /\ parsed.issues \in Seq(Range(Sections)) /\ parsed.warnings \in Seq(Range(Sections))
  /\ reply \in Replies \cup {NoReply}
  /\ stage \in Stages

ClientIdle ==
  /\ held = [s \in Range(Sections) |-> Nothing]
  /\ changes = 0
  /\ aborted = FALSE
  /\ section = 1
  /\ value = Nothing
  /\ parsed = NothingParsed
  /\ sent = <<>>
  /\ reply = NoReply
  /\ result = NoResult

\* A call of the client, or the recovery of a response: nothing is shared.
Init ==
  /\ ClientIdle
  /\ endpoint \in Endpoints
  /\ \/ /\ given \in ClientInputs(endpoint)
        /\ stage = "idle"
        /\ RecoveryIdle
     \/ /\ given = <<>>
        /\ stage = "done"
        /\ endpoint = CHOOSE e \in Endpoints : TRUE
        /\ RecoveryInit

-----------------------------------------------------------------------------
(* The request. *)

Settle(r) == result' = r /\ stage' = "done"

Fails(kind) == Settle([kind |-> kind, warnings |-> parsed.warnings])

\* The sections from index i on: those without a schema are passed over, the next one
\* is read and its parse is awaited.
ParseFrom(i, sections) ==
  LET declared == {j \in i..Len(Sections) : Sections[j] \in endpoint.declared}
  IN IF declared = {}
     THEN section' = Len(Sections) + 1 /\ stage' = "parsed" /\ UNCHANGED value
     ELSE LET next == CHOOSE j \in declared : \A k \in declared : j <= k
          IN section' = next /\ stage' = "section" /\ value' = sections[Sections[next]]

Call ==
  /\ stage = "idle"
  /\ IF DOMAIN given \subseteq endpoint.declared
     THEN held' = RequestOf(given) /\ ParseFrom(1, held') /\ UNCHANGED result
     ELSE Fails("serialization") /\ UNCHANGED <<held, section, value>>
  /\ UNCHANGED <<caller, changes, aborted, parsed, sent, reply, recovery>>

\* mutant: a section that is refused loses its warnings
SectionSettlesForgetting ==
  /\ stage = "section"
  /\ LET parse == ParseSection(parsed, Sections[section], value)
     IN parsed' = IF value \in Accepted[Sections[section]] THEN parse
                  ELSE [parse EXCEPT !.warnings = parsed.warnings]
  /\ ParseFrom(section + 1, held)
  /\ UNCHANGED <<caller, held, changes, aborted, sent, reply, result, recovery>>

\* A section is parsed as it was when the parse began, or as it has become since.
SectionSettles ==
  /\ stage = "section"
  /\ \E v \in {value, held[Sections[section]]} : parsed' = ParseSection(parsed, Sections[section], v)
  /\ ParseFrom(section + 1, held)
  /\ UNCHANGED <<caller, held, changes, aborted, sent, reply, result, recovery>>

\* The data of the request: what was parsed, or the body itself.
Data(s) == IF s = "body" /\ endpoint.live THEN held[s] ELSE parsed.output[s]

\* mutant: the request is built from the input
SendInput ==
  LET wire == [s \in {s \in endpoint.declared : held[s] # Nothing} |-> held[s]]
  IN /\ stage = "parsed"
     /\ IF parsed.issues # <<>> THEN Fails("request-validation") /\ UNCHANGED sent
        ELSE IF Range(wire) \cap Lossy # {} THEN Fails("serialization") /\ UNCHANGED sent
        ELSE sent' = Append(sent, wire) /\ stage' = "fetch" /\ UNCHANGED result
     /\ UNCHANGED <<caller, held, changes, aborted, section, value, parsed, reply, recovery>>

\* safeParseRequestAsync has resolved: the request is built and given to fetch.
Send ==
  LET wire == [s \in {s \in endpoint.declared : Data(s) # Nothing} |-> Data(s)]
  IN /\ stage = "parsed"
     /\ IF parsed.issues # <<>> THEN Fails("request-validation") /\ UNCHANGED sent
        ELSE IF Range(wire) \cap Lossy # {} THEN Fails("serialization") /\ UNCHANGED sent
        ELSE sent' = Append(sent, wire) /\ stage' = "fetch" /\ UNCHANGED result
     /\ UNCHANGED <<caller, held, changes, aborted, section, value, parsed, reply, recovery>>

-----------------------------------------------------------------------------
(* The response. *)

\* mutant: the signal does not reach fetch
FetchFailsUnaborted ==
  /\ stage = "fetch" /\ ~aborted
  /\ Fails("network")
  /\ UNCHANGED <<caller, held, changes, aborted, section, value, parsed, sent, reply, recovery>>

\* fetch rejects, at once or because it was aborted.
FetchFails ==
  /\ stage = "fetch"
  /\ Fails("network")
  /\ UNCHANGED <<caller, held, changes, aborted, section, value, parsed, sent, reply, recovery>>

FetchAnswers(r) ==
  /\ stage = "fetch" /\ ~aborted
  /\ reply' = r
  /\ stage' = IF r.status \in DOMAIN endpoint.responses THEN "text" ELSE "cancel"
  /\ UNCHANGED <<caller, held, changes, aborted, section, value, parsed, sent, result, recovery>>

\* The body of a response with an undeclared status is discarded; that may fail, too.
CancelSettles ==
  /\ stage = "cancel"
  /\ Settle([kind |-> "unexpected-status", status |-> reply.status, warnings |-> parsed.warnings])
  /\ UNCHANGED <<caller, held, changes, aborted, section, value, parsed, sent, reply, recovery>>

\* Whether a text is what the endpoint declares for the status.
Decodes(r) ==
  IF endpoint.responses[r.status] = "no body" THEN r.text = "empty" ELSE r.text = "json"

\* response.text() settles; after an abort it may break off.
TextSettles ==
  /\ stage = "text"
  /\ \/ /\ ~Decodes(reply) \/ aborted
        /\ Settle([kind |-> "decoding", status |-> reply.status, warnings |-> parsed.warnings])
     \/ /\ Decodes(reply) /\ endpoint.responses[reply.status] = "no body"
        /\ Settle([kind |-> "success", status |-> reply.status, data |-> Nothing,
                   warnings |-> parsed.warnings, noted |-> FALSE])
     \/ /\ Decodes(reply) /\ endpoint.responses[reply.status] = "json"
        /\ stage' = "response"
        /\ UNCHANGED result
  /\ UNCHANGED <<caller, held, changes, aborted, section, value, parsed, sent, reply, recovery>>

ResponseSettles ==
  LET parse == SafeParseResponse(ContractOf(endpoint), reply.value, reply.status)
  IN /\ stage = "response"
     /\ Settle(IF parse.ok
               THEN [kind |-> "success", status |-> reply.status, data |-> parse.data,
                     warnings |-> parsed.warnings, noted |-> parse.warned]
               ELSE [kind |-> "response-validation", status |-> reply.status,
                     warnings |-> parsed.warnings])
     /\ UNCHANGED <<caller, held, changes, aborted, section, value, parsed, sent, reply, recovery>>

\* A lazy schema has no schema (LazyGraph.Refuse): its parse rejects, and so does the
\* promise of the call.
ParseThrows ==
  /\ stage \in {"section", "response"}
  /\ Settle([kind |-> "thrown"])
  /\ UNCHANGED <<caller, held, changes, aborted, section, value, parsed, sent, reply, recovery>>

-----------------------------------------------------------------------------
(* The caller. *)

Working == stage \notin {"idle", "done"}

Change(s, v) ==
  /\ Working /\ sent = <<>> /\ changes < MaxChanges
  /\ s \in endpoint.declared /\ held[s] # Nothing
  /\ held' = [held EXCEPT ![s] = v]
  /\ changes' = changes + 1
  /\ UNCHANGED <<caller, aborted, section, value, parsed, sent, reply, result, stage, recovery>>

Abort ==
  /\ Working /\ ~aborted
  /\ aborted' = TRUE
  /\ UNCHANGED <<caller, held, changes, section, value, parsed, sent, reply, result, stage, recovery>>

CallNext ==
  \/ Call \/ SectionSettles \/ Send
  \/ FetchFails \/ \E r \in Replies : FetchAnswers(r)
  \/ CancelSettles \/ TextSettles \/ ResponseSettles \/ ParseThrows
  \/ \E s \in Range(Sections), v \in Values \ {Nothing} : Change(s, v)
  \/ Abort

Next == CallNext \/ (RecoveryNext /\ UNCHANGED client)

\* Rules and discarded bodies settle.  A transport settles once it is aborted.
Fairness ==
  /\ WF_vars(SectionSettles) /\ WF_vars(Send) /\ WF_vars(CancelSettles) /\ WF_vars(ResponseSettles)
  /\ WF_vars(aborted /\ FetchFails) /\ WF_vars(aborted /\ TextSettles)

Spec == Init /\ [][Next]_vars /\ Fairness

-----------------------------------------------------------------------------
(* Properties. *)

\* "Invalid input stops before fetch", and there is "no automatic retry": at most one
\* request leaves the client, of declared sections only, every one of them accepted
\* by its schema and representable, whatever the caller does to its input meanwhile.
\* The body of a schema that passes it on as it is may change until it is written.
NothingSentUnvalidated ==
  /\ Len(sent) <= 1
  /\ sent # <<>> =>
       /\ parsed.issues = <<>>
       /\ DOMAIN given \subseteq endpoint.declared
       /\ endpoint.declared \ {"body"} \subseteq DOMAIN sent[1]
       /\ \A s \in DOMAIN sent[1] :
            /\ s \in endpoint.declared
            /\ sent[1][s] \notin Lossy
            /\ sent[1][s] \in Accepted[s] \/ (s = "body" /\ endpoint.live)

\* The kind of a result tells how far the call came and why it ended there; a
\* success has a declared status and data that the schema of that status accepted,
\* or no body where none is declared.
HasCause ==
  LET declared == reply.status \in DOMAIN endpoint.responses
      answer == endpoint.responses[reply.status]
      typed == reply.value \in Accepted[reply.status]
  IN CASE result.kind = "request-validation" -> sent = <<>> /\ parsed.issues # <<>>
       [] result.kind = "serialization" -> sent = <<>> /\ parsed.issues = <<>>
       [] result.kind = "network" -> sent # <<>> /\ reply = NoReply
       [] result.kind = "unexpected-status" -> reply # NoReply /\ ~declared
       [] result.kind = "decoding" ->
            declared /\ (aborted \/ reply.text # IF answer = "json" THEN "json" ELSE "empty")
       [] result.kind = "response-validation" -> declared /\ answer = "json" /\ ~typed
       [] result.kind = "success" ->
            /\ declared /\ sent # <<>>
            /\ IF answer = "json"
               THEN reply.text = "json" /\ typed /\ result.data = reply.value
                    /\ result.noted = (reply.value \in Noted[reply.status])
               ELSE reply.text = "empty" /\ result.data = Nothing
       [] result.kind = "thrown" ->
            sent = <<>> \/ (declared /\ answer = "json" /\ reply.text = "json")
       [] OTHER -> TRUE

\* The caller got a result.
Fulfilled == result.kind \notin {"none", "thrown"}

\* The diagnostics of the request, which every result carries, are those of the
\* synchronous parse in its order when the caller leaves its input alone.
AgreesWithSync ==
  stage = "done" /\ changes = 0 /\ DOMAIN given \subseteq endpoint.declared /\ Fulfilled =>
    /\ parsed = SafeParseRequest(endpoint.declared, RequestOf(given))
    /\ result.warnings = parsed.warnings

\* A caller is told the truth: the kind of a result names what ended the call, a
\* success carries validated data, and the diagnostics of the request are complete.
ResultHasCause == HasCause /\ AgreesWithSync

\* "The signal reaches fetch": a call that is aborted ends.
AbortedCallEnds == aborted ~> (stage = "done")

=============================================================================
