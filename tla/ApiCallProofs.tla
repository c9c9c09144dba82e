---------------------------- MODULE ApiCallProofs ----------------------------
(***************************************************************************)
(* Proofs about ApiCall and the recovery of HttpBoundary, for every set of *)
(* values, statuses and endpoints, whatever the schemas accept and however *)
(* often the caller changes its input.                                     *)
(***************************************************************************)
EXTENDS ApiCall, TLAPS

-----------------------------------------------------------------------------
(* Recovery. *)

RecoveryTypes ==
  /\ options \in OptionSet
  /\ called \in {0, 1}
  /\ awaiting \in {"call", "network", "fallback", "nothing"}

\* While recovery waits: nothing is settled, and what it waits for is known.
Waiting ==
  /\ awaiting # "nothing" => outcome = Pending
  /\ awaiting \in {"call", "network"} => called = 0
  /\ awaiting = "call" => options = asked
  /\ awaiting \in {"network", "fallback"} =>
       /\ options.given = asked.given
       /\ judged = SafeParseResponse(contract, network, asked.status)
  /\ awaiting = "fallback" =>
       /\ ~judged.ok
       /\ options = asked => /\ fallback.status = asked.status
                             /\ asked.given = "fallback" => fallback.value = asked.value

RecoveryInv == RecoveryTypes /\ Waiting /\ RecoveryIsValidated

\* A parse that succeeds hands out the value that it was given.
LEMMA ParsedIsGiven ==
  ASSUME NEW c, NEW v, NEW status, SafeParseResponse(c, v, status).ok
  PROVE  SafeParseResponse(c, v, status).data = v
  BY DEF SafeParseResponse, Failed

\* Before a call nothing is settled, and the options are those of the call.
LEMMA RecoveryStarts ==
  RecoveryIdle \/ RecoveryInit => RecoveryInv
<1>1. ASSUME RecoveryIdle \/ RecoveryInit
      PROVE  /\ options \in OptionSet /\ options = asked /\ called = 0
             /\ outcome = Pending /\ awaiting \in {"call", "nothing"}
  <2>1. CASE RecoveryIdle
    BY <2>1, HttpAssumption DEF RecoveryIdle, OptionSet
  <2>2. CASE RecoveryInit
    BY <2>2 DEF RecoveryInit
  <2>3. QED
    BY <1>1, <2>1, <2>2
<1>2. ASSUME RecoveryIdle \/ RecoveryInit PROVE RecoveryTypes /\ Waiting
  BY <1>1, <1>2 DEF RecoveryTypes, Waiting
<1>3. ASSUME RecoveryIdle \/ RecoveryInit PROVE RecoveryIsValidated
  BY <1>1, <1>3 DEF RecoveryIsValidated, Pending
<1>4. QED
  BY <1>2, <1>3 DEF RecoveryInv

\* Every step of a recovery, and of the caller who reuses its options, keeps that.
LEMMA RecoveryKept ==
  RecoveryInv /\ [RecoveryNext]_recovery => RecoveryInv'
<1> SUFFICES ASSUME RecoveryInv, [RecoveryNext]_recovery PROVE RecoveryInv'
  OBVIOUS
<1> USE DEF RecoveryInv
<1>1. CASE RecoverCall
  <2>1. RecoveryTypes'
    BY <1>1 DEF RecoverCall, RecoveryTypes
  <2>2. Waiting'
    BY <1>1 DEF RecoverCall, RecoveryTypes, Waiting
  <2>3. RecoveryIsValidated'
    BY <1>1 DEF RecoverCall, RecoveryTypes, Waiting, RecoveryIsValidated, Thrown, Pending
  <2>4. QED
    BY <2>1, <2>2, <2>3
<1>2. CASE NetworkIsValid
  <2>1. RecoveryTypes' /\ Waiting'
    BY <1>2 DEF NetworkIsValid, RecoveryTypes, Waiting
  <2>2. /\ judged = SafeParseResponse(contract, network, asked.status)
        /\ judged.ok /\ judged.data = network
        /\ called = 0
    BY <1>2, ParsedIsGiven DEF NetworkIsValid, Waiting
  <2>3. RecoveryIsValidated'
    BY <1>2, <2>2 DEF NetworkIsValid, RecoveryIsValidated, Valid, RecoverHttpResponse
  <2>4. QED
    BY <2>1, <2>3
<1>3. CASE AskForFallback
  <2>1. RecoveryTypes'
    BY <1>3 DEF AskForFallback, Offer, RecoveryTypes, Waiting
  <2>2. Waiting'
    BY <1>3 DEF AskForFallback, Offer, RecoveryTypes, Waiting
  <2>3. RecoveryIsValidated'
    BY <1>3 DEF AskForFallback, Offer, RecoveryTypes, Waiting, RecoveryIsValidated, Thrown, Pending
  <2>4. QED
    BY <2>1, <2>2, <2>3
<1>4. CASE FallbackSettles
  <2> DEFINE parse == SafeParseResponse(contract, fallback.value, fallback.status)
  <2>1. RecoveryTypes' /\ Waiting'
    BY <1>4 DEF FallbackSettles, RecoveryTypes, Waiting
  <2>2. /\ judged = SafeParseResponse(contract, network, asked.status)
        /\ ~judged.ok
        /\ options = asked => /\ fallback.status = asked.status
                              /\ asked.given = "fallback" => fallback.value = asked.value
        /\ parse.ok => parse.data = fallback.value
    BY <1>4, ParsedIsGiven DEF FallbackSettles, Waiting
  <2>3. ASSUME parse.ok PROVE RecoveryIsValidated'
    BY <1>4, <2>2, <2>3
       DEF FallbackSettles, RecoveryIsValidated, RecoveryTypes, Recovered, RecoverHttpResponse
  <2>4. ASSUME ~parse.ok PROVE RecoveryIsValidated'
    BY <1>4, <2>2, <2>4
       DEF FallbackSettles, RecoveryIsValidated, RecoveryTypes, Unavailable, RecoverHttpResponse
  <2>5. QED
    BY <2>1, <2>3, <2>4
<1>5. CASE ReuseOptions
  BY <1>5 DEF ReuseOptions, RecoveryTypes, Waiting, RecoveryIsValidated, OptionSet, Pending
<1>6. CASE ResponseThrows
  BY <1>6 DEF ResponseThrows, RecoveryTypes, Waiting, RecoveryIsValidated, Thrown, Pending
<1>7. CASE UNCHANGED recovery
  BY <1>7 DEF recovery, RecoveryTypes, Waiting, RecoveryIsValidated
<1>8. QED
  BY <1>1, <1>2, <1>3, <1>4, <1>5, <1>6, <1>7 DEF RecoveryNext

\* What a recovery hands out was accepted by the contract, in every interleaving
\* with the caller who reuses its options (recoverHttpResponseAsync).
THEOREM RecoveryValidated == Spec => []RecoveryIsValidated
<1>1. Init => RecoveryInv
  BY RecoveryStarts DEF Init
<1>2. RecoveryInv /\ [Next]_vars => RecoveryInv'
  <2>1. [Next]_vars => [RecoveryNext]_recovery
    BY DEF Next, vars, recovery, CallNext, Call, SectionSettles, Send, FetchFails, FetchAnswers,
           CancelSettles, TextSettles, ResponseSettles, ParseThrows, Change, Abort
  <2>2. QED
    BY <2>1, RecoveryKept
<1>3. RecoveryInv => RecoveryIsValidated
  BY DEF RecoveryInv
<1>4. QED
  BY <1>1, <1>2, <1>3, PTL DEF Spec

-----------------------------------------------------------------------------
(* The call. *)

\* What has been parsed: of declared sections, accepted by their schemas, and the
\* value of a section that always has one.
ParsedIsAccepted ==
  \A s \in DOMAIN parsed.output :
    /\ s \in endpoint.declared
    /\ parsed.output[s] \in Accepted[s]
    /\ s # "body" => parsed.output[s] # Nothing

\* The sections before index i are parsed, or an issue says that one was refused.
ParsedBefore(i) ==
  parsed.issues = <<>> =>
    \A j \in 1 .. i - 1 : Sections[j] \in endpoint.declared => Sections[j] \in DOMAIN parsed.output

\* Once called and before anything is sent, every section but the body has a value.
Parsing ==
  stage \in {"section", "parsed"} =>
    /\ endpoint \in Endpoints
    /\ DOMAIN given \subseteq endpoint.declared
    /\ DOMAIN held = Range(Sections)
    /\ \A s \in Range(Sections) \ {"body", "cookies"} : held[s] # Nothing
    /\ ParsedIsAccepted

InSection ==
  stage = "section" =>
    /\ section \in 1 .. Len(Sections)
    /\ Sections[section] \in endpoint.declared
    /\ Sections[section] # "body" => value # Nothing
    /\ ParsedBefore(section)

AllParsed == stage = "parsed" => ParsedBefore(Len(Sections) + 1)

Unsent ==
  /\ stage \in {"idle", "section", "parsed"} => sent = <<>>
  /\ stage = "idle" => endpoint \in Endpoints /\ parsed = NothingParsed

CallInv == Parsing /\ InSection /\ AllParsed /\ Unsent /\ NothingSentUnvalidated

\* The sections by name.
LEMMA SectionFacts ==
  /\ Len(Sections) = 5
  /\ Range(Sections) = {"params", "query", "body", "headers", "cookies"}
  /\ \A i \in 1..5 : Sections[i] \in Range(Sections)
<1>1. Len(Sections) = 5 /\ DOMAIN Sections = 1..5
  BY DEF Sections
<1>2. /\ Sections[1] = "params" /\ Sections[2] = "query" /\ Sections[3] = "body"
      /\ Sections[4] = "headers" /\ Sections[5] = "cookies"
  BY DEF Sections
<1>3. Range(Sections) = {Sections[i] : i \in 1..5}
  BY <1>1 DEF Range
<1>4. \A i \in 1..5 : i = 1 \/ i = 2 \/ i = 3 \/ i = 4 \/ i = 5
  OBVIOUS
<1>5. QED
  BY <1>1, <1>2, <1>3, <1>4

\* ParseSection adds a section to the output, or an issue.
LEMMA SectionParsed ==
  ASSUME NEW before, NEW s, NEW v
  PROVE  LET after == ParseSection(before, s, v)
         IN /\ \A t \in DOMAIN after.output :
                 \/ t \in DOMAIN before.output /\ after.output[t] = before.output[t]
                 \/ t = s /\ after.output[t] = v /\ v \in Accepted[s]
            /\ after.issues = <<>> =>
                 /\ before.issues = <<>>
                 /\ DOMAIN after.output = DOMAIN before.output \cup {s}
<1>1. CASE v \in Accepted[s]
  BY <1>1 DEF ParseSection
<1>2. CASE v \notin Accepted[s]
  BY <1>2 DEF ParseSection
<1>3. QED
  BY <1>1, <1>2

\* Only a request's params, query, body and headers are declared by an endpoint.
LEMMA DeclaredSections ==
  ASSUME NEW e \in Endpoints
  PROVE  e.declared \subseteq Range(Sections) \ {"cookies"}
  BY ClientAssumption, SectionFacts

\* Of some sections, one is the first.
LEMMA FirstSection ==
  ASSUME NEW S \in SUBSET (1..5), S # {}
  PROVE  \E j \in S : \A k \in S : j <= k
<1>1. PICK x \in S : TRUE
  OBVIOUS
<1>2. CASE 1 \in S
  BY <1>2
<1>3. CASE 1 \notin S /\ 2 \in S
  BY <1>3
<1>4. CASE 1 \notin S /\ 2 \notin S /\ 3 \in S
  BY <1>4
<1>5. CASE 1 \notin S /\ 2 \notin S /\ 3 \notin S /\ 4 \in S
  BY <1>5
<1>6. CASE 1 \notin S /\ 2 \notin S /\ 3 \notin S /\ 4 \notin S
  BY <1>1, <1>6
<1>7. QED
  BY <1>2, <1>3, <1>4, <1>5, <1>6

\* Passing on to the next section: those that are passed over have no schema.
LEMMA Onward ==
  ASSUME NEW i \in 1..6, ParseFrom(i, held'), ParsedBefore(i)',
         endpoint' = endpoint, endpoint \in Endpoints,
         \A s \in Range(Sections) \ {"body", "cookies"} : held'[s] # Nothing
  PROVE  InSection' /\ AllParsed' /\ stage' \in {"section", "parsed"}
<1> DEFINE left == {j \in i..5 : Sections[j] \in endpoint.declared}
           next == CHOOSE j \in left : \A k \in left : j <= k
<1>1. IF left = {}
      THEN stage' = "parsed"
      ELSE section' = next /\ stage' = "section" /\ value' = held'[Sections[next]]
  BY SectionFacts DEF ParseFrom
<1>2. \A j \in 1 .. i - 1 :
        parsed'.issues = <<>> /\ Sections[j] \in endpoint.declared =>
          Sections[j] \in DOMAIN parsed'.output
  BY DEF ParsedBefore
<1>3. CASE left = {}
  <2>1. \A j \in 1..5 : j \notin 1 .. i - 1 => Sections[j] \notin endpoint.declared
    BY <1>3
  <2>2. ParsedBefore(6)'
    BY <1>2, <2>1 DEF ParsedBefore
  <2>3. QED
    BY <1>1, <1>3, <2>2, SectionFacts DEF InSection, AllParsed
<1>4. CASE left # {}
  <2>1. left \in SUBSET (1..5)
    OBVIOUS
  <2>2. next \in left /\ \A k \in left : next <= k
    BY <1>4, <2>1, FirstSection
  <2>3. PICK n \in 1..5 : n = next
    BY <2>2
  <2>4. section' = n /\ stage' = "section" /\ value' = held'[Sections[n]]
    BY <1>1, <1>4, <2>3
  <2>5. n \in left /\ \A k \in left : n <= k
    BY <2>2, <2>3
  <2> HIDE DEF next
  <2>6. \A j \in 1 .. n - 1 : j \notin 1 .. i - 1 => Sections[j] \notin endpoint.declared
    BY <2>5
  <2>7. ParsedBefore(n)'
    BY <1>2, <2>6 DEF ParsedBefore
  <2>8. Sections[n] # "body" => held'[Sections[n]] # Nothing
    BY <2>5, DeclaredSections, SectionFacts
  <2>9. QED
    BY <2>4, <2>5, <2>7, <2>8, SectionFacts DEF InSection, AllParsed
<1>5. QED
  BY <1>3, <1>4, <1>1

\* A call is made with whatever was given; undefined sections get {} where they may.
LEMMA CallKept ==
  CallInv /\ Call => CallInv'
<1> SUFFICES ASSUME CallInv, Call PROVE CallInv'
  OBVIOUS
<1> USE DEF CallInv
<1>1. /\ stage = "idle" /\ endpoint' = endpoint /\ given' = given
      /\ parsed' = parsed /\ sent' = sent
  BY DEF Call, caller
<1>2. sent = <<>> /\ endpoint \in Endpoints /\ parsed = NothingParsed
  BY <1>1 DEF Unsent
<1>3. NothingSentUnvalidated'
  BY <1>1, <1>2 DEF NothingSentUnvalidated
<1>4. CASE DOMAIN given \subseteq endpoint.declared
  <2>1. held' = RequestOf(given) /\ ParseFrom(1, held')
    BY <1>4 DEF Call
  <2>2. /\ DOMAIN held' = Range(Sections)
        /\ \A s \in Range(Sections) \ {"body", "cookies"} : held'[s] # Nothing
    BY <2>1, ClientAssumption DEF RequestOf
  <2>3. ParsedBefore(1)'
    BY DEF ParsedBefore
  <2>4. InSection' /\ AllParsed' /\ stage' \in {"section", "parsed"}
    BY <1>1, <1>2, <2>1, <2>2, <2>3, Onward
  <2>5. ParsedIsAccepted'
    BY <1>1, <1>2 DEF ParsedIsAccepted, NothingParsed
  <2>6. Parsing' /\ Unsent'
    BY <1>1, <1>2, <1>4, <2>2, <2>4, <2>5 DEF Parsing, Unsent
  <2>7. QED
    BY <1>3, <2>4, <2>6
<1>5. CASE ~(DOMAIN given \subseteq endpoint.declared)
  <2>1. stage' = "done"
    BY <1>5 DEF Call, Fails, Settle
  <2>2. QED
    BY <1>3, <2>1 DEF Parsing, InSection, AllParsed, Unsent
<1>6. QED
  BY <1>4, <1>5

\* A section settles: it is in the output, accepted, or there is an issue.
LEMMA SectionSettlesKept ==
  CallInv /\ SectionSettles => CallInv'
<1> SUFFICES ASSUME CallInv, SectionSettles PROVE CallInv'
  OBVIOUS
<1> USE DEF CallInv
<1>1. /\ stage = "section" /\ endpoint' = endpoint /\ given' = given /\ held' = held
      /\ sent' = sent /\ ParseFrom(section + 1, held')
  BY DEF SectionSettles, caller
<1>2. /\ sent = <<>> /\ endpoint \in Endpoints /\ DOMAIN given \subseteq endpoint.declared
      /\ DOMAIN held = Range(Sections) /\ ParsedIsAccepted
      /\ \A s \in Range(Sections) \ {"body", "cookies"} : held[s] # Nothing
  BY <1>1 DEF Unsent, Parsing
<1>3. PICK i \in 1..5, s \in Range(Sections) : i = section /\ s = Sections[section]
  BY <1>1, SectionFacts DEF InSection
<1>4. /\ s \in endpoint.declared /\ (s # "body" => value # Nothing) /\ ParsedBefore(i)
  BY <1>1, <1>3 DEF InSection
<1>5. PICK v \in {value, held[s]} : parsed' = ParseSection(parsed, s, v)
  BY <1>3 DEF SectionSettles
<1>6. s # "body" => v # Nothing
  BY <1>2, <1>4, <1>5, DeclaredSections
<1>7. ParsedIsAccepted'
  BY <1>1, <1>2, <1>4, <1>5, <1>6, SectionParsed DEF ParsedIsAccepted
<1>8. ParsedBefore(i + 1)'
  <2>1. SUFFICES ASSUME parsed'.issues = <<>>, NEW j \in 1..i, Sections[j] \in endpoint.declared
                 PROVE  Sections[j] \in DOMAIN parsed'.output
    BY <1>1 DEF ParsedBefore
  <2>2. parsed.issues = <<>> /\ DOMAIN parsed'.output = DOMAIN parsed.output \cup {s}
    BY <1>5, <2>1, SectionParsed
  <2>3. CASE j = i
    BY <1>3, <2>2, <2>3
  <2>4. CASE j \in 1 .. i - 1
    BY <1>4, <2>1, <2>2, <2>4 DEF ParsedBefore
  <2>5. QED
    BY <2>3, <2>4
<1>9. InSection' /\ AllParsed' /\ stage' \in {"section", "parsed"}
  BY <1>1, <1>2, <1>3, <1>8, Onward
<1>10. Parsing' /\ Unsent'
  BY <1>1, <1>2, <1>7, <1>9 DEF Parsing, Unsent
<1>11. NothingSentUnvalidated'
  BY <1>1, <1>2 DEF NothingSentUnvalidated
<1>12. QED
  BY <1>9, <1>10, <1>11

\* What is sent is what was parsed, of every declared section.
LEMMA SendKept ==
  CallInv /\ Send => CallInv'
<1> SUFFICES ASSUME CallInv, Send PROVE CallInv'
  OBVIOUS
<1> USE DEF CallInv
<1> DEFINE wire == [s \in {s \in endpoint.declared : Data(s) # Nothing} |-> Data(s)]
<1>1. /\ stage = "parsed" /\ stage' \in {"fetch", "done"}
      /\ endpoint' = endpoint /\ given' = given /\ parsed' = parsed
  BY DEF Send, caller, Fails, Settle
<1>2. sent = <<>>
  BY <1>1 DEF Unsent
<1>3. Parsing' /\ InSection' /\ AllParsed' /\ Unsent'
  BY <1>1 DEF Parsing, InSection, AllParsed, Unsent
<1>4. CASE sent' = sent
  BY <1>2, <1>3, <1>4 DEF NothingSentUnvalidated
<1>5. CASE sent' # sent
  <2>1. parsed.issues = <<>> /\ Range(wire) \cap Lossy = {} /\ sent' = <<wire>>
    BY <1>2, <1>5 DEF Send
  <2>2. Len(sent') = 1 /\ sent'[1] = wire
    BY <2>1
  <2>3. /\ endpoint \in Endpoints /\ DOMAIN given \subseteq endpoint.declared /\ ParsedIsAccepted
    BY <1>1 DEF Parsing
  <2>4. endpoint.declared \subseteq DOMAIN parsed.output
    <3>1. SUFFICES ASSUME NEW s \in endpoint.declared PROVE s \in DOMAIN parsed.output
      OBVIOUS
    <3>2. PICK i \in 1..5 : s = Sections[i]
      BY <2>3, DeclaredSections, SectionFacts DEF Range, Sections
    <3>3. QED
      BY <1>1, <2>1, <3>2, SectionFacts DEF AllParsed, ParsedBefore
  <2>5. DOMAIN wire = {s \in endpoint.declared : Data(s) # Nothing}
    OBVIOUS
  <2>6. ASSUME NEW s \in endpoint.declared \ {"body"} PROVE Data(s) # Nothing
    BY <2>3, <2>4 DEF Data, ParsedIsAccepted
  <2>7. ASSUME NEW s \in DOMAIN wire
        PROVE  /\ s \in endpoint.declared /\ wire[s] \notin Lossy
               /\ wire[s] \in Accepted[s] \/ (s = "body" /\ endpoint.live)
    <3>1. s \in endpoint.declared /\ wire[s] = Data(s)
      BY <2>5
    <3>2. wire[s] \in Range(wire)
      BY DEF Range
    <3>3. Data(s) \in Accepted[s] \/ (s = "body" /\ endpoint.live)
      BY <2>3, <2>4, <3>1 DEF Data, ParsedIsAccepted
    <3> HIDE DEF wire
    <3>4. QED
      BY <2>1, <3>1, <3>2, <3>3
  <2>8. endpoint.declared \ {"body"} \subseteq DOMAIN wire
    BY <2>5, <2>6
  <2> HIDE DEF wire
  <2>9. NothingSentUnvalidated'
    BY <1>1, <2>1, <2>2, <2>3, <2>7, <2>8 DEF NothingSentUnvalidated
  <2>10. QED
    BY <1>3, <2>9
<1>6. QED
  BY <1>4, <1>5

\* The caller changes what is in a section; it cannot take a section away.
LEMMA ChangeKept ==
  ASSUME NEW s \in Range(Sections), NEW v \in Values \ {Nothing}, CallInv, Change(s, v)
  PROVE  CallInv'
<1> USE DEF CallInv
<1>1. /\ held' = [held EXCEPT ![s] = v] /\ endpoint' = endpoint /\ given' = given
      /\ parsed' = parsed /\ sent' = sent /\ stage' = stage /\ section' = section /\ value' = value
  BY DEF Change, caller
<1>2. Parsing'
  BY <1>1 DEF Parsing, ParsedIsAccepted
<1>3. InSection' /\ AllParsed'
  BY <1>1 DEF InSection, AllParsed, ParsedBefore
<1>4. Unsent' /\ NothingSentUnvalidated'
  BY <1>1 DEF Unsent, NothingSentUnvalidated
<1>5. QED
  BY <1>2, <1>3, <1>4

\* Once the request is sent, or nothing of the call changes, no part is disturbed.
LEMMA RestKept ==
  ASSUME CallInv, UNCHANGED <<endpoint, given, parsed, sent>>,
         \/ stage' \notin {"idle", "section", "parsed"}
         \/ UNCHANGED <<stage, held, section, value>>
  PROVE  CallInv'
<1> USE DEF CallInv
<1>1. Parsing'
  BY DEF Parsing, ParsedIsAccepted
<1>2. InSection' /\ AllParsed'
  BY DEF InSection, AllParsed, ParsedBefore
<1>3. Unsent' /\ NothingSentUnvalidated'
  BY DEF Unsent, NothingSentUnvalidated
<1>4. QED
  BY <1>1, <1>2, <1>3

\* No request leaves a client with a section its schema did not accept, whatever the
\* caller does to its input meanwhile, and none is sent twice (callEndpoint).
THEOREM SentIsValidated == Spec => []NothingSentUnvalidated
<1>1. Init => CallInv
  BY DEF Init, ClientIdle, CallInv, Parsing, InSection, AllParsed, Unsent, NothingSentUnvalidated
<1>2. CallInv /\ [Next]_vars => CallInv'
  <2> SUFFICES ASSUME CallInv, [Next]_vars PROVE CallInv'
    OBVIOUS
  <2>1. CASE Call
    BY <2>1, CallKept
  <2>2. CASE SectionSettles
    BY <2>2, SectionSettlesKept
  <2>3. CASE Send
    BY <2>3, SendKept
  <2>4. CASE FetchFails
    BY <2>4, RestKept DEF FetchFails, Fails, Settle, caller
  <2>5. ASSUME NEW r \in Replies, FetchAnswers(r) PROVE CallInv'
    BY <2>5, RestKept DEF FetchAnswers, caller
  <2>6. CASE CancelSettles
    BY <2>6, RestKept DEF CancelSettles, Settle, caller
  <2>7. CASE TextSettles
    BY <2>7, RestKept DEF TextSettles, Settle, caller
  <2>8. CASE ResponseSettles
    BY <2>8, RestKept DEF ResponseSettles, Settle, caller
  <2>9. ASSUME NEW s \in Range(Sections), NEW v \in Values \ {Nothing}, Change(s, v) PROVE CallInv'
    BY <2>9, ChangeKept
  <2>10. CASE Abort
    BY <2>10, RestKept DEF Abort, caller
  <2>11. CASE UNCHANGED client
    BY <2>11, RestKept DEF client
  <2>12. CASE ParseThrows
    BY <2>12, RestKept DEF ParseThrows, Settle, caller
  <2>13. QED
    BY <2>1, <2>2, <2>3, <2>4, <2>5, <2>6, <2>7, <2>8, <2>9, <2>10, <2>11, <2>12
       DEF Next, CallNext, vars
<1>3. CallInv => NothingSentUnvalidated
  BY DEF CallInv
<1>4. QED
  BY <1>1, <1>2, <1>3, PTL DEF Spec

-----------------------------------------------------------------------------
(* The result. *)

\* What is known of the reply while the call waits, and nothing is settled yet.
Awaiting ==
  /\ stage # "done" => result = NoResult
  /\ stage \in {"idle", "section", "parsed"} => sent = <<>> /\ reply = NoReply
  /\ stage = "idle" => parsed = NothingParsed
  /\ stage = "fetch" => sent # <<>> /\ reply = NoReply /\ parsed.issues = <<>>
  /\ stage = "cancel" => reply # NoReply /\ reply.status \notin DOMAIN endpoint.responses
  /\ stage \in {"text", "response"} =>
       sent # <<>> /\ reply \in Replies /\ reply.status \in DOMAIN endpoint.responses
  /\ stage = "response" => endpoint.responses[reply.status] = "json" /\ reply.text = "json"

CauseInv == endpoint \in Endpoints /\ Awaiting /\ HasCause

\* What the schema of a status says of the value of a response is what
\* safeParseResponse says of it under the contract of the endpoint.
LEMMA ResponseOfStatus ==
  ASSUME NEW e \in Endpoints, NEW status \in Statuses, NEW v,
         status \in DOMAIN e.responses, e.responses[status] = "json"
  PROVE  LET parse == SafeParseResponse(ContractOf(e), v, status)
         IN /\ parse.ok <=> v \in Accepted[status]
            /\ parse.ok => parse.data = v /\ parse.warned = (v \in Noted[status])
<1>1. SelectResponseSchema(ContractOf(e), status) = status
  BY DEF SelectResponseSchema, ContractOf
<1>2. status # "none"
  BY HttpAssumption
<1>3. CASE v \in Accepted[status]
  BY <1>1, <1>2, <1>3 DEF SafeParseResponse
<1>4. CASE v \notin Accepted[status]
  BY <1>1, <1>2, <1>4 DEF SafeParseResponse, Failed
<1>5. QED
  BY <1>3, <1>4

\* A step that settles nothing leaves no result, whose kind is no claim.
LEMMA NoClaim ==
  ASSUME result' = NoResult
  PROVE  HasCause'
<1>1. result'.kind = "none"
  BY DEF NoResult
<1>2. QED
  BY <1>1 DEF HasCause

\* The request: refused, not representable, or sent.
LEMMA RequestCaused ==
  CauseInv /\ (Call \/ SectionSettles \/ Send) => CauseInv'
<1> SUFFICES ASSUME CauseInv, Call \/ SectionSettles \/ Send PROVE CauseInv'
  OBVIOUS
<1> USE DEF CauseInv
<1>1. /\ endpoint' = endpoint /\ reply' = reply /\ reply = NoReply /\ sent = <<>>
      /\ result = NoResult /\ stage # "done"
  BY DEF Call, SectionSettles, Send, caller, Awaiting
<1>2. ASSUME NEW kind \in {"serialization", "request-validation"}, Fails(kind), sent' = sent,
             parsed' = parsed, kind = "serialization" <=> parsed.issues = <<>>
      PROVE  CauseInv'
  <2>1. result'.kind = kind /\ stage' = "done"
    BY <1>2 DEF Fails, Settle
  <2>2. HasCause'
    BY <1>1, <1>2, <2>1 DEF HasCause
  <2>3. QED
    BY <1>1, <2>1, <2>2 DEF Awaiting
<1>3. CASE Call
  <2>1. parsed' = parsed /\ sent' = sent /\ parsed.issues = <<>>
    BY <1>3 DEF Call, Awaiting, NothingParsed
  <2>2. CASE DOMAIN given \subseteq endpoint.declared
    <3>1. result' = NoResult /\ stage' \in {"section", "parsed"}
      BY <1>1, <1>3, <2>2 DEF Call, ParseFrom
    <3>2. QED
      BY <1>1, <2>1, <3>1, NoClaim DEF Awaiting
  <2>3. CASE ~(DOMAIN given \subseteq endpoint.declared)
    BY <1>2, <1>3, <2>1, <2>3 DEF Call
  <2>4. QED
    BY <2>2, <2>3
<1>4. CASE SectionSettles
  <2>1. result' = NoResult /\ stage' \in {"section", "parsed"} /\ sent' = sent
    BY <1>1, <1>4 DEF SectionSettles, ParseFrom
  <2>2. QED
    BY <1>1, <2>1, NoClaim DEF Awaiting
<1>5. CASE Send
  <2>1. parsed' = parsed
    BY <1>5 DEF Send
  <2>2. CASE sent' = sent /\ stage' # "fetch"
    BY <1>2, <1>5, <2>1, <2>2 DEF Send
  <2>3. CASE ~(sent' = sent /\ stage' # "fetch")
    <3>1. /\ stage' = "fetch" /\ sent' # <<>> /\ parsed'.issues = <<>> /\ result' = NoResult
      BY <1>1, <1>5, <2>3 DEF Send, Fails, Settle
    <3>2. QED
      BY <1>1, <3>1, NoClaim DEF Awaiting
  <2>4. QED
    BY <2>2, <2>3
<1>6. QED
  BY <1>3, <1>4, <1>5

\* The response: none, one that nobody declared, one that cannot be read, or one that
\* its schema accepts or refuses.
LEMMA ResponseCaused ==
  ASSUME CauseInv,
         \/ FetchFails \/ CancelSettles \/ TextSettles \/ ResponseSettles
         \/ \E r \in Replies : FetchAnswers(r)
  PROVE  CauseInv'
<1> USE DEF CauseInv
<1>1. UNCHANGED <<endpoint, sent, parsed, aborted>>
  BY DEF FetchFails, FetchAnswers, CancelSettles, TextSettles, ResponseSettles, caller
<1>2. CASE FetchFails
  <2>1. /\ sent # <<>> /\ reply' = NoReply /\ stage' = "done" /\ result'.kind = "network"
    BY <1>2 DEF FetchFails, Fails, Settle, Awaiting
  <2>2. HasCause'
    BY <1>1, <2>1 DEF HasCause
  <2>3. QED
    BY <1>1, <2>1, <2>2 DEF Awaiting
<1>3. ASSUME NEW r \in Replies, FetchAnswers(r) PROVE CauseInv'
  <2>1. /\ reply' = r /\ sent # <<>> /\ result' = NoResult
        /\ stage' = IF r.status \in DOMAIN endpoint.responses THEN "text" ELSE "cancel"
    BY <1>3 DEF FetchAnswers, Awaiting
  <2>2. r # NoReply
    BY HttpAssumption DEF Replies, NoReply
  <2>3. QED
    BY <1>1, <2>1, <2>2, NoClaim DEF Awaiting
<1>4. CASE CancelSettles
  <2>1. /\ reply' = reply /\ reply # NoReply /\ reply.status \notin DOMAIN endpoint.responses
        /\ stage' = "done" /\ result'.kind = "unexpected-status"
    BY <1>4 DEF CancelSettles, Settle, Awaiting
  <2>2. HasCause'
    BY <1>1, <2>1 DEF HasCause
  <2>3. QED
    BY <1>1, <2>1, <2>2 DEF Awaiting
<1>5. CASE TextSettles
  <2>1. /\ reply' = reply /\ reply \in Replies /\ reply.status \in DOMAIN endpoint.responses
        /\ sent # <<>> /\ result = NoResult
    BY <1>5 DEF TextSettles, Awaiting
  <2>2. endpoint.responses[reply.status] \in {"json", "no body"}
    BY <2>1, ClientAssumption DEF Range
  <2>3. ASSUME ~Decodes(reply) \/ aborted, stage' = "done", result'.kind = "decoding"
        PROVE  CauseInv'
    <3>1. HasCause'
      BY <1>1, <2>1, <2>2, <2>3 DEF HasCause, Decodes
    <3>2. QED
      BY <1>1, <2>3, <3>1 DEF Awaiting
  <2>4. ASSUME Decodes(reply), endpoint.responses[reply.status] = "no body", stage' = "done",
               result'.kind = "success", result'.data = Nothing
        PROVE  CauseInv'
    <3>1. HasCause'
      BY <1>1, <2>1, <2>4 DEF HasCause, Decodes
    <3>2. QED
      BY <1>1, <2>4, <3>1 DEF Awaiting
  <2>5. ASSUME Decodes(reply), endpoint.responses[reply.status] = "json", stage' = "response",
               result' = result
        PROVE  CauseInv'
    <3>1. reply.text = "json"
      BY <2>5 DEF Decodes
    <3>2. QED
      BY <1>1, <2>1, <2>5, <3>1, NoClaim DEF Awaiting
  <2>6. CASE Settle([kind |-> "decoding", status |-> reply.status, warnings |-> parsed.warnings])
             /\ (~Decodes(reply) \/ aborted)
    BY <2>3, <2>6 DEF Settle
  <2>7. CASE Settle([kind |-> "success", status |-> reply.status, data |-> Nothing,
                     warnings |-> parsed.warnings, noted |-> FALSE])
             /\ Decodes(reply) /\ endpoint.responses[reply.status] = "no body"
    BY <2>4, <2>7 DEF Settle
  <2>8. QED
    BY <1>5, <2>5, <2>6, <2>7 DEF TextSettles
<1>6. CASE ResponseSettles
  <2> DEFINE parse == SafeParseResponse(ContractOf(endpoint), reply.value, reply.status)
  <2>1. /\ reply' = reply /\ reply \in Replies /\ reply.status \in DOMAIN endpoint.responses
        /\ sent # <<>> /\ endpoint.responses[reply.status] = "json" /\ reply.text = "json"
        /\ stage' = "done"
    BY <1>6 DEF ResponseSettles, Settle, Awaiting
  <2>2. reply.status \in Statuses
    BY <2>1 DEF Replies
  <2>3. /\ parse.ok <=> reply.value \in Accepted[reply.status]
        /\ parse.ok => /\ parse.data = reply.value
                       /\ parse.warned = (reply.value \in Noted[reply.status])
    BY <2>1, <2>2, ResponseOfStatus
  <2>4. CASE parse.ok
    <3>1. result'.kind = "success" /\ result'.data = parse.data /\ result'.noted = parse.warned
      BY <1>6, <2>4 DEF ResponseSettles, Settle
    <3> HIDE DEF parse
    <3>2. HasCause'
      BY <1>1, <2>1, <2>3, <2>4, <3>1 DEF HasCause
    <3>3. QED
      BY <1>1, <2>1, <3>2 DEF Awaiting
  <2>5. CASE ~parse.ok
    <3>1. result'.kind = "response-validation"
      BY <1>6, <2>5 DEF ResponseSettles, Settle
    <3> HIDE DEF parse
    <3>2. HasCause'
      BY <1>1, <2>1, <2>3, <2>5, <3>1 DEF HasCause
    <3>3. QED
      BY <1>1, <2>1, <3>2 DEF Awaiting
  <2>6. QED
    BY <2>4, <2>5
<1>7. QED
  BY <1>2, <1>3, <1>4, <1>5, <1>6

\* A parse that rejects: nothing was sent yet, or the response was read.
LEMMA ThrowCaused ==
  CauseInv /\ ParseThrows => CauseInv'
<1> SUFFICES ASSUME CauseInv, ParseThrows PROVE CauseInv'
  OBVIOUS
<1> USE DEF CauseInv
<1>1. /\ UNCHANGED <<endpoint, sent, reply>>
      /\ stage \in {"section", "response"} /\ stage' = "done" /\ result'.kind = "thrown"
  BY DEF ParseThrows, Settle, caller
<1>2. \/ sent = <<>>
      \/ /\ reply.status \in DOMAIN endpoint.responses
         /\ endpoint.responses[reply.status] = "json" /\ reply.text = "json"
  BY <1>1 DEF Awaiting
<1>3. HasCause'
  BY <1>1, <1>2 DEF HasCause
<1> QED
  BY <1>1, <1>3 DEF Awaiting

\* Every result has its cause.
LEMMA Caused == Spec => []CauseInv
<1>1. Init => CauseInv
  <2> SUFFICES ASSUME Init PROVE CauseInv
    OBVIOUS
  <2>1. result = NoResult /\ endpoint \in Endpoints
    BY DEF Init, ClientIdle
  <2>2. HasCause
    <3>1. result.kind = "none"
      BY <2>1 DEF NoResult
    <3>2. QED
      BY <3>1 DEF HasCause
  <2>3. Awaiting
    BY <2>1 DEF Init, ClientIdle, Awaiting
  <2>4. QED
    BY <2>1, <2>2, <2>3 DEF CauseInv
<1>2. CauseInv /\ [Next]_vars => CauseInv'
  <2> SUFFICES ASSUME CauseInv, [Next]_vars PROVE CauseInv'
    OBVIOUS
  <2>1. CASE Call \/ SectionSettles \/ Send
    BY <2>1, RequestCaused
  <2>2. CASE \/ FetchFails \/ CancelSettles \/ TextSettles \/ ResponseSettles
             \/ \E r \in Replies : FetchAnswers(r)
    BY <2>2, ResponseCaused
  <2>3. ASSUME UNCHANGED <<endpoint, parsed, sent, reply, result, stage>>, 
               aborted' = aborted \/ (stage # "done")
        PROVE  CauseInv'
    <3>1. Awaiting'
      BY <2>3 DEF CauseInv, Awaiting
    <3>2. HasCause'
      <4>1. CASE stage = "done"
        BY <2>3, <4>1 DEF CauseInv, HasCause
      <4>2. CASE stage # "done"
        BY <2>3, <4>2, NoClaim DEF CauseInv, Awaiting
      <4>3. QED
        BY <4>1, <4>2
    <3>3. QED
      BY <2>3, <3>1, <3>2 DEF CauseInv
  <2>4. CASE \E s \in Range(Sections), v \in Values \ {Nothing} : Change(s, v)
    BY <2>3, <2>4 DEF Change, caller
  <2>5. CASE Abort
    BY <2>3, <2>5 DEF Abort, Working, caller
  <2>6. CASE UNCHANGED client
    BY <2>3, <2>6 DEF client
  <2>7. CASE ParseThrows
    BY <2>7, ThrowCaused
  <2>8. QED
    BY <2>1, <2>2, <2>4, <2>5, <2>6, <2>7 DEF Next, CallNext, vars
<1>3. QED
  BY <1>1, <1>2, PTL DEF Spec

-----------------------------------------------------------------------------
(* The synchronous parse. *)

\* What a parse of the declared sections d of a request r has before it comes to the
\* section of each index.
PassOn(before, i, d, r) ==
  IF Sections[i] \in d THEN ParseSection(before, Sections[i], r[Sections[i]]) ELSE before

AfterParams(d, r) == PassOn(NothingParsed, 1, d, r)
AfterQuery(d, r) == PassOn(AfterParams(d, r), 2, d, r)
AfterBody(d, r) == PassOn(AfterQuery(d, r), 3, d, r)
AfterHeaders(d, r) == PassOn(AfterBody(d, r), 4, d, r)
AfterCookies(d, r) == PassOn(AfterHeaders(d, r), 5, d, r)

ParsedUpTo(i, d, r) ==
  CASE i = 1 -> NothingParsed
    [] i = 2 -> AfterParams(d, r)
    [] i = 3 -> AfterQuery(d, r)
    [] i = 4 -> AfterBody(d, r)
    [] i = 5 -> AfterHeaders(d, r)
    [] i = 6 -> AfterCookies(d, r)

\* While the caller leaves its input alone, the call is where the synchronous parse
\* would be, and its diagnostics are those of that parse.
SyncInv ==
  changes = 0 /\ DOMAIN given \subseteq endpoint.declared =>
    /\ stage = "idle" => parsed = NothingParsed
    /\ stage = "section" =>
         /\ held = RequestOf(given)
         /\ section \in 1..5
         /\ Sections[section] \in endpoint.declared
         /\ value = held[Sections[section]]
         /\ parsed = ParsedUpTo(section, endpoint.declared, held)
    /\ stage \notin {"idle", "section"} /\ (stage = "done" => Fulfilled) =>
         parsed = SafeParseRequest(endpoint.declared, RequestOf(given))
    /\ stage = "done" /\ Fulfilled => result.warnings = parsed.warnings

\* The synchronous parse comes to one section after the other, and to its end.
LEMMA SyncParse ==
  ASSUME NEW d, NEW r
  PROVE  /\ ParsedUpTo(1, d, r) = NothingParsed
         /\ \A i \in 1..5 : ParsedUpTo(i + 1, d, r) = PassOn(ParsedUpTo(i, d, r), i, d, r)
         /\ ParsedUpTo(6, d, r) = SafeParseRequest(d, r)
<1>1. /\ ParsedUpTo(1, d, r) = NothingParsed
      /\ ParsedUpTo(2, d, r) = AfterParams(d, r)
      /\ ParsedUpTo(3, d, r) = AfterQuery(d, r)
      /\ ParsedUpTo(4, d, r) = AfterBody(d, r)
      /\ ParsedUpTo(5, d, r) = AfterHeaders(d, r)
      /\ ParsedUpTo(6, d, r) = AfterCookies(d, r)
  BY DEF ParsedUpTo
<1>2. ASSUME NEW i \in 1..5 PROVE ParsedUpTo(i + 1, d, r) = PassOn(ParsedUpTo(i, d, r), i, d, r)
  <2>1. i = 1 \/ i = 2 \/ i = 3 \/ i = 4 \/ i = 5
    OBVIOUS
  <2>2. QED
    BY <1>1, <2>1 DEF AfterParams, AfterQuery, AfterBody, AfterHeaders, AfterCookies
<1>3. AfterCookies(d, r) = SafeParseRequest(d, r)
  <2>1. /\ Sections[1] = "params" /\ Sections[2] = "query" /\ Sections[3] = "body"
        /\ Sections[4] = "headers" /\ Sections[5] = "cookies"
    BY DEF Sections
  <2>2. QED
    BY <2>1 DEF SafeParseRequest, AfterParams, AfterQuery, AfterBody, AfterHeaders, AfterCookies,
                PassOn
<1>4. QED
  BY <1>1, <1>2, <1>3

\* Sections without a schema add nothing.
LEMMA PassedOver ==
  ASSUME NEW d, NEW r, NEW i \in 1..6, NEW n \in i..6,
         \A j \in i .. n - 1 : Sections[j] \notin d
  PROVE  ParsedUpTo(n, d, r) = ParsedUpTo(i, d, r)
<1> DEFINE P(j) == ParsedUpTo(j, d, r)
<1>1. \A j \in i .. n - 1 : P(j + 1) = P(j)
  BY SyncParse DEF PassOn
<1> HIDE DEF P
<1>2. n = i \/ n = i + 1 \/ n = i + 2 \/ n = i + 3 \/ n = i + 4 \/ n = i + 5
  OBVIOUS
<1>3. P(n) = P(i)
  BY <1>1, <1>2
<1>4. QED
  BY <1>3 DEF P

\* Where the parse of a section is awaited next, the synchronous parse is, too.
LEMMA OnwardInSync ==
  ASSUME NEW i \in 1..6, ParseFrom(i, held'), held' = RequestOf(given), endpoint' = endpoint,
         given' = given, parsed' = ParsedUpTo(i, endpoint.declared, held')
  PROVE  SyncInv'
<1> DEFINE left == {j \in i..5 : Sections[j] \in endpoint.declared}
           next == CHOOSE j \in left : \A k \in left : j <= k
<1>1. IF left = {}
      THEN stage' = "parsed"
      ELSE section' = next /\ stage' = "section" /\ value' = held'[Sections[next]]
  BY SectionFacts DEF ParseFrom
<1>2. CASE left = {}
  <2>1. \A j \in i .. 6 - 1 : Sections[j] \notin endpoint.declared
    BY <1>2
  <2>2. PICK n \in i..6 : n = 6
    OBVIOUS
  <2>3. ParsedUpTo(n, endpoint.declared, held') = ParsedUpTo(i, endpoint.declared, held')
    BY <2>1, <2>2, PassedOver
  <2>4. parsed' = SafeParseRequest(endpoint.declared, held')
    BY <2>2, <2>3, SyncParse
  <2>5. QED
    BY <1>1, <1>2, <2>4 DEF SyncInv
<1>3. CASE left # {}
  <2>1. left \in SUBSET (1..5)
    OBVIOUS
  <2>2. next \in left /\ \A k \in left : next <= k
    BY <1>3, <2>1, FirstSection
  <2>3. PICK n \in 1..5 : n = next
    BY <2>2
  <2>4. section' = n /\ stage' = "section" /\ value' = held'[Sections[n]]
    BY <1>1, <1>3, <2>3
  <2>5. n \in left /\ \A k \in left : n <= k
    BY <2>2, <2>3
  <2> HIDE DEF next
  <2>6. n \in i..6 /\ \A j \in i .. n - 1 : Sections[j] \notin endpoint.declared
    BY <2>5
  <2>7. parsed' = ParsedUpTo(n, endpoint.declared, held')
    BY <2>6, PassedOver
  <2>8. QED
    BY <2>4, <2>5, <2>7 DEF SyncInv
<1>4. QED
  BY <1>2, <1>3

\* The call proceeds as the synchronous parse does.
LEMMA ParsesInSync ==
  ASSUME SyncInv, changes \in Nat, stage # "done" => result = NoResult,
         Call \/ SectionSettles \/ Send
  PROVE  SyncInv'
<1>1. endpoint' = endpoint /\ given' = given /\ changes' = changes
  BY DEF Call, SectionSettles, Send, caller
<1>2. CASE ~(changes = 0 /\ DOMAIN given \subseteq endpoint.declared)
  BY <1>1, <1>2 DEF SyncInv
<1>3. CASE changes = 0 /\ DOMAIN given \subseteq endpoint.declared
  <2>1. CASE Call
    <3>1. /\ held' = RequestOf(given) /\ ParseFrom(1, held')
          /\ parsed' = parsed /\ parsed = NothingParsed
      BY <1>3, <2>1 DEF Call, SyncInv
    <3>2. parsed' = ParsedUpTo(1, endpoint.declared, held')
      BY <3>1, SyncParse
    <3>3. QED
      BY <1>1, <3>1, <3>2, OnwardInSync
  <2>2. CASE SectionSettles
    <3>1. /\ stage = "section" /\ held' = held /\ held = RequestOf(given)
          /\ section \in 1..5 /\ Sections[section] \in endpoint.declared
          /\ value = held[Sections[section]]
          /\ parsed = ParsedUpTo(section, endpoint.declared, held)
          /\ ParseFrom(section + 1, held')
      BY <1>3, <2>2 DEF SectionSettles, SyncInv
    <3>2. parsed' = ParseSection(parsed, Sections[section], held[Sections[section]])
      BY <2>2, <3>1 DEF SectionSettles
    <3>3. parsed' = ParsedUpTo(section + 1, endpoint.declared, held')
      BY <3>1, <3>2, SyncParse DEF PassOn
    <3>4. PICK i \in 1..6 : i = section + 1
      BY <3>1
    <3>5. QED
      BY <1>1, <3>1, <3>3, <3>4, OnwardInSync
  <2>3. CASE Send
    <3>1. /\ parsed' = parsed /\ stage = "parsed"
          /\ parsed = SafeParseRequest(endpoint.declared, RequestOf(given))
      BY <1>3, <2>3 DEF Send, SyncInv
    <3>2. \/ stage' = "fetch"
          \/ stage' = "done" /\ result'.warnings = parsed.warnings
      BY <2>3 DEF Send, Fails, Settle
    <3>3. QED
      BY <1>1, <3>1, <3>2 DEF SyncInv
  <2>4. QED
    BY <2>1, <2>2, <2>3
<1>4. QED
  BY <1>2, <1>3

\* Afterwards the diagnostics stay, whatever comes back.
LEMMA StaysInSync ==
  ASSUME SyncInv, changes \in Nat, stage # "done" => result = NoResult,
         \/ FetchFails \/ CancelSettles \/ TextSettles \/ ResponseSettles \/ ParseThrows \/ Abort
         \/ \E r \in Replies : FetchAnswers(r)
         \/ \E s \in Range(Sections), v \in Values \ {Nothing} : Change(s, v)
         \/ UNCHANGED client
  PROVE  SyncInv'
<1>1. CASE \E s \in Range(Sections), v \in Values \ {Nothing} : Change(s, v)
  <2>1. changes' # 0
    BY <1>1 DEF Change
  <2>2. QED
    BY <2>1 DEF SyncInv
<1>2. CASE Abort \/ UNCHANGED client
  BY <1>2 DEF Abort, caller, client, SyncInv, Fulfilled
<1>3. CASE \/ FetchFails \/ CancelSettles \/ TextSettles \/ ResponseSettles
           \/ \E r \in Replies : FetchAnswers(r)
  <2>1. /\ UNCHANGED <<endpoint, given, changes, parsed>>
        /\ stage \notin {"idle", "section", "done"}
        /\ stage' \notin {"idle", "section"}
    BY <1>3 DEF FetchFails, FetchAnswers, CancelSettles, TextSettles, ResponseSettles, caller,
                Fails, Settle
  <2>2. stage' = "done" => result'.warnings = parsed.warnings
    <3>1. CASE FetchFails \/ CancelSettles
      BY <3>1 DEF FetchFails, CancelSettles, Fails, Settle
    <3>2. CASE TextSettles
      <4>1. CASE Settle([kind |-> "decoding", status |-> reply.status, warnings |-> parsed.warnings])
        BY <4>1 DEF Settle
      <4>2. CASE Settle([kind |-> "success", status |-> reply.status, data |-> Nothing,
                         warnings |-> parsed.warnings, noted |-> FALSE])
        BY <4>2 DEF Settle
      <4>3. CASE stage' = "response"
        BY <4>3
      <4>4. QED
        BY <3>2, <4>1, <4>2, <4>3 DEF TextSettles
    <3>3. CASE ResponseSettles
      <4> DEFINE parse == SafeParseResponse(ContractOf(endpoint), reply.value, reply.status)
      <4>1. CASE parse.ok
        BY <3>3, <4>1 DEF ResponseSettles, Settle
      <4>2. CASE ~parse.ok
        BY <3>3, <4>2 DEF ResponseSettles, Settle
      <4>3. QED
        BY <4>1, <4>2
    <3>4. CASE \E r \in Replies : FetchAnswers(r)
      BY <3>4 DEF FetchAnswers
    <3>5. QED
      BY <1>3, <3>1, <3>2, <3>3, <3>4
  <2>3. QED
    BY <2>1, <2>2 DEF SyncInv
<1>4. CASE ParseThrows
  BY <1>4 DEF ParseThrows, Settle, SyncInv, Fulfilled
<1>5. QED
  BY <1>1, <1>2, <1>3, <1>4

\* The kind of a result names what ended the call, and its diagnostics are those of
\* the synchronous parse (callEndpoint over safeParseRequestAsync).
THEOREM ResultsHaveCauses == Spec => []ResultHasCause
<1>1. Init => SyncInv /\ changes \in Nat
  <2> SUFFICES ASSUME Init PROVE SyncInv /\ changes \in Nat
    OBVIOUS
  <2>1. stage \in {"idle", "done"} /\ changes = 0 /\ parsed = NothingParsed /\ result = NoResult
    BY DEF Init, ClientIdle
  <2>2. QED
    BY <2>1 DEF SyncInv, Fulfilled, NoResult
<1>2. CauseInv /\ SyncInv /\ changes \in Nat /\ [Next]_vars => (SyncInv /\ changes \in Nat)'
  <2> SUFFICES ASSUME CauseInv, SyncInv, changes \in Nat, [Next]_vars
               PROVE  (SyncInv /\ changes \in Nat)'
    OBVIOUS
  <2>1. stage # "done" => result = NoResult
    BY DEF CauseInv, Awaiting
  <2>2. CASE Call \/ SectionSettles \/ Send
    <3>1. changes' = changes
      BY <2>2 DEF Call, SectionSettles, Send
    <3>2. QED
      BY <2>1, <2>2, <3>1, ParsesInSync
  <2>3. CASE \/ FetchFails \/ CancelSettles \/ TextSettles \/ ResponseSettles \/ ParseThrows \/ Abort
             \/ \E r \in Replies : FetchAnswers(r)
             \/ \E s \in Range(Sections), v \in Values \ {Nothing} : Change(s, v)
             \/ UNCHANGED client
    <3>1. changes' = changes \/ changes' = changes + 1
      BY <2>3 DEF FetchFails, FetchAnswers, CancelSettles, TextSettles, ResponseSettles, ParseThrows, Abort,
                  Change, client
    <3>2. changes' \in Nat
      BY <3>1
    <3>3. QED
      BY <2>1, <2>3, <3>2, StaysInSync
  <2>4. QED
    BY <2>2, <2>3 DEF Next, CallNext, vars
<1>3. CauseInv /\ SyncInv => ResultHasCause
  BY DEF CauseInv, SyncInv, ResultHasCause, AgreesWithSync
<1>4. QED
  BY <1>1, <1>2, <1>3, Caused, PTL DEF Spec

-----------------------------------------------------------------------------
(* Types. *)

TypesInv == TypeOK /\ (stage = "section" => section \in 1..5)

\* The loop over the sections stays among them.
LEMMA OnwardTyped ==
  ASSUME NEW i \in 1..6, NEW sections \in [Range(Sections) -> Values], ParseFrom(i, sections),
         value \in Values
  PROVE  /\ section' \in 1..6 /\ value' \in Values /\ stage' \in {"section", "parsed"}
         /\ stage' = "section" => section' \in 1..5
<1> DEFINE left == {j \in i..5 : Sections[j] \in endpoint.declared}
           next == CHOOSE j \in left : \A k \in left : j <= k
<1>1. IF left = {} THEN section' = 6 /\ stage' = "parsed" /\ value' = value
      ELSE section' = next /\ stage' = "section" /\ value' = sections[Sections[next]]
  BY SectionFacts DEF ParseFrom
<1>2. CASE left = {}
  BY <1>1, <1>2
<1>3. CASE left # {}
  <2>1. left \in SUBSET (1..5)
    OBVIOUS
  <2>2. next \in 1..5
    <3> HIDE DEF left
    <3>1. \E j \in left : \A k \in left : j <= k
      BY <1>3, <2>1, FirstSection
    <3>2. next \in left
      BY <3>1
    <3> QED
      BY <2>1, <3>2
  <2> HIDE DEF next
  <2>3. sections[Sections[next]] \in Values
    BY <2>2, SectionFacts
  <2> QED
    BY <1>1, <1>3, <2>2, <2>3
<1> QED
  BY <1>2, <1>3

\* What is handed to the contract are values.
LEMMA RequestTyped ==
  ASSUME TypeOK
  PROVE  RequestOf(given) \in [Range(Sections) -> Values]
<1>1. Nothing \in Values /\ Empty \in Values
  BY HttpAssumption, ClientAssumption
<1>2. \A s \in DOMAIN given : given[s] \in Values
  BY DEF TypeOK, ClientInputs
<1>3. ASSUME NEW s \in Range(Sections) PROVE RequestOf(given)[s] \in Values
  <2> DEFINE v == CASE s \in DOMAIN given /\ given[s] # Nothing -> given[s]
                    [] s \in {"body", "cookies"} -> Nothing
                    [] OTHER -> Empty
  <2>1. v \in {Nothing, Empty} \/ (s \in DOMAIN given /\ v = given[s])
    <3>1. CASE s \in DOMAIN given /\ given[s] # Nothing
      BY <3>1
    <3>2. CASE ~(s \in DOMAIN given /\ given[s] # Nothing) /\ s \in {"body", "cookies"}
      BY <3>2
    <3>3. CASE ~(s \in DOMAIN given /\ given[s] # Nothing) /\ s \notin {"body", "cookies"}
      BY <3>3
    <3> QED
      BY <3>1, <3>2, <3>3
  <2>2. RequestOf(given)[s] = v
    BY <1>3 DEF RequestOf
  <2> HIDE DEF v
  <2> QED
    BY <1>1, <1>2, <2>1, <2>2
<1>4. RequestOf(given) = [s \in Range(Sections) |-> RequestOf(given)[s]]
  BY DEF RequestOf
<1> QED
  BY <1>3, <1>4

\* A section that is parsed adds to what is parsed.
LEMMA ParsedTyped ==
  ASSUME TypeOK, NEW s \in Range(Sections), NEW v \in Values, parsed' = ParseSection(parsed, s, v)
  PROVE  /\ DOMAIN parsed'.output \subseteq Range(Sections) /\ Range(parsed'.output) \subseteq Values
         /\ parsed'.issues \in Seq(Range(Sections)) /\ parsed'.warnings \in Seq(Range(Sections))
<1>1. /\ parsed.issues \in Seq(Range(Sections)) /\ parsed.warnings \in Seq(Range(Sections))
      /\ DOMAIN parsed.output \subseteq Range(Sections) /\ Range(parsed.output) \subseteq Values
  BY DEF TypeOK
<1> DEFINE o == IF v \in Accepted[s]
                THEN [t \in DOMAIN parsed.output \cup {s} |-> IF t = s THEN v ELSE parsed.output[t]]
                ELSE parsed.output
           i == IF v \in Accepted[s] THEN parsed.issues ELSE Append(parsed.issues, s)
           w == IF v \in Noted[s] THEN Append(parsed.warnings, s) ELSE parsed.warnings
<1>2. parsed' = [output |-> o, issues |-> i, warnings |-> w]
  BY Zenon DEF ParseSection
<1>3. i \in Seq(Range(Sections)) /\ w \in Seq(Range(Sections))
  BY <1>1
<1>4. DOMAIN o \subseteq Range(Sections)
  BY <1>1
<1>5. Range(o) \subseteq Values
  BY <1>1 DEF Range
<1> HIDE DEF o, i, w
<1>6. parsed'.output = o /\ parsed'.issues = i /\ parsed'.warnings = w
  BY <1>2
<1> QED
  BY <1>3, <1>4, <1>5, <1>6

\* The request is typed.
LEMMA RequestSteps ==
  TypesInv /\ (Call \/ SectionSettles \/ Send) => TypesInv'
<1> SUFFICES ASSUME TypesInv, Call \/ SectionSettles \/ Send PROVE TypesInv'
  OBVIOUS
<1> USE DEF TypesInv
<1>1. CASE Call
  <2>1. UNCHANGED <<endpoint, given, changes, aborted, parsed, sent, reply>> /\ 1 \in 1..6 /\ value \in Values
    BY <1>1 DEF Call, caller, TypeOK
  <2>2. CASE DOMAIN given \subseteq endpoint.declared
    <3>1. held' = RequestOf(given) /\ ParseFrom(1, held')
      BY <1>1, <2>2 DEF Call
    <3>2. held' \in [Range(Sections) -> Values]
      BY <3>1, RequestTyped
    <3>3. /\ section' \in 1..6 /\ value' \in Values /\ stage' \in {"section", "parsed"}
          /\ stage' = "section" => section' \in 1..5
      BY <2>1, <3>1, <3>2, OnwardTyped
    <3> QED
      BY <2>1, <3>2, <3>3, SectionFacts DEF TypeOK, Stages, ClientInputs
  <2>3. CASE ~(DOMAIN given \subseteq endpoint.declared)
    <3>1. stage' = "done" /\ UNCHANGED <<held, section, value>>
      BY <1>1, <2>3 DEF Call, Fails, Settle
    <3> QED
      BY <2>1, <3>1 DEF TypeOK, Stages, ClientInputs
  <2> QED
    BY <2>2, <2>3
<1>2. CASE SectionSettles
  <2>1. /\ stage = "section" /\ ParseFrom(section + 1, held) /\ section \in 1..5 /\ section + 1 \in 1..6
        /\ UNCHANGED <<endpoint, given, held, changes, aborted, sent, reply>>
        /\ held \in [Range(Sections) -> Values] /\ value \in Values
    BY <1>2 DEF SectionSettles, caller, TypeOK
  <2>2. Sections[section] \in Range(Sections)
    BY <2>1, SectionFacts
  <2>3. PICK v \in {value, held[Sections[section]]} : parsed' = ParseSection(parsed, Sections[section], v)
    BY <1>2 DEF SectionSettles
  <2>4. PICK s \in Range(Sections) : s = Sections[section]
    BY <2>2
  <2>5. v \in Values /\ parsed' = ParseSection(parsed, s, v)
    BY <2>1, <2>2, <2>3, <2>4
  <2>6. /\ DOMAIN parsed'.output \subseteq Range(Sections) /\ Range(parsed'.output) \subseteq Values
        /\ parsed'.issues \in Seq(Range(Sections)) /\ parsed'.warnings \in Seq(Range(Sections))
    BY <2>5, ParsedTyped
  <2>7. /\ section' \in 1..6 /\ value' \in Values /\ stage' \in {"section", "parsed"}
        /\ stage' = "section" => section' \in 1..5
    BY <2>1, OnwardTyped
  <2> QED
    BY <2>1, <2>6, <2>7, SectionFacts DEF TypeOK, Stages, ClientInputs
<1>3. CASE Send
  <2>1. stage' \in {"done", "fetch"} /\ UNCHANGED <<endpoint, given, held, changes, aborted, section, value, parsed, reply>>
    BY <1>3 DEF Send, caller, Fails, Settle
  <2> QED
    BY <2>1 DEF TypeOK, Stages, ClientInputs
<1> QED
  BY <1>1, <1>2, <1>3

\* So is the rest of the call.
LEMMA OtherSteps ==
  ASSUME TypesInv,
         UNCHANGED <<endpoint, given, section, value, parsed>>,
         held' \in [Range(Sections) -> Values], changes' \in 0..MaxChanges, aborted' \in BOOLEAN,
         reply' \in Replies \cup {NoReply},
         stage' = stage \/ stage' \in Stages \ {"section"}
  PROVE  TypesInv'
BY DEF TypesInv, TypeOK, ClientInputs

\* Every state of a call is well typed, for every endpoint and whatever the caller, the
\* schemas and the transport do.
THEOREM TypeCorrect == Spec => []TypeOK
<1>1. Init => TypesInv
  <2> SUFFICES ASSUME Init PROVE TypesInv
    OBVIOUS
  <2>1. Nothing \in Values /\ 0 \in 0..MaxChanges /\ 1 \in 1..Len(Sections) + 1
    <3>1. Nothing \in Values
      BY HttpAssumption
    <3>2. MaxChanges \in Nat
      BY ClientAssumption
    <3>3. Len(Sections) = 5
      BY SectionFacts
    <3> QED
      BY <3>1, <3>2, <3>3
  <2>2. given \in ClientInputs(endpoint)
    <3>1. <<>> \in [{} -> Values] /\ {} \in SUBSET (endpoint.declared \cup {"other"})
      OBVIOUS
    <3>2. <<>> \in ClientInputs(endpoint)
      BY <3>1 DEF ClientInputs
    <3> QED
      BY <3>2 DEF Init
  <2>3. /\ DOMAIN parsed.output \subseteq Range(Sections) /\ Range(parsed.output) \subseteq Values
        /\ parsed.issues \in Seq(Range(Sections)) /\ parsed.warnings \in Seq(Range(Sections))
    <3>1. parsed.output = <<>> /\ parsed.issues = <<>> /\ parsed.warnings = <<>>
      BY DEF Init, ClientIdle, NothingParsed
    <3>2. <<>> \in Seq(Range(Sections))
      OBVIOUS
    <3>3. DOMAIN <<>> = {} /\ Range(<<>>) = {}
      BY DEF Range
    <3> QED
      BY <3>1, <3>2, <3>3
  <2>4. /\ held \in [Range(Sections) -> Values] /\ changes = 0 /\ aborted \in BOOLEAN /\ section = 1
        /\ value \in Values /\ reply = NoReply /\ stage \in {"idle", "done"} /\ endpoint \in Endpoints
    BY <2>1 DEF Init, ClientIdle
  <2> QED
    BY <2>1, <2>2, <2>3, <2>4 DEF TypesInv, TypeOK, Stages
<1>2. TypesInv /\ [Next]_vars => TypesInv'
  <2> SUFFICES ASSUME TypesInv, [Next]_vars PROVE TypesInv'
    OBVIOUS
  <2>1. /\ held \in [Range(Sections) -> Values] /\ changes \in 0..MaxChanges /\ aborted \in BOOLEAN
        /\ reply \in Replies \cup {NoReply}
    BY DEF TypesInv, TypeOK
  <2>2. CASE Call \/ SectionSettles \/ Send
    BY <2>2, RequestSteps
  <2>3. CASE FetchFails \/ CancelSettles \/ TextSettles \/ ResponseSettles \/ ParseThrows
    <3>1. /\ UNCHANGED <<endpoint, given, section, value, parsed, held, changes, aborted, reply>>
          /\ stage' \in {"done", "response"}
      BY <2>3 DEF FetchFails, CancelSettles, TextSettles, ResponseSettles, ParseThrows, Fails, Settle, caller
    <3> QED
      BY <2>1, <3>1, OtherSteps DEF Stages
  <2>4. ASSUME NEW r \in Replies, FetchAnswers(r) PROVE TypesInv'
    <3>1. /\ UNCHANGED <<endpoint, given, section, value, parsed, held, changes, aborted>>
          /\ stage' \in {"text", "cancel"} /\ reply' = r
      BY <2>4 DEF FetchAnswers, caller
    <3> QED
      BY <2>1, <3>1, OtherSteps DEF Stages
  <2>5. ASSUME NEW s \in Range(Sections), NEW v \in Values \ {Nothing}, Change(s, v) PROVE TypesInv'
    <3>1. /\ UNCHANGED <<endpoint, given, section, value, parsed, aborted, reply, stage>>
          /\ held' = [held EXCEPT ![s] = v] /\ changes' = changes + 1 /\ changes < MaxChanges
      BY <2>5 DEF Change, caller
    <3>2. held' \in [Range(Sections) -> Values]
      BY <2>1, <3>1
    <3>3. changes' \in 0..MaxChanges
      <4>1. MaxChanges \in Nat
        BY ClientAssumption
      <4> QED
        BY <2>1, <3>1, <4>1
    <3> QED
      BY <2>1, <3>1, <3>2, <3>3, OtherSteps
  <2>6. CASE Abort
    <3>1. UNCHANGED <<endpoint, given, section, value, parsed, held, changes, reply, stage>> /\ aborted' = TRUE
      BY <2>6 DEF Abort, caller
    <3> QED
      BY <2>1, <3>1, OtherSteps
  <2>7. CASE UNCHANGED client
    BY <2>1, <2>7, OtherSteps DEF client
  <2> QED
    BY <2>2, <2>3, <2>4, <2>5, <2>6, <2>7 DEF Next, CallNext, vars
<1>3. TypesInv => TypeOK
  BY DEF TypesInv
<1> QED
  BY <1>1, <1>2, <1>3, PTL DEF Spec

====
