----------------------------- MODULE McpProtocol -----------------------------
(***************************************************************************)
(* createProtocolServer (packages/mcp/src/protocol.ts): the JSON-RPC       *)
(* server between a transport and the tool implementation.                 *)
(*                                                                         *)
(* A message that carries an id is one element of Requests, that is one    *)
(* activation of receive().  receive() runs without interruption up to an  *)
(* await: of options.call, of transport.send, or of server.close.  What    *)
(* happens at those awaits, and what may arrive in between, is the         *)
(* concurrency of the module.  Payloads are left out; whether a reply fits *)
(* limits.responseBytes is decided by the environment.                     *)
(***************************************************************************)
EXTENDS Naturals, Sequences, FiniteSets

CONSTANTS Requests,     \* activations of receive() for messages with an id
          Ids,          \* request ids the client uses
          Concurrency,  \* limits.concurrency
          NoCall,       \* no entry in the map of pending calls
          NoId          \* the request is not a call

ASSUME ProtocolAssumption ==
  /\ Concurrency \in Nat \ {0}
  /\ NoCall \notin Requests
  /\ NoId \notin Ids

VARIABLES
  state,     \* state of the server
  link,      \* the transport: none yet, open, being closed, closed and observed
  stage,     \* where the activation of a request stands
  id,        \* the id under which a call was entered
  pending,   \* the map of pending calls, by id
  aborted,   \* controller.signal.aborted of a call
  handed,    \* the replies given to transport.send for a request
  answered   \* the reply that transport.send carried out for a request

vars == <<state, link, stage, id, pending, aborted, handed, answered>>

Reply == {"pong", "initialized", "tools", "capacity", "result", "error",
          "invalid_request", "invalid_params", "not_ready", "unknown_method"}

\* "calling" awaits options.call.  "sending", "replying" and "reporting" await
\* transport.send: for a request answered at once, for a call's result, and for
\* the error reported when a call or its reply failed.  "stopping" and
\* "dropping" await server.close after a reply that was too large.  "failed" is
\* a rejected receive() whose handler has not run.
Stages == {"unsent", "calling", "sending", "replying", "reporting", "stopping",
           "dropping", "failed", "done"}

TypeOK ==
  /\ state \in {"new", "connected", "initializing", "ready", "closed"}
  /\ link \in {"none", "open", "closing", "closed"}
  /\ stage \in [Requests -> Stages]
  /\ id \in [Requests -> Ids \cup {NoId}]
  /\ pending \in [Ids -> Requests \cup {NoCall}]
  /\ aborted \in [Requests -> BOOLEAN]
  /\ handed \in [Requests -> Seq(Reply)]
  /\ answered \in [Requests -> Reply \cup {"none"}]

Init ==
  /\ state = "new"
  /\ link = "none"
  /\ stage = [r \in Requests |-> "unsent"]
  /\ id = [r \in Requests |-> NoId]
  /\ pending = [i \in Ids |-> NoCall]
  /\ aborted = [r \in Requests |-> FALSE]
  /\ handed = [r \in Requests |-> <<>>]
  /\ answered = [r \in Requests |-> "none"]

\* Activations that are between pending.set and their finally block.
Active == {r \in Requests : stage[r] \in {"calling", "replying", "reporting"}}

\* pending.size
PendingSize == Cardinality({i \in Ids : pending[i] # NoCall})

-----------------------------------------------------------------------------
(* server.close and send. *)

\* close() up to its await: every pending call is aborted and forgotten, the
\* handlers of the transport are taken off.
CloseServer ==
  /\ state # "closed"
  /\ state' = "closed"
  /\ aborted' = [r \in Requests |-> aborted[r] \/ \E i \in Ids : pending[i] = r]
  /\ pending' = [i \in Ids |-> NoCall]
  /\ link' = IF link = "none" THEN "closed" ELSE "closing"

\* send() hands a reply that fits to the transport.
Hands(r, reply, next) ==
  /\ handed' = [handed EXCEPT ![r] = Append(@, reply)]
  /\ stage' = [stage EXCEPT ![r] = next]

\* send() of a reply over the limit closes the server before it throws.
TooLarge(r, next) ==
  /\ CloseServer
  /\ stage' = [stage EXCEPT ![r] = next]
  /\ UNCHANGED handed

\* send() inside an activation that changes nothing else.
Sends(r, reply, next, over) ==
  \/ Hands(r, reply, next) /\ UNCHANGED <<state, link, aborted, pending>>
  \/ TooLarge(r, over)

\* A request that is answered before anything is awaited.
Answer(r, reply) ==
  /\ Sends(r, reply, "sending", "stopping")
  /\ UNCHANGED <<id, answered>>

-----------------------------------------------------------------------------
(* Connecting and closing. *)

Connect ==
  /\ state = "new"
  /\ state' = "connected"
  /\ link' = "open"
  /\ UNCHANGED <<stage, id, pending, aborted, handed, answered>>

\* server.close by its owner, by a transport that fails to start, reports an
\* error or closes, and on a message that cannot be copied or is too large.
Shutdown ==
  /\ CloseServer
  /\ UNCHANGED <<stage, id, handed, answered>>

\* transport.close settles and onclose is observed.
TransportCloses ==
  /\ link = "closing"
  /\ link' = "closed"
  /\ UNCHANGED <<state, stage, id, pending, aborted, handed, answered>>

-----------------------------------------------------------------------------
(* receive(): notifications. *)

Initialized ==
  /\ state = "initializing"
  /\ state' = "ready"
  /\ UNCHANGED <<link, stage, id, pending, aborted, handed, answered>>

\* Mutant: a cancelled call gives its id back at once.
CancelForgets(i) ==
  /\ state \notin {"new", "closed"}
  /\ pending[i] # NoCall
  /\ aborted' = [aborted EXCEPT ![pending[i]] = TRUE]
  /\ pending' = [pending EXCEPT ![i] = NoCall]
  /\ UNCHANGED <<state, link, stage, id, handed, answered>>

\* notifications/cancelled: the entry stays until the call settles.
Cancel(i) ==
  /\ state \notin {"new", "closed"}
  /\ pending[i] # NoCall
  /\ aborted' = [aborted EXCEPT ![pending[i]] = TRUE]
  /\ UNCHANGED <<state, link, stage, id, pending, handed, answered>>

-----------------------------------------------------------------------------
(* receive(): requests. *)

\* A message with an id reaches the server.
Arrives(r) ==
  /\ state \notin {"new", "closed"}
  /\ stage[r] = "unsent"

\* Not an object, or not a valid request; the id is echoed when it is one.
ReceiveInvalid(r) == Arrives(r) /\ Answer(r, "invalid_request")

\* Every valid request is first compared with the pending calls, a ping too.
ReceiveDuplicate(r, i) ==
  /\ Arrives(r)
  /\ pending[i] # NoCall
  /\ Answer(r, "invalid_request")

ReceivePing(r, i) ==
  /\ Arrives(r)
  /\ pending[i] = NoCall
  /\ Answer(r, "pong")

\* Mutant: the state does not move until the client confirms.
ReceiveInitializeAgain(r, i) ==
  /\ Arrives(r)
  /\ pending[i] = NoCall
  /\ \/ /\ state \in {"connected", "initializing"}
        /\ \/ /\ state' = "initializing"
              /\ Hands(r, "initialized", "sending")
              /\ UNCHANGED <<link, aborted, pending>>
           \/ TooLarge(r, "stopping")
        /\ UNCHANGED <<id, answered>>
     \/ /\ state = "connected"
        /\ Answer(r, "invalid_params")
     \/ /\ state \notin {"connected", "initializing"}
        /\ Answer(r, "invalid_request")

\* initialize is accepted once; the state moves before the reply is sent.
ReceiveInitialize(r, i) ==
  /\ Arrives(r)
  /\ pending[i] = NoCall
  /\ \/ /\ state = "connected"
        /\ \/ /\ state' = "initializing"
              /\ Hands(r, "initialized", "sending")
              /\ UNCHANGED <<link, aborted, pending>>
           \/ TooLarge(r, "stopping")
        /\ UNCHANGED <<id, answered>>
     \/ /\ state = "connected"
        /\ Answer(r, "invalid_params")
     \/ /\ state # "connected"
        /\ Answer(r, "invalid_request")

ReceiveEarly(r, i) ==
  /\ Arrives(r)
  /\ pending[i] = NoCall
  /\ state # "ready"
  /\ Answer(r, "not_ready")

ReceiveList(r, i) ==
  /\ Arrives(r)
  /\ pending[i] = NoCall
  /\ state = "ready"
  /\ Answer(r, "tools") \/ Answer(r, "invalid_params")

\* An unknown method, or tools/call with invalid parameters.
ReceiveUnusable(r, i) ==
  /\ Arrives(r)
  /\ pending[i] = NoCall
  /\ state = "ready"
  /\ Answer(r, "unknown_method") \/ Answer(r, "invalid_params")

\* tools/call with every entry of the map taken.
RefuseCall(r, i) ==
  /\ Arrives(r)
  /\ pending[i] = NoCall
  /\ state = "ready"
  /\ PendingSize >= Concurrency
  /\ Answer(r, "capacity")

\* tools/call: the call is entered and options.call is invoked.
AcceptCall(r, i) ==
  /\ Arrives(r)
  /\ pending[i] = NoCall
  /\ state = "ready"
  /\ PendingSize < Concurrency
  /\ id' = [id EXCEPT ![r] = i]
  /\ pending' = [pending EXCEPT ![i] = r]
  /\ stage' = [stage EXCEPT ![r] = "calling"]
  /\ UNCHANGED <<state, link, aborted, handed, answered>>

Receive(r) ==
  \/ ReceiveInvalid(r)
  \/ \E i \in Ids :
       \/ ReceiveDuplicate(r, i)
       \/ ReceivePing(r, i)
       \/ ReceiveInitialize(r, i)
       \/ ReceiveEarly(r, i)
       \/ ReceiveList(r, i)
       \/ ReceiveUnusable(r, i)
       \/ RefuseCall(r, i)
       \/ AcceptCall(r, i)

-----------------------------------------------------------------------------
(* receive() after an await. *)

\* The finally block of a call.
Forget(r) == pending' = [i \in Ids |-> IF pending[i] = r THEN NoCall ELSE pending[i]]

\* The end of an activation that sends nothing more.
Finish(r, next) ==
  /\ stage' = [stage EXCEPT ![r] = next]
  /\ Forget(r)
  /\ UNCHANGED <<state, link, id, aborted, handed>>

\* Mutant: the result is sent without a look at the signal.
CallReturnsAnyway(r) ==
  /\ stage[r] = "calling"
  /\ \/ /\ state # "closed"
        /\ Sends(r, "result", "replying", "dropping")
     \/ /\ state = "closed"
        /\ stage' = [stage EXCEPT ![r] = "done"]
        /\ UNCHANGED <<state, link, pending, aborted, handed>>
  /\ UNCHANGED <<id, answered>>

\* options.call resolves.
CallReturns(r) ==
  /\ stage[r] = "calling"
  /\ \/ aborted[r] /\ Finish(r, "done")
     \/ ~aborted[r] /\ Sends(r, "result", "replying", "dropping") /\ UNCHANGED id
  /\ UNCHANGED answered

\* The catch block: options.call or the reply failed.
Catch(r) ==
  /\ \/ aborted[r] /\ Finish(r, "done")
     \/ ~aborted[r] /\ Sends(r, "error", "reporting", "stopping") /\ UNCHANGED id
  /\ UNCHANGED answered

\* options.call rejects, or send() cannot copy what it resolved with.
CallThrows(r) == stage[r] = "calling" /\ Catch(r)

\* transport.send resolves: the reply is on its way to the client.
SendResolves(r) ==
  /\ stage[r] \in {"sending", "replying", "reporting"}
  /\ Finish(r, "done")
  /\ answered' = [answered EXCEPT ![r] = handed[r][Len(handed[r])]]

\* Mutant: a failed reply is given up without a word.
SendRejectsSilently(r) ==
  /\ stage[r] \in {"sending", "replying", "reporting"}
  /\ Finish(r, "done")
  /\ UNCHANGED answered

\* transport.send rejects: only a call's result is followed by an error reply.
SendRejects(r) ==
  \/ /\ stage[r] = "replying"
     /\ Catch(r)
  \/ /\ stage[r] \in {"sending", "reporting"}
     /\ Finish(r, "failed")
     /\ UNCHANGED answered

\* server.close settles inside send(), which then throws.  The call whose
\* result was too large finds itself aborted; another activation rejects.
ThrowTooLarge(r) ==
  /\ stage[r] \in {"stopping", "dropping"}
  /\ link = "closed"
  /\ stage' = [stage EXCEPT ![r] = IF @ = "dropping" THEN "done" ELSE "failed"]
  /\ UNCHANGED <<state, link, id, pending, aborted, handed, answered>>

\* receive() rejects: fail() closes the server.
Fail(r) ==
  /\ stage[r] = "failed"
  /\ stage' = [stage EXCEPT ![r] = "done"]
  /\ \/ CloseServer
     \/ state = "closed" /\ UNCHANGED <<state, link, pending, aborted>>
  /\ UNCHANGED <<id, handed, answered>>

CallSettles(r) == CallReturns(r) \/ CallThrows(r)
SendSettles(r) == SendResolves(r) \/ SendRejects(r)

Next ==
  \/ Connect
  \/ Shutdown
  \/ TransportCloses
  \/ Initialized
  \/ \E i \in Ids : Cancel(i)
  \/ \E r \in Requests :
       Receive(r) \/ CallSettles(r) \/ SendSettles(r) \/ ThrowTooLarge(r) \/ Fail(r)

Spec == Init /\ [][Next]_vars

-----------------------------------------------------------------------------
(* Properties. *)

\* The map holds exactly the calls that are still under way: no id is blocked by
\* a call that has ended, no two calls under way share an id, whatever was
\* cancelled, failed or refused in between, and a closed server has none.  So
\* the limit on the map is one on the calls: cancelled and outlived ones
\* included, at most Concurrency are between options.call and the end of their
\* reply.
PendingIsExact ==
  /\ \A i \in Ids, r \in Requests :
       pending[i] = r <=> state # "closed" /\ r \in Active /\ id[r] = i
  /\ Cardinality(Active) <= Concurrency

\* A call that was cancelled, or whose server was closed, is never answered
\* afterwards, and no request is answered twice.
SilentAfterEnd ==
  [][\A r \in Requests :
       aborted[r] \/ answered[r] # "none" \/ state = "closed" => handed'[r] = handed[r]]_vars

\* A request that is over was answered, unless it was cancelled or the
\* connection is closed: a failed send is never passed over.
AnsweredOrClosed ==
  \A r \in Requests :
    stage[r] = "done" => answered[r] # "none" \/ aborted[r] \/ state = "closed"

\* initialize succeeds at most once, and no tool is listed or called before it did.
HandshakeFirst ==
  LET Got(reply) == {r \in Requests : \E k \in 1..Len(handed[r]) : handed[r][k] = reply}
  IN  /\ Cardinality(Got("initialized")) <= 1
      /\ Active # {} \/ Got("tools") # {} \/ Got("result") # {} => Got("initialized") # {}

\* Every request that is received comes to its end, and a server that is closed
\* tells its owner.
EveryRequestEnds ==
  /\ \A r \in Requests : stage[r] # "unsent" ~> stage[r] = "done"
  /\ state = "closed" ~> link = "closed"

=============================================================================
