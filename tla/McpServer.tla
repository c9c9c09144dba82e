------------------------------ MODULE McpServer ------------------------------
(***************************************************************************)
(* createSafeShapeMcpServer (packages/mcp/src/server.ts): the protocol of  *)
(* McpProtocol with its options.call, which runs every inspection through  *)
(* one execution gate and fits what comes out of it into responseBytes.    *)
(*                                                                         *)
(* The gate appears as what ExecutionGate is shown to implement, SlotGate. *)
(* Replies other than the result of a call are assumed to fit the limit;   *)
(* a result fits or not by its size in bytes.                              *)
(***************************************************************************)
EXTENDS McpProtocol

CONSTANTS ResponseBytes,    \* limits.responseBytes
          EnvelopeBytes,    \* what the JSON-RPC message adds to a result
          DiagnosticSizes,  \* tool results that only report an error code
          ResultSizes       \* tool results that inspections produce

ASSUME ServerAssumption ==
  /\ {ResponseBytes, EnvelopeBytes} \subseteq Nat \ {0}
  /\ DiagnosticSizes \cup ResultSizes \subseteq Nat \ {0}

VARIABLES taken, held, answer   \* the gate; see SlotGate

gateVars == <<taken, held, answer>>
serverVars == <<vars, taken, held, answer>>

Gate == INSTANCE SlotGate WITH Calls <- Requests

ServerInit == Init /\ Gate!Init

\* Sizes of the tool result that the answer of the gate may be turned into: the
\* inspection's own when it is within the limit, or else that of a diagnostic.
ResultBytes(r) ==
  {n \in DiagnosticSizes \cup (IF answer[r] = "value" THEN ResultSizes ELSE {}) :
     n <= ResponseBytes}

-----------------------------------------------------------------------------
\* options.call: an unknown tool is refused before the gate is asked.
ServerCall(r, i) ==
  /\ AcceptCall(r, i)
  /\ Gate!Take(r) \/ Gate!Refuse(r) \/ UNCHANGED gateVars

\* Mutant: the answer of a callback arrives before its slot is free.
GateRepliesEarly(r) ==
  /\ r \in taken
  /\ answer[r] = "none"
  /\ \E o \in {"value", "failed", "deadline_exceeded"} :
       answer' = [answer EXCEPT ![r] = o]
  /\ UNCHANGED <<vars, taken, held>>

\* Mutant: the gate answers when the callback has settled, and not before.
GateRepliesLate(r) ==
  /\ Gate!Reply(r)
  /\ r \notin held
  /\ answer'[r] = "cancelled" => aborted[r]
  /\ UNCHANGED vars

\* The gate answers a call; "cancelled" needs the signal of the protocol.
GateReplies(r) ==
  /\ Gate!Reply(r)
  /\ answer'[r] = "cancelled" => aborted[r]
  /\ UNCHANGED vars

\* The callback of a call settles, whether or not anyone waits for it.
GateFrees(r) ==
  /\ Gate!Free(r)
  /\ UNCHANGED vars

\* The tool result is within responseBytes; the message around it may not be.
CallMaterializes(r) ==
  /\ answer[r] # "none"
  /\ \E n \in ResultBytes(r) :
       /\ CallReturns(r)
       /\ ~aborted[r] => (state' = "closed" <=> n + EnvelopeBytes > ResponseBytes)
  /\ UNCHANGED gateVars

\* An unknown tool, or arguments the tool's schema rejects.
CallRejected(r) ==
  /\ \/ r \notin taken /\ answer[r] = "none"
     \/ answer[r] = "failed"
  /\ CallThrows(r)
  /\ stage'[r] # "stopping"
  /\ UNCHANGED gateVars

\* Not even the diagnostic fits: the server is closed, unless it is already, and
\* the call then throws.
CallClosesServer(r) ==
  /\ stage[r] = "calling"
  /\ answer[r] # "none"
  /\ \E n \in DiagnosticSizes : n > ResponseBytes
  /\ \/ Shutdown
     \/ state = "closed" /\ CallThrows(r)
  /\ UNCHANGED gateVars

\* What the protocol does without the tools.
ProtocolStep ==
  /\ \/ Connect
     \/ Shutdown
     \/ TransportCloses
     \/ Initialized
     \/ \E i \in Ids : Cancel(i)
     \/ \E r \in Requests :
          /\ \/ ReceiveInvalid(r)
             \/ \E i \in Ids :
                  \/ ReceiveDuplicate(r, i)
                  \/ ReceivePing(r, i)
                  \/ ReceiveInitialize(r, i)
                  \/ ReceiveEarly(r, i)
                  \/ ReceiveList(r, i)
                  \/ ReceiveUnusable(r, i)
                  \/ RefuseCall(r, i)
             \/ SendSettles(r)
             \/ ThrowTooLarge(r)
             \/ Fail(r)
          /\ stage'[r] # "stopping"
  /\ UNCHANGED gateVars

CallStep(r) == CallMaterializes(r) \/ CallRejected(r) \/ CallClosesServer(r)

ServerNext ==
  \/ ProtocolStep
  \/ \E r \in Requests :
       \/ \E i \in Ids : ServerCall(r, i)
       \/ GateReplies(r)
       \/ GateFrees(r)
       \/ CallStep(r)

ServerSpec == ServerInit /\ [][ServerNext]_serverVars

\* The protocol's own fairness, and a gate that answers every call in the end
\* (EveryCallerAnswered of ExecutionGate).  Callbacks may hang: GateFrees is not fair.
ServerFairSpec ==
  /\ ServerSpec
  /\ WF_serverVars(TransportCloses /\ UNCHANGED gateVars)
  /\ \A r \in Requests :
       /\ WF_serverVars(GateReplies(r))
       /\ WF_serverVars(CallStep(r))
       /\ WF_serverVars(SendSettles(r) /\ stage'[r] # "stopping" /\ UNCHANGED gateVars)
       /\ WF_serverVars(ThrowTooLarge(r) /\ UNCHANGED gateVars)
       /\ WF_serverVars(Fail(r) /\ UNCHANGED gateVars)

-----------------------------------------------------------------------------
(* Properties. *)

\* The two capacity checks agree: the gate refuses a call that the protocol let
\* through only because of a slot whose caller was told of a cancellation or of a
\* deadline while its callback went on.
RefusedOnlyByAbandoned ==
  [][\A r \in Requests :
       answer[r] = "none" /\ answer'[r] = "capacity_exceeded" =>
         \E q \in held : answer[q] \in {"cancelled", "deadline_exceeded"}]_serverVars

\* A slot belongs to a call that the protocol still awaits, or its caller was told
\* of a cancellation or a deadline: no other call leaves a slot behind it.
SlotsBelongToCalls ==
  \A r \in held :
    stage[r] = "calling" \/ answer[r] \in {"cancelled", "deadline_exceeded"}

\* "Over-limit responses yield a bounded diagnostic": a result never costs the
\* connection as long as the diagnostic would fit.
OverLimitDiagnosed ==
  [][(\A n \in DiagnosticSizes : n + EnvelopeBytes <= ResponseBytes) =>
       \A r \in Requests : stage'[r] # "dropping"]_serverVars

=============================================================================
