--------------------------- MODULE McpServerProofs ---------------------------
(***************************************************************************)
(* Proofs about McpProtocol, and about McpServer, the composition of the   *)
(* protocol and the gate, for every set of requests and of ids and every   *)
(* limit on concurrent calls.  First the protocol alone: its pending map,  *)
(* its answers, its handshake.  Then the composition: it implements both,  *)
(* and what neither says alone holds of the two.                           *)
(***************************************************************************)
EXTENDS McpServer, FiniteSetTheorems, TLAPS

-----------------------------------------------------------------------------
(* The inductive invariant. *)

\* Where one activation stands, against what was sent and cancelled for it.
RequestInv(r) ==
  /\ stage[r] = "unsent" => ~aborted[r]
  /\ r \in Active => id[r] \in Ids
  /\ r \in Active /\ state = "closed" => aborted[r]
  /\ stage[r] \in {"sending", "replying", "reporting"} => handed[r] # <<>>
  /\ answered[r] # "none" => stage[r] = "done"
  /\ stage[r] \in {"stopping", "dropping"} => state = "closed"
  /\ stage[r] = "done" => answered[r] # "none" \/ aborted[r] \/ state = "closed"

\* The map of pending calls against the activations.
MapInv ==
  \A i \in Ids, r \in Requests :
    pending[i] = r <=> state # "closed" /\ r \in Active /\ id[r] = i

LimitInv == IsFiniteSet(Active) /\ Cardinality(Active) <= Concurrency

\* The requests for which a reply was given to the transport.
Got(reply) == {r \in Requests : \E k \in 1..Len(handed[r]) : handed[r][k] = reply}

\* The handshake: what was sent, against the state of the server.
HandshakeInv ==
  /\ state \in {"new", "connected"} => Got("initialized") = {}
  /\ state \in {"initializing", "ready"} => Got("initialized") # {}
  /\ \A q, r \in Got("initialized") : q = r
  /\ Active # {} \/ Got("tools") # {} \/ Got("result") # {} => Got("initialized") # {}

ProtocolInv ==
  /\ TypeOK
  /\ \A r \in Requests : RequestInv(r)
  /\ MapInv
  /\ LimitInv
  /\ HandshakeInv

-----------------------------------------------------------------------------
(* The kinds of steps. *)

\* A request is answered when it is received.
Answers(r, reply) ==
  /\ Arrives(r)
  /\ Hands(r, reply, "sending")
  /\ \/ reply = "initialized" /\ state = "connected" /\ state' = "initializing"
     \/ /\ reply \notin {"initialized", "result"}
        /\ reply = "tools" => state = "ready"
        /\ state' = state
  /\ UNCHANGED <<link, id, pending, aborted, answered>>

\* A call sends its result or its error.
Continues(r, reply, next) ==
  /\ r \in Active /\ ~aborted[r]
  /\ Hands(r, reply, next)
  /\ UNCHANGED <<state, link, id, pending, aborted, answered>>

\* A reply is too large.
Oversteps(r, next) ==
  /\ stage[r] \in {"unsent", "calling", "replying"}
  /\ TooLarge(r, next)
  /\ UNCHANGED <<id, answered>>

\* An activation that was under way ends, answered, aborted or failed.
Ends(r, next) ==
  /\ stage[r] \in {"calling", "sending", "replying", "reporting"}
  /\ Finish(r, next)
  /\ \/ next = "failed" /\ UNCHANGED answered
     \/ next = "done" /\ aborted[r] /\ UNCHANGED answered
     \/ next = "done" /\ stage[r] # "calling"
        /\ answered' = [answered EXCEPT ![r] = handed[r][Len(handed[r])]]

RequestStep(r) ==
  \/ \E reply \in Reply : Answers(r, reply)
  \/ \E reply \in {"result", "error"}, next \in {"replying", "reporting"} : Continues(r, reply, next)
  \/ \E next \in {"stopping", "dropping"} : Oversteps(r, next)
  \/ \E i \in Ids : AcceptCall(r, i)
  \/ \E next \in {"failed", "done"} : Ends(r, next)
  \/ ThrowTooLarge(r)
  \/ Fail(r)

\* Every step of a request is of one of these kinds.
LEMMA RequestSteps ==
  ASSUME NEW r \in Requests,
         Receive(r) \/ CallSettles(r) \/ SendSettles(r) \/ ThrowTooLarge(r) \/ Fail(r)
  PROVE  RequestStep(r)
<1>1. ASSUME NEW reply \in Reply \ {"initialized", "result"}, Arrives(r), Answer(r, reply),
             reply = "tools" => state = "ready"
      PROVE  RequestStep(r)
  <2>1. CASE Hands(r, reply, "sending") /\ UNCHANGED <<state, link, aborted, pending>>
    BY <1>1, <2>1 DEF Answer, RequestStep, Answers
  <2>2. CASE TooLarge(r, "stopping")
    BY <1>1, <2>2 DEF Answer, RequestStep, Oversteps, Arrives
  <2>3. QED
    BY <1>1, <2>1, <2>2 DEF Answer, Sends
<1> USE DEF Reply
<1>2. CASE ReceiveInvalid(r)
  BY <1>1, <1>2 DEF ReceiveInvalid
<1>3. ASSUME NEW i \in Ids, ReceiveInitialize(r, i) PROVE RequestStep(r)
  <2>1. CASE /\ state = "connected" /\ state' = "initializing"
             /\ Hands(r, "initialized", "sending")
             /\ UNCHANGED <<link, aborted, pending, id, answered>>
    BY <1>3, <2>1 DEF ReceiveInitialize, RequestStep, Answers
  <2>2. CASE TooLarge(r, "stopping") /\ UNCHANGED <<id, answered>>
    BY <1>3, <2>2 DEF ReceiveInitialize, RequestStep, Oversteps, Arrives
  <2>3. CASE Answer(r, "invalid_params") \/ Answer(r, "invalid_request")
    BY <1>1, <1>3, <2>3 DEF ReceiveInitialize
  <2>4. QED
    BY <1>3, <2>1, <2>2, <2>3 DEF ReceiveInitialize
<1>4. ASSUME NEW i \in Ids,
             \/ ReceiveDuplicate(r, i) \/ ReceivePing(r, i) \/ ReceiveEarly(r, i)
             \/ ReceiveList(r, i) \/ ReceiveUnusable(r, i) \/ RefuseCall(r, i)
      PROVE  RequestStep(r)
  BY <1>1, <1>4 DEF ReceiveDuplicate, ReceivePing, ReceiveEarly, ReceiveList, ReceiveUnusable,
                    RefuseCall
<1>5. ASSUME NEW i \in Ids, AcceptCall(r, i) PROVE RequestStep(r)
  BY <1>5 DEF RequestStep
<1>6. ASSUME stage[r] \in {"calling", "replying"}, ~aborted[r],
             NEW reply \in {"result", "error"}, NEW next \in {"replying", "reporting"},
             NEW over \in {"stopping", "dropping"}, Sends(r, reply, next, over),
             UNCHANGED <<id, answered>>
      PROVE  RequestStep(r)
  <2>1. CASE Hands(r, reply, next) /\ UNCHANGED <<state, link, aborted, pending>>
    BY <1>6, <2>1 DEF RequestStep, Continues, Active
  <2>2. CASE TooLarge(r, over)
    BY <1>6, <2>2 DEF RequestStep, Oversteps
  <2>3. QED
    BY <1>6, <2>1, <2>2 DEF Sends
<1>7. ASSUME stage[r] \in {"calling", "replying"}, Catch(r) PROVE RequestStep(r)
  <2>1. CASE aborted[r] /\ Finish(r, "done")
    BY <1>7, <2>1 DEF Catch, RequestStep, Ends
  <2>2. CASE ~aborted[r] /\ Sends(r, "error", "reporting", "stopping") /\ UNCHANGED id
    BY <1>6, <1>7, <2>2 DEF Catch
  <2>3. QED
    BY <1>7, <2>1, <2>2 DEF Catch
<1>8. CASE CallReturns(r)
  <2>1. CASE aborted[r] /\ Finish(r, "done")
    BY <1>8, <2>1 DEF CallReturns, RequestStep, Ends
  <2>2. CASE ~aborted[r] /\ Sends(r, "result", "replying", "dropping") /\ UNCHANGED id
    BY <1>6, <1>8, <2>2 DEF CallReturns
  <2>3. QED
    BY <1>8, <2>1, <2>2 DEF CallReturns
<1>9. CASE CallThrows(r)
  BY <1>7, <1>9 DEF CallThrows
<1>10. CASE SendResolves(r)
  BY <1>10 DEF SendResolves, RequestStep, Ends
<1>11. CASE SendRejects(r)
  <2>1. CASE stage[r] = "replying" /\ Catch(r)
    BY <1>7, <2>1
  <2>2. CASE stage[r] \in {"sending", "reporting"} /\ Finish(r, "failed") /\ UNCHANGED answered
    BY <2>2 DEF RequestStep, Ends
  <2>3. QED
    BY <1>11, <2>1, <2>2 DEF SendRejects
<1>12. CASE ThrowTooLarge(r) \/ Fail(r)
  BY <1>12 DEF RequestStep
<1>13. QED
  BY <1>2, <1>3, <1>4, <1>5, <1>8, <1>9, <1>10, <1>11, <1>12 DEF Receive, CallSettles, SendSettles

-----------------------------------------------------------------------------
(* What the parts of a step do. *)

\* A reply that is handed over is one more for its request, and none for the others.
LEMMA HandsFacts ==
  ASSUME TypeOK, NEW r \in Requests, NEW reply \in Reply,
         NEW next \in Stages, Hands(r, reply, next)
  PROVE  /\ handed' \in [Requests -> Seq(Reply)]
         /\ stage' = [stage EXCEPT ![r] = next] /\ stage' \in [Requests -> Stages]
         /\ handed'[r] # <<>>
         /\ \A q \in Requests : q # r => handed'[q] = handed[q]
         /\ Got(reply)' = Got(reply) \cup {r}
         /\ \A x \in Reply : x # reply => Got(x)' = Got(x)
<1>1. /\ handed[r] \in Seq(Reply) /\ handed' = [handed EXCEPT ![r] = Append(handed[r], reply)]
      /\ stage' = [stage EXCEPT ![r] = next]
  BY DEF Hands, TypeOK
<1>2. /\ Append(handed[r], reply) \in Seq(Reply) /\ Append(handed[r], reply) # <<>>
      /\ Len(Append(handed[r], reply)) = Len(handed[r]) + 1 /\ Len(handed[r]) \in Nat
      /\ \A k \in 1..Len(handed[r]) : Append(handed[r], reply)[k] = handed[r][k]
      /\ Append(handed[r], reply)[Len(handed[r]) + 1] = reply
  BY <1>1
<1>3. /\ handed'[r] = Append(handed[r], reply)
      /\ \A q \in Requests : q # r => handed'[q] = handed[q]
  BY <1>1 DEF TypeOK
<1>4. \A x : (\E k \in 1..Len(handed'[r]) : handed'[r][k] = x) <=>
               (\E k \in 1..Len(handed[r]) : handed[r][k] = x) \/ x = reply
  BY <1>2, <1>3
<1>5. Got(reply)' = Got(reply) \cup {r} /\ \A x \in Reply : x # reply => Got(x)' = Got(x)
  BY <1>3, <1>4 DEF Got
<1>6. handed' \in [Requests -> Seq(Reply)] /\ stage' \in [Requests -> Stages]
  BY <1>1, <1>2 DEF TypeOK
<1>7. QED
  BY <1>1, <1>2, <1>3, <1>5, <1>6

\* Calls under way that become no more stay within the limit.
LEMMA FewerCalls ==
  ASSUME LimitInv, Active' \subseteq Active
  PROVE  LimitInv'
<1>1. /\ IsFiniteSet(Active') /\ Cardinality(Active') <= Cardinality(Active)
      /\ Cardinality(Active) \in Nat /\ Cardinality(Active') \in Nat
  BY FS_Subset, FS_CardinalityType DEF LimitInv
<1>2. QED
  BY <1>1, ProtocolAssumption DEF LimitInv

\* While no reply is handed over and no call begins, the handshake is where it was.
LEMMA HandshakeKept ==
  ASSUME HandshakeInv, UNCHANGED handed, Active' \subseteq Active,
         state' = state \/ state' = "closed"
  PROVE  HandshakeInv'
<1>1. \A x : Got(x)' = Got(x)
  BY DEF Got
<1>2. QED
  BY <1>1 DEF HandshakeInv

\* An activation is under way or not by its stage.
LEMMA ActiveFacts ==
  ASSUME TypeOK, NEW r \in Requests, NEW next, stage' = [stage EXCEPT ![r] = next]
  PROVE  /\ \A q \in Requests : q # r => stage'[q] = stage[q] /\ (q \in Active' <=> q \in Active)
         /\ stage'[r] = next
         /\ r \in Active' <=> next \in {"calling", "replying", "reporting"}
         /\ r \in Active <=> stage[r] \in {"calling", "replying", "reporting"}
  BY DEF TypeOK, Active

\* The map has as many entries as there are calls under way.
LEMMA MapSize ==
  ASSUME ProtocolInv, state # "closed"
  PROVE  PendingSize = Cardinality(Active)
<1> DEFINE entries == {i \in Ids : pending[i] # NoCall}
           entry == [r \in Active |-> id[r]]
<1>1. \A r \in Active : id[r] \in entries /\ pending[id[r]] = r
  BY ProtocolAssumption DEF ProtocolInv, RequestInv, MapInv, Active
<1>2. \A i \in entries : pending[i] \in Active /\ id[pending[i]] = i
  BY DEF ProtocolInv, TypeOK, MapInv
<1>3. entry \in [Active -> entries]
  BY <1>1
<1>4. \A i \in entries : \E r \in Active : entry[r] = i
  BY <1>2
<1>5. \A q, r \in Active : entry[q] = entry[r] => q = r
  BY <1>1
<1>6. entry \in Bijection(Active, entries)
  BY <1>3, <1>4, <1>5 DEF Bijection, Injection, Surjection, IsInjective
<1>7. ExistsBijection(Active, entries)
  BY <1>6 DEF ExistsBijection
<1>8. QED
  BY <1>7, FS_Bijection DEF PendingSize, ProtocolInv, LimitInv

-----------------------------------------------------------------------------
(* The invariant is kept. *)

\* A reply that is sent at once moves neither the map nor the calls under way.
LEMMA AnswersKept ==
  ASSUME ProtocolInv, NEW r \in Requests, NEW reply \in Reply, Answers(r, reply)
  PROVE  ProtocolInv'
<1> USE DEF ProtocolInv
<1>1. Hands(r, reply, "sending") /\ "sending" \in Stages
  BY DEF Answers, Stages
<1>2. stage[r] = "unsent" /\ stage' = [stage EXCEPT ![r] = "sending"] /\ ~aborted[r]
  BY <1>1 DEF Answers, Arrives, Hands, RequestInv
<1>3. Active' = Active /\ r \notin Active
  BY <1>2 DEF Active, TypeOK
<1>4. TypeOK'
  BY <1>1, HandsFacts DEF Answers, TypeOK
<1>5. ASSUME NEW q \in Requests PROVE RequestInv(q)'
  <2>1. CASE q = r
    BY <1>1, <1>2, <1>3, <2>1, HandsFacts, ActiveFacts DEF Answers, RequestInv, Arrives
  <2>2. CASE q # r
    BY <1>1, <1>2, <1>3, <2>2, HandsFacts, ActiveFacts DEF Answers, RequestInv, Arrives
  <2>3. QED
    BY <2>1, <2>2
<1>6. MapInv' /\ LimitInv'
  BY <1>3 DEF Answers, MapInv, LimitInv, Arrives
<1>7. HandshakeInv'
  <2>1. CASE reply = "initialized"
    <3>1. Got("initialized")' = Got("initialized") \cup {r}
      BY <1>1, <2>1, HandsFacts
    <3>2. Got("initialized") = {} /\ state' = "initializing"
      BY <2>1 DEF Answers, HandshakeInv
    <3>3. QED
      BY <3>1, <3>2 DEF HandshakeInv
  <2>2. CASE reply # "initialized"
    <3>1. /\ Got("initialized")' = Got("initialized") /\ Got("result")' = Got("result")
          /\ Got("tools")' # {} => Got("tools") # {} \/ state = "ready"
          /\ state' = state
      BY <1>1, <2>2, HandsFacts DEF Answers, Reply
    <3>2. QED
      BY <1>3, <3>1 DEF HandshakeInv
  <2>3. QED
    BY <2>1, <2>2
<1>8. QED
  BY <1>4, <1>5, <1>6, <1>7

\* A call that sends its result or its error is still under way.
LEMMA ContinuesKept ==
  ASSUME ProtocolInv, NEW r \in Requests, NEW reply \in {"result", "error"},
         NEW next \in {"replying", "reporting"}, Continues(r, reply, next)
  PROVE  ProtocolInv'
<1> USE DEF ProtocolInv
<1>1. Hands(r, reply, next) /\ next \in Stages /\ reply \in Reply /\ reply # "initialized"
  BY DEF Continues, Stages, Reply
<1>2. r \in Active /\ ~aborted[r] /\ stage' = [stage EXCEPT ![r] = next]
  BY <1>1 DEF Continues, Hands
<1>3. Active' = Active
  BY <1>2 DEF Active, TypeOK
<1>4. TypeOK'
  BY <1>1, HandsFacts DEF Continues, TypeOK
<1>5. ASSUME NEW q \in Requests PROVE RequestInv(q)'
  <2>1. CASE q = r
    BY <1>1, <1>2, <1>3, <2>1, HandsFacts, ActiveFacts DEF Continues, RequestInv
  <2>2. CASE q # r
    BY <1>1, <1>2, <1>3, <2>2, HandsFacts, ActiveFacts DEF Continues, RequestInv
  <2>3. QED
    BY <2>1, <2>2
<1>6. MapInv' /\ LimitInv'
  BY <1>3 DEF Continues, MapInv, LimitInv
<1>7. HandshakeInv'
  <2>1. Got("initialized")' = Got("initialized") /\ Got("initialized") # {}
    BY <1>1, <1>2, HandsFacts DEF HandshakeInv, Reply
  <2>2. QED
    BY <1>2, <2>1 DEF HandshakeInv, Continues
<1>8. QED
  BY <1>4, <1>5, <1>6, <1>7

\* Closing aborts every call under way and empties the map.
LEMMA CloseFacts ==
  ASSUME ProtocolInv, CloseServer
  PROVE  /\ state # "closed" /\ state' = "closed" /\ link' \in {"closing", "closed"}
         /\ pending' = [i \in Ids |-> NoCall]
         /\ aborted' \in [Requests -> BOOLEAN]
         /\ \A r \in Requests : aborted[r] => aborted'[r]
         /\ \A r \in Active : aborted'[r]
         /\ \A r \in Requests : aborted'[r] => aborted[r] \/ r \in Active
<1>1. \A r \in Active : pending[id[r]] = r /\ id[r] \in Ids /\ r \in Requests
  BY DEF ProtocolInv, RequestInv, MapInv, CloseServer, Active
<1>2. \A i \in Ids, r \in Requests : pending[i] = r => r \in Active
  BY DEF ProtocolInv, MapInv
<1>3. QED
  BY <1>1, <1>2 DEF CloseServer, ProtocolInv, TypeOK

\* After the server is closed the map is empty.
LEMMA ClosedMap ==
  ASSUME state' = "closed", pending' = [i \in Ids |-> NoCall]
  PROVE  MapInv'
  BY ProtocolAssumption DEF MapInv

\* A reply that is too large ends its activation with the server.
LEMMA OverstepsKept ==
  ASSUME ProtocolInv, NEW r \in Requests, NEW next \in {"stopping", "dropping"}, Oversteps(r, next)
  PROVE  ProtocolInv'
<1> USE DEF ProtocolInv
<1>1. CloseServer /\ stage' = [stage EXCEPT ![r] = next] /\ UNCHANGED <<handed, id, answered>>
  BY DEF Oversteps, TooLarge
<1>2. Active' \subseteq Active /\ next \in Stages
  BY <1>1 DEF Active, TypeOK, Stages
<1>3. TypeOK'
  BY <1>1, <1>2, CloseFacts DEF TypeOK
<1>4. ASSUME NEW q \in Requests PROVE RequestInv(q)'
  <2>1. CASE q = r
    <3>1. stage[r] # "done" /\ stage'[r] = next /\ r \notin Active'
      BY <1>1, ActiveFacts DEF Oversteps
    <3>2. QED
      BY <1>1, <2>1, <3>1, CloseFacts DEF RequestInv
  <2>2. CASE q # r
    <3>1. /\ stage'[q] = stage[q] /\ (q \in Active' <=> q \in Active)
          /\ stage[q] = "unsent" => q \notin Active
      BY <1>1, <2>2, ActiveFacts DEF Active
    <3>2. QED
      BY <1>1, <3>1, CloseFacts DEF RequestInv
  <2>3. QED
    BY <2>1, <2>2
<1>5. MapInv' /\ LimitInv'
  BY <1>1, <1>2, CloseFacts, ClosedMap, FewerCalls
<1>6. HandshakeInv'
  BY <1>1, <1>2, CloseFacts, HandshakeKept
<1>7. QED
  BY <1>3, <1>4, <1>5, <1>6

\* A call is accepted: one more entry of the map, and one more call under way.
LEMMA AcceptKept ==
  ASSUME ProtocolInv, NEW r \in Requests, NEW i \in Ids, AcceptCall(r, i)
  PROVE  ProtocolInv'
<1> USE DEF ProtocolInv
<1>1. /\ stage[r] = "unsent" /\ pending[i] = NoCall /\ state = "ready" /\ state' = state
      /\ stage' = [stage EXCEPT ![r] = "calling"] /\ "calling" \in Stages
      /\ id' = [id EXCEPT ![r] = i] /\ pending' = [pending EXCEPT ![i] = r]
      /\ UNCHANGED <<link, aborted, handed, answered>>
  BY DEF AcceptCall, Arrives, Stages
<1>2. r \notin Active /\ Active' = Active \cup {r}
  BY <1>1 DEF Active, TypeOK
<1>3. TypeOK'
  BY <1>1 DEF TypeOK
<1>4. ASSUME NEW q \in Requests PROVE RequestInv(q)'
  <2>1. CASE q = r
    BY <1>1, <1>2, <2>1, ActiveFacts DEF RequestInv, TypeOK
  <2>2. CASE q # r
    BY <1>1, <1>2, <2>2, ActiveFacts DEF RequestInv, TypeOK
  <2>3. QED
    BY <2>1, <2>2
<1>5. MapInv'
  <2>1. ASSUME NEW j \in Ids, NEW q \in Requests
        PROVE  pending'[j] = q <=> q \in Active' /\ id'[q] = j
    <3>1. CASE j = i /\ q = r
      BY <1>1, <1>2, <3>1 DEF TypeOK
    <3>2. CASE j = i /\ q # r
      <4>1. pending[i] # q
        BY <1>1, ProtocolAssumption
      <4>2. QED
        BY <1>1, <1>2, <3>2, <4>1 DEF TypeOK, MapInv
    <3>3. CASE j # i /\ q = r
      BY <1>1, <1>2, <3>3 DEF TypeOK, MapInv
    <3>4. CASE j # i /\ q # r
      BY <1>1, <1>2, <3>4 DEF TypeOK, MapInv
    <3>5. QED
      BY <3>1, <3>2, <3>3, <3>4
  <2>2. QED
    BY <1>1, <2>1 DEF MapInv
<1>6. LimitInv'
  <2>1. Cardinality(Active) < Concurrency
    BY <1>1, MapSize DEF AcceptCall
  <2>2. IsFiniteSet(Active') /\ Cardinality(Active') = Cardinality(Active) + 1
    BY <1>2, FS_AddElement DEF LimitInv
  <2>3. Cardinality(Active) \in Nat
    BY FS_CardinalityType DEF LimitInv
  <2>4. QED
    BY <2>1, <2>2, <2>3, ProtocolAssumption DEF LimitInv
<1>7. HandshakeInv'
  <2>1. \A x : Got(x)' = Got(x)
    BY <1>1 DEF Got
  <2>2. QED
    BY <1>1, <2>1 DEF HandshakeInv
<1>8. QED
  BY <1>3, <1>4, <1>5, <1>6, <1>7

\* The end of an activation takes its entry out of the map.
LEMMA EndsKept ==
  ASSUME ProtocolInv, NEW r \in Requests, NEW next \in {"failed", "done"}, Ends(r, next)
  PROVE  ProtocolInv'
<1> USE DEF ProtocolInv
<1>1. /\ stage' = [stage EXCEPT ![r] = next] /\ next \in Stages
      /\ pending' = [i \in Ids |-> IF pending[i] = r THEN NoCall ELSE pending[i]]
      /\ UNCHANGED <<state, link, id, aborted, handed>>
      /\ stage[r] \in {"calling", "sending", "replying", "reporting"}
  BY DEF Ends, Finish, Forget, Stages
<1>2. Active' = Active \ {r}
  BY <1>1 DEF Active, TypeOK
<1>3. \/ next = "failed" /\ answered' = answered
      \/ next = "done" /\ aborted[r] /\ answered' = answered
      \/ /\ next = "done"
         /\ \E reply \in Reply : answered' = [answered EXCEPT ![r] = reply]
  <2>1. CASE next = "done" /\ stage[r] # "calling"
             /\ answered' = [answered EXCEPT ![r] = handed[r][Len(handed[r])]]
    <3>1. handed[r] \in Seq(Reply) /\ handed[r] # <<>>
      BY <1>1, <2>1 DEF RequestInv, TypeOK
    <3>2. handed[r][Len(handed[r])] \in Reply
      BY <3>1
    <3>3. QED
      BY <2>1, <3>2
  <2>2. QED
    BY <2>1 DEF Ends
<1>4. TypeOK'
  BY <1>1, <1>3 DEF TypeOK
<1>5. ASSUME NEW q \in Requests PROVE RequestInv(q)'
  <2>1. CASE q = r
    <3>1. answered[r] = "none" /\ (next = "done" => answered'[r] # "none" \/ aborted[r])
      BY <1>1, <1>3 DEF RequestInv, TypeOK, Reply
    <3>2. next = "failed" => answered'[r] = "none"
      BY <1>3, <3>1
    <3>3. QED
      BY <1>1, <1>2, <2>1, <3>1, <3>2, ActiveFacts DEF RequestInv
  <2>2. CASE q # r
    <3>1. answered'[q] = answered[q]
      BY <1>3, <2>2 DEF TypeOK
    <3>2. QED
      BY <1>1, <1>2, <2>2, <3>1, ActiveFacts DEF RequestInv
  <2>3. QED
    BY <2>1, <2>2
<1>6. MapInv'
  <2>1. ASSUME NEW i \in Ids, NEW q \in Requests
        PROVE  pending'[i] = q <=> state' # "closed" /\ q \in Active' /\ id'[q] = i
    <3>1. pending'[i] = q <=> pending[i] = q /\ q # r
      BY <1>1, ProtocolAssumption
    <3>2. QED
      BY <1>1, <1>2, <3>1 DEF MapInv
  <2>2. QED
    BY <2>1 DEF MapInv
<1>7. LimitInv' /\ HandshakeInv'
  BY <1>1, <1>2, FewerCalls, HandshakeKept
<1>8. QED
  BY <1>4, <1>5, <1>6, <1>7

\* The activation of a reply that was too large ends, and so does one that failed.
LEMMA FailuresKept ==
  ASSUME ProtocolInv, NEW r \in Requests, ThrowTooLarge(r) \/ Fail(r)
  PROVE  ProtocolInv'
<1> USE DEF ProtocolInv
<1>1. CASE ThrowTooLarge(r)
  <2>1. PICK next \in {"done", "failed"} : stage' = [stage EXCEPT ![r] = next]
    BY <1>1 DEF ThrowTooLarge, TypeOK
  <2>2. /\ state = "closed" /\ stage[r] \in {"stopping", "dropping"}
        /\ UNCHANGED <<state, link, id, pending, aborted, handed, answered>>
    BY <1>1 DEF ThrowTooLarge, RequestInv
  <2>3. Active' = Active /\ r \notin Active /\ next \in Stages
    BY <2>1, <2>2 DEF Active, TypeOK, Stages
  <2>4. TypeOK'
    BY <2>1, <2>2, <2>3 DEF TypeOK
  <2>5. \A q \in Requests : RequestInv(q)'
    BY <2>1, <2>2, <2>3, ActiveFacts DEF RequestInv
  <2>6. MapInv' /\ LimitInv' /\ HandshakeInv'
    BY <2>2, <2>3, FewerCalls, HandshakeKept DEF MapInv
  <2>7. QED
    BY <2>4, <2>5, <2>6
<1>2. CASE Fail(r)
  <2>1. /\ stage[r] = "failed" /\ stage' = [stage EXCEPT ![r] = "done"] /\ "done" \in Stages
        /\ UNCHANGED <<id, handed, answered>> /\ state' = "closed"
    BY <1>2 DEF Fail, CloseServer, Stages
  <2>2. Active' = Active /\ r \notin Active
    BY <2>1 DEF Active, TypeOK
  <2>3. CASE CloseServer
    <3>1. TypeOK'
      BY <2>1, <2>3, CloseFacts DEF TypeOK
    <3>2. ASSUME NEW q \in Requests PROVE RequestInv(q)'
      <4>1. /\ stage'[q] = (IF q = r THEN "done" ELSE stage[q])
            /\ stage[q] = "unsent" => q \notin Active
        BY <2>1, ActiveFacts DEF Active
      <4>2. QED
        BY <2>1, <2>2, <2>3, <4>1, CloseFacts DEF RequestInv
    <3>3. MapInv' /\ LimitInv' /\ HandshakeInv'
      BY <2>1, <2>2, <2>3, CloseFacts, ClosedMap, FewerCalls, HandshakeKept
    <3>4. QED
      BY <3>1, <3>2, <3>3
  <2>4. CASE state = "closed" /\ UNCHANGED <<state, link, pending, aborted>>
    <3>1. TypeOK'
      BY <2>1, <2>4 DEF TypeOK
    <3>2. \A q \in Requests : RequestInv(q)'
      BY <2>1, <2>2, <2>4, ActiveFacts DEF RequestInv
    <3>3. MapInv' /\ LimitInv' /\ HandshakeInv'
      BY <2>1, <2>2, <2>4, FewerCalls, HandshakeKept DEF MapInv
    <3>4. QED
      BY <3>1, <3>2, <3>3
  <2>5. QED
    BY <1>2, <2>3, <2>4 DEF Fail
<1>3. QED
  BY <1>1, <1>2

\* What is not about one request: connecting, closing, notifications.
LEMMA ServerStepsKept ==
  ASSUME ProtocolInv,
         Connect \/ Shutdown \/ TransportCloses \/ Initialized \/ \E i \in Ids : Cancel(i)
  PROVE  ProtocolInv'
<1> USE DEF ProtocolInv
<1>1. stage' = stage /\ Active' = Active /\ UNCHANGED <<id, handed, answered>>
  BY DEF Connect, Shutdown, TransportCloses, Initialized, Cancel, Active
<1>2. CASE Connect \/ TransportCloses \/ Initialized
  <2>1. /\ pending' = pending /\ aborted' = aborted
        /\ \/ state' = state
           \/ state = "new" /\ state' = "connected"
           \/ state = "initializing" /\ state' = "ready"
    BY <1>2 DEF Connect, TransportCloses, Initialized
  <2>2. TypeOK'
    BY <1>2 DEF Connect, TransportCloses, Initialized, TypeOK
  <2>3. \A q \in Requests : RequestInv(q)'
    BY <1>1, <2>1 DEF RequestInv
  <2>4. MapInv' /\ LimitInv'
    BY <1>1, <2>1, FewerCalls DEF MapInv
  <2>5. \A x : Got(x)' = Got(x)
    BY <1>1 DEF Got
  <2>6. HandshakeInv'
    BY <1>1, <2>1, <2>5 DEF HandshakeInv
  <2>7. QED
    BY <2>2, <2>3, <2>4, <2>6
<1>3. CASE Shutdown
  <2>1. CloseServer
    BY <1>3 DEF Shutdown
  <2>2. TypeOK'
    BY <1>1, <2>1, CloseFacts DEF TypeOK
  <2>3. ASSUME NEW q \in Requests PROVE RequestInv(q)'
    <3>1. stage[q] = "unsent" => q \notin Active
      BY DEF Active
    <3>2. QED
      BY <1>1, <2>1, <3>1, CloseFacts DEF RequestInv
  <2>4. MapInv' /\ LimitInv' /\ HandshakeInv'
    BY <1>1, <2>1, CloseFacts, ClosedMap, FewerCalls, HandshakeKept
  <2>5. QED
    BY <2>2, <2>3, <2>4
<1>4. ASSUME NEW i \in Ids, Cancel(i) PROVE ProtocolInv'
  <2>1. /\ pending[i] \in Active /\ pending[i] \in Requests
        /\ aborted' = [aborted EXCEPT ![pending[i]] = TRUE]
        /\ UNCHANGED <<state, link, pending>>
    BY <1>4 DEF Cancel, TypeOK, MapInv
  <2>2. TypeOK'
    BY <1>1, <2>1 DEF TypeOK
  <2>3. ASSUME NEW q \in Requests PROVE RequestInv(q)'
    <3>1. /\ stage[q] = "unsent" => q # pending[i]
          /\ aborted[q] => aborted'[q]
          /\ q # pending[i] => aborted'[q] = aborted[q]
      BY <2>1 DEF Active, TypeOK
    <3>2. QED
      BY <1>1, <2>1, <3>1 DEF RequestInv
  <2>4. MapInv' /\ LimitInv' /\ HandshakeInv'
    BY <1>1, <2>1, FewerCalls, HandshakeKept DEF MapInv
  <2>5. QED
    BY <2>2, <2>3, <2>4
<1>5. QED
  BY <1>2, <1>3, <1>4

\* Every step keeps the invariant.
LEMMA StepsKept ==
  ASSUME ProtocolInv, Next
  PROVE  ProtocolInv'
<1>1. CASE Connect \/ Shutdown \/ TransportCloses \/ Initialized \/ \E i \in Ids : Cancel(i)
  BY <1>1, ServerStepsKept
<1>2. ASSUME NEW r \in Requests, RequestStep(r) PROVE ProtocolInv'
  BY <1>2, AnswersKept, ContinuesKept, OverstepsKept, AcceptKept, EndsKept, FailuresKept
     DEF RequestStep
<1>3. QED
  BY <1>1, <1>2, RequestSteps DEF Next

\* The invariant holds initially, and is kept.
LEMMA Inductive == Spec => []ProtocolInv
<1>1. Init => ProtocolInv
  <2> SUFFICES ASSUME Init PROVE ProtocolInv
    OBVIOUS
  <2>1. Active = {} /\ \A x : Got(x) = {}
    BY DEF Init, Active, Got
  <2>2. TypeOK
    <3>1. <<>> \in Seq(Reply)
      OBVIOUS
    <3>2. QED
      BY <3>1 DEF Init, TypeOK, Stages
  <2>3. \A r \in Requests : RequestInv(r)
    BY <2>1 DEF Init, RequestInv
  <2>4. MapInv /\ LimitInv /\ HandshakeInv
    BY <2>1, FS_EmptySet, ProtocolAssumption DEF Init, MapInv, LimitInv, HandshakeInv
  <2>5. QED
    BY <2>2, <2>3, <2>4 DEF ProtocolInv
<1>2. ProtocolInv /\ UNCHANGED vars => ProtocolInv'
  BY DEF vars, ProtocolInv, TypeOK, RequestInv, MapInv, LimitInv, HandshakeInv, Got, Active
<1>3. ProtocolInv /\ [Next]_vars => ProtocolInv'
  BY <1>2, StepsKept
<1>4. QED
  BY <1>1, <1>3, PTL DEF Spec

-----------------------------------------------------------------------------
(* Theorems. *)

\* Every state of the protocol is well typed, for every set of requests and ids.
THEOREM TypeCorrect == Spec => []TypeOK
<1>1. ProtocolInv => TypeOK
  BY DEF ProtocolInv
<1>2. QED
  BY <1>1, Inductive, PTL

\* The map of pending calls is exact, and at most Concurrency calls are under way
\* (tools/call and its finally block).
THEOREM PendingExact == Spec => []PendingIsExact
<1>1. ProtocolInv => PendingIsExact
  BY DEF ProtocolInv, MapInv, LimitInv, PendingIsExact
<1>2. QED
  BY <1>1, Inductive, PTL

\* A request that is over was answered, cancelled, or lost with its connection.
THEOREM Answered == Spec => []AnsweredOrClosed
<1>1. ProtocolInv => AnsweredOrClosed
  BY DEF ProtocolInv, RequestInv, AnsweredOrClosed
<1>2. QED
  BY <1>1, Inductive, PTL

\* initialize succeeds once, and before every other use of the server.
THEOREM Handshake == Spec => []HandshakeFirst
<1>1. ProtocolInv => HandshakeFirst
  <2> SUFFICES ASSUME HandshakeInv PROVE HandshakeFirst
    BY DEF ProtocolInv
  <2>1. IsFiniteSet(Got("initialized")) /\ Cardinality(Got("initialized")) <= 1
    <3>1. CASE Got("initialized") = {}
      BY <3>1, FS_EmptySet
    <3>2. CASE Got("initialized") # {}
      <4>1. PICK r \in Got("initialized") : Got("initialized") = {r}
        BY <3>2 DEF HandshakeInv
      <4>2. QED
        BY <4>1, FS_Singleton
    <3>3. QED
      BY <3>1, <3>2
  <2>2. QED
    BY <2>1 DEF HandshakeInv, HandshakeFirst, Got
<1>2. QED
  BY <1>1, Inductive, PTL

\* Nothing is sent for a call that was cancelled or whose server was closed, and
\* nothing after an answer.
THEOREM Silent == Spec => SilentAfterEnd
<1> DEFINE Quiet(r) == aborted[r] \/ answered[r] # "none" \/ state = "closed" =>
                         handed'[r] = handed[r]
<1>1. ASSUME ProtocolInv, [Next]_vars, NEW r \in Requests PROVE Quiet(r)
  <2> USE DEF ProtocolInv
  <2>1. CASE handed' = handed
    BY <2>1
  <2>2. ASSUME NEW q \in Requests, RequestStep(q) PROVE Quiet(r)
    <3>1. ASSUME NEW reply, NEW next, Hands(q, reply, next),
                 ~aborted[q], answered[q] = "none", state # "closed"
          PROVE  Quiet(r)
      BY <1>1, <3>1 DEF Hands, TypeOK
    <3>2. ASSUME NEW reply \in Reply, Answers(q, reply) PROVE Quiet(r)
      <4>1. Hands(q, reply, "sending") /\ ~aborted[q] /\ answered[q] = "none" /\ state # "closed"
        BY <1>1, <3>2 DEF Answers, Arrives, RequestInv
      <4>2. QED
        BY <3>1, <4>1
    <3>3. ASSUME NEW reply, NEW next, Continues(q, reply, next) PROVE Quiet(r)
      <4>1. Hands(q, reply, next) /\ ~aborted[q] /\ answered[q] = "none" /\ state # "closed"
        BY <1>1, <3>3 DEF Continues, RequestInv, Active
      <4>2. QED
        BY <3>1, <4>1
    <3>4. CASE \/ \E next \in {"stopping", "dropping"} : Oversteps(q, next)
               \/ \E i \in Ids : AcceptCall(q, i)
               \/ \E next \in {"failed", "done"} : Ends(q, next)
               \/ ThrowTooLarge(q) \/ Fail(q)
      BY <3>4 DEF Oversteps, TooLarge, AcceptCall, Ends, Finish, ThrowTooLarge, Fail
    <3>5. QED
      BY <2>2, <3>2, <3>3, <3>4 DEF RequestStep
  <2>3. CASE Connect \/ Shutdown \/ TransportCloses \/ Initialized \/ \E i \in Ids : Cancel(i)
    BY <2>3 DEF Connect, Shutdown, TransportCloses, Initialized, Cancel
  <2>4. CASE UNCHANGED vars
    BY <2>4 DEF vars
  <2>5. QED
    BY <1>1, <2>2, <2>3, <2>4, RequestSteps DEF Next
<1>2. ProtocolInv /\ [Next]_vars => [\A r \in Requests : Quiet(r)]_vars
  BY <1>1
<1>3. QED
  BY <1>2, Inductive, PTL DEF Spec, SilentAfterEnd

-----------------------------------------------------------------------------
(* The composition with the gate. *)

\* The gate's side of the composition against the protocol's.
GateInv ==
  /\ answer \in [Requests -> Gate!Outcome \cup {"none"}]
  /\ held \subseteq taken /\ taken \subseteq Requests
  /\ \A r \in taken : answer[r] = "none" => stage[r] = "calling"
  /\ \A r \in held : answer[r] \notin {"value", "failed", "capacity_exceeded"}

\* The cardinality that the gate compares is the one of this module.
LEMMA GateCardinality == \A S : Gate!Cardinality(S) = Cardinality(S)
  BY DEF Gate!Cardinality, Cardinality

\* A step of the server is a step of the protocol, or leaves it alone.
LEMMA StepOfProtocol ==
  ASSUME [ServerNext]_serverVars
  PROVE  [Next]_vars
<1>1. CASE ProtocolStep
  BY <1>1 DEF ProtocolStep, Next, Receive
<1>2. ASSUME NEW r \in Requests, NEW i \in Ids, ServerCall(r, i) PROVE Next
  BY <1>2 DEF ServerCall, Next, Receive
<1>3. ASSUME NEW r \in Requests, GateReplies(r) \/ GateFrees(r) PROVE UNCHANGED vars
  BY <1>3 DEF GateReplies, GateFrees
<1>4. ASSUME NEW r \in Requests, CallStep(r) PROVE Next
  BY <1>4 DEF CallStep, CallMaterializes, CallRejected, CallClosesServer, CallSettles, Next
<1>5. CASE UNCHANGED serverVars
  BY <1>5 DEF serverVars, vars
<1>6. QED
  BY <1>1, <1>2, <1>3, <1>4, <1>5 DEF ServerNext

\* A step of the server is a step of the gate, or leaves it alone.
LEMMA StepOfGate ==
  ASSUME [ServerNext]_serverVars
  PROVE  [Gate!Next]_(Gate!slotVars)
<1>1. ASSUME NEW r \in Requests, NEW i \in Ids, ServerCall(r, i)
      PROVE  Gate!Next \/ UNCHANGED gateVars
  BY <1>1 DEF ServerCall, Gate!Next
<1>2. ASSUME NEW r \in Requests, GateReplies(r) \/ GateFrees(r) PROVE Gate!Next
  BY <1>2 DEF GateReplies, GateFrees, Gate!Next
<1>3. ASSUME NEW r \in Requests, CallStep(r) PROVE UNCHANGED gateVars
  BY <1>3 DEF CallStep, CallMaterializes, CallRejected, CallClosesServer
<1>4. ASSUME ProtocolStep \/ UNCHANGED serverVars PROVE UNCHANGED gateVars
  BY <1>4 DEF ProtocolStep, serverVars, gateVars
<1>5. Gate!Next \/ UNCHANGED gateVars
  BY <1>1, <1>2, <1>3, <1>4 DEF ServerNext
<1>6. QED
  BY <1>5 DEF gateVars, Gate!slotVars

\* The server implements the protocol, of which every property is one of the server.
THEOREM ImplementsProtocol == ServerSpec => Spec
<1>1. ServerInit => Init
  BY DEF ServerInit
<1>2. [ServerNext]_serverVars => [Next]_vars
  BY StepOfProtocol
<1>3. QED
  BY <1>1, <1>2, PTL DEF ServerSpec, Spec

\* The server uses the gate as SlotGate says, one slot for a call of a tool.
THEOREM ImplementsGate == ServerSpec => Gate!Spec
<1>1. ServerInit => Gate!Init
  BY DEF ServerInit
<1>2. [ServerNext]_serverVars => [Gate!Next]_(Gate!slotVars)
  BY StepOfGate
<1>3. QED
  BY <1>1, <1>2, PTL DEF ServerSpec, Gate!Spec

\* Only options.call awaits the gate, and leaves it only with its answer.
LEMMA StagesOfCalls ==
  ASSUME ProtocolInv, GateInv, [ServerNext]_serverVars, NEW r \in Requests
  PROVE  \/ stage'[r] = stage[r]
         \/ stage[r] # "calling" /\ stage'[r] # "calling" /\ UNCHANGED gateVars
         \/ stage[r] = "calling" /\ (r \notin taken \/ answer[r] # "none") /\ UNCHANGED gateVars
         \/ stage[r] = "unsent" /\ stage'[r] = "calling" /\ \E i \in Ids : ServerCall(r, i)
<1> USE DEF ProtocolInv, TypeOK
<1>1. ASSUME NEW q \in Requests, NEW i \in Ids, ServerCall(q, i)
      PROVE  IF q = r THEN stage[r] = "unsent" /\ stage'[r] = "calling" ELSE stage'[r] = stage[r]
  BY <1>1 DEF ServerCall, AcceptCall, Arrives
<1>2. ASSUME NEW q \in Requests, CallStep(q)
      PROVE  /\ UNCHANGED gateVars
             /\ q # r => stage'[r] = stage[r]
             /\ stage[q] = "calling"
             /\ q \notin taken \/ answer[q] # "none"
  <2>1. CASE CallMaterializes(q)
    BY <1>2, <2>1 DEF CallMaterializes, CallReturns, Finish, Sends, Hands, TooLarge, GateInv
  <2>2. CASE CallRejected(q)
    BY <1>2, <2>2 DEF CallRejected, CallThrows, Catch, Finish, Sends, Hands, TooLarge
  <2>3. CASE CallClosesServer(q)
    BY <1>2, <2>3 DEF CallClosesServer, Shutdown, CallThrows, Catch, Finish, Sends, Hands, TooLarge
  <2>4. QED
    BY <1>2, <2>1, <2>2, <2>3 DEF CallStep
<1>3. ASSUME NEW q \in Requests, GateReplies(q) \/ GateFrees(q) PROVE stage' = stage
  BY <1>3 DEF GateReplies, GateFrees, vars
<1>4. CASE ProtocolStep
  <2>1. UNCHANGED gateVars
    BY <1>4 DEF ProtocolStep
  <2>2. CASE Connect \/ Shutdown \/ TransportCloses \/ Initialized \/ \E i \in Ids : Cancel(i)
    BY <2>2 DEF Connect, Shutdown, TransportCloses, Initialized, Cancel
  <2>3. ASSUME NEW q \in Requests, NEW reply, Arrives(q), Answer(q, reply)
        PROVE  stage[q] = "unsent" /\ \E next \in {"sending", "stopping"} :
                 stage' = [stage EXCEPT ![q] = next]
    BY <2>3 DEF Arrives, Answer, Sends, Hands, TooLarge
  <2>4. ASSUME NEW q \in Requests, NEW i \in Ids, ReceiveInitialize(q, i)
        PROVE  stage[q] = "unsent" /\ \E next \in {"sending", "stopping"} :
                 stage' = [stage EXCEPT ![q] = next]
    BY <2>3, <2>4 DEF ReceiveInitialize, Arrives, Hands, TooLarge
  <2>5. ASSUME NEW q \in Requests,
               \/ ReceiveInvalid(q)
               \/ \E i \in Ids : \/ ReceiveDuplicate(q, i) \/ ReceivePing(q, i) \/ ReceiveEarly(q, i)
                                 \/ ReceiveList(q, i) \/ ReceiveUnusable(q, i) \/ RefuseCall(q, i)
        PROVE  stage[q] = "unsent" /\ \E next \in {"sending", "stopping"} :
                 stage' = [stage EXCEPT ![q] = next]
    BY <2>3, <2>5 DEF ReceiveInvalid, ReceiveDuplicate, ReceivePing, ReceiveEarly, ReceiveList,
                      ReceiveUnusable, RefuseCall
  <2>6. ASSUME NEW q \in Requests, SendSettles(q) \/ ThrowTooLarge(q) \/ Fail(q)
        PROVE  stage[q] # "calling" /\ \E next \in Stages \ {"calling"} :
                 stage' = [stage EXCEPT ![q] = next]
    BY <2>6 DEF SendSettles, SendResolves, SendRejects, Catch, Finish, Sends, Hands, TooLarge,
                ThrowTooLarge, Fail, Stages
  <2>7. ASSUME NEW q \in Requests, NEW next \in Stages \ {"calling"}, stage[q] # "calling",
               stage' = [stage EXCEPT ![q] = next]
        PROVE  stage'[r] = stage[r] \/ (stage[r] # "calling" /\ stage'[r] # "calling")
    BY <2>7
  <2>8. QED
    BY <1>4, <2>1, <2>2, <2>4, <2>5, <2>6, <2>7 DEF ProtocolStep, Stages
<1>5. CASE UNCHANGED serverVars
  BY <1>5 DEF serverVars, vars
<1>6. QED
  BY <1>1, <1>2, <1>3, <1>4, <1>5 DEF ServerNext

\* What the gate does to one answer and one slot.
LEMMA GateSteps ==
  ASSUME GateInv, [Gate!Next]_(Gate!slotVars)
  PROVE  /\ answer' \in [Requests -> Gate!Outcome \cup {"none"}]
         /\ held' \subseteq taken' /\ taken' \subseteq Requests
         /\ \A r \in held' : answer'[r] \notin {"value", "failed", "capacity_exceeded"}
         /\ \A r \in Requests : answer[r] # "none" => answer'[r] = answer[r]
<1> USE DEF GateInv, Gate!Outcome
<1> DEFINE Kept == /\ answer' \in [Requests -> Gate!Outcome \cup {"none"}]
                   /\ held' \subseteq taken' /\ taken' \subseteq Requests
                   /\ \A r \in held' : answer'[r] \notin {"value", "failed", "capacity_exceeded"}
                   /\ \A r \in Requests : answer[r] # "none" => answer'[r] = answer[r]
<1>1. ASSUME NEW c \in Requests, Gate!Take(c) PROVE Kept
  BY <1>1 DEF Gate!Take
<1>2. ASSUME NEW c \in Requests, Gate!Refuse(c) PROVE Kept
  BY <1>2 DEF Gate!Refuse
<1>3. ASSUME NEW c \in Requests, Gate!Free(c) PROVE Kept
  BY <1>3 DEF Gate!Free
<1>4. ASSUME NEW c \in Requests, Gate!Reply(c) PROVE Kept
  BY <1>4 DEF Gate!Reply
<1>5. CASE UNCHANGED Gate!slotVars
  BY <1>5 DEF Gate!slotVars
<1>6. QED
  BY <1>1, <1>2, <1>3, <1>4, <1>5 DEF Gate!Next

\* The two sides agree after every step.
LEMMA GateKept ==
  ASSUME ProtocolInv, GateInv, [ServerNext]_serverVars
  PROVE  GateInv'
<1>1. /\ answer' \in [Requests -> Gate!Outcome \cup {"none"}]
      /\ held' \subseteq taken' /\ taken' \subseteq Requests
      /\ \A r \in held' : answer'[r] \notin {"value", "failed", "capacity_exceeded"}
      /\ \A r \in Requests : answer[r] # "none" => answer'[r] = answer[r]
  BY GateSteps, StepOfGate
<1>2. ASSUME NEW r \in taken', answer'[r] = "none" PROVE stage'[r] = "calling"
  <2>1. r \in Requests /\ answer[r] = "none"
    BY <1>1, <1>2
  <2>2. CASE r \in taken
    <3>1. stage[r] = "calling"
      BY <2>1, <2>2 DEF GateInv
    <3>2. QED
      BY <2>1, <2>2, <3>1, StagesOfCalls
  <2>3. CASE r \notin taken
    <3>1. \E i \in Ids : ServerCall(r, i)
      BY <1>2, <2>3 DEF ServerNext, ServerCall, GateReplies, GateFrees, CallStep, CallMaterializes,
            CallRejected, CallClosesServer, ProtocolStep, serverVars, gateVars,
            Gate!Take, Gate!Refuse, Gate!Reply, Gate!Free
    <3>2. QED
      BY <2>1, <3>1 DEF ServerCall, AcceptCall, ProtocolInv, TypeOK
  <2>4. QED
    BY <2>2, <2>3
<1>3. QED
  BY <1>1, <1>2 DEF GateInv

\* Both invariants hold throughout.
LEMMA ServerInductive == ServerSpec => [](ProtocolInv /\ GateInv)
<1>1. ServerInit => GateInv
  BY DEF ServerInit, Gate!Init, GateInv
<1>2. ProtocolInv /\ GateInv /\ [ServerNext]_serverVars => GateInv'
  BY GateKept
<1>3. ServerSpec => []ProtocolInv
  BY ImplementsProtocol, Inductive, PTL
<1>4. QED
  BY <1>1, <1>2, <1>3, PTL DEF ServerSpec

\* A slot without a call that the protocol awaits is one of a caller that was told of
\* a cancellation or of its deadline.
THEOREM SlotsBelong == ServerSpec => []SlotsBelongToCalls
<1>1. GateInv => SlotsBelongToCalls
  BY DEF GateInv, SlotsBelongToCalls, Gate!Outcome
<1>2. QED
  BY <1>1, ServerInductive, PTL

\* The gate refuses what the protocol let through only because of a slot that its
\* caller has abandoned.
THEOREM Refused == ServerSpec => RefusedOnlyByAbandoned
<1> DEFINE Fair(r) == answer[r] = "none" /\ answer'[r] = "capacity_exceeded" =>
                        \E q \in held : answer[q] \in {"cancelled", "deadline_exceeded"}
<1>1. ASSUME ProtocolInv, GateInv, [ServerNext]_serverVars, NEW r \in Requests PROVE Fair(r)
  <2> SUFFICES ASSUME answer[r] = "none", answer'[r] = "capacity_exceeded",
                      \A q \in held : answer[q] \notin {"cancelled", "deadline_exceeded"}
               PROVE  FALSE
    OBVIOUS
  <2>1. PICK q \in Requests : \E i \in Ids : ServerCall(q, i) /\ Gate!Refuse(q)
    BY <1>1 DEF ServerNext, ServerCall, GateReplies, GateFrees, CallStep, CallMaterializes,
          CallRejected, CallClosesServer, ProtocolStep, serverVars, gateVars,
          Gate!Take, Gate!Reply, Gate!Free, GateInv
  <2>2. held \subseteq Active
    BY <1>1 DEF GateInv, Active, Gate!Outcome
  <2>3. Cardinality(Active) < Concurrency
    BY <1>1, <2>1, MapSize DEF ServerCall, AcceptCall
  <2>4. Cardinality(held) >= Concurrency
    BY <2>1, GateCardinality, Zenon DEF Gate!Refuse
  <2>5. /\ Cardinality(held) <= Cardinality(Active)
        /\ Cardinality(held) \in Nat /\ Cardinality(Active) \in Nat
    BY <1>1, <2>2, FS_Subset, FS_CardinalityType DEF ProtocolInv, LimitInv
  <2>6. QED
    BY <2>3, <2>4, <2>5, ProtocolAssumption
<1>2. ProtocolInv /\ GateInv /\ [ServerNext]_serverVars => [\A r \in Requests : Fair(r)]_serverVars
  BY <1>1
<1>3. QED
  BY <1>2, ServerInductive, PTL DEF ServerSpec, RefusedOnlyByAbandoned

=============================================================================
