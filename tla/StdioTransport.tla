--------------------------- MODULE StdioTransport ---------------------------
(***************************************************************************)
(* BoundedStdioTransport (packages/mcp/src/stdio.ts): sends, their write   *)
(* callbacks, and close().                                                 *)
(*                                                                         *)
(* One element of Sends is one call of send().  The output is a Node       *)
(* Writable: it calls back for every write, with or without an error, and  *)
(* after an error it emits 'error' before the event loop reaches the next  *)
(* setImmediate callback.  An 'error' nobody listens to ends the process.  *)
(***************************************************************************)
EXTENDS Integers, FiniteSets

CONSTANTS Sends,          \* calls of send()
          FrameSizes,     \* bytes of a frame, its newline included
          ResponseBytes,  \* limits.responseBytes
          Concurrency     \* limits.concurrency

ASSUME TransportAssumption ==
  /\ ResponseBytes \in Nat \ {0}
  /\ Concurrency \in Nat \ {0}
  /\ FrameSizes \subseteq Nat \ {0}

VARIABLES
  state,       \* this.state
  queuedBytes, \* this.queuedBytes
  inFlight,    \* this.inFlightWrites
  bytes,       \* the size of the frame of a send, 0 before send() is called
  own,         \* the send reports a parse error and belongs to the transport
  write,       \* the write of a send: none, open until its callback, done
  outcome,     \* what the promise of a send settled with
  listening,   \* `failed` listens to 'error' of the output
  errorDue,    \* the output is about to emit 'error'
  detachDue    \* a setImmediate callback of detachOutputWhenIdle is queued

vars == <<state, queuedBytes, inFlight, bytes, own, write, outcome, listening,
          errorDue, detachDue>>

Capacity == (ResponseBytes + 1) * Concurrency

TypeOK ==
  /\ state \in {"new", "running", "closed"}
  /\ queuedBytes \in Nat
  /\ inFlight \in Nat
  /\ bytes \in [Sends -> FrameSizes \cup {0}]
  /\ own \in [Sends -> BOOLEAN]
  /\ write \in [Sends -> {"none", "open", "done"}]
  /\ outcome \in [Sends -> {"none", "sent", "failed"}]
  /\ listening \in BOOLEAN
  /\ errorDue \in BOOLEAN
  /\ detachDue \in BOOLEAN

Init ==
  /\ state = "new"
  /\ queuedBytes = 0
  /\ inFlight = 0
  /\ bytes = [m \in Sends |-> 0]
  /\ own = [m \in Sends |-> FALSE]
  /\ write = [m \in Sends |-> "none"]
  /\ outcome = [m \in Sends |-> "none"]
  /\ listening = FALSE
  /\ errorDue = FALSE
  /\ detachDue = FALSE

\* this.writes: sends that were written and have not settled.
Writes == {m \in Sends : write[m] # "none" /\ outcome[m] = "none"}

\* Every byte of their frames, for itself, and the writes that owe a callback.
Queued == UNION {{m} \X (1..bytes[m]) : m \in Writes}
Open == {m \in Sends : write[m] = "open"}

-----------------------------------------------------------------------------
\* start()
Start ==
  /\ state = "new"
  /\ state' = "running"
  /\ listening' = TRUE
  /\ UNCHANGED <<queuedBytes, inFlight, bytes, own, write, outcome, errorDue, detachDue>>

\* close(): every open send is rejected and its bytes are taken off the queue;
\* the listener on the output stays until the writes have called back.
Shut(others) ==
  /\ state # "closed"
  /\ state' = "closed"
  /\ detachDue' = TRUE
  /\ outcome' = [m \in Sends |-> IF m \in Writes \cup others THEN "failed" ELSE outcome[m]]
  /\ queuedBytes' = 0

Close ==
  /\ Shut({})
  /\ UNCHANGED <<inFlight, bytes, own, write, listening, errorDue>>

-----------------------------------------------------------------------------
(* send() *)

\* A call of send() with a frame of n bytes, by the transport itself or not.
Called(m, n, mine) ==
  /\ bytes[m] = 0
  /\ bytes' = [bytes EXCEPT ![m] = n]
  /\ own' = [own EXCEPT ![m] = mine]

\* A frame over the limit, or one the queue has no room for.
Over(n) == n - 1 > ResponseBytes \/ queuedBytes + n > Capacity

\* A frame is only received, and a parse error reported, while running.
SendRefused(m, n) ==
  /\ state # "running"
  /\ Called(m, n, FALSE)
  /\ outcome' = [outcome EXCEPT ![m] = "failed"]
  /\ UNCHANGED <<state, queuedBytes, inFlight, write, listening, errorDue, detachDue>>

SendOver(m, n, mine) ==
  /\ state = "running"
  /\ Over(n)
  /\ Called(m, n, mine)
  /\ Shut({m})
  /\ UNCHANGED <<inFlight, write, listening, errorDue>>

SendWrites(m, n, mine) ==
  /\ state = "running"
  /\ ~Over(n)
  /\ Called(m, n, mine)
  /\ queuedBytes' = queuedBytes + n
  /\ inFlight' = inFlight + 1
  /\ write' = [write EXCEPT ![m] = "open"]
  /\ UNCHANGED <<state, outcome, listening, errorDue, detachDue>>

\* output.write throws: the write is over before send() returns.
SendThrows(m, n, mine) ==
  /\ state = "running"
  /\ ~Over(n)
  /\ Called(m, n, mine)
  /\ write' = [write EXCEPT ![m] = "done"]
  /\ outcome' = [outcome EXCEPT ![m] = "failed"]
  /\ UNCHANGED <<state, queuedBytes, inFlight, listening, errorDue, detachDue>>

-----------------------------------------------------------------------------
(* The output. *)

\* Mutant: a write that was rejected by close() is counted off again.
WrittenTwice(m, ok) ==
  /\ write[m] = "open"
  /\ write' = [write EXCEPT ![m] = "done"]
  /\ inFlight' = inFlight - 1
  /\ outcome' = [outcome EXCEPT ![m] = IF @ # "none" THEN @ ELSE IF ok THEN "sent" ELSE "failed"]
  /\ queuedBytes' = queuedBytes - bytes[m]
  /\ detachDue' = (detachDue \/ state = "closed")
  /\ errorDue' = (errorDue \/ ~ok)
  /\ UNCHANGED <<state, bytes, own, listening>>

\* Mutant: only close() looks for a time to detach.
WrittenAndForgotten(m, ok) ==
  /\ write[m] = "open"
  /\ write' = [write EXCEPT ![m] = "done"]
  /\ inFlight' = inFlight - 1
  /\ IF outcome[m] = "none"
     THEN /\ outcome' = [outcome EXCEPT ![m] = IF ok THEN "sent" ELSE "failed"]
          /\ queuedBytes' = queuedBytes - bytes[m]
     ELSE UNCHANGED <<outcome, queuedBytes>>
  /\ errorDue' = (errorDue \/ ~ok)
  /\ UNCHANGED <<state, bytes, own, listening, detachDue>>

\* The write callback: `finish` settles the send unless close() did, and a
\* closed transport looks again whether the output is idle.
Written(m, ok) ==
  /\ write[m] = "open"
  /\ write' = [write EXCEPT ![m] = "done"]
  /\ inFlight' = inFlight - 1
  /\ IF outcome[m] = "none"
     THEN /\ outcome' = [outcome EXCEPT ![m] = IF ok THEN "sent" ELSE "failed"]
          /\ queuedBytes' = queuedBytes - bytes[m]
     ELSE UNCHANGED <<outcome, queuedBytes>>
  /\ detachDue' = (detachDue \/ state = "closed")
  /\ errorDue' = (errorDue \/ ~ok)
  /\ UNCHANGED <<state, bytes, own, listening>>

\* The output emits 'error': the listener closes the transport.
OutputError ==
  /\ errorDue
  /\ errorDue' = FALSE
  /\ \/ Shut({})
     \/ state = "closed" /\ UNCHANGED <<state, queuedBytes, outcome, detachDue>>
  /\ UNCHANGED <<inFlight, bytes, own, write, listening>>

\* Mutant: the listener is taken off although writes are open.
DetachAtOnce ==
  /\ detachDue
  /\ ~errorDue
  /\ detachDue' = FALSE
  /\ listening' = (listening /\ state # "closed")
  /\ UNCHANGED <<state, queuedBytes, inFlight, bytes, own, write, outcome, errorDue>>

\* The setImmediate callback of detachOutputWhenIdle.
Detach ==
  /\ detachDue
  /\ ~errorDue
  /\ detachDue' = FALSE
  /\ listening' = (listening /\ ~(state = "closed" /\ inFlight = 0))
  /\ UNCHANGED <<state, queuedBytes, inFlight, bytes, own, write, outcome, errorDue>>

\* A parse error that could not be sent closes the transport.
OwnSendFails(m) ==
  /\ own[m]
  /\ outcome[m] = "failed"
  /\ Close

Send(m) ==
  \E n \in FrameSizes :
    \/ SendRefused(m, n)
    \/ \E mine \in BOOLEAN :
         SendOver(m, n, mine) \/ SendWrites(m, n, mine) \/ SendThrows(m, n, mine)

WriteSettles(m) == \E ok \in BOOLEAN : Written(m, ok)

Next ==
  \/ Start
  \/ Close
  \/ OutputError
  \/ Detach
  \/ \E m \in Sends : Send(m) \/ WriteSettles(m) \/ OwnSendFails(m)

Spec == Init /\ [][Next]_vars

\* The output calls back for every write, and the event loop turns.
Fairness ==
  /\ WF_vars(OutputError)
  /\ WF_vars(Detach)
  /\ \A m \in Sends : WF_vars(WriteSettles(m))
  /\ \A m \in Sends : WF_vars(OwnSendFails(m))

FairSpec == Spec /\ Fairness

-----------------------------------------------------------------------------
(* Properties. *)

\* The two counters say what is open: queuedBytes the frames of unsettled sends,
\* inFlight the writes that owe a callback, settled by close() or not.  Whatever
\* is written faster than the output takes it, the queue stays bounded, and
\* close() leaves no send waiting for an output that may never call back.
CountersAgree ==
  /\ queuedBytes = Cardinality(Queued)
  /\ queuedBytes <= Capacity
  /\ inFlight = Cardinality(Open)
  /\ state = "closed" => Writes = {}

\* An error of the output always finds the listener, also one that follows a write
\* that settles after close().
ErrorsAreHeard == errorDue => listening

\* After close the listener is taken off the output in the end, so a transport
\* does not keep listening to a stream that outlives it.
ListenerGoes == state = "closed" ~> ~listening

=============================================================================
