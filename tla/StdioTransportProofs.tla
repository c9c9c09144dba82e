------------------------- MODULE StdioTransportProofs -------------------------
(***************************************************************************)
(* Proofs about StdioTransport for every set of sends, every size of their *)
(* frames and all limits; and about FrameScanner, its input side: the      *)
(* scanner carries the meaning of the frame so far, its limits are exact   *)
(* and no byte is lost, for every limit and every input.                   *)
(*                                                                         *)
(* The argument about the scanner follows the text byte by byte.  A text   *)
(* with one more byte means before it what it meant: whether a position    *)
(* lies in a string depends on what stands before the position alone.      *)
(***************************************************************************)
EXTENDS StdioTransport, FrameScanner, FiniteSetTheorems, SequenceTheorems,
        WellFoundedInduction, TLAPS

-----------------------------------------------------------------------------
(* The inductive invariant. *)

\* TypeOK without the counters, which only the accounting bounds from below.
TypeInv ==
  /\ state \in {"new", "running", "closed"}
  /\ bytes \in [Sends -> FrameSizes \cup {0}]
  /\ own \in [Sends -> BOOLEAN]
  /\ write \in [Sends -> {"none", "open", "done"}]
  /\ outcome \in [Sends -> {"none", "sent", "failed"}]
  /\ listening \in BOOLEAN
  /\ errorDue \in BOOLEAN
  /\ detachDue \in BOOLEAN

\* One send: nothing is settled before it is called, and what its write has called
\* back for is settled.
SendInv(m) ==
  /\ bytes[m] = 0 => write[m] = "none" /\ outcome[m] = "none"
  /\ write[m] = "done" => outcome[m] # "none"

QueueInv ==
  /\ IsFiniteSet(Queued)
  /\ queuedBytes = Cardinality(Queued)
  /\ queuedBytes <= Capacity
  /\ state = "closed" => Writes = {}

FlightInv ==
  /\ IsFiniteSet(Open)
  /\ inFlight = Cardinality(Open)

\* The listener is there while the transport runs, and as long as a write is open or
\* an error is about to come.
ListenInv ==
  /\ state = "new" => Open = {} /\ ~errorDue
  /\ state = "running" \/ Open # {} \/ errorDue => listening

TransportInv ==
  /\ TypeInv
  /\ \A m \in Sends : SendInv(m)
  /\ QueueInv /\ FlightInv /\ ListenInv

-----------------------------------------------------------------------------
(* What the queue is made of. *)

\* A frame of n bytes has n bytes.
LEMMA FrameBytes ==
  ASSUME NEW m, NEW n \in Nat
  PROVE  IsFiniteSet({m} \X (1..n)) /\ Cardinality({m} \X (1..n)) = n
<1>1. IsFiniteSet({m}) /\ Cardinality({m}) = 1
  BY FS_Singleton
<1>2. IsFiniteSet(1..n) /\ Cardinality(1..n) = n
  <2>1. IsFiniteSet(1..n) /\ Cardinality(1..n) = IF 1 > n THEN 0 ELSE n - 1 + 1
    BY FS_Interval
  <2>2. QED
    BY <2>1
<1>3. /\ IsFiniteSet({m} \X (1..n))
      /\ Cardinality({m} \X (1..n)) = Cardinality({m}) * Cardinality(1..n)
  BY <1>1, <1>2, FS_Product
<1>4. Cardinality({m} \X (1..n)) = 1 * n
  BY <1>1, <1>2, <1>3
<1>5. 1 * n = n
  OBVIOUS
<1>6. QED
  BY <1>3, <1>4, <1>5

\* A set and a disjoint one have as many elements as both have.
LEMMA DisjointUnion ==
  ASSUME NEW S, NEW T, IsFiniteSet(S), IsFiniteSet(T), S \cap T = {}
  PROVE  IsFiniteSet(S \cup T) /\ Cardinality(S \cup T) = Cardinality(S) + Cardinality(T)
<1>1. /\ IsFiniteSet(S \cup T)
      /\ Cardinality(S \cup T) = Cardinality(S) + Cardinality(T) - Cardinality(S \cap T)
  BY FS_Union
<1>2. Cardinality(S \cap T) = 0
  BY FS_EmptySet
<1>3. Cardinality(S) \in Nat /\ Cardinality(T) \in Nat
  BY FS_CardinalityType
<1>4. QED
  BY <1>1, <1>2, <1>3

\* The queue changes only with the open sends.
LEMMA QueueKept ==
  ASSUME Writes' = Writes, \A m \in Writes : bytes'[m] = bytes[m]
  PROVE  Queued' = Queued
  BY DEF Queued

\* A send that is written adds the bytes of its frame.
LEMMA QueueGrows ==
  ASSUME NEW m \in Sends, m \notin Writes, Writes' = Writes \cup {m},
         \A q \in Writes : bytes'[q] = bytes[q]
  PROVE  /\ Queued' = Queued \cup ({m} \X (1..bytes'[m]))
         /\ Queued \cap ({m} \X (1..bytes'[m])) = {}
  BY DEF Queued

\* A send that settles takes them off.
LEMMA QueueShrinks ==
  ASSUME NEW m \in Writes, Writes' = Writes \ {m}, bytes' = bytes
  PROVE  /\ Queued = Queued' \cup ({m} \X (1..bytes[m]))
         /\ Queued' \cap ({m} \X (1..bytes[m])) = {}
  BY DEF Queued

-----------------------------------------------------------------------------
(* The invariant is kept. *)

\* Every step keeps the types.
LEMMA TypeStep ==
  ASSUME TypeInv, [Next]_vars
  PROVE  TypeInv'
<1> USE DEF TypeInv
<1>1. CASE Start
  BY <1>1 DEF Start
<1>2. CASE Close
  BY <1>2 DEF Close, Shut
<1>3. CASE OutputError
  BY <1>3 DEF OutputError, Shut
<1>4. CASE Detach
  BY <1>4 DEF Detach
<1>5. ASSUME NEW m \in Sends, NEW n \in FrameSizes, NEW mine \in BOOLEAN,
             \/ SendRefused(m, n) \/ SendOver(m, n, mine) \/ SendWrites(m, n, mine)
             \/ SendThrows(m, n, mine)
      PROVE  TypeInv'
  BY <1>5 DEF SendRefused, SendOver, SendWrites, SendThrows, Called, Shut
<1>6. ASSUME NEW m \in Sends, NEW ok \in BOOLEAN, Written(m, ok) PROVE TypeInv'
  BY <1>6 DEF Written
<1>7. ASSUME NEW m \in Sends, OwnSendFails(m) PROVE TypeInv'
  BY <1>7 DEF OwnSendFails, Close, Shut
<1>8. CASE UNCHANGED vars
  BY <1>8 DEF vars
<1>9. QED
  BY <1>1, <1>2, <1>3, <1>4, <1>5, <1>6, <1>7, <1>8 DEF Next, Send, WriteSettles

\* Shutting settles every send that was open, and empties the queue.
LEMMA ShutFacts ==
  ASSUME TransportInv, NEW others \in SUBSET Sends, Shut(others), write' = write
  PROVE  /\ state' = "closed" /\ Writes' = {} /\ Queued' = {} /\ QueueInv' /\ Open' = Open
         /\ \A m \in Sends : outcome'[m] = IF m \in Writes \cup others THEN "failed" ELSE outcome[m]
<1>1. \A m \in Sends : outcome'[m] = IF m \in Writes \cup others THEN "failed" ELSE outcome[m]
  BY DEF Shut
<1>2. Writes' = {}
  BY <1>1 DEF Writes
<1>3. Queued' = {}
  BY <1>2 DEF Queued
<1>4. Capacity \in Nat
  BY TransportAssumption DEF Capacity
<1>5. QED
  BY <1>1, <1>2, <1>3, <1>4, FS_EmptySet DEF Shut, QueueInv, Open

\* close(), also after an error of the output or of a send of the transport's own.
LEMMA CloseKept ==
  ASSUME TransportInv, TypeInv', Shut({}),
         UNCHANGED <<inFlight, bytes, own, write, listening>>, errorDue' => errorDue
  PROVE  TransportInv'
<1> USE DEF TransportInv
<1>1. /\ state' = "closed" /\ QueueInv' /\ Open' = Open
      /\ \A m \in Sends : outcome'[m] = IF m \in Writes THEN "failed" ELSE outcome[m]
  BY ShutFacts
<1>2. \A m \in Sends : SendInv(m)'
  BY <1>1 DEF SendInv, Writes
<1>3. FlightInv' /\ ListenInv'
  BY <1>1 DEF FlightInv, ListenInv
<1>4. QED
  BY <1>1, <1>2, <1>3

\* send()
LEMMA SendKept ==
  ASSUME TransportInv, TypeInv', NEW m \in Sends, NEW n \in FrameSizes, NEW mine \in BOOLEAN,
         \/ SendRefused(m, n) \/ SendOver(m, n, mine) \/ SendWrites(m, n, mine)
         \/ SendThrows(m, n, mine)
  PROVE  TransportInv'
<1> USE DEF TransportInv
<1>1. /\ bytes[m] = 0 /\ write[m] = "none" /\ outcome[m] = "none" /\ m \notin Writes
      /\ bytes' = [bytes EXCEPT ![m] = n] /\ bytes'[m] = n
      /\ n \in Nat \ {0}
  BY TransportAssumption DEF SendRefused, SendOver, SendWrites, SendThrows, Called, SendInv, Writes,
     TypeInv
<1>2. \A q \in Sends : q # m => bytes'[q] = bytes[q]
  BY <1>1 DEF TypeInv
<1>3. ASSUME write'[m] # "open", outcome'[m] # "none",
             \A q \in Sends : q # m => write'[q] = write[q] /\ outcome'[q] = outcome[q]
      PROVE  Writes' = Writes /\ Open' = Open
  BY <1>1, <1>3 DEF Writes, Open
<1>4. CASE SendRefused(m, n)
  <2>1. Writes' = Writes /\ Open' = Open
    BY <1>1, <1>3, <1>4 DEF SendRefused, TypeInv
  <2>2. Queued' = Queued
    BY <1>1, <1>2, <2>1, QueueKept DEF Writes
  <2>3. \A q \in Sends : SendInv(q)'
    BY <1>1, <1>2, <1>4 DEF SendRefused, SendInv, TypeInv
  <2>4. QueueInv' /\ FlightInv' /\ ListenInv'
    BY <1>4, <2>1, <2>2 DEF SendRefused, QueueInv, FlightInv, ListenInv
  <2>5. QED
    BY <2>3, <2>4
<1>5. CASE SendOver(m, n, mine)
  <2>1. /\ state' = "closed" /\ QueueInv' /\ Open' = Open
        /\ \A q \in Sends : outcome'[q] = IF q \in Writes \cup {m} THEN "failed" ELSE outcome[q]
        /\ UNCHANGED <<write, inFlight, listening, errorDue>>
    BY <1>5, ShutFacts DEF SendOver
  <2>2. \A q \in Sends : SendInv(q)'
    BY <1>1, <1>2, <2>1 DEF SendInv, Writes
  <2>3. FlightInv' /\ ListenInv'
    BY <2>1 DEF FlightInv, ListenInv
  <2>4. QED
    BY <2>1, <2>2, <2>3
<1>6. CASE SendWrites(m, n, mine)
  <2>1. /\ state = "running" /\ state' = state /\ queuedBytes + n <= Capacity
        /\ queuedBytes' = queuedBytes + n /\ inFlight' = inFlight + 1
        /\ write' = [write EXCEPT ![m] = "open"]
        /\ UNCHANGED <<outcome, listening, errorDue>>
    <3>1. queuedBytes \in Nat /\ Capacity \in Nat
      BY FS_CardinalityType, TransportAssumption DEF QueueInv, Capacity
    <3>2. QED
      BY <1>1, <1>6, <3>1 DEF SendWrites, Over
  <2>2. Writes' = Writes \cup {m} /\ Open' = Open \cup {m} /\ m \notin Open
    BY <1>1, <2>1 DEF Writes, Open, TypeInv
  <2>3. /\ Queued' = Queued \cup ({m} \X (1..n))
        /\ Queued \cap ({m} \X (1..n)) = {}
    BY <1>1, <1>2, <2>2, QueueGrows DEF Writes
  <2>4. IsFiniteSet(Queued') /\ Cardinality(Queued') = queuedBytes + n
    <3>1. IsFiniteSet({m} \X (1..n)) /\ Cardinality({m} \X (1..n)) = n
      BY <1>1, FrameBytes
    <3>2. IsFiniteSet(Queued) /\ Cardinality(Queued) = queuedBytes
      BY DEF QueueInv
    <3>3. QED
      BY <2>3, <3>1, <3>2, DisjointUnion
  <2>5. IsFiniteSet(Open') /\ Cardinality(Open') = inFlight + 1
    BY <2>2, FS_AddElement DEF FlightInv
  <2>6. \A q \in Sends : SendInv(q)'
    BY <1>1, <1>2, <2>1 DEF SendInv, TypeInv
  <2>7. QueueInv' /\ FlightInv' /\ ListenInv'
    <3>1. Capacity' = Capacity
      BY DEF Capacity
    <3>2. QED
      BY <2>1, <2>4, <2>5, <3>1 DEF QueueInv, FlightInv, ListenInv
  <2>8. QED
    BY <2>6, <2>7
<1>7. CASE SendThrows(m, n, mine)
  <2>1. Writes' = Writes /\ Open' = Open
    BY <1>1, <1>3, <1>7 DEF SendThrows, TypeInv
  <2>2. Queued' = Queued
    BY <1>1, <1>2, <2>1, QueueKept DEF Writes
  <2>3. \A q \in Sends : SendInv(q)'
    BY <1>1, <1>2, <1>7 DEF SendThrows, SendInv, TypeInv
  <2>4. QueueInv' /\ FlightInv' /\ ListenInv'
    BY <1>7, <2>1, <2>2 DEF SendThrows, QueueInv, FlightInv, ListenInv
  <2>5. QED
    BY <2>3, <2>4
<1>8. QED
  BY <1>4, <1>5, <1>6, <1>7

\* The write callback.
LEMMA WrittenKept ==
  ASSUME TransportInv, TypeInv', NEW m \in Sends, NEW ok \in BOOLEAN, Written(m, ok)
  PROVE  TransportInv'
<1> USE DEF TransportInv
<1>1. /\ m \in Open /\ write' = [write EXCEPT ![m] = "done"] /\ inFlight' = inFlight - 1
      /\ UNCHANGED <<state, bytes, listening>>
      /\ listening /\ state # "new"
  BY DEF Written, Open, ListenInv
<1>2. Open' = Open \ {m}
  BY <1>1 DEF Open, TypeInv
<1>3. /\ outcome'[m] # "none"
      /\ \A q \in Sends : q # m => outcome'[q] = outcome[q] /\ write'[q] = write[q]
  BY <1>1 DEF Written, TypeInv
<1>4. FlightInv'
  BY <1>1, <1>2, FS_RemoveElement DEF FlightInv
<1>5. ListenInv'
  BY <1>1 DEF ListenInv
<1>6. \A q \in Sends : SendInv(q)'
  <2>1. bytes[m] # 0 /\ write'[m] = "done"
    BY <1>1 DEF SendInv, Open, TypeInv
  <2>2. QED
    BY <1>1, <1>3, <2>1 DEF SendInv
<1>7. Writes' = Writes \ {m}
  BY <1>1, <1>3 DEF Writes, Open, TypeInv
<1>8. QueueInv'
  <2>1. CASE outcome[m] = "none"
    <3>1. m \in Writes /\ queuedBytes' = queuedBytes - bytes[m] /\ bytes[m] \in Nat
      <4>1. queuedBytes' = queuedBytes - bytes[m]
        BY <2>1 DEF Written
      <4>2. m \in Writes
        BY <1>1, <2>1 DEF Writes, Open
      <4>3. bytes[m] \in Nat
        <5>1. bytes[m] \in FrameSizes \cup {0}
          BY DEF TypeInv
        <5>2. FrameSizes \cup {0} \subseteq Nat
          BY TransportAssumption
        <5>3. QED
          BY <5>1, <5>2
      <4>4. QED
        BY <4>1, <4>2, <4>3
    <3>2. /\ Queued = Queued' \cup ({m} \X (1..bytes[m]))
          /\ Queued' \cap ({m} \X (1..bytes[m])) = {}
      BY <1>1, <1>7, <3>1, QueueShrinks
    <3>3. IsFiniteSet(Queued')
      BY <3>2, FS_Subset DEF QueueInv
    <3>4. /\ queuedBytes = Cardinality(Queued') + bytes[m]
          /\ Cardinality(Queued') \in Nat
      <4>1. /\ IsFiniteSet({m} \X (1..bytes[m]))
            /\ Cardinality({m} \X (1..bytes[m])) = bytes[m]
        BY <3>1, FrameBytes
      <4>2. Cardinality(Queued) = Cardinality(Queued') + bytes[m]
        BY <3>2, <3>3, <4>1, DisjointUnion
      <4>3. QED
        BY <3>3, <4>2, FS_CardinalityType DEF QueueInv
    <3>5. Capacity \in Nat /\ Capacity' = Capacity
      BY TransportAssumption DEF Capacity
    <3>6. QED
      BY <1>1, <1>7, <3>1, <3>3, <3>4, <3>5 DEF QueueInv
  <2>2. CASE outcome[m] # "none"
    <3>1. Writes' = Writes /\ queuedBytes' = queuedBytes
      BY <1>7, <2>2 DEF Written, Writes
    <3>2. Queued' = Queued
      BY <1>1, <3>1, QueueKept
    <3>3. QED
      BY <1>1, <3>1, <3>2 DEF QueueInv
  <2>3. QED
    BY <2>1, <2>2
<1>9. QED
  BY <1>4, <1>5, <1>6, <1>8

\* Steps that settle nothing: the listener comes, goes, and hears an error.
LEMMA ListenerKept ==
  ASSUME TransportInv, TypeInv',
         \/ Start \/ Detach
         \/ OutputError /\ state = "closed" /\ UNCHANGED <<state, queuedBytes, outcome>>
  PROVE  TransportInv'
<1> USE DEF TransportInv
<1>1. /\ UNCHANGED <<queuedBytes, inFlight, bytes, own, write, outcome>>
      /\ state' = "closed" => state = "closed"
  BY DEF Start, Detach, OutputError
<1>2. Writes' = Writes /\ Open' = Open
  BY <1>1 DEF Writes, Open
<1>3. Queued' = Queued
  BY <1>1, <1>2, QueueKept
<1>4. (\A m \in Sends : SendInv(m)') /\ QueueInv' /\ FlightInv'
  BY <1>1, <1>2, <1>3 DEF SendInv, QueueInv, FlightInv
<1>5. ListenInv'
  <2>1. CASE Start
    BY <1>2, <2>1 DEF Start, ListenInv
  <2>2. CASE Detach
    <3>1. inFlight = 0 => Open = {}
      BY FS_EmptySet DEF FlightInv
    <3>2. QED
      BY <1>2, <2>2, <3>1 DEF Detach, ListenInv
  <2>3. CASE OutputError /\ state' = state
    BY <1>2, <2>3 DEF OutputError, ListenInv
  <2>4. QED
    BY <2>1, <2>2, <2>3
<1>6. QED
  BY <1>4, <1>5

\* The invariant holds initially, and is kept.
LEMMA Inductive == Spec => []TransportInv
<1>1. Init => TransportInv
  <2> SUFFICES ASSUME Init PROVE TransportInv
    OBVIOUS
  <2>1. Writes = {} /\ Open = {}
    BY DEF Init, Writes, Open
  <2>2. Queued = {} /\ Capacity \in Nat
    BY <2>1, TransportAssumption DEF Queued, Capacity
  <2>3. TypeInv
    BY DEF Init, TypeInv
  <2>4. \A m \in Sends : SendInv(m)
    BY DEF Init, SendInv
  <2>5. QueueInv /\ FlightInv
    BY <2>1, <2>2, FS_EmptySet DEF Init, QueueInv, FlightInv
  <2>6. ListenInv
    BY <2>1 DEF Init, ListenInv
  <2>7. QED
    BY <2>3, <2>4, <2>5, <2>6 DEF TransportInv
<1>2. TransportInv /\ [Next]_vars => TransportInv'
  <2> SUFFICES ASSUME TransportInv, [Next]_vars PROVE TransportInv'
    OBVIOUS
  <2>1. TypeInv'
    BY TypeStep DEF TransportInv
  <2>2. CASE Start \/ Detach
    BY <2>1, <2>2, ListenerKept
  <2>3. CASE Close \/ \E m \in Sends : OwnSendFails(m)
    BY <2>1, <2>3, CloseKept DEF Close, OwnSendFails
  <2>4. CASE OutputError
    BY <2>1, <2>4, CloseKept, ListenerKept DEF OutputError
  <2>5. ASSUME NEW m \in Sends, Send(m) PROVE TransportInv'
    BY <2>1, <2>5, SendKept DEF Send
  <2>6. ASSUME NEW m \in Sends, WriteSettles(m) PROVE TransportInv'
    BY <2>1, <2>6, WrittenKept DEF WriteSettles
  <2>7. CASE UNCHANGED vars
    BY <2>7 DEF vars, TransportInv, TypeInv, SendInv, QueueInv, FlightInv, ListenInv,
                Queued, Writes, Open, Capacity
  <2>8. QED
    BY <2>2, <2>3, <2>4, <2>5, <2>6, <2>7 DEF Next
<1>3. QED
  BY <1>1, <1>2, PTL DEF Spec

-----------------------------------------------------------------------------
(* Theorems. *)

\* Every reachable state of the transport is well typed; no counter is negative.
THEOREM TypeCorrect == Spec => []TypeOK
<1>1. TransportInv => TypeOK
  BY FS_CardinalityType DEF TransportInv, TypeInv, QueueInv, FlightInv, TypeOK
<1>2. QED
  BY <1>1, Inductive, PTL

\* queuedBytes and inFlightWrites count what is open, and the queue is bounded.
THEOREM Counters == Spec => []CountersAgree
<1>1. TransportInv => CountersAgree
  BY DEF TransportInv, QueueInv, FlightInv, CountersAgree
<1>2. QED
  BY <1>1, Inductive, PTL

\* An error of the output is never without its listener (detachOutputWhenIdle).
THEOREM ErrorsHeard == Spec => []ErrorsAreHeard
<1>1. TransportInv => ErrorsAreHeard
  BY DEF TransportInv, ListenInv, ErrorsAreHeard
<1>2. QED
  BY <1>1, Inductive, PTL

-----------------------------------------------------------------------------
(* The scanner of the input. *)

Letters == Byte \ {"newline"}

\* A labelling of the positions of t, and the one after it, as inside a string or not.
Labels(t, within) ==
  /\ within \in [1..Len(t) + 1 -> BOOLEAN]
  /\ \A k \in 1..Len(t) + 1 :
       within[k] <=>
         /\ k > 1
         /\ IF t[k - 1] # "quote" THEN within[k - 1]
            ELSE within[k - 1] => BackslashesBefore(t, k - 1) % 2 = 1

-----------------------------------------------------------------------------
(* One more byte. *)

\* The text before the new byte is as it was.
LEMMA Appended ==
  ASSUME NEW S, NEW t \in Seq(S), NEW b \in S
  PROVE  /\ Append(t, b) \in Seq(S) /\ Len(t) \in Nat
         /\ Len(Append(t, b)) = Len(t) + 1
         /\ Append(t, b)[Len(t) + 1] = b
         /\ \A k \in 1..Len(t) : Append(t, b)[k] = t[k]
  OBVIOUS

\* Of some numbers, one is the least (well-founded induction over Nat).
LEMMA Least ==
  ASSUME NEW S \in SUBSET Nat, S # {}
  PROVE  \E n \in S : \A k \in S : n <= k
<1> DEFINE R == OpToRel(<, Nat)
<1>1. IsWellFoundedOn(R, Nat)
  BY NatLessThanWellFounded
<1>2. \A x, y \in Nat : x < y => <<x, y>> \in R
  BY Zenon DEF OpToRel
<1> HIDE DEF R
<1>3. PICK x \in S : \A y \in S : ~(<<y, x>> \in R)
  BY <1>1, WFMin
<1>4. ASSUME NEW k \in S PROVE x <= k
  <2>1. x \in Nat /\ k \in Nat
    OBVIOUS
  <2>2. ~(k < x)
    BY <1>2, <1>3, <2>1
  <2> QED
    BY <2>1, <2>2
<1> QED
  BY <1>4

\* A run of backslashes ends at a byte that is none, and goes on with one that is.
LEMMA Backslashes ==
  ASSUME NEW t \in Seq(Byte), NEW b \in Byte
  PROVE  /\ \A k \in 1..Len(t) + 1 :
              /\ BackslashesBefore(t, k) \in Nat
              /\ BackslashesBefore(Append(t, b), k) = BackslashesBefore(t, k)
         /\ BackslashesBefore(Append(t, b), Len(t) + 2) =
              IF b = "backslash" THEN BackslashesBefore(t, Len(t) + 1) + 1 ELSE 0
<1> DEFINE u == Append(t, b)
           n == Len(t)
           Run(s, k) == {j \in 1..k - 1 : \A i \in j..k - 1 : s[i] = "backslash"}
<1>1. /\ u \in Seq(Byte) /\ n \in Nat /\ Len(u) = n + 1 /\ u[n + 1] = b
      /\ \A k \in 1..n : u[k] = t[k]
  BY Appended
<1>2. \A k \in 1..n + 1 : Run(u, k) = Run(t, k)
  BY <1>1
<1>3. \A k \in 1..n + 1 : IsFiniteSet(Run(t, k)) /\ Cardinality(Run(t, k)) \in Nat
  <2> SUFFICES ASSUME NEW k \in 1..n + 1 PROVE IsFiniteSet(Run(t, k))
    BY FS_CardinalityType
  <2>1. IsFiniteSet(1..k - 1)
    BY <1>1, FS_Interval
  <2>2. Run(t, k) \subseteq 1..k - 1
    OBVIOUS
  <2> QED
    BY <2>1, <2>2, FS_Subset
<1>4. CASE b = "backslash"
  <2>1. Run(u, n + 2) = Run(u, n + 1) \cup {n + 1}
    <3>1. \A j \in 1..n : (\A i \in j..n + 1 : u[i] = "backslash") <=> (\A i \in j..n : u[i] = "backslash")
      BY <1>1, <1>4
    <3>2. \A i \in n + 1..n + 1 : u[i] = "backslash"
      BY <1>1, <1>4
    <3>3. n + 2 - 1 = n + 1 /\ n + 1 - 1 = n /\ 1..n + 1 = (1..n) \cup {n + 1} /\ n + 1 \notin 1..n
      BY <1>1
    <3> QED
      BY <3>1, <3>2, <3>3
  <2>2. n + 1 \notin Run(u, n + 1) /\ n + 1 \in 1..n + 1
    BY <1>1
  <2>3. Cardinality(Run(u, n + 2)) = Cardinality(Run(t, n + 1)) + 1
    <3>1. Run(u, n + 1) = Run(t, n + 1) /\ IsFiniteSet(Run(t, n + 1))
      BY <1>2, <1>3, <2>2
    <3>2. Run(u, n + 2) = Run(t, n + 1) \cup {n + 1} /\ n + 1 \notin Run(t, n + 1)
      BY <2>1, <2>2, <3>1
    <3> HIDE DEF Run
    <3> QED
      BY <3>1, <3>2, FS_AddElement
  <2> QED
    BY <1>2, <1>3, <1>4, <2>3 DEF BackslashesBefore
<1>5. CASE b # "backslash"
  <2>1. Run(u, n + 2) = {}
    <3>1. n + 2 - 1 = n + 1 /\ \A j \in 1..n + 1 : n + 1 \in j..n + 1
      BY <1>1
    <3> QED
      BY <1>1, <1>5, <3>1
  <2>2. Cardinality(Run(u, n + 2)) = 0
    BY <2>1, FS_EmptySet
  <2> QED
    BY <1>2, <1>3, <1>5, <2>2 DEF BackslashesBefore
<1> QED
  BY <1>4, <1>5

-----------------------------------------------------------------------------
(* Strings. *)

\* There is at most one labelling (well-founded induction: at the first position on
\* which two of them differ, they would have to agree).
LEMMA LabelsAgree ==
  ASSUME NEW t \in Seq(Byte), NEW v, NEW w, Labels(t, v), Labels(t, w)
  PROVE  v = w
<1> DEFINE D == {k \in 1..Len(t) + 1 : v[k] # w[k]}
<1>1. Len(t) \in Nat /\ D \in SUBSET Nat
  OBVIOUS
<1>2. D = {}
  <2> SUFFICES ASSUME D # {} PROVE FALSE
    OBVIOUS
  <2>1. PICK k \in D : \A j \in D : k <= j
    BY <1>1, Least
  <2>2. k \in 1..Len(t) + 1 /\ v[k] # w[k] /\ v[k] \in BOOLEAN /\ w[k] \in BOOLEAN
    BY DEF Labels
  <2>3. CASE k = 1
    BY <2>2, <2>3 DEF Labels
  <2>4. CASE k > 1
    <3>1. k - 1 \in 1..Len(t) + 1 /\ k - 1 \notin D
      BY <1>1, <2>1, <2>2, <2>4
    <3>2. v[k - 1] = w[k - 1]
      BY <3>1
    <3> QED
      BY <2>2, <2>4, <3>2 DEF Labels
  <2> QED
    BY <1>1, <2>2, <2>3, <2>4
<1> QED
  BY <1>2 DEF Labels

\* The labelling of a text is that of the text before its last byte and one label more.
LEMMA LabelsGrow ==
  ASSUME NEW t \in Seq(Byte), NEW b \in Byte, NEW w, Labels(t, w)
  PROVE  LET n == Len(t)
             next == IF b # "quote" THEN w[n + 1] ELSE w[n + 1] => BackslashesBefore(t, n + 1) % 2 = 1
         IN Labels(Append(t, b), [k \in 1..n + 2 |-> IF k = n + 2 THEN next ELSE w[k]])
<1> DEFINE n == Len(t)
           u == Append(t, b)
           next == IF b # "quote" THEN w[n + 1] ELSE w[n + 1] => BackslashesBefore(t, n + 1) % 2 = 1
           x == [k \in 1..n + 2 |-> IF k = n + 2 THEN next ELSE w[k]]
<1>1. /\ n \in Nat /\ Len(u) = n + 1 /\ u[n + 1] = b /\ \A k \in 1..n : u[k] = t[k]
      /\ w \in [1..n + 1 -> BOOLEAN]
  BY Appended DEF Labels
<1>2. \A k \in 1..n + 1 : BackslashesBefore(u, k) = BackslashesBefore(t, k)
  BY Backslashes
<1>3. n + 1 \in 1..n + 1 /\ w[n + 1] \in BOOLEAN
  BY <1>1
<1>4. next \in BOOLEAN
  BY <1>3
<1> HIDE DEF u, next
<1>5. x \in [1..Len(u) + 1 -> BOOLEAN]
  BY <1>1, <1>4
<1>6. ASSUME NEW k \in 1..Len(u) + 1
      PROVE  x[k] <=> k > 1 /\ IF u[k - 1] # "quote" THEN x[k - 1]
                              ELSE x[k - 1] => BackslashesBefore(u, k - 1) % 2 = 1
  <2>1. CASE k = n + 2
    <3>1. x[k] = next /\ k - 1 = n + 1 /\ x[k - 1] = w[n + 1] /\ u[k - 1] = b /\ k > 1
          /\ BackslashesBefore(u, k - 1) = BackslashesBefore(t, n + 1)
      BY <1>1, <1>2, <1>3, <2>1
    <3> QED
      BY <3>1 DEF next
  <2>2. CASE k # n + 2
    <3>1. k \in 1..n + 1 /\ x[k] = w[k]
      BY <1>1, <2>2
    <3>2. k > 1 => k - 1 \in 1..n + 1 /\ k - 1 # n + 2 /\ x[k - 1] = w[k - 1] /\ u[k - 1] = t[k - 1]
                   /\ BackslashesBefore(u, k - 1) = BackslashesBefore(t, k - 1)
      BY <1>1, <1>2, <3>1
    <3>3. w[k] <=> k > 1 /\ IF t[k - 1] # "quote" THEN w[k - 1]
                            ELSE w[k - 1] => BackslashesBefore(t, k - 1) % 2 = 1
      BY <3>1 DEF Labels
    <3> QED
      BY <3>1, <3>2, <3>3
  <2> QED
    BY <2>1, <2>2
<1> HIDE DEF x
<1>7. Labels(u, x)
  BY <1>5, <1>6 DEF Labels
<1> QED
  BY <1>7 DEF u, x, next

\* Strings is the labelling there is.
LEMMA StringsAre ==
  ASSUME NEW t \in Seq(Byte), NEW w, Labels(t, w)
  PROVE  Strings(t) = w
<1>1. Labels(t, Strings(t))
  BY DEF Labels, Strings
<1> QED
  BY <1>1, LabelsAgree

\* Before the first byte no string is open.
LEMMA NoString ==
  /\ Labels(<<>>, [k \in 1..1 |-> FALSE])
  /\ BackslashesBefore(<<>>, 1) = 0
<1>1. BackslashesBefore(<<>>, 1) = 0
  <2>1. {j \in 1..1 - 1 : \A i \in j..1 - 1 : <<>>[i] = "backslash"} = {}
    OBVIOUS
  <2> QED
    BY <2>1, FS_EmptySet DEF BackslashesBefore
<1> QED
  BY <1>1 DEF Labels

-----------------------------------------------------------------------------
(* Nesting. *)

\* A set of positions has a number of elements.
LEMMA Positions ==
  ASSUME NEW n \in Nat, NEW S \in SUBSET (1..n)
  PROVE  IsFiniteSet(S) /\ Cardinality(S) \in Nat
<1>1. IsFiniteSet(1..n)
  BY FS_Interval
<1> QED
  BY <1>1, FS_Subset, FS_CardinalityType

\* Of a structural byte, what a new byte adds.
LEMMA StructuralGrows ==
  ASSUME NEW t \in Seq(Byte), NEW b \in Byte, NEW w, Labels(t, w), NEW c \in Byte
  PROVE  /\ \A k \in 0..Len(t) :
              /\ Structural(Append(t, b), k, c) = Structural(t, k, c)
              /\ Structural(t, k, c) \in SUBSET (1..k)
         /\ Structural(Append(t, b), Len(t) + 1, c) =
              Structural(t, Len(t), c) \cup (IF b = c /\ ~w[Len(t) + 1] THEN {Len(t) + 1} ELSE {})
<1> DEFINE n == Len(t)
           u == Append(t, b)
<1>1. /\ u \in Seq(Byte) /\ n \in Nat /\ Len(u) = n + 1 /\ u[n + 1] = b
      /\ \A k \in 1..n : u[k] = t[k]
  BY Appended
<1>2. Strings(t) = w
  BY StringsAre
<1>3. PICK x : Labels(u, x) /\ \A k \in 1..n + 1 : x[k] = w[k]
  <2> DEFINE y == [k \in 1..n + 2 |->
                     IF k = n + 2
                     THEN IF b # "quote" THEN w[n + 1]
                          ELSE w[n + 1] => BackslashesBefore(t, n + 1) % 2 = 1
                     ELSE w[k]]
  <2>1. Labels(u, y)
    BY LabelsGrow
  <2>2. \A k \in 1..n + 1 : y[k] = w[k]
    BY <1>1
  <2> HIDE DEF y
  <2> QED
    BY <2>1, <2>2
<1>4. Strings(u) = x
  BY <1>1, <1>3, StringsAre
<1> HIDE DEF u
<1>5. \A k \in 0..n : \A j \in 1..k : u[j] = t[j] /\ x[j] = w[j]
  BY <1>1, <1>3
<1>6. \A k \in 0..n : Structural(u, k, c) = Structural(t, k, c)
  BY <1>2, <1>4, <1>5 DEF Structural
<1>7. Structural(u, n + 1, c) = Structural(t, n, c) \cup (IF b = c /\ ~w[n + 1] THEN {n + 1} ELSE {})
  <2>1. 1..n + 1 = (1..n) \cup {n + 1} /\ n + 1 \notin 1..n /\ x[n + 1] = w[n + 1]
    BY <1>1, <1>3
  <2>2. \A j \in 1..n : u[j] = t[j] /\ x[j] = w[j]
    BY <1>1, <1>5
  <2> QED
    BY <1>1, <1>2, <1>4, <2>1, <2>2 DEF Structural
<1> QED
  BY <1>6, <1>7 DEF u, Structural

\* Nesting up to a position depends on what stands up to it, and a byte outside the
\* strings changes it as the scanner does.
LEMMA Nested ==
  ASSUME NEW t \in Seq(Byte), NEW b \in Byte, NEW w, Labels(t, w)
  PROVE  /\ \A k \in 0..Len(t) : Nesting(Append(t, b), k) = Nesting(t, k) /\ Nesting(t, k) \in Int
         /\ Nesting(Append(t, b), Len(t) + 1) =
              IF w[Len(t) + 1] THEN Nesting(t, Len(t))
              ELSE IF b = "open" THEN Nesting(t, Len(t)) + 1
              ELSE IF b = "close" THEN Nesting(t, Len(t)) - 1
              ELSE Nesting(t, Len(t))
<1> DEFINE n == Len(t)
           u == Append(t, b)
           Added(c) == IF b = c /\ ~w[n + 1] THEN 1 ELSE 0
<1>1. n \in Nat /\ {"open", "close"} \subseteq Byte
  BY DEF Byte
<1>2. ASSUME NEW c \in Byte
      PROVE  /\ \A k \in 0..n : /\ Cardinality(Structural(u, k, c)) = Cardinality(Structural(t, k, c))
                                /\ Cardinality(Structural(t, k, c)) \in Nat
             /\ Cardinality(Structural(u, n + 1, c)) = Cardinality(Structural(t, n, c)) + Added(c)
  <2>1. \A k \in 0..n : /\ Structural(u, k, c) = Structural(t, k, c)
                        /\ Structural(t, k, c) \in SUBSET (1..k)
    BY StructuralGrows
  <2>2. Structural(u, n + 1, c) =
          Structural(t, n, c) \cup (IF b = c /\ ~w[n + 1] THEN {n + 1} ELSE {})
    BY StructuralGrows
  <2>3. \A k \in 0..n : k \in Nat
    BY <1>1
  <2>4. \A k \in 0..n : IsFiniteSet(Structural(t, k, c)) /\ Cardinality(Structural(t, k, c)) \in Nat
    BY <2>1, <2>3, Positions
  <2>5. n \in 0..n /\ n + 1 \notin 1..n
    BY <1>1
  <2>6. n + 1 \notin Structural(t, n, c)
    BY <2>1, <2>5
  <2>7. CASE b = c /\ ~w[n + 1]
    <3>1. Structural(u, n + 1, c) = Structural(t, n, c) \cup {n + 1} /\ Added(c) = 1
      BY <2>2, <2>7
    <3> QED
      BY <2>1, <2>4, <2>5, <2>6, <3>1, FS_AddElement
  <2>8. CASE ~(b = c /\ ~w[n + 1])
    <3>1. Structural(u, n + 1, c) = Structural(t, n, c) /\ Added(c) = 0
      BY <2>2, <2>8
    <3> QED
      BY <2>1, <2>4, <2>5, <3>1
  <2> QED
    BY <2>7, <2>8
<1>3. n \in 0..n
  BY <1>1
<1>4. \A k \in 0..n : Nesting(u, k) = Nesting(t, k) /\ Nesting(t, k) \in Int
  BY <1>1, <1>2 DEF Nesting
<1>5. Nesting(u, n + 1) = Nesting(t, n) + Added("open") - Added("close")
  BY <1>1, <1>2, <1>3 DEF Nesting
<1> QED
  BY <1>3, <1>4, <1>5

-----------------------------------------------------------------------------
(* Pieces. *)

\* Of some numbers up to n, Max is the greatest.
LEMMA Greatest ==
  ASSUME NEW n \in Nat, NEW S \in SUBSET (0..n), S # {}
  PROVE  Max(S) \in S /\ \A k \in S : k <= Max(S)
<1> DEFINE D == {n - k : k \in S}
<1>1. D \in SUBSET Nat /\ D # {}
  <2>1. \A k \in S : n - k \in Nat
    OBVIOUS
  <2>2. PICK k \in S : TRUE
    OBVIOUS
  <2> QED
    BY <2>1, <2>2
<1>2. PICK d \in D : \A k \in D : d <= k
  BY <1>1, Least
<1>3. PICK m \in S : d = n - m
  OBVIOUS
<1>4. ASSUME NEW k \in S PROVE m >= k
  <2>1. n - k \in D
    OBVIOUS
  <2>2. n - m <= n - k /\ m \in 0..n /\ k \in 0..n
    BY <1>2, <1>3, <2>1
  <2> QED
    BY <2>2
<1>5. Max(S) \in S /\ \A k \in S : Max(S) >= k
  BY <1>3, <1>4 DEF Max
<1> QED
  BY <1>5

\* The newlines of a text and what lies between the one before position k and k.
NewlinesOf(s) == {k \in 1..Len(s) : s[k] = "newline"}
Before(s, k) == Max({j \in NewlinesOf(s) : j < k} \cup {0})
PieceOf(s, k) == SubSeq(s, Before(s, k) + 1, k - 1)

\* The newline before a position, or the beginning.
LEMMA Begins ==
  ASSUME NEW s \in Seq(Byte), NEW k \in 1..Len(s) + 1
  PROVE  /\ Before(s, k) \in 0..k - 1
         /\ \A j \in NewlinesOf(s) : j < k => j <= Before(s, k)
<1> DEFINE S == {j \in NewlinesOf(s) : j < k} \cup {0}
<1>1. Len(s) \in Nat /\ k - 1 \in Nat /\ NewlinesOf(s) \subseteq 1..Len(s)
  BY DEF NewlinesOf
<1>2. S \in SUBSET (0..k - 1) /\ S # {}
  BY <1>1
<1> HIDE DEF S
<1>3. Max(S) \in S /\ \A j \in S : j <= Max(S)
  BY <1>1, <1>2, Greatest
<1>4. Max(S) \in 0..k - 1
  BY <1>2, <1>3
<1>5. \A j \in NewlinesOf(s) : j < k => j \in S
  BY DEF S
<1> QED
  BY <1>3, <1>4, <1>5 DEF S, Before

\* A new byte changes no piece; it ends the last one or belongs to it.
LEMMA PiecesGrow ==
  ASSUME NEW s \in Seq(Byte), NEW b \in Byte
  PROVE  /\ \A k \in 1..Len(s) + 1 : PieceOf(Append(s, b), k) = PieceOf(s, k)
         /\ NewlinesOf(Append(s, b)) =
              NewlinesOf(s) \cup (IF b = "newline" THEN {Len(s) + 1} ELSE {})
         /\ PieceOf(Append(s, b), Len(s) + 2) =
              IF b = "newline" THEN <<>> ELSE Append(PieceOf(s, Len(s) + 1), b)
<1> DEFINE n == Len(s)
           u == Append(s, b)
<1>1. /\ u \in Seq(Byte) /\ n \in Nat /\ Len(u) = n + 1 /\ u[n + 1] = b
      /\ \A k \in 1..n : u[k] = s[k]
  BY Appended
<1> HIDE DEF u
<1>2. NewlinesOf(u) = NewlinesOf(s) \cup (IF b = "newline" THEN {n + 1} ELSE {})
  <2>1. 1..n + 1 = (1..n) \cup {n + 1} /\ n + 1 \notin 1..n
    BY <1>1
  <2> QED
    BY <1>1, <2>1 DEF NewlinesOf
<1>3. ASSUME NEW k \in 1..n + 1 PROVE PieceOf(u, k) = PieceOf(s, k)
  <2>1. Before(u, k) = Before(s, k)
    <3>1. {j \in NewlinesOf(u) : j < k} = {j \in NewlinesOf(s) : j < k}
      BY <1>1, <1>2 DEF NewlinesOf
    <3> QED
      BY <3>1 DEF Before
  <2>2. Before(s, k) \in 0..k - 1
    BY <1>1, Begins
  <2> DEFINE m == Before(s, k) + 1
  <2>3. m \in Nat /\ m >= 1 /\ k - 1 \in Nat /\ k - 1 <= n
    BY <1>1, <2>2
  <2> HIDE DEF m
  <2>4. SubSeq(u, m, k - 1) = SubSeq(s, m, k - 1)
    BY <1>1, <2>3
  <2> QED
    BY <2>1, <2>4 DEF PieceOf, m
<1>4. ASSUME b = "newline" PROVE PieceOf(u, n + 2) = <<>>
  <2>1. n + 1 \in NewlinesOf(u)
    BY <1>2, <1>4
  <2>2. n + 2 \in 1..Len(u) + 1 /\ n + 1 < n + 2
    BY <1>1
  <2>3. Before(u, n + 2) \in 0..n + 1 /\ n + 1 <= Before(u, n + 2)
    BY <1>1, <2>1, <2>2, Begins
  <2>4. Before(u, n + 2) + 1 = n + 2 /\ n + 2 - 1 = n + 1
    BY <1>1, <2>3
  <2>5. SubSeq(u, n + 2, n + 1) = <<>>
    BY <1>1, SubSeqEmpty
  <2> QED
    <3>1. \A k : PieceOf(u, k) = SubSeq(u, Before(u, k) + 1, k - 1)
      BY DEF PieceOf
    <3> QED
      BY ONLY <2>4, <2>5, <3>1
<1>5. ASSUME b # "newline" PROVE PieceOf(u, n + 2) = Append(PieceOf(s, n + 1), b)
  <2>1. {j \in NewlinesOf(u) : j < n + 2} = {j \in NewlinesOf(s) : j < n + 1}
    BY <1>1, <1>2, <1>5 DEF NewlinesOf
  <2>2. Before(u, n + 2) = Before(s, n + 1)
    BY <2>1 DEF Before
  <2>3. Before(s, n + 1) \in 0..n
    BY <1>1, Begins
  <2> DEFINE m == Before(s, n + 1) + 1
  <2>4. m \in 1..n + 1
    BY <1>1, <2>3
  <2> HIDE DEF m
  <2>5. SubSeq(u, m, n + 1) = Append(SubSeq(s, m, n), b)
    <3>1. \A i \in m..n + 1 : u[i] \in Byte
      BY <1>1, <2>4
    <3>2. /\ SubSeq(u, m, n + 1) \in Seq(Byte) /\ Len(SubSeq(u, m, n + 1)) = n + 2 - m
          /\ \A i \in 1..n + 2 - m : SubSeq(u, m, n + 1)[i] = u[m + i - 1]
      <4>1. m \in Int /\ n + 1 \in Int /\ m <= n + 1 /\ (n + 1) - m + 1 = n + 2 - m
        BY <1>1, <2>4
      <4>2. /\ SubSeq(u, m, n + 1) \in Seq(Byte)
            /\ Len(SubSeq(u, m, n + 1)) = IF m <= n + 1 THEN (n + 1) - m + 1 ELSE 0
            /\ \A i \in 1..(n + 1) - m + 1 : SubSeq(u, m, n + 1)[i] = u[m + i - 1]
        BY <3>1, <4>1, SubSeqProperties
      <4> QED
        BY <4>1, <4>2
    <3>3. /\ SubSeq(s, m, n) \in Seq(Byte) /\ Len(SubSeq(s, m, n)) = n + 1 - m
          /\ \A i \in 1..n + 1 - m : SubSeq(s, m, n)[i] = s[m + i - 1]
      <4>1. m \in Int /\ n \in Int /\ (m <= n \/ m = n + 1) /\ n - m + 1 = n + 1 - m
        BY <1>1, <2>4
      <4>2. \A i \in m..n : s[i] \in Byte
        BY <1>1, <2>4
      <4>3. /\ SubSeq(s, m, n) \in Seq(Byte)
            /\ Len(SubSeq(s, m, n)) = IF m <= n THEN n - m + 1 ELSE 0
            /\ \A i \in 1..n - m + 1 : SubSeq(s, m, n)[i] = s[m + i - 1]
        BY <4>1, <4>2, SubSeqProperties
      <4> QED
        BY <4>1, <4>3
    <3> DEFINE p == SubSeq(s, m, n)
               q == SubSeq(u, m, n + 1)
    <3> HIDE DEF p, q
    <3>4. /\ Append(p, b) \in Seq(Byte) /\ Len(Append(p, b)) = Len(p) + 1
          /\ Append(p, b)[Len(p) + 1] = b /\ \A i \in 1..Len(p) : Append(p, b)[i] = p[i]
      BY <3>3, Appended DEF p
    <3>5. Len(q) = Len(Append(p, b))
      BY <1>1, <2>4, <3>2, <3>3, <3>4 DEF p, q
    <3>6. ASSUME NEW i \in 1..Len(q) PROVE q[i] = Append(p, b)[i]
      <4>1. i \in 1..n + 2 - m /\ q[i] = u[m + i - 1]
        BY <3>2 DEF q
      <4>2. CASE i = n + 2 - m
        BY <1>1, <2>4, <3>3, <3>4, <4>1, <4>2 DEF p
      <4>3. CASE i # n + 2 - m
        <5>1. i \in 1..n + 1 - m /\ m + i - 1 \in 1..n
          BY <1>1, <2>4, <4>1, <4>3
        <5> QED
          BY <1>1, <3>3, <3>4, <4>1, <5>1 DEF p
      <4> QED
        BY <4>2, <4>3
    <3>7. q \in Seq(Byte) /\ Append(p, b) \in Seq(Byte)
      BY <3>2, <3>4 DEF q
    <3>8. q = Append(p, b)
      BY <3>5, <3>6, <3>7, SeqEqual
    <3> QED
      BY <3>8 DEF p, q
  <2>6. n + 2 - 1 = n + 1 /\ n + 1 - 1 = n
    BY <1>1
  <2> QED
    <3>1. /\ PieceOf(u, n + 2) = SubSeq(u, Before(u, n + 2) + 1, n + 2 - 1)
          /\ PieceOf(s, n + 1) = SubSeq(s, Before(s, n + 1) + 1, n + 1 - 1)
      BY DEF PieceOf
    <3> QED
      BY <2>2, <2>5, <2>6, <3>1, Zenon DEF m
<1>6. PieceOf(u, n + 2) = IF b = "newline" THEN <<>> ELSE Append(PieceOf(s, n + 1), b)
  BY <1>4, <1>5
<1> QED
  BY <1>2, <1>3, <1>6 DEF u

-----------------------------------------------------------------------------
(* The invariant. *)

\* While no bracket was too deep, no position of the frame so far is.
Shallow == status # "too_deep" => \A k \in 0..Len(buffer) : Nesting(buffer, k) <= MaxDepth

\* The frames that were pushed are within the limits.
Passed ==
  \A f \in Range(frames) : Len(f) <= MaxBytes /\ \A k \in 1..Len(f) : Nesting(f, k) <= MaxDepth

\* What stopped the scanner, told by the frame so far.
Stopped ==
  /\ status = "too_long" => Len(buffer) = MaxBytes
  /\ status = "too_deep" => Nesting(buffer, Len(buffer)) = MaxDepth + 1
  /\ status = "incomplete" => buffer # <<>>

FrameInv ==
  /\ ScannerTypeOK
  /\ Labels(buffer, Strings(buffer)) /\ ScannerAgrees
  /\ Shallow /\ Passed /\ Stopped
  /\ NothingLost

\* One more backslash turns odd into even.
LEMMA OddEven == \A n \in Nat : (n + 1) % 2 = 1 <=> n % 2 # 1
  OBVIOUS

\* A new byte changes the scanner's state as it changes the meaning of the text.
LEMMA Meaning ==
  ASSUME FrameInv, NEW b \in Letters, Stored(b)
  PROVE  /\ Labels(buffer', Strings(buffer')) /\ ScannerAgrees'
         /\ \A k \in 0..Len(buffer) : Nesting(buffer', k) = Nesting(buffer, k)
         /\ Len(buffer') = Len(buffer) + 1 /\ Len(buffer) \in Nat
<1> DEFINE n == Len(buffer)
           w == Strings(buffer)
           odd == BackslashesBefore(buffer, n + 1) % 2 = 1
           next == IF b # "quote" THEN w[n + 1] ELSE w[n + 1] => odd
           x == [k \in 1..n + 2 |-> IF k = n + 2 THEN next ELSE w[k]]
<1>1. /\ buffer \in Seq(Byte) /\ b \in Byte /\ b # "newline" /\ buffer' = Append(buffer, b)
      /\ Labels(buffer, w) /\ quoted \in BOOLEAN /\ escaped \in BOOLEAN
  BY DEF FrameInv, ScannerTypeOK, Letters, Stored
<1>2. n \in Nat /\ Len(buffer') = n + 1 /\ buffer' \in Seq(Byte)
  BY <1>1, Appended
<1>3. Labels(buffer', x)
  BY <1>1, LabelsGrow
<1>4. Strings(buffer') = x
  BY <1>2, <1>3, StringsAre
<1>5. x[n + 2] = next
  BY <1>2
<1>6. depth = Nesting(buffer, n) /\ quoted = w[n + 1] /\ (escaped <=> quoted /\ odd)
  BY DEF FrameInv, ScannerAgrees
<1>7. /\ BackslashesBefore(buffer, n + 1) \in Nat
      /\ BackslashesBefore(buffer', n + 2) =
           IF b = "backslash" THEN BackslashesBefore(buffer, n + 1) + 1 ELSE 0
  BY <1>1, <1>2, Backslashes
<1>8. BackslashesBefore(buffer', n + 2) % 2 = 1 <=> b = "backslash" /\ ~odd
  <2>1. 0 % 2 = 0
    OBVIOUS
  <2> QED
    BY <1>7, <2>1, OddEven
<1>9. /\ \A k \in 0..n : Nesting(buffer', k) = Nesting(buffer, k) /\ Nesting(buffer, k) \in Int
      /\ Nesting(buffer', n + 1) =
           IF w[n + 1] THEN Nesting(buffer, n)
           ELSE IF b = "open" THEN Nesting(buffer, n) + 1
           ELSE IF b = "close" THEN Nesting(buffer, n) - 1
           ELSE Nesting(buffer, n)
  BY <1>1, Nested
<1>10. quoted' = next /\ (escaped' <=> quoted' /\ b = "backslash" /\ ~odd)
       /\ depth' = Nesting(buffer', n + 1)
  <2> HIDE DEF odd, w, n
  <2>1. CASE Inside(b)
    BY <1>1, <1>6, <1>9, <2>1 DEF Inside
  <2>2. CASE Outside(b)
    <3>1. /\ ~quoted /\ quoted' = (b = "quote") /\ escaped' = escaped
          /\ depth' = IF b = "open" THEN depth + 1 ELSE IF b = "close" THEN depth - 1 ELSE depth
      BY <2>2 DEF Outside
    <3>2. depth' = Nesting(buffer', n + 1)
      BY <1>6, <1>9, <3>1
    <3>3. quoted' = next
      BY <1>1, <1>6, <3>1
    <3>4. escaped' <=> quoted' /\ b = "backslash" /\ ~odd
      BY <1>6, <3>1
    <3> QED
      BY <3>2, <3>3, <3>4
  <2> QED
    BY <2>1, <2>2 DEF Stored
<1>11. ScannerAgrees'
  <2>1. Len(buffer') + 1 = n + 2
    BY <1>2
  <2> HIDE DEF x, next, odd, n
  <2> QED
    BY <1>2, <1>4, <1>5, <1>8, <1>10, <2>1 DEF ScannerAgrees
<1> HIDE DEF x
<1> QED
  BY <1>2, <1>3, <1>4, <1>9, <1>11

\* An empty frame means nothing, and is nested nowhere.
LEMMA Nothing ==
  /\ Labels(<<>>, Strings(<<>>)) /\ Strings(<<>>)[1] = FALSE
  /\ Nesting(<<>>, 0) = 0 /\ BackslashesBefore(<<>>, 1) = 0
<1>1. Strings(<<>>) = [k \in 1..1 |-> FALSE]
  <2>1. <<>> \in Seq(Byte)
    OBVIOUS
  <2> QED
    BY <2>1, NoString, StringsAre
<1>2. Nesting(<<>>, 0) = 0
  <2>1. Structural(<<>>, 0, "open") = {} /\ Structural(<<>>, 0, "close") = {}
    BY DEF Structural
  <2> QED
    BY <2>1, FS_EmptySet DEF Nesting
<1>3. Labels(<<>>, Strings(<<>>))
  BY <1>1, NoString, Zenon
<1>4. Strings(<<>>)[1] = FALSE
  BY <1>1
<1> QED
  BY <1>2, <1>3, <1>4, NoString

\* The types hold initially and are kept by every step.
LEMMA InitTyped == ScannerInit => ScannerTypeOK
<1> SUFFICES ASSUME ScannerInit PROVE ScannerTypeOK
  OBVIOUS
<1>1. \A S : <<>> \in Seq(S)
  OBVIOUS
<1>2. Len(<<>>) = 0 /\ 0 <= MaxBytes
  BY ScannerAssumption
<1>3. /\ buffer \in Seq(Byte \ {"newline"})
      /\ frames \in Seq(Seq(Byte \ {"newline"}))
      /\ input \in Seq(Byte)
  BY <1>1, Zenon DEF ScannerInit
<1>4. Len(buffer) <= MaxBytes
  BY <1>2, Zenon DEF ScannerInit
<1>5. depth \in Int /\ quoted \in BOOLEAN /\ escaped \in BOOLEAN /\ status = "open"
  <2>1. 0 \in Int
    OBVIOUS
  <2> QED
    BY <2>1, Zenon DEF ScannerInit
<1> QED
  BY <1>3, <1>4, <1>5 DEF ScannerTypeOK

LEMMA StepTyped == ScannerTypeOK /\ [ScannerNext]_scanner => ScannerTypeOK'
<1> SUFFICES ASSUME ScannerTypeOK, [ScannerNext]_scanner PROVE ScannerTypeOK'
  OBVIOUS
<1>1. ASSUME NEW b \in Byte, ByteArrives(b) PROVE ScannerTypeOK'
  <2>1. input' \in Seq(Byte)
    BY <1>1 DEF ScannerTypeOK, ByteArrives
  <2>2. CASE b = "newline" /\ Newline
    <3>1. buffer' \in Seq(Byte \ {"newline"}) /\ Len(buffer') <= MaxBytes
      <4>1. \A S : <<>> \in Seq(S)
        OBVIOUS
      <4>2. Len(<<>>) = 0 /\ 0 <= MaxBytes
        BY ScannerAssumption
      <4> QED
        BY <2>2, <4>1, <4>2, Zenon DEF Newline
    <3>2. frames' \in Seq(Seq(Byte \ {"newline"}))
      BY <2>2 DEF ScannerTypeOK, Newline
    <3>3. depth' \in Int /\ quoted' \in BOOLEAN /\ escaped' \in BOOLEAN /\ status' = status
      <4>1. 0 \in Int
        OBVIOUS
      <4> QED
        BY <2>2, <4>1, Zenon DEF Newline
    <3> QED
      BY <2>1, <3>1, <3>2, <3>3 DEF ScannerTypeOK
  <2>3. CASE TooLong
    BY <2>1, <2>3 DEF ScannerTypeOK, TooLong
  <2>4. CASE b # "newline" /\ Stored(b)
    <3>1. buffer' \in Seq(Byte \ {"newline"}) /\ Len(buffer') <= MaxBytes
      BY <2>4, ScannerAssumption DEF ScannerTypeOK, Stored
    <3>2. CASE Inside(b)
      BY <2>1, <2>4, <3>1, <3>2 DEF ScannerTypeOK, Stored, Inside
    <3>3. CASE Outside(b)
      <4>1. depth' \in Int /\ status' \in {status, "too_deep"}
        BY <3>3 DEF ScannerTypeOK, Outside
      <4> QED
        BY <2>1, <2>4, <3>1, <3>3, <4>1 DEF ScannerTypeOK, Stored, Outside
    <3> QED
      BY <2>4, <3>2, <3>3 DEF Stored
  <2> QED
    BY <1>1, <2>2, <2>3, <2>4 DEF ByteArrives
<1>2. CASE Flush
  BY <1>2 DEF ScannerTypeOK, Flush
<1>3. CASE UNCHANGED scanner
  BY <1>3 DEF ScannerTypeOK, scanner
<1> QED
  BY <1>1, <1>2, <1>3 DEF ScannerNext

\* The frames fs are the pieces of s between its newlines.
Upto(s, k) == {j \in NewlinesOf(s) : j <= k}
Delivered(fs, s) ==
  /\ Len(fs) = Cardinality(NewlinesOf(s))
  /\ \A k \in NewlinesOf(s) : fs[Cardinality(Upto(s, k))] = PieceOf(s, k)

\* A newline delivers the piece it ends, every other byte nothing.
LEMMA DeliversMore ==
  ASSUME NEW S, NEW fs \in Seq(S), NEW s \in Seq(Byte), NEW b \in Byte, Delivered(fs, s),
         PieceOf(s, Len(s) + 1) \in S
  PROVE  Delivered(IF b = "newline" THEN Append(fs, PieceOf(s, Len(s) + 1)) ELSE fs, Append(s, b))
<1> DEFINE n == Len(s)
           u == Append(s, b)
           N == NewlinesOf(s)
<1>1. u \in Seq(Byte) /\ n \in Nat /\ Len(u) = n + 1
  BY Appended
<1>2. /\ \A k \in 1..n + 1 : PieceOf(u, k) = PieceOf(s, k)
      /\ NewlinesOf(u) = N \cup (IF b = "newline" THEN {n + 1} ELSE {})
  BY PiecesGrow
<1> HIDE DEF u
<1>3. N \in SUBSET (1..n) /\ n + 1 \notin N
  BY <1>1 DEF NewlinesOf
<1>4. IsFiniteSet(N) /\ Cardinality(N) \in Nat
  BY <1>1, <1>3, Positions
<1>5. \A k \in N : Upto(u, k) = Upto(s, k) /\ PieceOf(u, k) = PieceOf(s, k)
  BY <1>1, <1>2, <1>3 DEF Upto
<1>6. Len(fs) = Cardinality(N) /\ \A k \in N : fs[Cardinality(Upto(s, k))] = PieceOf(s, k)
  BY DEF Delivered
<1>7. CASE b # "newline"
  <2>1. NewlinesOf(u) = N
    BY <1>2, <1>7
  <2>2. Delivered(fs, u)
    BY <1>5, <1>6, <2>1 DEF Delivered
  <2> QED
    BY <1>7, <2>2 DEF u
<1>8. CASE b = "newline"
  <2> DEFINE piece == PieceOf(s, n + 1)
             more == Append(fs, piece)
  <2>1. /\ more \in Seq(S) /\ Len(more) = Len(fs) + 1 /\ more[Len(fs) + 1] = piece
        /\ \A i \in 1..Len(fs) : more[i] = fs[i]
    BY Appended
  <2> HIDE DEF more, piece
  <2>2. NewlinesOf(u) = N \cup {n + 1}
    BY <1>2, <1>8
  <2>3. Cardinality(NewlinesOf(u)) = Cardinality(N) + 1
    BY <1>3, <1>4, <2>2, FS_AddElement
  <2>4. Upto(u, n + 1) = NewlinesOf(u)
    BY <1>1, <1>3, <2>2 DEF Upto
  <2>5. PieceOf(u, n + 1) = piece
    BY <1>1, <1>2 DEF piece
  <2>6. ASSUME NEW k \in N PROVE more[Cardinality(Upto(u, k))] = PieceOf(u, k)
    <3>1. Upto(s, k) \in SUBSET N /\ k \in Upto(s, k)
      BY <1>3 DEF Upto
    <3>2. IsFiniteSet(Upto(s, k)) /\ Cardinality(Upto(s, k)) <= Cardinality(N)
      BY <1>4, <3>1, FS_Subset
    <3>3. Cardinality(Upto(s, k)) \in Nat /\ Cardinality(Upto(s, k)) # 0
      BY <3>1, <3>2, FS_CardinalityType, FS_EmptySet
    <3>4. Cardinality(Upto(s, k)) \in 1..Len(fs)
      BY <1>4, <1>6, <3>2, <3>3
    <3> QED
      BY <1>5, <1>6, <2>1, <3>4
  <2>7. ASSUME NEW k \in NewlinesOf(u) PROVE more[Cardinality(Upto(u, k))] = PieceOf(u, k)
    <3>1. CASE k \in N
      BY <2>6, <3>1
    <3>2. CASE k = n + 1
      BY <1>6, <2>1, <2>3, <2>4, <2>5, <3>2
    <3> QED
      BY <2>2, <3>1, <3>2
  <2>8. Delivered(more, u)
    BY <1>6, <2>1, <2>3, <2>7 DEF Delivered
  <2> QED
    BY <1>8, <2>8 DEF more, piece, u
<1> QED
  BY <1>7, <1>8

\* What NothingLost says, by the input.
LEMMA LossRead ==
  /\ NothingLost <=>
       /\ Delivered(frames, input)
       /\ Unfinished = IF status = "too_long" THEN Append(buffer, Last(input)) ELSE buffer
       /\ status = "ended" => buffer = <<>>
  /\ NothingLost' <=>
       /\ Delivered(frames', input')
       /\ Unfinished' = IF status' = "too_long" THEN Append(buffer', Last(input')) ELSE buffer'
       /\ status' = "ended" => buffer' = <<>>
  /\ Unfinished = PieceOf(input, Len(input) + 1)
  /\ Unfinished' = PieceOf(input', Len(input') + 1)
<1>1. /\ Newlines = NewlinesOf(input) /\ \A k : Piece(k) = PieceOf(input, k)
      /\ Unfinished = PieceOf(input, Len(input) + 1)
  BY DEF Newlines, Piece, Unfinished, PieceOf, Before, NewlinesOf
<1>2. \A k : {j \in Newlines : j <= k} = Upto(input, k)
  BY <1>1 DEF Upto
<1>3. /\ NewlinesOf(input)' = NewlinesOf(input')
      /\ \A k : /\ PieceOf(input, k)' = PieceOf(input', k)
                /\ Upto(input, k)' = Upto(input', k)
      /\ Unfinished' = PieceOf(input', Len(input') + 1)
  BY DEF Newlines, Piece, Unfinished, PieceOf, Before, NewlinesOf, Upto
<1>4. Newlines' = NewlinesOf(input') /\ \A k : Piece(k)' = PieceOf(input', k)
  BY DEF Newlines, Piece, PieceOf, Before, NewlinesOf
<1>5. \A k : {j \in Newlines' : j <= k} = Upto(input', k)
  BY <1>4 DEF Upto
<1>6. NothingLost <=>
       /\ Delivered(frames, input)
       /\ Unfinished = IF status = "too_long" THEN Append(buffer, Last(input)) ELSE buffer
       /\ status = "ended" => buffer = <<>>
  BY <1>1, <1>2 DEF NothingLost, Delivered
<1>7. NothingLost' <=>
       /\ Delivered(frames', input')
       /\ Unfinished' = IF status' = "too_long" THEN Append(buffer', Last(input')) ELSE buffer'
       /\ status' = "ended" => buffer' = <<>>
  BY <1>4, <1>5 DEF NothingLost, Delivered, Last
<1> QED
  BY <1>1, <1>3, <1>6, <1>7

\* A byte adds to what is unfinished, or begins it anew.
LEMMA InputGrows ==
  ASSUME ScannerTypeOK, NothingLost, status = "open", NEW b \in Byte, input' = Append(input, b)
  PROVE  /\ Last(input') = b /\ Unfinished = buffer
         /\ Unfinished' = IF b = "newline" THEN <<>> ELSE Append(buffer, b)
         /\ Delivered(IF b = "newline" THEN Append(frames, buffer) ELSE frames, input')
<1>1. input \in Seq(Byte) /\ frames \in Seq(Seq(Letters)) /\ buffer \in Seq(Letters)
  BY DEF ScannerTypeOK, Letters
<1>2. Len(input) \in Nat /\ Len(input') = Len(input) + 1 /\ input'[Len(input) + 1] = b
  BY <1>1, Appended
<1>3. Len(input') + 1 = Len(input) + 2
  BY <1>2
<1>4. Delivered(frames, input) /\ Unfinished = buffer /\ PieceOf(input, Len(input) + 1) = buffer
  BY LossRead
<1>5. Unfinished' = PieceOf(input', Len(input) + 2)
  BY <1>3, LossRead
<1>6. PieceOf(input', Len(input) + 2) = IF b = "newline" THEN <<>> ELSE Append(buffer, b)
  BY <1>1, <1>4, PiecesGrow
<1>7. Delivered(IF b = "newline" THEN Append(frames, buffer) ELSE frames, input')
  BY <1>1, <1>4, DeliversMore
<1> QED
  BY <1>2, <1>4, <1>5, <1>6, <1>7 DEF Last

\* The invariant holds initially.
LEMMA InitInv == ScannerInit => FrameInv
<1> SUFFICES ASSUME ScannerInit PROVE FrameInv
  OBVIOUS
<1>1. buffer = <<>> /\ frames = <<>> /\ input = <<>> /\ status = "open"
      /\ depth = 0 /\ quoted = FALSE /\ escaped = FALSE
  BY DEF ScannerInit
<1>2. Len(<<>>) = 0 /\ 0 + 1 = 1 /\ 0 <= MaxDepth /\ \A k \in 0..0 : k = 0
  BY ScannerAssumption
<1>3. Labels(buffer, Strings(buffer)) /\ ScannerAgrees
  BY <1>1, <1>2, Nothing, Zenon DEF ScannerAgrees
<1>4. Shallow
  <2>1. \A k \in 0..Len(<<>>) : Nesting(<<>>, k) = 0
    BY <1>2, Nothing, Zenon
  <2> QED
    BY <1>1, <1>2, <2>1, Zenon DEF Shallow
<1>5. Passed /\ Stopped
  <2>1. Range(<<>>) = {}
    BY DEF Range
  <2> QED
    BY <1>1, <2>1, Zenon DEF Passed, Stopped
<1>6. NothingLost
  <2>1. NewlinesOf(<<>>) = {}
    BY DEF NewlinesOf
  <2>2. Delivered(<<>>, <<>>)
    BY <1>2, <2>1, FS_EmptySet DEF Delivered
  <2>3. PieceOf(<<>>, 1) = <<>>
    <3>1. <<>> \in Seq(Byte) /\ 1 \in 1..Len(<<>>) + 1
      OBVIOUS
    <3>2. Before(<<>>, 1) = 0
      <4>1. Before(<<>>, 1) \in 0..1 - 1
        BY <3>1, Begins, Zenon
      <4> QED
        BY <4>1
    <3>3. SubSeq(<<>>, 1, 0) = <<>>
      BY SubSeqEmpty
    <3> QED
      BY <3>2, <3>3 DEF PieceOf
  <2>4. Unfinished = <<>>
    BY <1>1, <1>2, <2>3, LossRead
  <2> QED
    BY <1>1, <2>2, <2>4, LossRead
<1> QED
  BY <1>3, <1>4, <1>5, <1>6, InitTyped DEF FrameInv

\* A newline pushes the frame, whose every position was shallow enough, and begins
\* another.
LEMMA NewlineStep ==
  ASSUME FrameInv, status = "open", input' = Append(input, "newline"), Newline
  PROVE  /\ Labels(buffer', Strings(buffer')) /\ ScannerAgrees'
         /\ Shallow' /\ Passed' /\ Stopped' /\ NothingLost'
<1>1. /\ buffer' = <<>> /\ frames' = Append(frames, buffer) /\ status' = "open"
      /\ depth' = 0 /\ quoted' = FALSE /\ escaped' = FALSE
  BY DEF Newline
<1>2. Len(<<>>) = 0 /\ 0 + 1 = 1 /\ 0 <= MaxDepth /\ \A k \in 0..0 : k = 0
  BY ScannerAssumption
<1>3. Labels(buffer', Strings(buffer')) /\ ScannerAgrees'
  BY <1>1, <1>2, Nothing, Zenon DEF ScannerAgrees
<1>4. Shallow'
  <2>1. \A k \in 0..Len(<<>>) : Nesting(<<>>, k) = 0
    BY <1>2, Nothing, Zenon
  <2> QED
    BY <1>1, <1>2, <2>1, Zenon DEF Shallow
<1>5. Passed'
  <2>1. /\ frames \in Seq(Seq(Letters)) /\ buffer \in Seq(Letters) /\ Len(buffer) <= MaxBytes
        /\ Len(buffer) \in Nat /\ \A k \in 0..Len(buffer) : Nesting(buffer, k) <= MaxDepth
    BY DEF FrameInv, ScannerTypeOK, Shallow, Letters
  <2>2. Range(frames') \subseteq Range(frames) \cup {buffer}
    BY <1>1, <2>1 DEF Range
  <2>3. \A k \in 1..Len(buffer) : Nesting(buffer, k) <= MaxDepth
    BY <2>1
  <2> QED
    BY <2>1, <2>2, <2>3 DEF FrameInv, Passed
<1>6. Stopped'
  BY <1>1, Zenon DEF Stopped
<1>7. NothingLost'
  <2>1. ScannerTypeOK /\ NothingLost /\ "newline" \in Byte
    BY DEF FrameInv, Byte
  <2>2. Unfinished' = <<>> /\ Delivered(frames', input')
    BY <1>1, <2>1, InputGrows
  <2> QED
    BY <1>1, <2>2, LossRead, Zenon
<1> QED
  BY <1>3, <1>4, <1>5, <1>6, <1>7

\* The byte that does not fit stops the scanner, with the frame full.
LEMMA TooLongStep ==
  ASSUME FrameInv, status = "open", NEW b \in Letters, input' = Append(input, b), TooLong
  PROVE  /\ Labels(buffer', Strings(buffer')) /\ ScannerAgrees'
         /\ Shallow' /\ Passed' /\ Stopped' /\ NothingLost'
<1>1. /\ buffer' = buffer /\ frames' = frames /\ status' = "too_long"
      /\ depth' = depth /\ quoted' = quoted /\ escaped' = escaped
      /\ Len(buffer) >= MaxBytes
  BY DEF TooLong
<1>2. Labels(buffer', Strings(buffer')) /\ ScannerAgrees'
  BY <1>1 DEF FrameInv, ScannerAgrees
<1>3. Shallow' /\ Passed'
  BY <1>1 DEF FrameInv, Shallow, Passed
<1>4. Stopped'
  <2>1. Len(buffer) = MaxBytes
    BY <1>1, ScannerAssumption DEF FrameInv, ScannerTypeOK
  <2> QED
    BY <1>1, <2>1 DEF Stopped
<1>5. NothingLost'
  <2>1. ScannerTypeOK /\ NothingLost /\ b \in Byte /\ b # "newline"
    BY DEF FrameInv, Letters
  <2>2. Unfinished' = Append(buffer, b) /\ Delivered(frames', input') /\ Last(input') = b
    BY <1>1, <2>1, InputGrows
  <2> QED
    BY <1>1, <2>2, LossRead
<1> QED
  BY <1>2, <1>3, <1>4, <1>5

\* A byte of the frame is stored, and too deep exactly when it opens one bracket more
\* than the limit.
LEMMA StoredStep ==
  ASSUME FrameInv, status = "open", NEW b \in Letters, input' = Append(input, b), Stored(b)
  PROVE  /\ Labels(buffer', Strings(buffer')) /\ ScannerAgrees'
         /\ Shallow' /\ Passed' /\ Stopped' /\ NothingLost'
<1> DEFINE n == Len(buffer)
<1>1. /\ Labels(buffer', Strings(buffer')) /\ ScannerAgrees'
      /\ \A k \in 0..n : Nesting(buffer', k) = Nesting(buffer, k)
      /\ Len(buffer') = n + 1 /\ n \in Nat
  BY Meaning
<1>2. /\ depth = Nesting(buffer, n) /\ depth' = Nesting(buffer', n + 1)
      /\ depth \in Int /\ MaxDepth \in Nat
      /\ \A k \in 0..n : Nesting(buffer, k) <= MaxDepth
  BY <1>1, ScannerAssumption DEF FrameInv, ScannerTypeOK, ScannerAgrees, Shallow
<1>3. depth <= MaxDepth
  BY <1>1, <1>2
<1>4. \/ status' = "open" /\ depth' <= MaxDepth
      \/ status' = "too_deep" /\ depth' = MaxDepth + 1
  <2>1. CASE Inside(b)
    BY <1>3, <2>1 DEF Inside
  <2>2. CASE Outside(b)
    <3>1. /\ depth' = IF b = "open" THEN depth + 1 ELSE IF b = "close" THEN depth - 1 ELSE depth
          /\ status' = IF depth' > MaxDepth THEN "too_deep" ELSE "open"
      BY <2>2 DEF Outside
    <3> QED
      BY <1>2, <1>3, <3>1
  <2> QED
    BY <2>1, <2>2 DEF Stored
<1>5. buffer' = Append(buffer, b) /\ frames' = frames
  BY DEF Stored
<1>6. Shallow'
  <2> SUFFICES ASSUME status' # "too_deep", NEW k \in 0..n + 1 PROVE Nesting(buffer', k) <= MaxDepth
    BY <1>1 DEF Shallow
  <2>1. CASE k = n + 1
    BY <1>2, <1>4, <2>1
  <2>2. CASE k # n + 1
    <3>1. k \in 0..n
      BY <1>1, <2>2
    <3> QED
      BY <1>1, <1>2, <3>1
  <2> QED
    BY <2>1, <2>2
<1>7. Passed' /\ Stopped'
  BY <1>1, <1>2, <1>4, <1>5 DEF FrameInv, Passed, Stopped
<1>8. NothingLost'
  <2>1. ScannerTypeOK /\ NothingLost /\ b \in Byte /\ b # "newline"
    BY DEF FrameInv, Letters
  <2>2. Unfinished' = buffer' /\ Delivered(frames', input')
    BY <1>5, <2>1, InputGrows
  <2> QED
    BY <1>4, <2>2, LossRead
<1> QED
  BY <1>1, <1>6, <1>7, <1>8

\* The end of the input stops the scanner and touches nothing.
LEMMA FlushStep ==
  ASSUME FrameInv, Flush
  PROVE  /\ Labels(buffer', Strings(buffer')) /\ ScannerAgrees'
         /\ Shallow' /\ Passed' /\ Stopped' /\ NothingLost'
<1>1. /\ buffer' = buffer /\ frames' = frames /\ input' = input
      /\ depth' = depth /\ quoted' = quoted /\ escaped' = escaped
      /\ status = "open" /\ status' = IF buffer = <<>> THEN "ended" ELSE "incomplete"
  BY DEF Flush
<1>2. Labels(buffer', Strings(buffer')) /\ ScannerAgrees'
  BY <1>1 DEF FrameInv, ScannerAgrees
<1>3. Shallow' /\ Passed' /\ Stopped'
  BY <1>1 DEF FrameInv, Shallow, Passed, Stopped
<1>4. NothingLost'
  <2>1. NothingLost /\ Unfinished' = Unfinished
    BY <1>1, LossRead DEF FrameInv
  <2> QED
    BY <1>1, <2>1, LossRead
<1> QED
  BY <1>2, <1>3, <1>4

\* Every step keeps the invariant.
LEMMA StepInv == FrameInv /\ [ScannerNext]_scanner => FrameInv'
<1> SUFFICES ASSUME FrameInv, [ScannerNext]_scanner PROVE FrameInv'
  OBVIOUS
<1>1. ScannerTypeOK'
  BY StepTyped DEF FrameInv
<1>2. ASSUME NEW b \in Byte, ByteArrives(b) PROVE FrameInv'
  <2>1. status = "open" /\ input' = Append(input, b)
    BY <1>2 DEF ByteArrives
  <2>2. CASE b = "newline" /\ Newline
    BY <1>1, <2>1, <2>2, NewlineStep DEF FrameInv
  <2>3. CASE b # "newline" /\ TooLong
    BY <1>1, <2>1, <2>3, TooLongStep DEF FrameInv, Letters
  <2>4. CASE b # "newline" /\ Stored(b)
    BY <1>1, <2>1, <2>4, StoredStep DEF FrameInv, Letters
  <2> QED
    BY <1>2, <2>2, <2>3, <2>4 DEF ByteArrives
<1>3. CASE Flush
  BY <1>1, <1>3, FlushStep DEF FrameInv
<1>4. CASE UNCHANGED scanner
  <2>1. /\ buffer' = buffer /\ frames' = frames /\ input' = input /\ status' = status
        /\ depth' = depth /\ quoted' = quoted /\ escaped' = escaped
    BY <1>4 DEF scanner
  <2>2. NothingLost'
    <3>1. NothingLost /\ Unfinished' = Unfinished
      BY <2>1, LossRead DEF FrameInv
    <3> QED
      BY <2>1, <3>1, LossRead
  <2>3. Labels(buffer', Strings(buffer')) /\ ScannerAgrees' /\ Shallow' /\ Passed' /\ Stopped'
    BY <2>1 DEF FrameInv, ScannerAgrees, Shallow, Passed, Stopped
  <2> QED
    BY <1>1, <2>2, <2>3 DEF FrameInv
<1> QED
  BY <1>2, <1>3, <1>4 DEF ScannerNext

-----------------------------------------------------------------------------
(* Theorems. *)

\* FrameInv holds in every state.
LEMMA FrameInvariant == ScannerSpec => []FrameInv
  BY InitInv, StepInv, PTL DEF ScannerSpec

\* The exact limits are told by the frame so far.
LEMMA InvLimits == FrameInv => LimitsAreExact
<1> SUFFICES ASSUME FrameInv PROVE LimitsAreExact
  OBVIOUS
<1>1. Unfinished = IF status = "too_long" THEN Append(buffer, Last(input)) ELSE buffer
  BY LossRead DEF FrameInv
<1>2. status = "too_long" => Len(Unfinished) = MaxBytes + 1
  <2> SUFFICES ASSUME status = "too_long" PROVE Len(Unfinished) = MaxBytes + 1
    OBVIOUS
  <2>1. Len(buffer) = MaxBytes /\ buffer \in Seq(Letters)
    BY DEF FrameInv, Stopped, ScannerTypeOK, Letters
  <2>2. Len(Append(buffer, Last(input))) = Len(buffer) + 1
    BY <2>1
  <2> QED
    BY <1>1, <2>1, <2>2
<1>3. status = "too_deep" => Nesting(Unfinished, Len(Unfinished)) = MaxDepth + 1
  BY <1>1 DEF FrameInv, Stopped
<1>4. status = "incomplete" => Unfinished # <<>>
  BY <1>1 DEF FrameInv, Stopped
<1> QED
  BY <1>2, <1>3, <1>4 DEF FrameInv, Passed, LimitsAreExact

\* Every state of the scanner is well typed: a frame and the buffer hold no newline, and
\* the buffer is never longer than a frame may be.
THEOREM ScannerTypeCorrect == ScannerSpec => []ScannerTypeOK
<1>1. FrameInv => ScannerTypeOK
  BY DEF FrameInv
<1> QED
  BY <1>1, FrameInvariant, PTL

\* The scanner carries the meaning of the frame so far (ScannerAgrees), for all
\* limits and every input.
THEOREM ScannerMeansTheText == ScannerSpec => []ScannerAgrees
<1>1. FrameInv => ScannerAgrees
  BY DEF FrameInv
<1> QED
  BY <1>1, FrameInvariant, PTL

\* No frame beyond the limits is passed on, and none within them is refused
\* (LimitsAreExact).
THEOREM LimitsExact == ScannerSpec => []LimitsAreExact
  BY InvLimits, FrameInvariant, PTL

\* The frames are the pieces of the input between its newlines (NothingLost).
THEOREM FramesAreThePieces == ScannerSpec => []NothingLost
<1>1. FrameInv => NothingLost
  BY DEF FrameInv
<1> QED
  BY <1>1, FrameInvariant, PTL

=============================================================================
