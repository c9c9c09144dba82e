------------------------- MODULE ExecutionGateProofs -------------------------
(***************************************************************************)
(* Proofs about ExecutionGate for every set of calls and every capacity.   *)
(***************************************************************************)
EXTENDS ExecutionGate, FiniteSetTheorems, TLAPS

-----------------------------------------------------------------------------
(* Queues of microtasks. *)

At(q, j) == \E i \in 1..Len(q) : q[i] = j
Once(q, j) == \A i, k \in 1..Len(q) : q[i] = j /\ q[k] = j => i = k

\* Every reaction of the race to `running` is behind the release.
Guarded(q) == \A i \in 1..Len(q) :
                q[i] = "raceRun" => \E k \in 1..(i - 1) : q[k] = "release"

\* What Append does to a queue, position by position.
LEMMA AppendPositions ==
  ASSUME NEW q \in Seq(Job), NEW x \in Job
  PROVE  /\ Append(q, x) \in Seq(Job)
         /\ Len(Append(q, x)) = Len(q) + 1
         /\ \A i \in 1..Len(q) : Append(q, x)[i] = q[i]
         /\ Append(q, x)[Len(q) + 1] = x
  OBVIOUS

\* What Head and Tail do to a queue, position by position.
LEMMA TailPositions ==
  ASSUME NEW q \in Seq(Job), q # <<>>
  PROVE  /\ Tail(q) \in Seq(Job)
         /\ Len(q) \in Nat \ {0}
         /\ Len(Tail(q)) = Len(q) - 1
         /\ \A i \in 1..Len(Tail(q)) : Tail(q)[i] = q[i + 1]
         /\ Head(q) = q[1]
         /\ Head(q) \in Job
  OBVIOUS

\* Appending a microtask adds it, and keeps a microtask that was not there unique.
LEMMA AppendFacts ==
  ASSUME NEW q \in Seq(Job), NEW x \in Job, NEW j \in Job
  PROVE  /\ At(Append(q, x), j) <=> At(q, j) \/ x = j
         /\ Once(q, j) /\ (x = j => ~At(q, j)) => Once(Append(q, x), j)
<1>1. /\ Len(Append(q, x)) = Len(q) + 1
      /\ \A i \in 1..Len(q) : Append(q, x)[i] = q[i]
      /\ Append(q, x)[Len(q) + 1] = x
      /\ Len(q) \in Nat
  BY AppendPositions
<1>2. At(Append(q, x), j) <=> At(q, j) \/ x = j
  BY <1>1 DEF At
<1>3. ASSUME Once(q, j), x = j => ~At(q, j)
      PROVE  Once(Append(q, x), j)
  BY <1>1, <1>3 DEF At, Once
<1>4. QED
  BY <1>2, <1>3

\* Running the microtask at the head takes it out; a unique one is gone then.
LEMMA TailFacts ==
  ASSUME NEW q \in Seq(Job), q # <<>>, NEW j \in Job
  PROVE  /\ At(q, j) <=> Head(q) = j \/ At(Tail(q), j)
         /\ Once(q, j) => Once(Tail(q), j)
         /\ Once(q, j) /\ Head(q) = j => ~At(Tail(q), j)
<1>1. /\ Len(q) \in Nat \ {0}
      /\ Len(Tail(q)) = Len(q) - 1
      /\ \A i \in 1..Len(Tail(q)) : Tail(q)[i] = q[i + 1]
      /\ Head(q) = q[1]
  BY TailPositions
<1>2. \A i \in 1..Len(q) : i = 1 \/ (i - 1 \in 1..Len(Tail(q)) /\ Tail(q)[i - 1] = q[i])
  BY <1>1
<1>3. At(q, j) => Head(q) = j \/ At(Tail(q), j)
  BY <1>1, <1>2 DEF At
<1>4. Head(q) = j \/ At(Tail(q), j) => At(q, j)
  BY <1>1 DEF At
<1>5. ASSUME Once(q, j)
      PROVE  Once(Tail(q), j)
  <2>1. ASSUME NEW i \in 1..Len(Tail(q)), NEW k \in 1..Len(Tail(q)),
               Tail(q)[i] = j, Tail(q)[k] = j
        PROVE  i = k
    <3>1. i + 1 \in 1..Len(q) /\ k + 1 \in 1..Len(q) /\ q[i + 1] = j /\ q[k + 1] = j
      BY <1>1, <2>1
    <3>2. i + 1 = k + 1
      BY <3>1, <1>5 DEF Once
    <3>3. QED
      BY <3>2
  <2>2. QED
    BY <2>1 DEF Once
<1>6. ASSUME Once(q, j), Head(q) = j, NEW i \in 1..Len(Tail(q)), Tail(q)[i] = j
      PROVE  FALSE
  <2>1. i + 1 \in 1..Len(q) /\ q[i + 1] = j /\ 1 \in 1..Len(q) /\ q[1] = j
    BY <1>1, <1>6
  <2>2. i + 1 = 1
    BY <2>1, <1>6 DEF Once
  <2>3. QED
    BY <2>2
<1>7. QED
  BY <1>3, <1>4, <1>5, <1>6 DEF At

\* The order of attachment survives what the gate does to a queue.
LEMMA GuardedFacts ==
  ASSUME NEW q \in Seq(Job), Guarded(q)
  PROVE  /\ \A x \in Job : (x = "raceRun" => At(q, "release")) => Guarded(Append(q, x))
         /\ q # <<>> => Head(q) # "raceRun"
         /\ q # <<>> /\ Head(q) # "release" => Guarded(Tail(q))
<1>1. ASSUME NEW x \in Job, x = "raceRun" => At(q, "release")
      PROVE  Guarded(Append(q, x))
  <2>1. /\ Len(Append(q, x)) = Len(q) + 1
        /\ \A i \in 1..Len(q) : Append(q, x)[i] = q[i]
        /\ Append(q, x)[Len(q) + 1] = x
        /\ Len(q) \in Nat
    BY AppendPositions
  <2>2. ASSUME NEW i \in 1..Len(Append(q, x)), Append(q, x)[i] = "raceRun"
        PROVE  \E k \in 1..(i - 1) : Append(q, x)[k] = "release"
    <3>1. CASE i = Len(q) + 1
      BY <2>1, <2>2, <3>1, <1>1 DEF At
    <3>2. CASE i \in 1..Len(q)
      BY <2>1, <2>2, <3>2 DEF Guarded
    <3>3. QED
      BY <2>1, <3>1, <3>2
  <2>3. QED
    BY <2>2 DEF Guarded
<1>2. ASSUME q # <<>>
      PROVE  Head(q) # "raceRun"
  BY <1>2, TailPositions DEF Guarded
<1>3. ASSUME q # <<>>, Head(q) # "release"
      PROVE  Guarded(Tail(q))
  <2>1. /\ Len(q) \in Nat \ {0}
        /\ Len(Tail(q)) = Len(q) - 1
        /\ \A i \in 1..Len(Tail(q)) : Tail(q)[i] = q[i + 1]
        /\ Head(q) = q[1]
    BY <1>3, TailPositions
  <2>2. ASSUME NEW i \in 1..Len(Tail(q)), Tail(q)[i] = "raceRun"
        PROVE  \E k \in 1..(i - 1) : Tail(q)[k] = "release"
    <3>1. i + 1 \in 1..Len(q) /\ q[i + 1] = "raceRun"
      BY <2>1, <2>2
    <3>2. PICK k \in 1..((i + 1) - 1) : q[k] = "release"
      BY <3>1 DEF Guarded
    <3>3. k # 1
      BY <3>2, <2>1, <1>3
    <3>4. k - 1 \in 1..(i - 1) /\ Tail(q)[k - 1] = "release"
      BY <3>2, <3>3, <2>1
    <3>5. QED
      BY <3>4
  <2>3. QED
    BY <2>2 DEF Guarded
<1>4. QED
  BY <1>1, <1>2, <1>3

-----------------------------------------------------------------------------
(* The inductive invariant. *)

\* What one call does in a step.
Step(c) ==
  \/ Run(c)
  \/ Microtask(c)
  \/ Callback(c)
  \/ ExternalAbort(c)
  \/ Expire(c)
  \/ TimerFires(c)

\* TypeOK without the counter, which is bounded below only by the accounting.
TypeInv ==
  /\ work \in [Calls -> WorkStates]
  /\ result \in [Calls -> Outcome \cup {"none"}]
  /\ abortReason \in [Calls -> {"none", "cancelled", "deadline_exceeded"}]
  /\ aborted \in [Calls -> BOOLEAN]
  /\ external \in [Calls -> BOOLEAN]
  /\ listening \in [Calls -> BOOLEAN]
  /\ timer \in [Calls -> {"off", "armed", "fired"}]
  /\ expired \in [Calls -> BOOLEAN]
  /\ jobs \in [Calls -> Seq(Job)]
  /\ race \in [Calls -> Outcome \cup {"none"}]
  /\ answer \in [Calls -> Outcome \cup {"none"}]

\* The counter is the number of slots in use, which never exceeds the capacity.
SlotInv ==
  /\ IsFiniteSet(Held)
  /\ active = Cardinality(Held)
  /\ active <= Concurrency

\* The queue of one call against the call's promises: the slot is released once,
\* before the race hears of the callback's outcome, and the caller resumes once.
QueueInv(c) ==
  /\ Once(jobs[c], "release")
  /\ Once(jobs[c], "resume")
  /\ At(jobs[c], "release") => work[c] = "settled"
  /\ work[c] = "released" \/ Guarded(jobs[c])
  /\ At(jobs[c], "raceRun") => result[c] # "none"
  /\ At(jobs[c], "raceAbort") => abortReason[c] # "none"
  /\ At(jobs[c], "resume") => race[c] # "none" /\ answer[c] = "none"

\* What a call has settled, against how far its callback came.
SettledInv(c) ==
  /\ result[c] # "capacity_exceeded"
  /\ race[c] # "capacity_exceeded"
  /\ race[c] \in {"value", "failed"} => work[c] = "released"
  /\ work[c] # "none" /\ race[c] = "none" => answer[c] = "none"
  /\ answer[c] # "none" => timer[c] # "armed" /\ ~listening[c]
  /\ work[c] = "none" =>
       jobs[c] = <<>> /\ race[c] = "none" /\ timer[c] = "off" /\ ~listening[c]

IInv == TypeInv /\ SlotInv /\ \A c \in Calls : QueueInv(c) /\ SettledInv(c)

\* The state that belongs to call d.
Untouched(d) ==
  /\ work'[d] = work[d]
  /\ result'[d] = result[d]
  /\ abortReason'[d] = abortReason[d]
  /\ listening'[d] = listening[d]
  /\ timer'[d] = timer[d]
  /\ jobs'[d] = jobs[d]
  /\ race'[d] = race[d]
  /\ answer'[d] = answer[d]
  /\ aborted'[d] = aborted[d]
  /\ external'[d] = external[d]
  /\ expired'[d] = expired[d]

-----------------------------------------------------------------------------
(* Steps. *)

\* Every step keeps the types.
LEMMA TypeStep ==
  ASSUME TypeInv, NEW c \in Calls, Step(c)
  PROVE  TypeInv'
<1>0. /\ Append(jobs[c], "raceAbort") \in Seq(Job)
      /\ Append(Append(jobs[c], "release"), "raceRun") \in Seq(Job)
      /\ jobs[c] # <<>> => /\ Tail(jobs[c]) \in Seq(Job)
                           /\ Append(Tail(jobs[c]), "resume") \in Seq(Job)
  <2>1. jobs[c] \in Seq(Job)
    BY DEF TypeInv
  <2>2. {"release", "raceRun", "raceAbort", "resume"} \subseteq Job
    BY DEF Job
  <2>3. QED
    BY <2>1, <2>2, AppendPositions, TailPositions
<1>a. ASSUME NEW o \in Outcome, SettleRunning(c, o)
      PROVE  /\ work' \in [Calls -> WorkStates]
             /\ result' \in [Calls -> Outcome \cup {"none"}]
             /\ jobs' \in [Calls -> Seq(Job)]
  BY <1>0, <1>a DEF TypeInv, SettleRunning, WorkStates
<1>b. ASSUME NEW r \in {"cancelled", "deadline_exceeded"}, RejectAbort(c, r)
      PROVE  /\ aborted' \in [Calls -> BOOLEAN]
             /\ abortReason' \in [Calls -> {"none", "cancelled", "deadline_exceeded"}]
             /\ jobs' \in [Calls -> Seq(Job)]
  <2>1. CASE abortReason[c] = "none"
    <3>1. /\ aborted' = [aborted EXCEPT ![c] = TRUE]
          /\ abortReason' = [abortReason EXCEPT ![c] = r]
          /\ jobs' = [jobs EXCEPT ![c] = Append(jobs[c], "raceAbort")]
      BY <1>b, <2>1 DEF RejectAbort
    <3>2. QED
      BY <1>0, <3>1 DEF TypeInv
  <2>2. CASE abortReason[c] # "none"
    BY <1>b, <2>2 DEF TypeInv, RejectAbort
  <2>3. QED
    BY <2>1, <2>2
<1> USE DEF TypeInv
<1>1. CASE Refuse(c)
  BY <1>1 DEF Refuse, Outcome
<1>2. CASE Admit(c)
  <2>1. /\ work' \in [Calls -> WorkStates]
        /\ listening' \in [Calls -> BOOLEAN]
        /\ timer' \in [Calls -> {"off", "armed", "fired"}]
    BY <1>2 DEF Admit, WorkStates
  <2>2. CASE external[c]
    BY <1>2, <1>b, <2>1, <2>2 DEF Admit
  <2>3. CASE ~external[c]
    BY <1>2, <2>1, <2>3 DEF Admit
  <2>4. QED
    BY <2>2, <2>3
<1>3. CASE StartWork(c)
  <2>1. CASE expired[c]
    BY <1>3, <2>1, <1>a DEF StartWork, CheckSignal, Outcome
  <2>2. CASE ~expired[c] /\ aborted[c]
    BY <1>3, <2>2, <1>a DEF StartWork, CheckSignal, Outcome
  <2>3. CASE ~expired[c] /\ ~aborted[c]
    BY <1>3, <2>3 DEF StartWork, CheckSignal, WorkStates
  <2>4. QED
    BY <2>1, <2>2, <2>3
<1>4. CASE FinishWork(c)
  <2>1. CASE expired[c]
    BY <1>4, <2>1, <1>a DEF FinishWork, CheckSignal, Outcome
  <2>2. CASE ~expired[c]
    BY <1>4, <2>2, <1>a DEF FinishWork, CheckSignal, Outcome
  <2>3. QED
    BY <2>1, <2>2
<1>5. CASE Release(c)
  BY <1>0, <1>5 DEF Release, WorkStates
<1>6. CASE RaceRun(c)
  BY <1>0, <1>6 DEF RaceRun, SettleRace
<1>7. CASE RaceAbort(c)
  <2>1. abortReason[c] \in Outcome \cup {"none"}
    BY DEF Outcome
  <2>2. QED
    BY <1>0, <1>7, <2>1 DEF RaceAbort, SettleRace
<1>8. CASE Resume(c)
  <2>1. /\ jobs' \in [Calls -> Seq(Job)]
        /\ listening' \in [Calls -> BOOLEAN]
    BY <1>0, <1>8 DEF Resume
  <2>2. answer' \in [Calls -> Outcome \cup {"none"}]
    BY <1>8 DEF Resume
  <2>3. timer' \in [Calls -> {"off", "armed", "fired"}]
    BY <1>8 DEF Resume
  <2>4. QED
    BY <1>8, <2>1, <2>2, <2>3 DEF Resume
<1>9. CASE WorkResolves(c)
  BY <1>9 DEF WorkResolves, WorkStates
<1>10. CASE WorkThrows(c)
  BY <1>10, <1>a DEF WorkThrows, Outcome
<1>11. CASE WorkStops(c)
  <2>1. CASE expired[c]
    BY <1>11, <2>1, <1>a DEF WorkStops, CheckSignal, Outcome
  <2>2. CASE ~expired[c]
    BY <1>11, <2>2, <1>a DEF WorkStops, CheckSignal, Outcome
  <2>3. QED
    BY <2>1, <2>2
<1>12. CASE ExternalAbort(c)
  BY <1>12, <1>b DEF ExternalAbort
<1>13. CASE Expire(c)
  BY <1>13 DEF Expire
<1>14. CASE TimerFires(c)
  BY <1>14, <1>b DEF TimerFires
<1>15. QED
  BY <1>1, <1>2, <1>3, <1>4, <1>5, <1>6, <1>7, <1>8, <1>9, <1>10, <1>11, <1>12,
     <1>13, <1>14 DEF Step, Run, Microtask, Callback

\* A step of one call leaves the others alone.
LEMMA Locality ==
  ASSUME TypeInv, NEW c \in Calls, Step(c), NEW d \in Calls, d # c
  PROVE  Untouched(d)
<1> USE DEF TypeInv, Untouched
<1>1. CASE Run(c)
  BY <1>1 DEF Run, Refuse, Admit, RejectAbort
<1>2. CASE StartWork(c) \/ FinishWork(c)
  BY <1>2 DEF StartWork, FinishWork, CheckSignal, SettleRunning
<1>3. CASE Release(c) \/ RaceRun(c) \/ RaceAbort(c) \/ Resume(c)
  BY <1>3 DEF Release, RaceRun, RaceAbort, SettleRace, Resume
<1>4. CASE Callback(c)
  BY <1>4 DEF Callback, WorkResolves, WorkThrows, WorkStops, CheckSignal, SettleRunning
<1>5. CASE ExternalAbort(c) \/ Expire(c) \/ TimerFires(c)
  BY <1>5 DEF ExternalAbort, Expire, TimerFires, RejectAbort
<1>6. QED
  BY <1>1, <1>2, <1>3, <1>4, <1>5 DEF Step, Microtask

\* What belongs to a call keeps its invariant while the call is left alone.
LEMMA Keeps ==
  ASSUME NEW d \in Calls, QueueInv(d), SettledInv(d), Untouched(d)
  PROVE  QueueInv(d)' /\ SettledInv(d)'
  BY DEF QueueInv, SettledInv, Untouched

\* When `running` settles, the release is queued in front of the race's reaction.
LEMMA Settles ==
  ASSUME TypeInv, NEW c \in Calls, QueueInv(c), SettledInv(c),
         work[c] \in {"starting", "running", "finishing"},
         NEW o \in Outcome \ {"capacity_exceeded"}, SettleRunning(c, o),
         UNCHANGED <<abortReason, listening, timer, race, answer>>
  PROVE  QueueInv(c)' /\ SettledInv(c)'
<1> DEFINE q == jobs[c]
           p == Append(q, "release")
<1>1. /\ q \in Seq(Job)
      /\ p \in Seq(Job)
      /\ "release" \in Job /\ "raceRun" \in Job /\ "raceAbort" \in Job /\ "resume" \in Job
  <2>1. q \in Seq(Job)
    BY DEF TypeInv
  <2>2. "release" \in Job /\ "raceRun" \in Job /\ "raceAbort" \in Job /\ "resume" \in Job
    BY DEF Job
  <2>3. QED
    BY <2>1, <2>2, AppendPositions
<1>2. /\ work'[c] = "settled"
      /\ result'[c] = o
      /\ jobs'[c] = Append(p, "raceRun")
  BY DEF SettleRunning, TypeInv
<1> HIDE DEF q, p
<1>3. ~At(q, "release") /\ Once(q, "release") /\ Once(q, "resume") /\ Guarded(q)
  BY DEF QueueInv, q
<1>4. \A j \in Job : At(jobs'[c], j) <=> At(q, j) \/ j = "release" \/ j = "raceRun"
  <2>1. \A j \in Job : At(p, j) <=> At(q, j) \/ j = "release"
    BY <1>1, AppendFacts DEF p
  <2>2. \A j \in Job : At(Append(p, "raceRun"), j) <=> At(p, j) \/ j = "raceRun"
    BY <1>1, AppendFacts
  <2>3. QED
    BY <1>2, <2>1, <2>2
<1>5. Once(jobs'[c], "release") /\ Once(jobs'[c], "resume")
  <2>1. Once(p, "release") /\ Once(p, "resume")
    BY <1>1, <1>3, AppendFacts DEF p
  <2>2. QED
    BY <1>1, <1>2, <2>1, AppendFacts
<1>6. Guarded(jobs'[c])
  <2>1. Guarded(p) /\ At(p, "release")
    BY <1>1, <1>3, GuardedFacts, AppendFacts DEF p
  <2>2. QED
    BY <1>1, <1>2, <2>1, GuardedFacts
<1>7. QueueInv(c)'
  <2>1. o # "none"
    BY DEF Outcome
  <2>2. /\ At(q, "raceAbort") => abortReason[c] # "none"
        /\ At(q, "resume") => race[c] # "none" /\ answer[c] = "none"
    BY DEF QueueInv, q
  <2>3. QED
    BY <1>1, <1>2, <1>4, <1>5, <1>6, <2>1, <2>2 DEF QueueInv
<1>8. SettledInv(c)'
  BY <1>2 DEF SettledInv
<1>9. QED
  BY <1>7, <1>8

\* A rejection of the abort promise adds one reaction of the race.
LEMMA Aborts ==
  ASSUME TypeInv, NEW c \in Calls, QueueInv(c),
         NEW r \in {"cancelled", "deadline_exceeded"}, RejectAbort(c, r),
         work'[c] = work[c] \/ (work[c] = "none" /\ work'[c] = "starting"),
         result'[c] = result[c], race'[c] = race[c], answer'[c] = answer[c]
  PROVE  QueueInv(c)'
<1>1. /\ jobs[c] \in Seq(Job)
      /\ "release" \in Job /\ "raceRun" \in Job /\ "raceAbort" \in Job /\ "resume" \in Job
  BY DEF TypeInv, Job
<1>2. CASE abortReason[c] # "none"
  <2>1. jobs'[c] = jobs[c] /\ abortReason'[c] = abortReason[c]
    BY <1>2 DEF RejectAbort
  <2>2. QED
    BY <2>1 DEF QueueInv
<1>3. CASE abortReason[c] = "none"
  <2>1. jobs'[c] = Append(jobs[c], "raceAbort") /\ abortReason'[c] = r
    BY <1>3 DEF RejectAbort, TypeInv
  <2>2. /\ \A j \in Job : At(jobs'[c], j) <=> At(jobs[c], j) \/ j = "raceAbort"
        /\ Once(jobs'[c], "release") /\ Once(jobs'[c], "resume")
    BY <1>1, <2>1, AppendFacts DEF QueueInv
  <2>3. Guarded(jobs[c]) => Guarded(jobs'[c])
    BY <1>1, <2>1, GuardedFacts
  <2>4. QED
    BY <1>1, <2>1, <2>2, <2>3 DEF QueueInv
<1>4. QED
  BY <1>2, <1>3

\* The acting call keeps its invariant when it runs or settles its callback.
LEMMA CallbackSteps ==
  ASSUME TypeInv, NEW c \in Calls, QueueInv(c), SettledInv(c),
         StartWork(c) \/ FinishWork(c) \/ Callback(c)
  PROVE  QueueInv(c)' /\ SettledInv(c)'
<1>1. ASSUME NEW o \in Outcome \ {"capacity_exceeded"}, SettleRunning(c, o),
             work[c] \in {"starting", "running", "finishing"},
             UNCHANGED <<abortReason, listening, timer, race, answer>>
      PROVE  QueueInv(c)' /\ SettledInv(c)'
  BY <1>1, Settles
<1>2. ASSUME work[c] \in {"starting", "running"}, work'[c] \in {"running", "finishing"},
             UNCHANGED <<result, abortReason, listening, timer, jobs, race, answer>>
      PROVE  QueueInv(c)' /\ SettledInv(c)'
  BY <1>2 DEF QueueInv, SettledInv
<1>3. CASE StartWork(c)
  <2>1. CASE expired[c] \/ aborted[c]
    BY <1>1, <1>3, <2>1 DEF StartWork, CheckSignal, Outcome
  <2>2. CASE ~expired[c] /\ ~aborted[c]
    BY <1>2, <1>3, <2>2 DEF StartWork, CheckSignal, TypeInv
  <2>3. QED
    BY <2>1, <2>2
<1>4. CASE FinishWork(c)
  BY <1>1, <1>4 DEF FinishWork, CheckSignal, Outcome
<1>5. CASE WorkResolves(c)
  BY <1>2, <1>5 DEF WorkResolves, TypeInv
<1>6. CASE WorkThrows(c)
  BY <1>1, <1>6 DEF WorkThrows, Outcome
<1>7. CASE WorkStops(c)
  BY <1>1, <1>7 DEF WorkStops, CheckSignal, Outcome
<1>8. QED
  BY <1>3, <1>4, <1>5, <1>6, <1>7 DEF Callback

\* The acting call keeps its invariant when the microtask at its head runs.
LEMMA QueueSteps ==
  ASSUME TypeInv, NEW c \in Calls, QueueInv(c), SettledInv(c),
         Release(c) \/ RaceRun(c) \/ RaceAbort(c) \/ Resume(c)
  PROVE  QueueInv(c)' /\ SettledInv(c)'
<1> DEFINE q == jobs[c]
           t == Tail(q)
<1>1. /\ q \in Seq(Job) /\ q # <<>> /\ t \in Seq(Job)
      /\ "release" \in Job /\ "raceRun" \in Job /\ "raceAbort" \in Job /\ "resume" \in Job
  <2>1. q \in Seq(Job) /\ q # <<>>
    BY DEF TypeInv, Release, RaceRun, RaceAbort, SettleRace, Resume
  <2>2. QED
    BY <2>1, TailPositions DEF Job
<1>2. /\ \A j \in Job : At(q, j) <=> Head(q) = j \/ At(t, j)
      /\ Once(t, "release") /\ Once(t, "resume")
      /\ Head(q) = "release" => ~At(t, "release")
      /\ Head(q) = "resume" => ~At(t, "resume")
  <2>1. Once(q, "release") /\ Once(q, "resume")
    BY DEF QueueInv
  <2>2. QED
    BY <1>1, <2>1, TailFacts
<1>3. work[c] # "released" => /\ Head(q) # "raceRun"
                              /\ Head(q) # "release" => Guarded(t)
  BY <1>1, GuardedFacts DEF QueueInv
<1>4. work[c] # "none"
  BY <1>1 DEF SettledInv
<1> HIDE DEF q, t
<1>5. CASE Release(c)
  <2>1. /\ Head(q) = "release" /\ jobs'[c] = t /\ work'[c] = "released"
        /\ UNCHANGED <<result, abortReason, listening, timer, race, answer>>
    BY <1>5 DEF Release, TypeInv, q, t
  <2>2. QueueInv(c)'
    BY <1>1, <1>2, <2>1 DEF QueueInv, q
  <2>3. QED
    BY <2>1, <2>2, <1>4 DEF SettledInv
<1>6. ASSUME NEW o, o \in Outcome \ {"capacity_exceeded"},
             o \in {"value", "failed"} => work[c] = "released",
             NEW j \in {"raceRun", "raceAbort"}, SettleRace(c, j, o)
      PROVE  QueueInv(c)' /\ SettledInv(c)'
  <2>1. /\ Head(q) = j
        /\ UNCHANGED <<work, result, abortReason, listening, timer, answer>>
    BY <1>6 DEF SettleRace, q
  <2>2. CASE race[c] = "none"
    <3>1. jobs'[c] = Append(t, "resume") /\ race'[c] = o
      BY <1>6, <2>2 DEF SettleRace, TypeInv, q, t
    <3>2. ~At(t, "resume") /\ answer[c] = "none" /\ o # "none"
      <4>1. ~At(q, "resume") /\ answer[c] = "none"
        BY <1>4, <2>2 DEF QueueInv, SettledInv, q
      <4>2. ~At(t, "resume")
        BY <1>1, <1>2, <4>1
      <4>3. QED
        BY <1>6, <4>1, <4>2 DEF Outcome
    <3>3. \A k \in Job : At(jobs'[c], k) <=> At(t, k) \/ k = "resume"
      BY <1>1, <3>1, AppendFacts
    <3>4. Once(jobs'[c], "release") /\ Once(jobs'[c], "resume")
      BY <1>1, <1>2, <3>1, <3>2, AppendFacts
    <3>5. work[c] = "released" \/ Guarded(jobs'[c])
      BY <1>1, <1>3, <2>1, <3>1, GuardedFacts
    <3>6. QueueInv(c)'
      BY <1>1, <1>2, <2>1, <3>1, <3>2, <3>3, <3>4, <3>5 DEF QueueInv, q
    <3>7. SettledInv(c)'
      BY <1>4, <1>6, <2>1, <3>1, <3>2 DEF SettledInv
    <3>8. QED
      BY <3>6, <3>7
  <2>3. CASE race[c] # "none"
    <3>1. jobs'[c] = t /\ UNCHANGED race
      BY <1>6, <2>3 DEF SettleRace, TypeInv, q, t
    <3>2. QueueInv(c)'
      BY <1>1, <1>2, <1>3, <2>1, <3>1 DEF QueueInv, q
    <3>3. SettledInv(c)'
      BY <1>4, <2>1, <3>1 DEF SettledInv
    <3>4. QED
      BY <3>2, <3>3
  <2>4. QED
    BY <2>2, <2>3
<1>7. CASE RaceRun(c)
  <2>1. At(q, "raceRun") /\ work[c] = "released"
    BY <1>1, <1>2, <1>3, <1>7 DEF RaceRun, SettleRace, q
  <2>2. result[c] \in Outcome \ {"capacity_exceeded"}
    BY <2>1 DEF QueueInv, SettledInv, TypeInv, q
  <2>3. QED
    BY <1>6, <1>7, <2>1, <2>2 DEF RaceRun
<1>8. CASE RaceAbort(c)
  <2>1. At(q, "raceAbort")
    BY <1>1, <1>2, <1>8 DEF RaceAbort, SettleRace, q
  <2>2. abortReason[c] \in {"cancelled", "deadline_exceeded"}
    BY <2>1 DEF QueueInv, TypeInv, q
  <2>3. QED
    BY <1>6, <1>8, <2>2 DEF RaceAbort, Outcome
<1>9. CASE Resume(c)
  <2>1. /\ Head(q) = "resume" /\ jobs'[c] = t /\ answer'[c] = race[c]
        /\ listening'[c] = FALSE /\ timer'[c] # "armed"
        /\ UNCHANGED <<work, result, abortReason, race>>
    BY <1>9 DEF Resume, TypeInv, q, t
  <2>2. QueueInv(c)'
    BY <1>1, <1>2, <1>3, <2>1 DEF QueueInv, q
  <2>3. SettledInv(c)'
    BY <1>4, <2>1 DEF SettledInv
  <2>4. QED
    BY <2>2, <2>3
<1>10. QED
  BY <1>5, <1>7, <1>8, <1>9

\* The acting call keeps its invariant when it arrives, or when an event reaches it.
LEMMA EventSteps ==
  ASSUME TypeInv, NEW c \in Calls, QueueInv(c), SettledInv(c),
         Run(c) \/ ExternalAbort(c) \/ Expire(c) \/ TimerFires(c)
  PROVE  QueueInv(c)' /\ SettledInv(c)'
<1>1. CASE Refuse(c)
  <2>1. jobs[c] = <<>> /\ work[c] = "none"
    BY <1>1 DEF Refuse, SettledInv
  <2>2. ~At(jobs[c], "resume")
    BY <2>1 DEF At
  <2>3. /\ answer'[c] = "capacity_exceeded"
        /\ UNCHANGED <<work, result, abortReason, listening, timer, jobs, race>>
    BY <1>1 DEF Refuse, TypeInv
  <2>4. QED
    BY <2>1, <2>2, <2>3 DEF QueueInv, SettledInv
<1>2. CASE Admit(c)
  <2>1. /\ work[c] = "none" /\ work'[c] = "starting" /\ answer[c] = "none"
        /\ race[c] = "none"
        /\ UNCHANGED <<result, race, answer>>
    BY <1>2 DEF Admit, TypeInv, SettledInv
  <2>2. QueueInv(c)'
    <3>1. CASE external[c]
      <4>1. RejectAbort(c, "cancelled")
        BY <1>2, <3>1 DEF Admit
      <4>2. QED
        BY <2>1, <4>1, Aborts
    <3>2. CASE ~external[c]
      <4>1. UNCHANGED <<abortReason, jobs>>
        BY <1>2, <3>2 DEF Admit
      <4>2. ~At(jobs[c], "release")
        BY <2>1 DEF QueueInv
      <4>3. QED
        BY <2>1, <4>1, <4>2 DEF QueueInv
    <3>3. QED
      BY <3>1, <3>2
  <2>3. QED
    BY <2>1, <2>2 DEF SettledInv
<1>3. CASE ExternalAbort(c)
  <2>1. CASE listening[c]
    <3>1. /\ QueueInv(c)'
          /\ listening'[c] = FALSE
          /\ UNCHANGED <<work, result, timer, race, answer>>
      BY <1>3, <2>1, Aborts DEF ExternalAbort, TypeInv
    <3>2. QED
      BY <2>1, <3>1 DEF SettledInv
  <2>2. CASE ~listening[c]
    BY <1>3, <2>2 DEF ExternalAbort, QueueInv, SettledInv
  <2>3. QED
    BY <2>1, <2>2
<1>4. CASE Expire(c)
  BY <1>4 DEF Expire, QueueInv, SettledInv
<1>5. CASE TimerFires(c)
  <2>1. /\ QueueInv(c)'
        /\ timer[c] = "armed" /\ timer'[c] = "fired"
        /\ UNCHANGED <<work, result, listening, race, answer>>
    BY <1>5, Aborts DEF TimerFires, TypeInv
  <2>2. QED
    BY <2>1 DEF SettledInv
<1>6. QED
  BY <1>1, <1>2, <1>3, <1>4, <1>5 DEF Run

\* Whether a call holds its slot after a step: admission takes one, the release
\* reaction gives it back, nothing else moves a call in or out of Held.
LEMMA HeldStep ==
  ASSUME TypeInv, NEW c \in Calls, Step(c), QueueInv(c)
  PROVE  /\ Admit(c) => c \notin Held /\ Held' = Held \cup {c}
         /\ Release(c) => c \in Held /\ Held' = Held \ {c}
         /\ ~Admit(c) /\ ~Release(c) => Held' = Held /\ active' = active
<1>1. ASSUME Admit(c)
      PROVE  c \notin Held /\ Held' = Held \cup {c}
  <2>1. /\ work[c] = "none"
        /\ work' = [work EXCEPT ![c] = "starting"]
    BY <1>1 DEF Admit
  <2>2. QED
    BY <1>1, <2>1 DEF Held, TypeInv
<1>2. ASSUME Release(c)
      PROVE  c \in Held /\ Held' = Held \ {c}
  <2>1. /\ work' = [work EXCEPT ![c] = "released"]
        /\ jobs[c] # <<>> /\ Head(jobs[c]) = "release"
    BY <1>2 DEF Release
  <2>2. work[c] = "settled"
    <3>1. jobs[c] \in Seq(Job) /\ "release" \in Job
      BY DEF TypeInv, Job
    <3>2. At(jobs[c], "release")
      BY <2>1, <3>1, TailFacts
    <3>3. QED
      BY <3>2 DEF QueueInv
  <2>3. QED
    BY <1>2, <2>1, <2>2 DEF Held, TypeInv
<1>3. ASSUME ~Admit(c), ~Release(c)
      PROVE  Held' = Held /\ active' = active
  <2>1. ASSUME NEW w \in {"running", "finishing", "settled"},
               work[c] \in {"starting", "running", "finishing"},
               work' = [work EXCEPT ![c] = w]
        PROVE  Held' = Held
    BY <2>1 DEF Held, TypeInv
  <2>2. CASE StartWork(c) \/ FinishWork(c)
    BY <2>1, <2>2 DEF StartWork, FinishWork, CheckSignal, SettleRunning
  <2>3. CASE Callback(c)
    BY <2>1, <2>3 DEF Callback, WorkResolves, WorkThrows, WorkStops, CheckSignal,
                      SettleRunning
  <2>4. CASE Refuse(c) \/ RaceRun(c) \/ RaceAbort(c) \/ Resume(c)
    BY <2>4 DEF Held, Refuse, RaceRun, RaceAbort, SettleRace, Resume
  <2>5. CASE ExternalAbort(c) \/ Expire(c) \/ TimerFires(c)
    BY <2>5 DEF Held, ExternalAbort, Expire, TimerFires
  <2>6. QED
    BY <1>3, <2>2, <2>3, <2>4, <2>5 DEF Step, Run, Microtask
<1>4. QED
  BY <1>1, <1>2, <1>3

\* The slot accounting survives every step.
LEMMA SlotStep ==
  ASSUME TypeInv, SlotInv, NEW c \in Calls, Step(c), QueueInv(c)
  PROVE  SlotInv'
<1>1. CASE Admit(c)
  <2>1. c \notin Held /\ Held' = Held \cup {c}
    BY <1>1, HeldStep
  <2>2. active' = active + 1 /\ active < Concurrency
    BY <1>1 DEF Admit
  <2>3. IsFiniteSet(Held') /\ Cardinality(Held') = Cardinality(Held) + 1
    BY <2>1, FS_AddElement DEF SlotInv
  <2>4. Cardinality(Held) \in Nat
    BY FS_CardinalityType DEF SlotInv
  <2>5. QED
    BY <2>2, <2>3, <2>4, ConcurrencyAssumption DEF SlotInv
<1>2. CASE Release(c)
  <2>1. c \in Held /\ Held' = Held \ {c}
    BY <1>2, HeldStep
  <2>2. active' = active - 1
    BY <1>2 DEF Release
  <2>3. IsFiniteSet(Held') /\ Cardinality(Held') = Cardinality(Held) - 1
    BY <2>1, FS_RemoveElement DEF SlotInv
  <2>4. Cardinality(Held) \in Nat
    BY FS_CardinalityType DEF SlotInv
  <2>5. QED
    BY <2>2, <2>3, <2>4, ConcurrencyAssumption DEF SlotInv
<1>3. CASE ~Admit(c) /\ ~Release(c)
  <2>1. Held' = Held /\ active' = active
    BY <1>3, HeldStep
  <2>2. QED
    BY <2>1 DEF SlotInv
<1>4. QED
  BY <1>1, <1>2, <1>3

\* IInv is inductive.
LEMMA Inductive == Spec => []IInv
<1>1. Init => IInv
  <2> SUFFICES ASSUME Init
               PROVE  IInv
    OBVIOUS
  <2>1. TypeInv
    <3>1. <<>> \in Seq(Job)
      OBVIOUS
    <3>2. QED
      BY <3>1 DEF Init, TypeInv, WorkStates
  <2>2. SlotInv
    <3>1. Held = {}
      BY DEF Held, Init
    <3>2. QED
      BY <3>1, FS_EmptySet, ConcurrencyAssumption DEF SlotInv, Init
  <2>3. ASSUME NEW c \in Calls
        PROVE  QueueInv(c) /\ SettledInv(c)
    BY DEF Init, QueueInv, SettledInv, At, Once, Guarded
  <2>4. QED
    BY <2>1, <2>2, <2>3 DEF IInv
<1>2. IInv /\ [Next]_vars => IInv'
  <2> SUFFICES ASSUME IInv, [Next]_vars
               PROVE  IInv'
    OBVIOUS
  <2>1. CASE Next
    <3>1. PICK c \in Calls : Step(c)
      BY <2>1 DEF Next, Step
    <3>2. TypeInv' /\ SlotInv'
      BY <3>1, TypeStep, SlotStep DEF IInv
    <3>3. ASSUME NEW d \in Calls
          PROVE  QueueInv(d)' /\ SettledInv(d)'
      <4>1. CASE d = c
        BY <3>1, <4>1, CallbackSteps, QueueSteps, EventSteps DEF IInv, Step, Microtask
      <4>2. CASE d # c
        BY <3>1, <4>2, Locality, Keeps DEF IInv
      <4>3. QED
        BY <4>1, <4>2
    <3>4. QED
      BY <3>2, <3>3 DEF IInv
  <2>2. CASE UNCHANGED vars
    BY <2>2 DEF vars, IInv, TypeInv, SlotInv, Held, QueueInv, SettledInv
  <2>3. QED
    BY <2>1, <2>2
<1>3. QED
  BY <1>1, <1>2, PTL DEF Spec

-----------------------------------------------------------------------------
(* Why a caller is answered what it is answered. *)

\* What a call settles with says what has happened to it.
Caused(v, c) ==
  /\ v = "cancelled" => external[c]
  /\ v = "deadline_exceeded" => expired[c]

ReasonInv(c) ==
  /\ aborted[c] => external[c] \/ expired[c]
  /\ Caused(abortReason[c], c)
  /\ Caused(result[c], c)
  /\ Caused(race[c], c)
  /\ Caused(answer[c], c)

\* A call that is not answered has the microtask queued that leads to its answer,
\* and once the timer has fired that one is the rejection with the deadline.
LeadInv(c) ==
  /\ answer[c] # "none" /\ work[c] # "none" => answer[c] = race[c]
  /\ race[c] # "none" /\ answer[c] = "none" => At(jobs[c], "resume")
  /\ abortReason[c] # "none" /\ race[c] = "none" => At(jobs[c], "raceAbort")
  /\ timer[c] = "fired" =>
       \/ race[c] = "deadline_exceeded"
       \/ /\ race[c] = "none"
          /\ abortReason[c] = "deadline_exceeded"
          /\ jobs[c] # <<>>
          /\ Head(jobs[c]) = "raceAbort"

\* Appending leaves the head of a queue alone.
LEMMA HeadFacts ==
  ASSUME NEW q \in Seq(Job), NEW x \in Job
  PROVE  /\ Append(q, x) # <<>>
         /\ q # <<>> => Head(Append(q, x)) = Head(q)
         /\ q = <<>> => Head(Append(q, x)) = x
  OBVIOUS

\* No step makes up a reason.
LEMMA ReasonSteps ==
  ASSUME TypeInv, NEW c \in Calls, Step(c), ReasonInv(c)
  PROVE  ReasonInv(c)'
<1> USE DEF TypeInv, Caused
<1>1. CASE Refuse(c)
  BY <1>1 DEF Refuse, ReasonInv
<1>2. CASE Admit(c)
  BY <1>2 DEF Admit, RejectAbort, ReasonInv
<1>3. CASE StartWork(c)
  BY <1>3 DEF StartWork, CheckSignal, SettleRunning, ReasonInv
<1>4. CASE FinishWork(c)
  BY <1>4 DEF FinishWork, CheckSignal, SettleRunning, ReasonInv
<1>5. CASE WorkResolves(c)
  BY <1>5 DEF WorkResolves, ReasonInv
<1>6. CASE WorkThrows(c)
  BY <1>6 DEF WorkThrows, SettleRunning, ReasonInv
<1>7. CASE WorkStops(c)
  BY <1>7 DEF WorkStops, CheckSignal, SettleRunning, ReasonInv
<1>8. CASE Release(c)
  BY <1>8 DEF Release, ReasonInv
<1>9. CASE RaceRun(c) \/ RaceAbort(c)
  BY <1>9 DEF RaceRun, RaceAbort, SettleRace, ReasonInv
<1>10. CASE Resume(c)
  BY <1>10 DEF Resume, ReasonInv
<1>11. CASE ExternalAbort(c)
  BY <1>11 DEF ExternalAbort, RejectAbort, ReasonInv
<1>12. CASE Expire(c)
  BY <1>12 DEF Expire, ReasonInv
<1>13. CASE TimerFires(c)
  BY <1>13 DEF TimerFires, RejectAbort, ReasonInv
<1>14. QED
  BY <1>1, <1>2, <1>3, <1>4, <1>5, <1>6, <1>7, <1>8, <1>9, <1>10, <1>11, <1>12, <1>13
     DEF Step, Run, Microtask, Callback

\* What is queued stays queued when more is appended, and the head stays the head.
LEMMA LeadAppends ==
  ASSUME TypeInv, NEW c \in Calls, LeadInv(c),
         UNCHANGED <<abortReason, race, answer, timer>>, work[c] # "none",
         \/ jobs'[c] = jobs[c]
         \/ jobs'[c] = Append(Append(jobs[c], "release"), "raceRun")
  PROVE  LeadInv(c)'
<1>1. CASE jobs'[c] = jobs[c]
  BY <1>1 DEF LeadInv
<1>2. CASE jobs'[c] = Append(Append(jobs[c], "release"), "raceRun")
  <2> DEFINE q == jobs[c]
             p == Append(q, "release")
  <2>1. /\ q \in Seq(Job) /\ p \in Seq(Job)
        /\ "release" \in Job /\ "raceRun" \in Job /\ "raceAbort" \in Job /\ "resume" \in Job
    <3>1. q \in Seq(Job)
      BY DEF TypeInv
    <3>2. QED
      BY <3>1, AppendPositions DEF Job
  <2>2. \A j \in Job : At(q, j) => At(jobs'[c], j)
    <3>1. \A j \in Job : At(q, j) => At(p, j)
      BY <2>1, AppendFacts
    <3>2. \A j \in Job : At(p, j) => At(Append(p, "raceRun"), j)
      BY <2>1, AppendFacts
    <3>3. QED
      BY <1>2, <3>1, <3>2
  <2>3. q # <<>> => jobs'[c] # <<>> /\ Head(jobs'[c]) = Head(q)
    BY <1>2, <2>1, HeadFacts
  <2> HIDE DEF q, p
  <2>4. QED
    BY <2>1, <2>2, <2>3 DEF LeadInv, q
<1>3. QED
  BY <1>1, <1>2

\* A rejection of the abort promise queues its reaction behind what is there.
LEMMA LeadAborts ==
  ASSUME TypeInv, NEW c \in Calls, LeadInv(c),
         NEW r \in {"cancelled", "deadline_exceeded"}, RejectAbort(c, r),
         race'[c] = race[c], answer'[c] = answer[c],
         timer[c] = "fired" => timer'[c] = "fired",
         timer'[c] = "fired" => \/ timer[c] = "fired"
                                \/ /\ abortReason[c] = "none" /\ r = "deadline_exceeded"
                                   /\ jobs[c] = <<>> /\ race[c] = "none",
         answer[c] # "none" => work[c] # "none" /\ work'[c] = work[c]
  PROVE  LeadInv(c)'
<1> DEFINE q == jobs[c]
<1>1. q \in Seq(Job) /\ "raceAbort" \in Job /\ "resume" \in Job
  BY DEF TypeInv, Job
<1>2. CASE abortReason[c] # "none"
  BY <1>2 DEF RejectAbort, LeadInv
<1>3. CASE abortReason[c] = "none"
  <2>1. jobs'[c] = Append(q, "raceAbort") /\ abortReason'[c] = r
    BY <1>3 DEF RejectAbort, TypeInv
  <2>2. /\ \A j \in Job : At(q, j) => At(jobs'[c], j)
        /\ At(jobs'[c], "raceAbort")
    BY <1>1, <2>1, AppendFacts
  <2>3. /\ jobs'[c] # <<>>
        /\ q # <<>> => Head(jobs'[c]) = Head(q)
        /\ q = <<>> => Head(jobs'[c]) = "raceAbort"
    BY <1>1, <2>1, HeadFacts
  <2> HIDE DEF q
  <2>4. QED
    BY <1>1, <1>3, <2>1, <2>2, <2>3 DEF LeadInv, q
<1>4. QED
  BY <1>2, <1>3

\* Running the microtask at the head: whatever it was to lead to has happened.
LEMMA LeadTails ==
  ASSUME TypeInv, NEW c \in Calls, LeadInv(c), QueueInv(c), SettledInv(c),
         Release(c) \/ RaceRun(c) \/ RaceAbort(c) \/ Resume(c)
  PROVE  LeadInv(c)'
<1> DEFINE q == jobs[c]
           t == Tail(q)
<1>1. /\ q \in Seq(Job) /\ q # <<>> /\ t \in Seq(Job)
      /\ "release" \in Job /\ "raceRun" \in Job /\ "raceAbort" \in Job /\ "resume" \in Job
  <2>1. q \in Seq(Job) /\ q # <<>>
    BY DEF TypeInv, Release, RaceRun, RaceAbort, SettleRace, Resume
  <2>2. QED
    BY <2>1, TailPositions DEF Job
<1>2. \A j \in Job : At(q, j) <=> Head(q) = j \/ At(t, j)
  BY <1>1, TailFacts
<1>3. work[c] # "none"
  BY <1>1 DEF SettledInv
<1> HIDE DEF q, t
<1>4. CASE Release(c)
  <2>1. /\ Head(q) = "release" /\ jobs'[c] = t /\ work'[c] = "released"
        /\ UNCHANGED <<abortReason, timer, race, answer>>
    BY <1>4 DEF Release, TypeInv, q, t
  <2>2. QED
    BY <1>1, <1>2, <1>3, <2>1 DEF LeadInv, q
<1>5. ASSUME NEW j \in {"raceRun", "raceAbort"}, NEW o, SettleRace(c, j, o),
             o # "none", j = "raceAbort" => o = abortReason[c]
      PROVE  LeadInv(c)'
  <2>1. Head(q) = j /\ UNCHANGED <<work, abortReason, timer, answer>>
    BY <1>5 DEF SettleRace, q
  <2>2. CASE race[c] = "none"
    <3>1. jobs'[c] = Append(t, "resume") /\ race'[c] = o
      BY <1>5, <2>2 DEF SettleRace, TypeInv, q, t
    <3>2. At(jobs'[c], "resume")
      BY <1>1, <3>1, AppendFacts
    <3>3. answer[c] = "none"
      BY <1>3, <2>2 DEF SettledInv
    <3>4. timer[c] = "fired" => o = "deadline_exceeded"
      BY <1>5, <2>1, <2>2 DEF LeadInv, q
    <3>5. QED
      BY <1>5, <2>1, <3>1, <3>2, <3>3, <3>4 DEF LeadInv
  <2>3. CASE race[c] # "none"
    <3>1. jobs'[c] = t /\ race'[c] = race[c]
      BY <1>5, <2>3 DEF SettleRace, TypeInv, q, t
    <3>2. QED
      BY <1>1, <1>2, <2>1, <2>3, <3>1 DEF LeadInv, q
  <2>4. QED
    BY <2>2, <2>3
<1>6. CASE RaceRun(c)
  <2>1. result[c] # "none"
    BY <1>1, <1>2, <1>6 DEF RaceRun, SettleRace, QueueInv, q
  <2>2. QED
    BY <1>5, <1>6, <2>1 DEF RaceRun
<1>7. CASE RaceAbort(c)
  <2>1. abortReason[c] # "none"
    BY <1>1, <1>2, <1>7 DEF RaceAbort, SettleRace, QueueInv, q
  <2>2. QED
    BY <1>5, <1>7, <2>1 DEF RaceAbort
<1>8. CASE Resume(c)
  <2>1. /\ Head(q) = "resume" /\ jobs'[c] = t /\ answer'[c] = race[c]
        /\ timer'[c] = "fired" => timer[c] = "fired"
        /\ UNCHANGED <<work, abortReason, race>>
    BY <1>8 DEF Resume, TypeInv, q, t
  <2>2. race[c] # "none"
    BY <1>1, <1>2, <2>1 DEF QueueInv, q
  <2>3. QED
    BY <1>1, <1>2, <2>1, <2>2 DEF LeadInv, q
<1>9. QED
  BY <1>4, <1>6, <1>7, <1>8

\* The acting call, whatever it does.
LEMMA LeadSteps ==
  ASSUME TypeInv, NEW c \in Calls, Step(c), LeadInv(c), QueueInv(c), SettledInv(c)
  PROVE  LeadInv(c)'
<1>1. CASE Refuse(c)
  <2>1. work[c] = "none" /\ work'[c] = "none" /\ answer'[c] # "none"
    BY <1>1 DEF Refuse, TypeInv
  <2>2. race[c] = "none" /\ timer[c] = "off"
    BY <2>1 DEF SettledInv
  <2>3. QED
    BY <1>1, <2>1, <2>2 DEF Refuse, LeadInv
<1>2. CASE Admit(c)
  <2>1. /\ work[c] = "none" /\ answer[c] = "none" /\ race[c] = "none" /\ timer[c] = "off"
        /\ timer'[c] = "armed" /\ UNCHANGED <<race, answer>>
    BY <1>2 DEF Admit, TypeInv, SettledInv
  <2>2. CASE external[c]
    BY <1>2, <2>1, <2>2, LeadAborts DEF Admit
  <2>3. CASE ~external[c]
    BY <1>2, <2>1, <2>3 DEF Admit, LeadInv
  <2>4. QED
    BY <2>2, <2>3
<1>3. CASE StartWork(c) \/ FinishWork(c) \/ Callback(c)
  <2>1. UNCHANGED <<abortReason, race, answer, timer>> /\ work[c] # "none"
    BY <1>3 DEF StartWork, FinishWork, Callback, WorkResolves, WorkThrows, WorkStops
  <2>2. \/ jobs'[c] = jobs[c]
        \/ jobs'[c] = Append(Append(jobs[c], "release"), "raceRun")
    BY <1>3 DEF StartWork, FinishWork, Callback, WorkResolves, WorkThrows, WorkStops,
                CheckSignal, SettleRunning, TypeInv
  <2>3. QED
    BY <2>1, <2>2, LeadAppends
<1>4. CASE Release(c) \/ RaceRun(c) \/ RaceAbort(c) \/ Resume(c)
  BY <1>4, LeadTails
<1>5. CASE ExternalAbort(c)
  <2>1. CASE listening[c]
    <3>1. answer[c] = "none"
      BY <2>1 DEF SettledInv
    <3>2. RejectAbort(c, "cancelled") /\ UNCHANGED <<work, race, answer, timer>>
      BY <1>5, <2>1 DEF ExternalAbort
    <3>3. QED
      BY <3>1, <3>2, LeadAborts
  <2>2. CASE ~listening[c]
    BY <1>5, <2>2 DEF ExternalAbort, LeadInv
  <2>3. QED
    BY <2>1, <2>2
<1>6. CASE Expire(c)
  BY <1>6 DEF Expire, LeadInv
<1>7. CASE TimerFires(c)
  <2>1. /\ jobs[c] = <<>> /\ timer[c] = "armed" /\ timer'[c] = "fired"
        /\ RejectAbort(c, "deadline_exceeded") /\ UNCHANGED <<work, race, answer>>
    BY <1>7 DEF TimerFires, Quiescent, TypeInv
  <2>2. answer[c] = "none"
    BY <2>1 DEF SettledInv
  <2>3. race[c] = "none" /\ abortReason[c] = "none"
    <3>1. \A j \in Job : ~At(jobs[c], j)
      BY <2>1 DEF At
    <3>2. QED
      BY <2>2, <3>1 DEF LeadInv, Job
  <2>4. QED
    BY <2>1, <2>2, <2>3, LeadAborts
<1>8. QED
  BY <1>1, <1>2, <1>3, <1>4, <1>5, <1>6, <1>7 DEF Step, Run, Microtask

\* Both are kept, by the acting call and by the others.
LEMMA CausesInductive == Spec => [](\A c \in Calls : ReasonInv(c) /\ LeadInv(c))
<1> DEFINE Known == \A c \in Calls : ReasonInv(c) /\ LeadInv(c)
<1>1. Init => Known
  BY DEF Init, ReasonInv, Caused, LeadInv
<1>2. IInv /\ Known /\ [Next]_vars => Known'
  <2> SUFFICES ASSUME IInv, Known, [Next]_vars, NEW d \in Calls
               PROVE  (ReasonInv(d) /\ LeadInv(d))'
    OBVIOUS
  <2>1. CASE UNCHANGED vars
    BY <2>1 DEF vars, ReasonInv, Caused, LeadInv
  <2>2. CASE Next
    <3>1. PICK c \in Calls : Step(c)
      BY <2>2 DEF Next, Step
    <3>2. CASE d = c
      BY <3>1, <3>2, ReasonSteps, LeadSteps DEF IInv
    <3>3. CASE d # c
      <4>1. Untouched(d)
        BY <3>1, <3>3, Locality DEF IInv
      <4>2. QED
        BY <4>1 DEF Untouched, ReasonInv, Caused, LeadInv
    <3>4. QED
      BY <3>2, <3>3
  <2>3. QED
    BY <2>1, <2>2
<1>3. QED
  BY <1>1, <1>2, Inductive, PTL DEF Spec

-----------------------------------------------------------------------------
(* Theorems. *)

\* Every reachable state of run() is well typed; in particular the counter of
\* used slots never becomes negative.
THEOREM TypeCorrect == Spec => []TypeOK
<1>1. IInv => TypeOK
  BY FS_CardinalityType DEF IInv, TypeInv, SlotInv, TypeOK
<1>2. QED
  BY <1>1, Inductive, PTL

\* The counter is the number of unsettled callbacks, and never above the limit.
THEOREM Accounting == Spec => [](SlotAccounting /\ active <= Concurrency)
<1>1. IInv => SlotAccounting /\ active <= Concurrency
  BY DEF IInv, SlotInv, SlotAccounting
<1>2. QED
  BY <1>1, Inductive, PTL

\* An answered call has neither a timer nor a listener left.
THEOREM Leakfree == Spec => []NothingLeaks
<1>1. IInv => NothingLeaks
  BY DEF IInv, SettledInv, NothingLeaks
<1>2. QED
  BY <1>1, Inductive, PTL

\* "cancelled" and "deadline_exceeded" are true when run() rejects with them, and the
\* deadline timer, once it has fired, decides the answer.
THEOREM Causes == Spec => []AnswerHasCause
<1>1. IInv /\ (\A c \in Calls : ReasonInv(c) /\ LeadInv(c)) => AnswerHasCause
  <2> SUFFICES ASSUME IInv, NEW c \in Calls, ReasonInv(c), LeadInv(c)
               PROVE  /\ Caused(answer[c], c)
                      /\ timer[c] = "fired" => answer[c] \in {"none", "deadline_exceeded"}
    BY DEF AnswerHasCause, Caused
  <2>1. timer[c] = "fired" => work[c] # "none"
    BY DEF IInv, SettledInv
  <2>2. QED
    BY <2>1 DEF ReasonInv, LeadInv
<1>2. QED
  BY <1>1, Inductive, CausesInductive, PTL

\* A callback that outlives its deadline or its abort never makes run() succeed.
THEOREM LateValues == Spec => LateValueSuppressed
<1> DEFINE Suppressed(c) == result[c] = "none" /\ (aborted[c] \/ expired[c]) =>
                              result'[c] # "value"
<1>1. ASSUME TypeInv, [Next]_vars, NEW d \in Calls
      PROVE  Suppressed(d)
  <2>1. CASE UNCHANGED vars
    BY <2>1 DEF vars
  <2>2. CASE Next
    <3>1. PICK c \in Calls : Step(c)
      BY <2>2 DEF Next, Step
    <3>2. CASE d # c
      BY <1>1, <3>1, <3>2, Locality DEF Untouched
    <3>3. CASE d = c
      <4>1. CASE Run(c) \/ ExternalAbort(c) \/ Expire(c) \/ TimerFires(c)
        BY <3>3, <4>1 DEF Run, Refuse, Admit, ExternalAbort, Expire, TimerFires
      <4>2. CASE Release(c) \/ RaceRun(c) \/ RaceAbort(c) \/ Resume(c)
        BY <3>3, <4>2 DEF Release, RaceRun, RaceAbort, SettleRace, Resume
      <4>3. CASE StartWork(c) \/ FinishWork(c)
        BY <1>1, <3>3, <4>3 DEF StartWork, FinishWork, CheckSignal, SettleRunning, TypeInv
      <4>4. CASE Callback(c)
        BY <1>1, <3>3, <4>4 DEF Callback, WorkResolves, WorkThrows, WorkStops, CheckSignal,
                                SettleRunning, TypeInv
      <4>5. QED
        BY <3>1, <4>1, <4>2, <4>3, <4>4 DEF Step, Microtask
    <3>4. QED
      BY <3>2, <3>3
  <2>3. QED
    BY <1>1, <2>1, <2>2
<1>2. TypeInv /\ [Next]_vars => [\A c \in Calls : Suppressed(c)]_vars
  BY <1>1
<1>3. IInv => TypeInv
  BY DEF IInv
<1>4. QED
  BY <1>2, <1>3, Inductive, PTL DEF Spec, LateValueSuppressed

\* run() implements SlotGate: slots are taken within the limit, callers answered
\* once, and the slot is given back by the callback alone.
THEOREM Refinement == Spec => ImplementsSlotGate
<1> DEFINE taken == {c \in Calls : work[c] # "none"}
<1>0. \A S : SlotPromise!Cardinality(S) = Cardinality(S)
  BY DEF SlotPromise!Cardinality, Cardinality
<1>1. Init => SlotPromise!Init
  BY DEF Init, SlotPromise!Init, Held
<1>2. ASSUME IInv, [Next]_vars
      PROVE  [SlotPromise!Next]_(SlotPromise!slotVars)
  <2> USE DEF IInv
  <2>1. CASE UNCHANGED vars
    BY <2>1 DEF vars, SlotPromise!slotVars, Held
  <2>2. ASSUME NEW c \in Calls, Step(c)
        PROVE  SlotPromise!Next \/ UNCHANGED SlotPromise!slotVars
    <3>1. CASE Refuse(c)
      <4>1. /\ Cardinality(Held) >= Concurrency
            /\ taken' = taken /\ Held' = Held
        BY <1>2, <3>1 DEF Refuse, SlotInv, Held
      <4>2. SlotPromise!Refuse(c)
        <5>1. /\ c \notin taken
              /\ answer[c] = "none"
              /\ answer' = [answer EXCEPT ![c] = "capacity_exceeded"]
          BY <3>1 DEF Refuse
        <5>2. QED
          BY <1>0, <4>1, <5>1, Zenon DEF SlotPromise!Refuse
      <4>3. QED
        BY <4>2 DEF SlotPromise!Next
    <3>2. CASE Admit(c)
      <4>1. /\ Cardinality(Held) < Concurrency
            /\ Held' = Held \cup {c}
            /\ UNCHANGED answer
        BY <1>2, <2>2, <3>2, HeldStep DEF Admit, SlotInv
      <4>2. c \notin taken /\ taken' = taken \cup {c}
        BY <1>2, <3>2 DEF Admit, TypeInv
      <4>3. SlotPromise!Take(c)
        <5>1. answer[c] = "none"
          BY <3>2 DEF Admit
        <5>2. QED
          BY <1>0, <4>1, <4>2, <5>1, Zenon DEF SlotPromise!Take
      <4>4. QED
        BY <4>3 DEF SlotPromise!Next
    <3>3. CASE Release(c)
      <4>1. c \in Held /\ Held' = Held \ {c} /\ UNCHANGED answer
        BY <1>2, <2>2, <3>3, HeldStep DEF Release
      <4>2. taken' = taken
        BY <1>2, <3>3, <4>1 DEF Release, TypeInv, Held
      <4>3. SlotPromise!Free(c)
        BY <4>1, <4>2 DEF SlotPromise!Free
      <4>4. QED
        BY <4>3 DEF SlotPromise!Next
    <3>4. CASE Resume(c)
      <4>1. taken' = taken /\ Held' = Held
        BY <3>4 DEF Resume, Held
      <4>2. answer[c] = "none" /\ race[c] # "none" /\ jobs[c] # <<>>
        <5>1. jobs[c] \in Seq(Job) /\ jobs[c] # <<>> /\ Head(jobs[c]) = "resume" /\ "resume" \in Job
          BY <1>2, <3>4 DEF TypeInv, Job, Resume
        <5>2. At(jobs[c], "resume")
          BY <5>1, TailFacts
        <5>3. QED
          BY <1>2, <5>1, <5>2 DEF QueueInv
      <4>3. /\ c \in taken
            /\ race[c] \in {"value", "failed"} => c \notin Held
            /\ race[c] \in SlotPromise!Outcome \ {"capacity_exceeded"}
        BY <1>2, <4>2 DEF SettledInv, TypeInv, Held, Outcome, SlotPromise!Outcome
      <4>4. answer' = [answer EXCEPT ![c] = race[c]]
        BY <3>4 DEF Resume
      <4>5. SlotPromise!Reply(c)
        BY <4>1, <4>2, <4>3, <4>4 DEF SlotPromise!Reply
      <4>6. QED
        BY <4>5 DEF SlotPromise!Next
    <3>5. CASE ~Refuse(c) /\ ~Admit(c) /\ ~Release(c) /\ ~Resume(c)
      <4>1. Held' = Held
        BY <1>2, <2>2, <3>5, HeldStep
      <4>2. taken' = taken /\ answer' = answer
        <5>1. CASE StartWork(c) \/ FinishWork(c)
          BY <1>2, <5>1 DEF StartWork, FinishWork, CheckSignal, SettleRunning, TypeInv
        <5>2. CASE Callback(c)
          BY <1>2, <5>2 DEF Callback, WorkResolves, WorkThrows, WorkStops, CheckSignal,
                            SettleRunning, TypeInv
        <5>3. CASE RaceRun(c) \/ RaceAbort(c) \/ ExternalAbort(c) \/ Expire(c) \/ TimerFires(c)
          BY <5>3 DEF RaceRun, RaceAbort, SettleRace, ExternalAbort, Expire, TimerFires
        <5>4. QED
          BY <2>2, <3>5, <5>1, <5>2, <5>3 DEF Step, Run, Microtask
      <4>3. QED
        BY <4>1, <4>2 DEF SlotPromise!slotVars
    <3>6. QED
      BY <3>1, <3>2, <3>3, <3>4, <3>5
  <2>3. QED
    BY <1>2, <2>1, <2>2 DEF Next, Step
<1>3. QED
  BY <1>1, <1>2, Inductive, PTL DEF Spec, ImplementsSlotGate, SlotPromise!Spec
=============================================================================
