---------------------------- MODULE ExecutionGate ----------------------------
(***************************************************************************)
(* ExecutionGate.run and checkSignal (packages/mcp/src/limits.ts).         *)
(*                                                                         *)
(* One call of run() is one element of Calls.  Its callback is trusted     *)
(* JavaScript: it may resolve, throw, look at the clock on its way, or     *)
(* never settle.  run() races the callback's promise against one that an   *)
(* external abort or the deadline timer rejects.  The reactions the code   *)
(* attaches to a promise run in the order they were attached, so each call *)
(* has a FIFO of microtasks; between calls any order is possible.  Timers  *)
(* are macrotasks: they fire when no microtask of the gate is left.        *)
(***************************************************************************)
EXTENDS Naturals, Sequences, FiniteSets

CONSTANTS Calls,        \* calls of run(), each with a fresh AbortController
          Concurrency   \* limits.concurrency

ASSUME ConcurrencyAssumption == Concurrency \in Nat \ {0}

Outcome == {"value", "failed", "cancelled", "deadline_exceeded", "capacity_exceeded"}

VARIABLES
  active,      \* this.active
  work,        \* where the `running` promise chain of a call stands
  result,      \* what `running` settled with
  abortReason, \* what the `abort` promise was rejected with
  aborted,     \* controller.signal.aborted
  external,    \* external.aborted
  listening,   \* the 'abort' listener is attached to the external signal
  timer,       \* the deadline timer
  expired,     \* performance.now() >= deadline.end
  jobs,        \* microtasks queued for the call
  race,        \* what Promise.race settled with
  answer       \* what the promise returned by run() settled with

vars == <<active, work, result, abortReason, aborted, external, listening,
          timer, expired, jobs, race, answer>>

\* "starting" and "finishing" are the two .then callbacks that look at the signal.
WorkStates == {"none", "starting", "running", "finishing", "settled", "released"}
Job == {"release", "raceRun", "raceAbort", "resume"}

TypeOK ==
  /\ active \in Nat
  /\ work \in [Calls -> WorkStates]
  /\ result \in [Calls -> Outcome \cup {"none"}]
  /\ abortReason \in [Calls -> {"none", "cancelled", "deadline_exceeded"}]
  /\ aborted \in [Calls -> BOOLEAN]
  /\ external \in [Calls -> BOOLEAN]
  /\ listening \in [Calls -> BOOLEAN]
  /\ timer \in [Calls -> {"off", "armed", "fired"}]
  /\ expired \in [Calls -> BOOLEAN]
  /\ jobs \in [Calls -> Seq(Job)]
  /\ race \in [Calls -> Outcome \cup {"none"}]
  /\ answer \in [Calls -> Outcome \cup {"none"}]

\* Calls that occupy a slot: admitted, and the release reaction has not run.
Held == {c \in Calls : work[c] \in {"starting", "running", "finishing", "settled"}}

\* No microtask of the gate is waiting; only then does the event loop turn.
Quiescent ==
  \A c \in Calls : jobs[c] = <<>> /\ work[c] \notin {"starting", "finishing"}

Init ==
  /\ active = 0
  /\ work = [c \in Calls |-> "none"]
  /\ result = [c \in Calls |-> "none"]
  /\ abortReason = [c \in Calls |-> "none"]
  /\ aborted = [c \in Calls |-> FALSE]
  /\ external \in [Calls -> BOOLEAN]
  /\ listening = [c \in Calls |-> FALSE]
  /\ timer = [c \in Calls |-> "off"]
  /\ expired = [c \in Calls |-> FALSE]
  /\ jobs = [c \in Calls |-> <<>>]
  /\ race = [c \in Calls |-> "none"]
  /\ answer = [c \in Calls |-> "none"]

-----------------------------------------------------------------------------
(* controller.abort() and rejectAbort(reason): a promise rejects only once. *)
RejectAbort(c, reason) ==
  /\ aborted' = [aborted EXCEPT ![c] = TRUE]
  /\ IF abortReason[c] = "none"
     THEN /\ abortReason' = [abortReason EXCEPT ![c] = reason]
          /\ jobs' = [jobs EXCEPT ![c] = Append(@, "raceAbort")]
     ELSE UNCHANGED <<abortReason, jobs>>

\* Mutant: the slot is given back only when `running` is fulfilled.
SettleRunningFulfilledOnly(c, outcome) ==
  /\ work' = [work EXCEPT ![c] = "settled"]
  /\ result' = [result EXCEPT ![c] = outcome]
  /\ jobs' = [jobs EXCEPT ![c] =
                IF outcome = "value" THEN Append(Append(@, "release"), "raceRun")
                                     ELSE Append(@, "raceRun")]

\* `running` settles: its reactions were attached in this order.
SettleRunning(c, outcome) ==
  /\ work' = [work EXCEPT ![c] = "settled"]
  /\ result' = [result EXCEPT ![c] = outcome]
  /\ jobs' = [jobs EXCEPT ![c] = Append(Append(@, "release"), "raceRun")]

\* checkSignal: the clock is looked at before the signal, and an elapsed
\* deadline aborts the controller even when the timer has not fired yet.
CheckSignal(c, passed) ==
  \/ /\ expired[c]
     /\ aborted' = [aborted EXCEPT ![c] = TRUE]
     /\ SettleRunning(c, "deadline_exceeded")
  \/ /\ ~expired[c]
     /\ aborted[c]
     /\ SettleRunning(c, "cancelled")
     /\ UNCHANGED aborted
  \/ /\ ~expired[c]
     /\ ~aborted[c]
     /\ passed
     /\ UNCHANGED aborted

-----------------------------------------------------------------------------
\* run() with the gate full: the returned promise rejects, nothing else happens.
Refuse(c) ==
  /\ work[c] = "none"
  /\ answer[c] = "none"
  /\ active >= Concurrency
  /\ answer' = [answer EXCEPT ![c] = "capacity_exceeded"]
  /\ UNCHANGED <<active, work, result, abortReason, aborted, external,
                 listening, timer, expired, jobs, race>>

\* Mutant: the capacity check is off by one.
AdmitOverLimit(c) ==
  /\ work[c] = "none"
  /\ answer[c] = "none"
  /\ active <= Concurrency
  /\ active' = active + 1
  /\ work' = [work EXCEPT ![c] = "starting"]
  /\ listening' = [listening EXCEPT ![c] = TRUE]
  /\ timer' = [timer EXCEPT ![c] = "armed"]
  /\ IF external[c]
     THEN RejectAbort(c, "cancelled")
     ELSE UNCHANGED <<abortReason, aborted, jobs>>
  /\ UNCHANGED <<result, external, expired, race, answer>>

\* Mutant: the deadline is only looked at by checkSignal, no timer is armed.
AdmitWithoutTimer(c) ==
  /\ work[c] = "none"
  /\ answer[c] = "none"
  /\ active < Concurrency
  /\ active' = active + 1
  /\ work' = [work EXCEPT ![c] = "starting"]
  /\ listening' = [listening EXCEPT ![c] = TRUE]
  /\ IF external[c]
     THEN RejectAbort(c, "cancelled")
     ELSE UNCHANGED <<abortReason, aborted, jobs>>
  /\ UNCHANGED <<result, external, timer, expired, race, answer>>

\* run() with a slot free, up to the await: listener, timer, first microtask.
\* A signal that is aborted already cancels at once; its listener never fires.
Admit(c) ==
  /\ work[c] = "none"
  /\ answer[c] = "none"
  /\ active < Concurrency
  /\ active' = active + 1
  /\ work' = [work EXCEPT ![c] = "starting"]
  /\ listening' = [listening EXCEPT ![c] = TRUE]
  /\ timer' = [timer EXCEPT ![c] = "armed"]
  /\ IF external[c]
     THEN RejectAbort(c, "cancelled")
     ELSE UNCHANGED <<abortReason, aborted, jobs>>
  /\ UNCHANGED <<result, external, expired, race, answer>>

Run(c) == Refuse(c) \/ Admit(c)

\* The first .then callback: work(signal) is called when the signal still stands.
StartWork(c) ==
  /\ work[c] = "starting"
  /\ CheckSignal(c, /\ work' = [work EXCEPT ![c] = "running"]
                    /\ UNCHANGED <<result, jobs>>)
  /\ UNCHANGED <<active, abortReason, external, listening, timer, expired, race, answer>>

\* The callback's promise resolves.
WorkResolves(c) ==
  /\ work[c] = "running"
  /\ work' = [work EXCEPT ![c] = "finishing"]
  /\ UNCHANGED <<active, result, abortReason, aborted, external, listening,
                 timer, expired, jobs, race, answer>>

\* The callback throws.
WorkThrows(c) ==
  /\ work[c] = "running"
  /\ SettleRunning(c, "failed")
  /\ UNCHANGED <<active, abortReason, aborted, external, listening, timer,
                 expired, race, answer>>

\* A checkSignal between two phases of the callback stops it.
WorkStops(c) ==
  /\ work[c] = "running"
  /\ CheckSignal(c, FALSE)
  /\ UNCHANGED <<active, abortReason, external, listening, timer, expired, race, answer>>

\* Mutant: the value is passed on without a second look at the signal.
FinishWorkUnchecked(c) ==
  /\ work[c] = "finishing"
  /\ SettleRunning(c, "value")
  /\ UNCHANGED <<active, abortReason, aborted, external, listening, timer,
                 expired, race, answer>>

\* The second .then callback: a value that comes too late is an error.
FinishWork(c) ==
  /\ work[c] = "finishing"
  /\ CheckSignal(c, SettleRunning(c, "value"))
  /\ UNCHANGED <<active, abortReason, external, listening, timer, expired, race, answer>>

-----------------------------------------------------------------------------
\* The reaction that gives the slot back.
Release(c) ==
  /\ jobs[c] # <<>>
  /\ Head(jobs[c]) = "release"
  /\ active' = active - 1
  /\ work' = [work EXCEPT ![c] = "released"]
  /\ jobs' = [jobs EXCEPT ![c] = Tail(@)]
  /\ UNCHANGED <<result, abortReason, aborted, external, listening, timer,
                 expired, race, answer>>

\* A reaction of Promise.race: the first one settles it, the second is void.
SettleRace(c, job, outcome) ==
  /\ jobs[c] # <<>>
  /\ Head(jobs[c]) = job
  /\ IF race[c] = "none"
     THEN /\ race' = [race EXCEPT ![c] = outcome]
          /\ jobs' = [jobs EXCEPT ![c] = Append(Tail(@), "resume")]
     ELSE /\ jobs' = [jobs EXCEPT ![c] = Tail(@)]
          /\ UNCHANGED race
  /\ UNCHANGED <<active, work, result, abortReason, aborted, external,
                 listening, timer, expired, answer>>

RaceRun(c) == SettleRace(c, "raceRun", result[c])
RaceAbort(c) == SettleRace(c, "raceAbort", abortReason[c])

\* Mutant: the finally block gives the slot back as well.
ResumeFreeingSlot(c) ==
  /\ jobs[c] # <<>>
  /\ Head(jobs[c]) = "resume"
  /\ active' = active - 1
  /\ jobs' = [jobs EXCEPT ![c] = Tail(@)]
  /\ timer' = [timer EXCEPT ![c] = IF @ = "armed" THEN "off" ELSE @]
  /\ listening' = [listening EXCEPT ![c] = FALSE]
  /\ answer' = [answer EXCEPT ![c] = race[c]]
  /\ UNCHANGED <<work, result, abortReason, aborted, external, expired, race>>

\* Mutant: no finally block.
ResumeWithoutCleanup(c) ==
  /\ jobs[c] # <<>>
  /\ Head(jobs[c]) = "resume"
  /\ jobs' = [jobs EXCEPT ![c] = Tail(@)]
  /\ answer' = [answer EXCEPT ![c] = race[c]]
  /\ UNCHANGED <<active, work, result, abortReason, aborted, external, listening,
                 timer, expired, race>>

\* run() resumes after the await: its finally block, then its promise settles.
Resume(c) ==
  /\ jobs[c] # <<>>
  /\ Head(jobs[c]) = "resume"
  /\ jobs' = [jobs EXCEPT ![c] = Tail(@)]
  /\ timer' = [timer EXCEPT ![c] = IF @ = "armed" THEN "off" ELSE @]
  /\ listening' = [listening EXCEPT ![c] = FALSE]
  /\ answer' = [answer EXCEPT ![c] = race[c]]
  /\ UNCHANGED <<active, work, result, abortReason, aborted, external, expired, race>>

-----------------------------------------------------------------------------
\* The external signal aborts; the listener is registered with once: true.
ExternalAbort(c) ==
  /\ ~external[c]
  /\ external' = [external EXCEPT ![c] = TRUE]
  /\ IF listening[c]
     THEN /\ RejectAbort(c, "cancelled")
          /\ listening' = [listening EXCEPT ![c] = FALSE]
     ELSE UNCHANGED <<abortReason, aborted, jobs, listening>>
  /\ UNCHANGED <<active, work, result, timer, expired, race, answer>>

\* The clock passes deadline.end; nothing runs yet.
Expire(c) ==
  /\ work[c] # "none"
  /\ ~expired[c]
  /\ expired' = [expired EXCEPT ![c] = TRUE]
  /\ UNCHANGED <<active, work, result, abortReason, aborted, external,
                 listening, timer, jobs, race, answer>>

\* Mutant: the timer rejects with the error of the abort listener.
TimerCancels(c) ==
  /\ Quiescent
  /\ timer[c] = "armed"
  /\ expired[c]
  /\ timer' = [timer EXCEPT ![c] = "fired"]
  /\ RejectAbort(c, "cancelled")
  /\ UNCHANGED <<active, work, result, external, listening, expired, race, answer>>

\* The timer callback.
TimerFires(c) ==
  /\ Quiescent
  /\ timer[c] = "armed"
  /\ expired[c]
  /\ timer' = [timer EXCEPT ![c] = "fired"]
  /\ RejectAbort(c, "deadline_exceeded")
  /\ UNCHANGED <<active, work, result, external, listening, expired, race, answer>>

Microtask(c) ==
  \/ StartWork(c)
  \/ FinishWork(c)
  \/ Release(c)
  \/ RaceRun(c)
  \/ RaceAbort(c)
  \/ Resume(c)

Callback(c) == WorkResolves(c) \/ WorkThrows(c) \/ WorkStops(c)

Next == \E c \in Calls :
  \/ Run(c)
  \/ Microtask(c)
  \/ Callback(c)
  \/ ExternalAbort(c)
  \/ Expire(c)
  \/ TimerFires(c)

Spec == Init /\ [][Next]_vars

\* The event loop drains microtasks, the clock runs and an elapsed timer fires.
\* Nothing is assumed of callbacks: they may hang.
LoopFairness ==
  /\ \A c \in Calls : WF_vars(Microtask(c))
  /\ \A c \in Calls : WF_vars(Expire(c))
  /\ \A c \in Calls : WF_vars(TimerFires(c))

FairSpec == Spec /\ LoopFairness

-----------------------------------------------------------------------------
(* Properties. *)

\* The counter behind capacity_exceeded is exactly the number of calls whose
\* callback chain has not settled, whatever their callers were told meanwhile.
SlotAccounting == active = Cardinality(Held)

\* A caller that got its answer leaves nothing behind that could still fire:
\* neither the deadline timer nor the listener on the external signal.
NothingLeaks ==
  \A c \in Calls : answer[c] # "none" => timer[c] # "armed" /\ ~listening[c]

\* Callers are told the truth: "cancelled" only after an external abort,
\* "deadline_exceeded" only when the time is over, and once the timer has
\* fired no other answer is possible, however the callback ends.
AnswerHasCause ==
  \A c \in Calls :
    /\ answer[c] = "cancelled" => external[c]
    /\ answer[c] = "deadline_exceeded" => expired[c]
    /\ timer[c] = "fired" => answer[c] \in {"none", "deadline_exceeded"}

\* A callback that settles after the deadline or after the abort never makes
\* run() succeed, not even when it resolves before the timer could fire.
LateValueSuppressed ==
  [][\A c \in Calls :
       result[c] = "none" /\ (aborted[c] \/ expired[c]) => result'[c] # "value"]_vars

\* The gate keeps the promise of SlotGate.
SlotPromise == INSTANCE SlotGate WITH taken <- {c \in Calls : work[c] # "none"},
                                      held <- Held
ImplementsSlotGate == SlotPromise!Spec

\* Every admitted caller is answered, even when its callback hangs for ever.
EveryCallerAnswered == \A c \in Calls : work[c] # "none" ~> answer[c] # "none"

\* The application's part: its callbacks settle.
CallbacksSettle == \A c \in Calls : WF_vars(Callback(c))

\* When callbacks settle in the end, every slot comes back, also those whose
\* callers stopped waiting.
EverySlotReturned == CallbacksSettle => \A c \in Calls : c \in Held ~> c \notin Held

=============================================================================
