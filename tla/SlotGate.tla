------------------------------ MODULE SlotGate ------------------------------
(***************************************************************************)
(* What the execution gate of the MCP package promises its callers, with   *)
(* promises, timers and abort signals left out: an operation takes one of  *)
(* Concurrency slots or is refused at once, its caller is answered once,   *)
(* and the slot is given back by the callback alone, never by the answer.  *)
(* A caller that learns its callback's own outcome finds the slot free.    *)
(***************************************************************************)
EXTENDS Naturals, FiniteSets

CONSTANTS Calls,        \* the operations offered to the gate
          Concurrency   \* how many of them may hold a slot at a time

\* What a caller of ExecutionGate.run can be told.
Outcome == {"value", "failed", "cancelled", "deadline_exceeded", "capacity_exceeded"}

VARIABLES taken,    \* operations that were given a slot
          held,     \* operations whose slot is still occupied
          answer    \* what each caller was told, "none" before that

slotVars == <<taken, held, answer>>

Init ==
  /\ taken = {}
  /\ held = {}
  /\ answer = [c \in Calls |-> "none"]

Take(c) ==
  /\ c \notin taken
  /\ answer[c] = "none"
  /\ Cardinality(held) < Concurrency
  /\ taken' = taken \cup {c}
  /\ held' = held \cup {c}
  /\ UNCHANGED answer

Refuse(c) ==
  /\ c \notin taken
  /\ answer[c] = "none"
  /\ Cardinality(held) >= Concurrency
  /\ answer' = [answer EXCEPT ![c] = "capacity_exceeded"]
  /\ UNCHANGED <<taken, held>>

Free(c) ==
  /\ c \in held
  /\ held' = held \ {c}
  /\ UNCHANGED <<taken, answer>>

\* A caller may stop waiting while the slot is held, but only with the news
\* that it was cancelled or ran out of time.
Reply(c) ==
  /\ c \in taken
  /\ answer[c] = "none"
  /\ \E o \in Outcome \ {"capacity_exceeded"} :
       /\ o \in {"value", "failed"} => c \notin held
       /\ answer' = [answer EXCEPT ![c] = o]
  /\ UNCHANGED <<taken, held>>

Next == \E c \in Calls : Take(c) \/ Refuse(c) \/ Free(c) \/ Reply(c)

Spec == Init /\ [][Next]_slotVars

=============================================================================
