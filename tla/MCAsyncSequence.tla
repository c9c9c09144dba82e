--------------------------- MODULE MCAsyncSequence ---------------------------
(* Item schemas for AsyncSequence: the second item of a tuple is optional.  *)
(* LazyGraph runs beside it, from a state in which no sequence is parsed:   *)
(* the two share nothing, and each has the other at rest.                   *)
EXTENDS AsyncSequence, LazyGraph

CONSTANTS good, noted, bad

MCTyped == <<{good, noted}, {good, Undefined}>>

NoSequence == kind = "record" /\ given = <<>>
NoGraph == rules = {} /\ \A s \in Eager : parts[s] = <<>>

\* bound: one schema has an asynchronous rule, or none has.
OneRule == Cardinality(rules) <= 1

\* bound: the answers that are remembered.
TwoAnswers == Cardinality({s \in Schemas : known[s] # "open"}) <= 2

MCInit == Init /\ GraphInit /\ OneRule /\ (NoSequence \/ NoGraph)
MCNext == \/ NoGraph /\ Next /\ UNCHANGED graph
          \/ NoSequence /\ stage = "idle" /\ GraphNext /\ TwoAnswers' /\ UNCHANGED vars
MCSpec == MCInit /\ [][MCNext]_<<vars, graph>>
=============================================================================
