----------------------------- MODULE MCAsyncParse -----------------------------
(* Shapes and refinements for AsyncParse. *)
EXTENDS AsyncParse

Rule(async, collector, warn, does) ==
  [async |-> async, collector |-> collector, warn |-> warn, does |-> does]

MCShape == <<"a", "b">>
MCUndeclared == <<"c">>
NoneUndeclared == <<>>

\* Every synchronous rule alone, every asynchronous one, and some in a row.
SyncRules ==
  {Rule(FALSE, collector, warn, does) :
     collector \in BOOLEAN, warn \in BOOLEAN, does \in {"pass", "fail", "throw", "promise"}}
AsyncRules ==
  {Rule(TRUE, collector, warn, does) :
     collector \in BOOLEAN, warn \in BOOLEAN, does \in {"pass", "fail", "throw"}}

Warns == Rule(FALSE, FALSE, TRUE, "fail")
Fails == Rule(TRUE, FALSE, FALSE, "fail")
Passes == Rule(TRUE, FALSE, FALSE, "pass")
Throws == Rule(FALSE, FALSE, FALSE, "throw")
Promises == Rule(FALSE, TRUE, FALSE, "promise")

\* The refinements `list` at position p, and none elsewhere.
Only(p, list) == [q \in 1..3 |-> IF q = p THEN list ELSE <<>>]

\* One rule anywhere, two at one position, and one at two positions.
AllRules ==
  {Only(p, <<r>>) : p \in 1..3, r \in SyncRules \cup AsyncRules}
  \cup {Only(p, list) : p \in 1..3, list \in {<<Warns, Fails>>, <<Fails, Warns>>, <<Warns, Throws>>}}
  \cup {[Only(1, <<Warns>>) EXCEPT ![3] = list] : list \in {<<Throws>>, <<Fails>>, <<Promises, Warns>>}}

\* Asynchronous rules that pass, so that the parse waits where it succeeds.
WaitingRules ==
  {[p \in 1..3 |-> <<>>], Only(1, <<Passes>>), Only(2, <<Passes>>), Only(3, <<Passes, Warns, Passes>>),
   [p \in 1..3 |-> <<Passes>>]}

\* Every kind of rule on an input left alone, a few on one that changes.
EveryRule == AllRules \cup WaitingRules
SteadyRules == AllRules \ WaitingRules

\* Three properties and no refinement: every property is an await of its own.
MCLongShape == <<"a", "b", "c">>
NoRules == {[p \in 1..4 |-> <<>>]}
=============================================================================
