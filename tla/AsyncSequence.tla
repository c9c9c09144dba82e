---------------------------- MODULE AsyncSequence ----------------------------
(***************************************************************************)
(* safeParseAsync of an array, a tuple or a record                         *)
(* (packages/core/src/schema.ts: parseBaseAsync of ArraySchema,            *)
(* TupleSchema and RecordSchema), beside the synchronous parse.            *)
(*                                                                         *)
(* One step runs from one await to the next.  The caller still owns the    *)
(* input and may change it at every await: arrays and tuples are read      *)
(* through a live iterator after their length was checked, records through *)
(* the entries they had at the call.                                       *)
(*                                                                         *)
(* An input is a sequence of values and holes.  The positions of a record  *)
(* are its keys, in their order, and a hole is a key that is absent.  The  *)
(* schema of an item is the set of values that it accepts.                 *)
(***************************************************************************)
EXTENDS Integers, Sequences, FiniteSets, FiniteSetsExt, SequencesExt

CONSTANTS Values,      \* what an item may be
          Undefined,   \* the value of a hole that is read
          Hole,
          Noted,       \* the values that are accepted with a warning
          Items,       \* the values that the schema of the items of arrays and of
                       \* the values of records accepts
          Typed,       \* those that the schemas of a tuple accept
          Keys,        \* the positions whose keys the key schema of records accepts
          Least, Most, \* minLength and maxLength of arrays
          MaxLength,   \* bound: the length of an input
          MaxChanges   \* bound: the changes the caller makes

Arity == Len(Typed)
Positions == 1..MaxLength

ASSUME SequenceAssumption ==
  /\ Undefined \in Values
  /\ Hole \notin Values
  /\ Noted \subseteq Values
  /\ Items \subseteq Values
  /\ Typed \in Seq(SUBSET Values)
  /\ Keys \subseteq Positions
  /\ {Least, Most, MaxLength, MaxChanges} \subseteq Nat

Kinds == {"array", "tuple", "record"}
Inputs == UNION {[1..n -> Values \cup {Hole}] : n \in 0..MaxLength}

VARIABLES
  kind,     \* of the schema
  given,    \* the input as it was at the call
  input,    \* the input as it is
  changes,  \* changes the caller made
  resized,  \* whether one of them changed the length
  pos,      \* the item that is parsed
  value,    \* what was read there
  output, issues, warnings,
  stage     \* what is awaited

schema == <<kind, given>>
caller == <<input, changes, resized>>
vars == <<kind, given, input, changes, resized, pos, value, output, issues, warnings, stage>>

\* "key" and "item" are awaited; "thrown": the promise is rejected.
Stages == {"idle", "key", "item", "done", "thrown"}
Diagnostics == [code : {"too_small", "too_large", "invalid_tuple_length", "key", "item", "noted"},
                at : 0..MaxLength]

TypeOK ==
  /\ kind \in Kinds
  /\ {given, input} \subseteq Inputs
  /\ changes \in 0..MaxChanges
  /\ resized \in BOOLEAN
  /\ pos \in 0..MaxLength + 1
  /\ value \in Values
  /\ output \in UNION {[at -> Values] : at \in SUBSET Positions}
  /\ issues \in Seq(Diagnostics) /\ warnings \in Seq(Diagnostics)
  /\ stage \in Stages

Init ==
  /\ kind \in Kinds
  /\ given \in Inputs
  /\ input = given
  /\ changes = 0
  /\ resized = FALSE
  /\ pos = 0
  /\ value = Undefined
  /\ output = <<>>
  /\ issues = <<>>
  /\ warnings = <<>>
  /\ stage = "idle"

-----------------------------------------------------------------------------
(* The parse of one item. *)

Note(code, at) == <<[code |-> code, at |-> at]>>

TypedAt(p) == IF kind = "tuple" THEN Typed[p] ELSE Items

KeyIssues(p) == IF kind = "record" /\ p \notin Keys THEN Note("key", p) ELSE <<>>
ItemIssues(p, v) == IF v \in TypedAt(p) THEN <<>> ELSE Note("item", p)
ItemWarnings(p, v) == IF v \in TypedAt(p) \cap Noted THEN Note("noted", p) ELSE <<>>

\* Where the output of an item goes: an array takes it at its end.
Place(p, out) == IF kind = "array" THEN Cardinality(DOMAIN out) + 1 ELSE p

Emitted(p, v, out) ==
  IF v \notin TypedAt(p) THEN out
  ELSE [at \in DOMAIN out \cup {Place(p, out)} |-> IF at = Place(p, out) THEN v ELSE out[at]]

\* What the length says before any item is looked at.
LengthIssues(length) ==
  CASE kind = "array" /\ length < Least -> Note("too_small", 0)
    [] kind = "array" /\ length > Most -> Note("too_large", 0)
    [] kind = "tuple" /\ length # Arity -> Note("invalid_tuple_length", 0)
    [] OTHER -> <<>>

-----------------------------------------------------------------------------
(* The asynchronous parse. *)

\* The keys a record had at the call.
Present == {p \in DOMAIN given : given[p] # Hole}

\* The entries of a record, and the positions a live iterator still visits.
Ahead(p) == {q \in IF kind = "record" THEN Present ELSE DOMAIN input : q > p}

ReadAt(p) == LET v == IF kind = "record" THEN given[p] ELSE input[p]
             IN IF v = Hole THEN Undefined ELSE v

\* mutant: the keys of a record are not parsed
AdvancePastKeys(p) ==
  IF Ahead(p) = {} THEN stage' = "done" /\ UNCHANGED <<pos, value>>
  ELSE LET next == Min(Ahead(p))
       IN /\ pos' = next
          /\ value' = ReadAt(next)
          /\ stage' = IF kind = "tuple" /\ next > Arity THEN "thrown" ELSE "item"

\* The loop goes on from position p: the next item is read and its parse is
\* awaited, of a record that of its key first.  A tuple has no schema for an item
\* that was added to it, and the call on it throws.
Advance(p) ==
  IF Ahead(p) = {} THEN stage' = "done" /\ UNCHANGED <<pos, value>>
  ELSE LET next == Min(Ahead(p))
       IN /\ pos' = next
          /\ value' = ReadAt(next)
          /\ stage' = CASE kind = "record" -> "key"
                        [] kind = "tuple" /\ next > Arity -> "thrown"
                        [] OTHER -> "item"

\* safeParseAsync(input): a tuple of another length is refused at once.
Call ==
  /\ stage = "idle"
  /\ issues' = LengthIssues(Len(input))
  /\ IF kind = "tuple" /\ issues' # <<>> THEN stage' = "done" /\ UNCHANGED <<pos, value>>
     ELSE Advance(0)
  /\ UNCHANGED <<schema, caller, output, warnings>>

KeySettles ==
  /\ stage = "key"
  /\ issues' = issues \o KeyIssues(pos)
  /\ stage' = "item"
  /\ UNCHANGED <<schema, caller, pos, value, output, warnings>>

\* mutant: the item is read again for the output
ItemSettlesRereading ==
  /\ stage = "item"
  /\ output' = Emitted(pos, IF value \in TypedAt(pos) /\ pos \in DOMAIN input /\ input[pos] # Hole
                            THEN input[pos] ELSE value, output)
  /\ issues' = issues \o ItemIssues(pos, value)
  /\ warnings' = warnings \o ItemWarnings(pos, value)
  /\ Advance(pos)
  /\ UNCHANGED <<schema, caller>>

\* The parse of an item has settled.
ItemSettles ==
  /\ stage = "item"
  /\ output' = Emitted(pos, value, output)
  /\ issues' = issues \o ItemIssues(pos, value)
  /\ warnings' = warnings \o ItemWarnings(pos, value)
  /\ Advance(pos)
  /\ UNCHANGED <<schema, caller>>

-----------------------------------------------------------------------------
(* The caller, while the parse waits. *)

Change(next) ==
  /\ stage \in {"key", "item"}
  /\ changes < MaxChanges
  /\ input' = next
  /\ changes' = changes + 1
  /\ resized' = (resized \/ Len(next) # Len(input))
  /\ UNCHANGED <<schema, pos, value, output, issues, warnings, stage>>

\* An item is replaced or deleted, appended or removed from the end.
Replace == \E p \in DOMAIN input, v \in Values \cup {Hole} : Change([input EXCEPT ![p] = v])
Push == Len(input) < MaxLength /\ \E v \in Values : Change(Append(input, v))
Pop == input # <<>> /\ Change(Front(input))

Next == Call \/ KeySettles \/ ItemSettles \/ Replace \/ Push \/ Pop

Spec == Init /\ [][Next]_vars

-----------------------------------------------------------------------------
(* The synchronous parse. *)

Parsed(so_far, p) ==
  [issues |-> so_far.issues \o KeyIssues(p) \o ItemIssues(p, given[p]),
   warnings |-> so_far.warnings \o ItemWarnings(p, given[p]),
   output |-> Emitted(p, given[p], so_far.output)]

\* What there is after each position: forEach and Object.entries pass over holes.
SyncLoop ==
  LET after[p \in 0..Len(given)] ==
        IF p = 0 THEN [issues |-> LengthIssues(Len(given)), warnings |-> <<>>, output |-> <<>>]
        ELSE IF p \in Present THEN Parsed(after[p - 1], p) ELSE after[p - 1]
  IN after

SyncParse ==
  LET end == SyncLoop[IF kind = "tuple" /\ Len(given) # Arity THEN 0 ELSE Len(given)]
  IN [issues |-> end.issues, warnings |-> end.warnings,
      data |-> IF end.issues = <<>> THEN end.output ELSE <<>>]

-----------------------------------------------------------------------------
(* Properties. *)

Succeeded == stage = "done" /\ issues = <<>>
Dense == kind # "record" => \A p \in DOMAIN given : given[p] # Hole

\* "Async parsing runs checks and nested members sequentially in the same order
\* used by synchronous parsing": of an input that is left alone, and has no holes
\* unless it is a record, both report the same diagnostics and the same data.
SequenceAgreesWithSync ==
  stage = "done" /\ changes = 0 /\ Dense =>
    [issues |-> issues, warnings |-> warnings,
     data |-> IF issues = <<>> THEN output ELSE <<>>] = SyncParse

\* Whatever the caller does to its input meanwhile, every item of a successful
\* output is one that its schema accepted; a record has the entries that it had at
\* the call.  Arrays and tuples keep their length, and a parse does not throw,
\* unless the caller changed the length.
ItemsAreValidated ==
  /\ Succeeded =>
       /\ \A p \in DOMAIN output : output[p] \in TypedAt(p)
       /\ kind = "record" => output = [p \in Present |-> given[p]] /\ Present \subseteq Keys
       /\ kind # "record" /\ ~resized => Cardinality(DOMAIN output) = Len(given)
       /\ kind = "array" /\ ~resized => Len(given) \in Least..Most
  /\ stage = "thrown" => kind = "tuple" /\ resized /\ pos > Arity

=============================================================================
