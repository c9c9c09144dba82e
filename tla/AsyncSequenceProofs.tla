-------------------------- MODULE AsyncSequenceProofs --------------------------
(***************************************************************************)
(* Proofs about AsyncSequence for every input, every schema of its items,  *)
(* and however often the caller changes it; and about LazyGraph, which     *)
(* decides whether the items of a schema are parsed asynchronously at all. *)
(*                                                                         *)
(* The argument about the graph has two parts.  While a walk runs, what it *)
(* has visited has no rule, and all that is below it has been visited or   *)
(* is ahead; so when nothing is ahead, what has been visited is closed,    *)
(* and everything that can be reached is in it.  Once an answer is         *)
(* remembered, the graph only grows where a lazy schema was not resolved:  *)
(* nothing that was reached is lost, and nothing is added below schemas    *)
(* that are all resolved.                                                  *)
(***************************************************************************)
EXTENDS AsyncSequence, LazyGraph, FiniteSetTheorems, WellFoundedInduction, TLAPS

-----------------------------------------------------------------------------
(* The inductive invariant. *)

Codes == {"too_small", "too_large", "invalid_tuple_length", "key", "item"}
Findings == [code : Codes, at : Nat]

TypeInv ==
  /\ kind \in Kinds
  /\ given \in Seq(Values \cup {Hole})
  /\ input \in Seq(Values \cup {Hole})
  /\ resized \in BOOLEAN
  /\ pos \in Nat
  /\ issues \in Seq(Findings)
  /\ stage \in Stages

\* An input that only had items replaced is as long as it was, and what the length
\* says of it was said at the call.
LengthInv ==
  /\ ~resized => Len(input) = Len(given)
  /\ stage = "idle" => ~resized
  /\ stage # "idle" /\ issues = <<>> => LengthIssues(Len(given)) = <<>>
  /\ stage \notin {"idle", "done"} /\ kind = "tuple" => Len(given) = Arity

\* The output holds nothing that its schema did not accept.
OutputInv ==
  /\ \A p \in DOMAIN output : output[p] \in TypedAt(p)
  /\ stage = "idle" => output = <<>>

\* The entries of a record before position p are in the output, as they were given.
Entered(p) ==
  /\ output = [q \in {q \in Present : q < p} |-> given[q]]
  /\ {q \in Present : q < p} \subseteq Keys

RecordInv ==
  kind = "record" =>
    /\ stage \in {"key", "item"} =>
         /\ pos \in Present /\ value = given[pos]
         /\ issues = <<>> => Entered(pos) /\ (stage = "item" => pos \in Keys)
    /\ stage = "done" /\ issues = <<>> => \E p \in Nat : Entered(p) /\ \A q \in Present : q < p
    /\ stage # "thrown"

\* The items of an array or a tuple before position pos are in the output.
ListInv ==
  kind # "record" =>
    /\ stage # "key"
    /\ stage = "item" =>
         /\ pos > 0
         /\ ~resized => pos <= Len(given)
         /\ issues = <<>> => DOMAIN output = 1 .. pos - 1
    /\ stage = "done" /\ issues = <<>> /\ ~resized => DOMAIN output = 1 .. Len(given)
    /\ stage = "thrown" => kind = "tuple" /\ resized /\ pos > Arity

SequenceInv == TypeInv /\ LengthInv /\ OutputInv /\ RecordInv /\ ListInv

-----------------------------------------------------------------------------
(* Positions. *)

\* Of some positions, one is the first (well-founded induction over Nat).
LEMMA FirstPosition ==
  ASSUME NEW S \in SUBSET Nat, S # {}
  PROVE  Min(S) \in S /\ \A k \in S : Min(S) <= k
<1> DEFINE R == OpToRel(<, Nat)
<1>1. IsWellFoundedOn(R, Nat)
  BY NatLessThanWellFounded
<1>2. \A x, y \in Nat : x < y => <<x, y>> \in R
  BY Zenon DEF OpToRel
<1> HIDE DEF R
<1>3. PICK x \in S : \A y \in S : ~(<<y, x>> \in R)
  BY <1>1, WFMin
<1>4. ASSUME NEW k \in S PROVE x <= k
  <2>1. x \in Nat /\ k \in Nat
    OBVIOUS
  <2>2. ~(k < x)
    BY <1>2, <1>3, <2>1
  <2>3. QED
    BY <2>1, <2>2
<1>5. QED
  BY <1>4 DEF Min

\* Concatenation is empty when both parts are.
LEMMA EmptyParts ==
  ASSUME NEW S, NEW s \in Seq(S), NEW t \in Seq(S), s \o t = <<>>
  PROVE  s = <<>> /\ t = <<>>
  OBVIOUS

\* Diagnostics are sequences of findings.
LEMMA FindingsTyped ==
  ASSUME NEW p \in Nat, NEW v, NEW n
  PROVE  /\ KeyIssues(p) \in Seq(Findings)
         /\ ItemIssues(p, v) \in Seq(Findings)
         /\ LengthIssues(n) \in Seq(Findings)
         /\ KeyIssues(p) = <<>> /\ kind = "record" => p \in Keys
         /\ ItemIssues(p, v) = <<>> => v \in TypedAt(p)
<1>1. ASSUME NEW code \in Codes, NEW at \in Nat
      PROVE  Note(code, at) \in Seq(Findings) /\ Note(code, at) # <<>>
  <2>1. [code |-> code, at |-> at] \in Findings
    BY DEF Findings
  <2>2. QED
    BY <2>1 DEF Note
<1>0. <<>> \in Seq(Findings)
  OBVIOUS
<1>2. /\ KeyIssues(p) \in Seq(Findings)
      /\ KeyIssues(p) = <<>> /\ kind = "record" => p \in Keys
  <2>1. Note("key", p) \in Seq(Findings) /\ Note("key", p) # <<>>
    BY <1>1 DEF Codes
  <2>2. QED
    BY <1>0, <2>1 DEF KeyIssues
<1>3. /\ ItemIssues(p, v) \in Seq(Findings)
      /\ ItemIssues(p, v) = <<>> => v \in TypedAt(p)
  <2>1. Note("item", p) \in Seq(Findings) /\ Note("item", p) # <<>>
    BY <1>1 DEF Codes
  <2>2. QED
    BY <1>0, <2>1 DEF ItemIssues
<1>4. LengthIssues(n) \in {Note("too_small", 0), Note("too_large", 0),
                          Note("invalid_tuple_length", 0), <<>>}
  BY Zenon DEF LengthIssues
<1>5. LengthIssues(n) \in Seq(Findings)
  <2>1. /\ Note("too_small", 0) \in Seq(Findings) /\ Note("too_large", 0) \in Seq(Findings)
        /\ Note("invalid_tuple_length", 0) \in Seq(Findings)
    BY <1>1 DEF Codes
  <2>2. QED
    BY <1>0, <1>4, <2>1
<1>6. QED
  BY <1>2, <1>3, <1>5

\* Where the loop goes on from position p.
LEMMA AdvanceFacts ==
  ASSUME TypeInv, NEW p \in Nat, Advance(p)
  PROVE  /\ kind = "record" =>
              \/ /\ \A q \in Present : q <= p
                 /\ stage' = "done" /\ pos' = pos
              \/ /\ pos' \in Present /\ pos' > p /\ value' = given[pos'] /\ stage' = "key"
                 /\ \A q \in Present : q <= p \/ pos' <= q
         /\ kind # "record" =>
              \/ Len(input) <= p /\ stage' = "done" /\ pos' = pos
              \/ /\ p < Len(input) /\ pos' = p + 1
                 /\ stage' = IF kind = "tuple" /\ p + 1 > Arity THEN "thrown" ELSE "item"
         /\ pos' \in Nat /\ stage' \in Stages \ {"idle"}
<1> USE DEF TypeInv
<1>1. CASE Ahead(p) = {}
  <2>1. stage' = "done" /\ pos' = pos
    BY <1>1 DEF Advance
  <2>2. kind = "record" => \A q \in Present : q <= p
    BY <1>1 DEF Ahead, Present
  <2>3. kind # "record" => Len(input) <= p
    <3>1. SUFFICES ASSUME kind # "record", Len(input) > p PROVE FALSE
      OBVIOUS
    <3>2. p + 1 \in DOMAIN input
      BY <3>1
    <3>3. QED
      BY <1>1, <3>1, <3>2 DEF Ahead
  <2>4. QED
    BY <2>1, <2>2, <2>3 DEF Stages
<1>2. CASE Ahead(p) # {}
  <2>1. Ahead(p) \in SUBSET Nat
    BY DEF Ahead, Present
  <2>2. PICK n \in Ahead(p) : n = Min(Ahead(p)) /\ \A k \in Ahead(p) : n <= k
    BY <1>2, <2>1, FirstPosition
  <2>3. /\ pos' = n /\ value' = ReadAt(n)
        /\ stage' = CASE kind = "record" -> "key"
                      [] kind = "tuple" /\ n > Arity -> "thrown"
                      [] OTHER -> "item"
    BY <1>2, <2>2 DEF Advance
  <2>4. ASSUME kind = "record"
        PROVE  /\ n \in Present /\ n > p /\ value' = given[n] /\ stage' = "key"
               /\ \A q \in Present : q <= p \/ n <= q
    BY <2>1, <2>2, <2>3, <2>4 DEF Ahead, Present, ReadAt
  <2>5. ASSUME kind # "record"
        PROVE  /\ p < Len(input) /\ n = p + 1
               /\ stage' = IF kind = "tuple" /\ p + 1 > Arity THEN "thrown" ELSE "item"
    <3>1. n \in 1 .. Len(input) /\ n > p
      BY <2>2, <2>5 DEF Ahead
    <3>2. p + 1 \in Ahead(p)
      BY <2>5, <3>1 DEF Ahead
    <3>3. n = p + 1
      BY <2>2, <3>1, <3>2
    <3>4. QED
      BY <2>3, <2>5, <3>1, <3>3
  <2>6. n \in Nat /\ stage' \in Stages \ {"idle"}
    BY <2>1, <2>3 DEF Stages
  <2>7. QED
    BY <2>3, <2>4, <2>5, <2>6
<1>3. QED
  BY <1>1, <1>2

-----------------------------------------------------------------------------
(* The parse. *)

\* Going on from position p, with everything up to p in the output.
LEMMA Onward ==
  ASSUME TypeInv, NEW p \in Nat, Advance(p), UNCHANGED <<kind, given, input, resized>>,
         kind = "record" /\ issues' = <<>> => Entered(p + 1)',
         kind # "record" /\ issues' = <<>> => DOMAIN output' = 1..p,
         kind # "record" /\ ~resized => p <= Len(given) /\ Len(input) = Len(given),
         kind = "tuple" => Len(given) = Arity
  PROVE  RecordInv' /\ ListInv'
<1> USE DEF TypeInv
<1>1. Len(given) \in Nat /\ Len(input) \in Nat /\ Present' = Present
  BY DEF Present
<1>2. RecordInv'
  <2>1. SUFFICES ASSUME kind = "record" PROVE RecordInv'
    BY DEF RecordInv
  <2>2. CASE (\A q \in Present : q <= p) /\ stage' = "done"
    <3>1. \A q \in Present : q \in Nat
      BY DEF Present
    <3>2. \A q \in Present : q < p + 1
      BY <2>2, <3>1
    <3>3. issues' = <<>> => \E m \in Nat : Entered(m)' /\ \A q \in Present : q < m
      BY <2>1, <3>2
    <3>4. QED
      BY <1>1, <2>1, <2>2, <3>3 DEF RecordInv
  <2>3. CASE /\ pos' \in Present /\ pos' > p /\ value' = given[pos'] /\ stage' = "key"
             /\ \A q \in Present : q <= p \/ pos' <= q
    <3>1. Present \subseteq Nat
      BY DEF Present
    <3>2. PICK n \in Nat : n = pos'
      BY <2>3, <3>1
    <3>3. {q \in Present : q < n} = {q \in Present : q < p + 1}
      <4>1. ASSUME NEW q \in Present PROVE q < n <=> q < p + 1
        BY <2>3, <3>1, <3>2
      <4>2. QED
        BY <4>1
    <3>4. issues' = <<>> => /\ output' = [q \in {q \in Present : q < n} |-> given[q]]
                            /\ {q \in Present : q < n} \subseteq Keys
      BY <1>1, <2>1, <3>3 DEF Entered
    <3>5. QED
      BY <1>1, <2>1, <2>3, <3>2, <3>4 DEF RecordInv, Entered
  <2>4. QED
    BY <2>1, <2>2, <2>3, AdvanceFacts
<1>3. ListInv'
  <2>1. SUFFICES ASSUME kind # "record" PROVE ListInv'
    BY DEF ListInv
  <2>2. CASE Len(input) <= p /\ stage' = "done"
    <3>1. ~resized => p = Len(given)
      BY <1>1, <2>1, <2>2
    <3>2. QED
      BY <2>1, <2>2, <3>1 DEF ListInv
  <2>3. CASE /\ p < Len(input) /\ pos' = p + 1
             /\ stage' = IF kind = "tuple" /\ p + 1 > Arity THEN "thrown" ELSE "item"
    <3>1. ~resized => p + 1 <= Len(given)
      BY <1>1, <2>1, <2>3
    <3>2. p + 1 - 1 = p /\ p + 1 > 0
      OBVIOUS
    <3>3. CASE kind = "tuple" /\ p + 1 > Arity
      <4>1. resized
        BY <1>1, <3>1, <3>3
      <4>2. QED
        BY <2>1, <2>3, <3>3, <4>1 DEF ListInv
    <3>4. CASE ~(kind = "tuple" /\ p + 1 > Arity)
      BY <2>1, <2>3, <3>1, <3>2, <3>4 DEF ListInv
    <3>5. QED
      BY <3>3, <3>4
  <2>4. QED
    BY <2>1, <2>2, <2>3, AdvanceFacts
<1>4. QED
  BY <1>2, <1>3

\* Nothing is in the output before the first item.
LEMMA CallKept ==
  ASSUME SequenceInv, Call
  PROVE  SequenceInv'
<1> USE DEF SequenceInv
<1>1. /\ stage = "idle" /\ ~resized /\ output' = output /\ output = <<>>
      /\ issues' = LengthIssues(Len(input)) /\ Len(input) = Len(given)
      /\ UNCHANGED <<kind, given, input, resized>>
  BY DEF Call, schema, caller, LengthInv, OutputInv
<1>2. LengthIssues(Len(given))' = LengthIssues(Len(given))
  BY <1>1 DEF LengthIssues
<1>3. OutputInv' \/ stage' = "idle"
  BY <1>1 DEF OutputInv
<1>4. CASE kind = "tuple" /\ issues' # <<>>
  <2>1. stage' = "done" /\ pos' = pos
    BY <1>1, <1>4 DEF Call
  <2>2. TypeInv'
    BY <1>1, <2>1, FindingsTyped DEF TypeInv, Stages
  <2>3. QED
    BY <1>1, <1>2, <1>3, <1>4, <2>1, <2>2 DEF LengthInv, RecordInv, ListInv
<1>5. CASE ~(kind = "tuple" /\ issues' # <<>>)
  <2>1. Advance(0)
    BY <1>5 DEF Call
  <2>2. pos' \in Nat /\ stage' \in Stages \ {"idle"}
    BY <2>1, AdvanceFacts
  <2>3. TypeInv'
    BY <1>1, <2>2, FindingsTyped DEF TypeInv
  <2>4. kind = "tuple" => Len(given) = Arity
    <3>1. SUFFICES ASSUME kind = "tuple", Len(given) # Arity PROVE FALSE
      OBVIOUS
    <3>2. LengthIssues(Len(given)) = Note("invalid_tuple_length", 0)
      BY <3>1 DEF LengthIssues
    <3>3. QED
      BY <1>1, <1>5, <3>1, <3>2 DEF Note
  <2>5. Entered(0 + 1)'
    <3>1. {q \in Present : q < 0 + 1} = {}
      BY DEF Present, TypeInv
    <3>2. Present' = Present
      BY <1>1 DEF Present
    <3>3. QED
      BY <1>1, <3>1, <3>2 DEF Entered
  <2>6. DOMAIN output' = 1..0
    BY <1>1
  <2>7. Len(given) \in Nat
    BY DEF TypeInv
  <2>8. RecordInv' /\ ListInv'
    BY <1>1, <2>1, <2>4, <2>5, <2>6, <2>7, Onward
  <2>9. LengthInv'
    BY <1>1, <1>2, <2>2, <2>4 DEF LengthInv
  <2>10. QED
    BY <1>3, <2>2, <2>3, <2>8, <2>9
<1>6. QED
  BY <1>4, <1>5

\* The key of an entry has been parsed.
LEMMA KeyKept ==
  ASSUME SequenceInv, KeySettles
  PROVE  SequenceInv'
<1> USE DEF SequenceInv
<1>1. /\ stage = "key" /\ stage' = "item" /\ issues' = issues \o KeyIssues(pos)
      /\ UNCHANGED <<kind, given, input, resized, pos, value, output>>
      /\ kind = "record"
  BY DEF KeySettles, schema, caller, ListInv
<1>2. /\ issues' \in Seq(Findings)
      /\ issues' = <<>> => issues = <<>> /\ pos \in Keys
  <2>1. pos \in Nat /\ issues \in Seq(Findings)
    BY DEF TypeInv
  <2>2. /\ KeyIssues(pos) \in Seq(Findings)
        /\ KeyIssues(pos) = <<>> => pos \in Keys
    BY <1>1, <2>1, FindingsTyped
  <2>3. QED
    BY <1>1, <2>1, <2>2, EmptyParts
<1>3. TypeInv'
  BY <1>1, <1>2 DEF TypeInv, Stages
<1>4. LengthInv' /\ OutputInv'
  BY <1>1, <1>2 DEF LengthInv, OutputInv, LengthIssues, TypedAt
<1>5. RecordInv' /\ ListInv'
  BY <1>1, <1>2 DEF RecordInv, ListInv, Entered, Present
<1>6. QED
  BY <1>3, <1>4, <1>5

\* An item has been parsed: it is in the output when its schema accepted it.
LEMMA ItemKept ==
  ASSUME SequenceInv, ItemSettles
  PROVE  SequenceInv'
<1> USE DEF SequenceInv
<1>1. /\ stage = "item" /\ issues' = issues \o ItemIssues(pos, value)
      /\ output' = Emitted(pos, value, output) /\ Advance(pos)
      /\ UNCHANGED <<kind, given, input, resized>>
  BY DEF ItemSettles, schema, caller
<1>2. /\ issues' \in Seq(Findings)
      /\ issues' = <<>> => issues = <<>> /\ value \in TypedAt(pos)
  <2>1. pos \in Nat /\ issues \in Seq(Findings)
    BY DEF TypeInv
  <2>2. /\ ItemIssues(pos, value) \in Seq(Findings)
        /\ ItemIssues(pos, value) = <<>> => value \in TypedAt(pos)
    BY <2>1, FindingsTyped
  <2>3. QED
    BY <1>1, <2>1, <2>2, EmptyParts
<1>3. pos' \in Nat /\ stage' \in Stages \ {"idle"} /\ pos \in Nat
  BY <1>1, AdvanceFacts DEF TypeInv
<1>4. TypeInv'
  BY <1>1, <1>2, <1>3 DEF TypeInv
<1>5. LengthInv'
  BY <1>1, <1>2, <1>3 DEF LengthInv, LengthIssues
<1>6. OutputInv'
  <2>1. \A p : TypedAt(p)' = TypedAt(p)
    BY <1>1 DEF TypedAt
  <2>2. TypedAt(Place(pos, output)) = TypedAt(pos)
    BY DEF TypedAt, Place
  <2>3. ASSUME NEW p \in DOMAIN output' PROVE output'[p] \in TypedAt(p)
    <3>1. CASE value \notin TypedAt(pos)
      BY <1>1, <2>3, <3>1 DEF OutputInv, Emitted
    <3>2. CASE value \in TypedAt(pos)
      <4>1. output' = [at \in DOMAIN output \cup {Place(pos, output)} |->
                         IF at = Place(pos, output) THEN value ELSE output[at]]
        BY <1>1, <3>2 DEF Emitted
      <4>2. QED
        BY <2>2, <2>3, <3>2, <4>1 DEF OutputInv
    <3>3. QED
      BY <3>1, <3>2
  <2>4. QED
    BY <1>3, <2>1, <2>3 DEF OutputInv
<1>7. PICK n \in Nat : n = pos
  BY <1>3
<1>8. ASSUME issues' = <<>>
      PROVE  output' = [at \in DOMAIN output \cup {Place(n, output)} |->
                          IF at = Place(n, output) THEN value ELSE output[at]]
  BY <1>1, <1>2, <1>7, <1>8 DEF Emitted
<1>9. ASSUME kind = "record", issues' = <<>> PROVE Entered(n + 1)'
  <2>1. n \in Present /\ value = given[n] /\ Entered(n) /\ n \in Keys
    BY <1>1, <1>2, <1>7, <1>9 DEF RecordInv
  <2>2. Place(n, output) = n
    BY <1>9 DEF Place
  <2>3. {q \in Present : q < n + 1} = {q \in Present : q < n} \cup {n}
    BY <2>1 DEF Present, TypeInv
  <2>4. output' = [q \in {q \in Present : q < n + 1} |-> given[q]]
    BY <1>8, <1>9, <2>1, <2>2, <2>3 DEF Entered
  <2>5. {q \in Present : q < n + 1} \subseteq Keys
    BY <2>1, <2>3 DEF Entered
  <2>6. Present' = Present
    BY <1>1 DEF Present
  <2>7. QED
    BY <1>1, <2>4, <2>5, <2>6 DEF Entered
<1>10. ASSUME kind # "record", issues' = <<>> PROVE DOMAIN output' = 1..n
  <2>1. DOMAIN output = 1 .. n - 1 /\ n > 0
    BY <1>1, <1>2, <1>7, <1>10 DEF ListInv
  <2>2. Cardinality(1 .. n - 1) = n - 1
    <3>1. n - 1 \in Nat
      BY <2>1
    <3>2. Cardinality(1 .. n - 1) = IF 1 > n - 1 THEN 0 ELSE n - 1 - 1 + 1
      BY <3>1, FS_Interval
    <3>3. QED
      BY <3>1, <3>2
  <2>3. Place(n, output) = n
    BY <2>1, <2>2 DEF Place
  <2>4. DOMAIN output' = 1 .. n - 1 \cup {n}
    BY <1>8, <1>10, <2>1, <2>3
  <2>5. QED
    BY <2>1, <2>4
<1>11. RecordInv' /\ ListInv'
  <2>1. kind # "record" /\ ~resized => n <= Len(given) /\ Len(input) = Len(given)
    BY <1>1, <1>7 DEF ListInv, LengthInv
  <2>2. kind = "tuple" => Len(given) = Arity
    BY <1>1 DEF LengthInv
  <2>3. QED
    BY <1>1, <1>7, <1>9, <1>10, <2>1, <2>2, Onward
<1>12. QED
  BY <1>4, <1>5, <1>6, <1>11

\* The caller changes its input; what was parsed of it stays as it was parsed.
LEMMA ChangeKept ==
  ASSUME SequenceInv, NEW next \in Seq(Values \cup {Hole}), Change(next)
  PROVE  SequenceInv'
<1> USE DEF SequenceInv
<1>1. /\ stage \in {"key", "item"} /\ input' = next
      /\ resized' = (resized \/ Len(next) # Len(input))
      /\ UNCHANGED <<kind, given, pos, value, output, issues, stage>>
  BY DEF Change, schema
<1>2. TypeInv' /\ LengthInv'
  BY <1>1 DEF TypeInv, LengthInv, LengthIssues
<1>3. OutputInv'
  BY <1>1 DEF OutputInv, TypedAt
<1>4. RecordInv' /\ ListInv'
  BY <1>1 DEF RecordInv, ListInv, Entered, Present
<1>5. QED
  BY <1>2, <1>3, <1>4

\* The invariant holds initially, and is kept.
LEMMA Inductive == Spec => []SequenceInv
<1>1. Init => SequenceInv
  <2> SUFFICES ASSUME Init PROVE SequenceInv
    OBVIOUS
  <2>1. given \in Seq(Values \cup {Hole})
    BY DEF Init, Inputs
  <2>2. TypeInv
    <3>1. <<>> \in Seq(Findings)
      OBVIOUS
    <3>2. QED
      BY <2>1, <3>1 DEF Init, TypeInv, Stages
  <2>3. LengthInv /\ OutputInv
    BY DEF Init, LengthInv, OutputInv
  <2>4. RecordInv /\ ListInv
    BY DEF Init, RecordInv, ListInv
  <2>5. QED
    BY <2>2, <2>3, <2>4 DEF SequenceInv
<1>2. SequenceInv /\ [Next]_vars => SequenceInv'
  <2> SUFFICES ASSUME SequenceInv, [Next]_vars PROVE SequenceInv'
    OBVIOUS
  <2>1. CASE Call
    BY <2>1, CallKept
  <2>2. CASE KeySettles
    BY <2>2, KeyKept
  <2>3. CASE ItemSettles
    BY <2>3, ItemKept
  <2> DEFINE AnyItem == Values \cup {Hole}
  <2>4. input \in Seq(AnyItem)
    BY DEF SequenceInv, TypeInv
  <2>5. CASE Replace
    <3>1. PICK p \in DOMAIN input, v \in AnyItem : Change([input EXCEPT ![p] = v])
      BY <2>5 DEF Replace
    <3>2. [input EXCEPT ![p] = v] \in Seq(AnyItem)
      BY <2>4
    <3>3. QED
      BY <3>1, <3>2, ChangeKept
  <2>6. CASE Push
    <3>1. PICK v \in Values : Change(Append(input, v))
      BY <2>6 DEF Push
    <3>2. Append(input, v) \in Seq(AnyItem)
      BY <2>4
    <3>3. QED
      BY <3>1, <3>2, ChangeKept
  <2>7. CASE Pop
    <3>1. Change(Front(input)) /\ input # <<>>
      BY <2>7 DEF Pop
    <3>2. Front(input) \in Seq(AnyItem)
      BY <2>4, <3>1 DEF Front
    <3>3. QED
      BY <3>1, <3>2, ChangeKept
  <2>8. CASE UNCHANGED vars
    BY <2>8 DEF vars, schema, caller, SequenceInv, TypeInv, LengthInv, LengthIssues, OutputInv,
                TypedAt, RecordInv, Entered, Present, ListInv
  <2>9. QED
    BY <2>1, <2>2, <2>3, <2>5, <2>6, <2>7, <2>8 DEF Next
<1>3. QED
  BY <1>1, <1>2, PTL DEF Spec

-----------------------------------------------------------------------------
(* Theorems. *)

\* Every item of a successful output is one that its schema accepted, a record has
\* the entries it had at the call, arrays and tuples keep their length, and no parse
\* throws unless the caller changed the length (parseBaseAsync).
THEOREM ItemsValidated == Spec => []ItemsAreValidated
<1>1. SequenceInv => ItemsAreValidated
  <2> SUFFICES ASSUME SequenceInv PROVE ItemsAreValidated
    OBVIOUS
  <2> USE DEF SequenceInv
  <2>1. ASSUME Succeeded
        PROVE  /\ \A p \in DOMAIN output : output[p] \in TypedAt(p)
               /\ kind = "record" => output = [p \in Present |-> given[p]] /\ Present \subseteq Keys
               /\ kind # "record" /\ ~resized => Cardinality(DOMAIN output) = Len(given)
               /\ kind = "array" /\ ~resized => Len(given) \in Least..Most
    <3>1. stage = "done" /\ issues = <<>> /\ Len(given) \in Nat
      BY <2>1 DEF Succeeded, TypeInv
    <3>2. ASSUME kind = "record"
          PROVE  output = [p \in Present |-> given[p]] /\ Present \subseteq Keys
      <4>1. PICK n \in Nat : Entered(n) /\ \A q \in Present : q < n
        BY <3>1, <3>2 DEF RecordInv
      <4>2. {q \in Present : q < n} = Present
        BY <4>1
      <4>3. QED
        BY <4>1, <4>2 DEF Entered
    <3>3. ASSUME kind # "record", ~resized PROVE Cardinality(DOMAIN output) = Len(given)
      <4>1. DOMAIN output = 1 .. Len(given)
        BY <3>1, <3>3 DEF ListInv
      <4>2. Cardinality(1 .. Len(given)) = IF 1 > Len(given) THEN 0 ELSE Len(given) - 1 + 1
        BY <3>1, FS_Interval
      <4>3. QED
        BY <3>1, <4>1, <4>2
    <3>4. ASSUME kind = "array" PROVE Len(given) \in Least..Most
      <4>1. LengthIssues(Len(given)) = <<>>
        BY <3>1 DEF LengthInv
      <4>2. Note("too_small", 0) # <<>> /\ Note("too_large", 0) # <<>>
        BY DEF Note
      <4>3. ~(Len(given) < Least) /\ ~(Len(given) > Most)
        BY <3>4, <4>1, <4>2 DEF LengthIssues
      <4>4. Least \in Nat /\ Most \in Nat
        BY SequenceAssumption
      <4>5. QED
        BY <3>1, <4>3, <4>4
    <3>5. QED
      BY <3>2, <3>3, <3>4 DEF OutputInv
  <2>2. stage = "thrown" => kind = "tuple" /\ resized /\ pos > Arity
    BY DEF RecordInv, ListInv
  <2>3. QED
    BY <2>1, <2>2 DEF ItemsAreValidated
<1>2. QED
  BY <1>1, Inductive, PTL

-----------------------------------------------------------------------------
(* The synchronous loop. *)

Start == [issues |-> LengthIssues(Len(given)), warnings |-> <<>>, output |-> <<>>]

\* What the loop over the first n positions holds after each.
Loop(n, f) ==
  f = [p \in 0..n |-> IF p = 0 THEN Start
                      ELSE IF p \in Present THEN Parsed(f[p - 1], p) ELSE f[p - 1]]

\* There is such a loop (well-founded induction over its length).
LEMMA LoopExists ==
  ASSUME Len(given) \in Nat
  PROVE  Loop(Len(given), SyncLoop)
<1> DEFINE Missing == {n \in Nat : ~\E f : Loop(n, f)}
<1>1. Missing = {}
  <2> SUFFICES ASSUME Missing # {} PROVE FALSE
    OBVIOUS
  <2>1. PICK n \in Missing : \A k \in Missing : n <= k
    <3>1. Missing \in SUBSET Nat
      OBVIOUS
    <3> HIDE DEF Missing
    <3>2. QED
      BY <3>1, FirstPosition
  <2>2. n \in Nat /\ ~\E f : Loop(n, f)
    OBVIOUS
  <2>3. CASE n = 0
    <3>1. Loop(0, [p \in 0..0 |-> Start])
      BY DEF Loop
    <3>2. QED
      BY <2>2, <2>3, <3>1
  <2>4. CASE n # 0
    <3>1. n - 1 \in Nat /\ n - 1 \notin Missing
      BY <2>1, <2>2, <2>4
    <3>2. PICK f : Loop(n - 1, f)
      BY <3>1
    <3> DEFINE last == IF n \in Present THEN Parsed(f[n - 1], n) ELSE f[n - 1]
               g == [p \in 0..n |-> IF p = n THEN last ELSE f[p]]
    <3>3. \A p \in 0..n - 1 : f[p] = IF p = 0 THEN Start
                                    ELSE IF p \in Present THEN Parsed(f[p - 1], p) ELSE f[p - 1]
      BY <3>2 DEF Loop
    <3>4. \A p \in 0..n : p # n => p \in 0..n - 1 /\ g[p] = f[p] /\ p # n + 1
      BY <2>2
    <3>5. g[n - 1] = f[n - 1] /\ g[n] = last /\ n \in 0..n
      BY <2>2, <3>1
    <3> HIDE DEF last
    <3>6. ASSUME NEW p \in 0..n
          PROVE  g[p] = IF p = 0 THEN Start
                        ELSE IF p \in Present THEN Parsed(g[p - 1], p) ELSE g[p - 1]
      <4>1. CASE p = n
        BY <2>4, <3>5, <4>1 DEF last
      <4>2. CASE p # n
        <5>1. p # 0 => p - 1 \in 0..n /\ p - 1 # n
          BY <2>2, <4>2
        <5>2. p # 0 => g[p - 1] = f[p - 1]
          BY <3>4, <5>1
        <5>3. p \in 0..n - 1 /\ g[p] = f[p]
          BY <3>4, <4>2
        <5> HIDE DEF g
        <5>4. QED
          BY <3>3, <5>2, <5>3
      <4>3. QED
        BY <4>1, <4>2
    <3>7. g = [p \in 0..n |-> g[p]]
      OBVIOUS
    <3> HIDE DEF g
    <3>8. g = [p \in 0..n |-> IF p = 0 THEN Start
                              ELSE IF p \in Present THEN Parsed(g[p - 1], p) ELSE g[p - 1]]
      BY <3>6, <3>7
    <3>9. QED
      BY <2>2, <3>8 DEF Loop
  <2>5. QED
    BY <2>3, <2>4
<1>2. PICK f : Loop(Len(given), f)
  BY <1>1
<1>3. SyncLoop = CHOOSE g : Loop(Len(given), g)
  BY DEF SyncLoop, Loop, Start
<1>4. QED
  BY <1>2, <1>3

\* The loop, read at a position.
LEMMA LoopSteps ==
  ASSUME Len(given) \in Nat
  PROVE  /\ SyncLoop[0] = Start
         /\ \A p \in 1..Len(given) :
              SyncLoop[p] = IF p \in Present THEN Parsed(SyncLoop[p - 1], p) ELSE SyncLoop[p - 1]
<1>1. \A p \in 0..Len(given) :
        SyncLoop[p] = IF p = 0 THEN Start
                      ELSE IF p \in Present THEN Parsed(SyncLoop[p - 1], p) ELSE SyncLoop[p - 1]
  BY LoopExists DEF Loop
<1>2. QED
  BY <1>1

\* Positions that are absent change nothing.
LEMMA LoopRests ==
  ASSUME Len(given) \in Nat, NEW p \in 0..Len(given), NEW n \in p..Len(given),
         \A q \in Present : q <= p \/ q > n
  PROVE  SyncLoop[n] = SyncLoop[p]
<1> DEFINE Moved == {k \in p..n : SyncLoop[k] # SyncLoop[p]}
<1>1. Moved = {}
  <2> SUFFICES ASSUME Moved # {} PROVE FALSE
    OBVIOUS
  <2>1. PICK k \in Moved : \A j \in Moved : k <= j
    <3>1. Moved \in SUBSET Nat
      OBVIOUS
    <3> HIDE DEF Moved
    <3>2. QED
      BY <3>1, FirstPosition
  <2>2. k \in p..n /\ SyncLoop[k] # SyncLoop[p]
    OBVIOUS
  <2>3. k - 1 \in p..n /\ k - 1 \notin Moved
    BY <2>1, <2>2
  <2>4. k \in 1..Len(given) /\ k \notin Present
    BY <2>2, <2>3
  <2>5. SyncLoop[k] = SyncLoop[k - 1]
    BY <2>4, LoopSteps
  <2>6. QED
    BY <2>2, <2>3, <2>5
<1>2. QED
  BY <1>1

-----------------------------------------------------------------------------
(* Agreement. *)

\* What the asynchronous parse has gathered is what the loop holds, and the issues of
\* the key of an entry while its value is parsed.
Gathers(so_far) ==
  /\ issues = IF kind = "record" /\ stage = "item" THEN so_far.issues \o KeyIssues(pos)
              ELSE so_far.issues
  /\ warnings = so_far.warnings
  /\ output = so_far.output

\* How far the loop goes.
LastPosition == IF kind = "tuple" /\ Len(given) # Arity THEN 0 ELSE Len(given)

\* Of an input that is left alone: what is gathered is what the synchronous loop
\* holds at the same place.
AgreeInv ==
  /\ changes \in Nat
  /\ stage = "idle" => warnings = <<>> /\ output = <<>>
  /\ changes = 0 /\ Dense =>
       /\ input = given
       /\ stage \in {"key", "item"} =>
            pos \in Present /\ value = given[pos] /\ Gathers(SyncLoop[pos - 1])
       /\ stage = "done" => Gathers(SyncLoop[LastPosition])

\* The loop is over the input as it was given, whatever happens to it.
LEMMA LoopStands ==
  ASSUME UNCHANGED <<kind, given>>
  PROVE  /\ SyncLoop' = SyncLoop /\ Present' = Present /\ Dense' = Dense
         /\ LastPosition' = LastPosition
         /\ \A p : KeyIssues(p)' = KeyIssues(p)
  BY DEF Present, SyncLoop, Dense, Parsed, LengthIssues, KeyIssues, ItemIssues, ItemWarnings,
         Emitted, TypedAt, Place, LastPosition

\* Going on from position p, in agreement with the loop there.
LEMMA OnwardAgrees ==
  ASSUME TypeInv, NEW p \in 0..Len(given), Advance(p), UNCHANGED <<kind, given, input, changes>>,
         changes = 0, Dense, input = given,
         kind = "tuple" => Len(given) = Arity,
         issues' = SyncLoop[p].issues, warnings' = SyncLoop[p].warnings,
         output' = SyncLoop[p].output
  PROVE  AgreeInv'
<1> USE DEF TypeInv
<1>1. /\ Len(given) \in Nat /\ Present \subseteq 1..Len(given)
      /\ kind # "record" => Present = 1..Len(given)
  BY DEF Present, Dense
<1>2. /\ SyncLoop' = SyncLoop /\ Present' = Present /\ Dense' = Dense
      /\ LastPosition' = LastPosition
      /\ changes' = 0 /\ input' = given /\ given' = given /\ kind' = kind
  BY LoopStands
<1>3. CASE (\A q \in Present : q <= p) /\ stage' = "done"
  <2>1. SyncLoop[Len(given)] = SyncLoop[p]
    BY <1>1, <1>3, LoopRests
  <2>2. LastPosition = Len(given)
    BY DEF LastPosition
  <2>3. QED
    BY <1>2, <1>3, <2>1, <2>2 DEF AgreeInv, Gathers
<1>4. ASSUME NEW n \in Present, n > p, \A q \in Present : q <= p \/ n <= q,
             pos' = n, value' = given[n], stage' = IF kind = "record" THEN "key" ELSE "item"
      PROVE  AgreeInv'
  <2>1. n - 1 \in p..Len(given)
    BY <1>1, <1>4
  <2>2. \A q \in Present : q <= p \/ q > n - 1
    BY <1>1, <1>4
  <2>3. SyncLoop[n - 1] = SyncLoop[p]
    BY <1>1, <2>1, <2>2, LoopRests
  <2>4. Gathers(SyncLoop[n - 1])'
    BY <1>2, <1>4, <2>3 DEF Gathers
  <2>5. QED
    BY <1>2, <1>4, <2>4 DEF AgreeInv
<1>5. CASE kind = "record"
  BY <1>3, <1>4, <1>5, AdvanceFacts
<1>6. CASE kind # "record"
  <2>1. CASE Len(input) <= p /\ stage' = "done"
    BY <1>1, <1>3, <2>1
  <2>2. CASE /\ p < Len(input) /\ pos' = p + 1
             /\ stage' = IF kind = "tuple" /\ p + 1 > Arity THEN "thrown" ELSE "item"
    <3>1. p + 1 \in Present /\ stage' = "item"
      BY <1>1, <1>6, <2>2
    <3>2. value' = given[p + 1]
      <4>1. p + 1 \in Ahead(p)
        BY <1>1, <1>6, <2>2 DEF Ahead
      <4>2. value' = ReadAt(Min(Ahead(p))) /\ pos' = Min(Ahead(p))
        BY <4>1 DEF Advance
      <4>3. QED
        BY <1>6, <2>2, <3>1, <4>2 DEF ReadAt, Present
    <3>3. \A q \in Present : q <= p \/ p + 1 <= q
      BY <1>1
    <3>4. QED
      BY <1>4, <1>6, <2>2, <3>1, <3>2, <3>3
  <2>3. QED
    BY <1>6, <2>1, <2>2, AdvanceFacts
<1>7. QED
  BY <1>5, <1>6

\* The parse and the loop begin alike.
LEMMA CallAgrees ==
  ASSUME SequenceInv, AgreeInv, Call
  PROVE  AgreeInv'
<1>1. /\ stage = "idle" /\ issues' = LengthIssues(Len(input))
      /\ UNCHANGED <<kind, given, input, changes, output, warnings>>
      /\ warnings = <<>> /\ output = <<>> /\ changes \in Nat
      /\ TypeInv /\ Len(given) \in Nat
  BY DEF Call, schema, caller, AgreeInv, SequenceInv, TypeInv
<1>2. SyncLoop[0] = Start
  BY <1>1, LoopSteps
<1>3. /\ SyncLoop' = SyncLoop /\ Dense' = Dense /\ LastPosition' = LastPosition
  BY <1>1, LoopStands
<1>4. stage' # "idle"
  <2>1. CASE kind = "tuple" /\ issues' # <<>>
    BY <2>1 DEF Call
  <2>2. CASE Advance(0)
    BY <1>1, <2>2, AdvanceFacts
  <2>3. QED
    BY <2>1, <2>2 DEF Call
<1>5. CASE ~(changes = 0 /\ Dense)
  BY <1>1, <1>3, <1>4, <1>5 DEF AgreeInv
<1>6. CASE changes = 0 /\ Dense
  <2>1. input = given
    BY <1>6 DEF AgreeInv
  <2>2. /\ issues' = SyncLoop[0].issues /\ warnings' = SyncLoop[0].warnings
        /\ output' = SyncLoop[0].output
    BY <1>1, <1>2, <2>1 DEF Start
  <2>3. kind = "tuple" /\ Len(given) # Arity <=> kind = "tuple" /\ issues' # <<>>
    <3>1. CASE kind = "tuple" /\ Len(given) # Arity
      BY <1>1, <2>1, <3>1 DEF LengthIssues, Note
    <3>2. CASE kind = "tuple" /\ Len(given) = Arity
      BY <1>1, <2>1, <3>2 DEF LengthIssues
    <3>3. QED
      BY <3>1, <3>2
  <2>4. CASE kind = "tuple" /\ issues' # <<>>
    <3>1. stage' = "done" /\ LastPosition = 0
      BY <2>3, <2>4 DEF Call, LastPosition
    <3>2. QED
      BY <1>1, <1>3, <2>1, <2>2, <3>1 DEF AgreeInv, Gathers
  <2>5. CASE ~(kind = "tuple" /\ issues' # <<>>)
    <3>1. Advance(0) /\ 0 \in 0..Len(given)
      BY <1>1, <2>5 DEF Call
    <3>2. QED
      BY <1>1, <1>6, <2>1, <2>2, <2>3, <2>5, <3>1, OnwardAgrees
  <2>6. QED
    BY <2>4, <2>5
<1>7. QED
  BY <1>5, <1>6

\* The key of an entry has been parsed.
LEMMA KeyAgrees ==
  ASSUME SequenceInv, AgreeInv, KeySettles
  PROVE  AgreeInv'
<1>1. /\ stage = "key" /\ stage' = "item" /\ issues' = issues \o KeyIssues(pos)
      /\ UNCHANGED <<kind, given, input, changes, pos, value, output, warnings>>
      /\ kind = "record"
  BY DEF KeySettles, schema, caller, SequenceInv, ListInv
<1>2. /\ SyncLoop' = SyncLoop /\ Dense' = Dense /\ Present' = Present
  BY <1>1, LoopStands
<1>3. KeyIssues(pos)' = KeyIssues(pos)
  BY <1>1 DEF KeyIssues
<1>4. QED
  BY <1>1, <1>2, <1>3 DEF AgreeInv, Gathers

\* The value of an entry, or an item, has been parsed: both have the position behind
\* them.
LEMMA ItemAgrees ==
  ASSUME SequenceInv, AgreeInv, ItemSettles
  PROVE  AgreeInv'
<1>1. /\ stage = "item" /\ issues' = issues \o ItemIssues(pos, value)
      /\ warnings' = warnings \o ItemWarnings(pos, value)
      /\ output' = Emitted(pos, value, output) /\ Advance(pos)
      /\ UNCHANGED <<kind, given, input, changes>>
      /\ changes \in Nat /\ TypeInv /\ Len(given) \in Nat
  BY DEF ItemSettles, schema, caller, AgreeInv, SequenceInv, TypeInv
<1>2. /\ SyncLoop' = SyncLoop /\ Dense' = Dense
  BY <1>1, LoopStands
<1>3. stage' # "idle"
  BY <1>1, AdvanceFacts DEF TypeInv
<1>4. CASE ~(changes = 0 /\ Dense)
  BY <1>1, <1>2, <1>3, <1>4 DEF AgreeInv
<1>5. CASE changes = 0 /\ Dense
  <2>1. PICK n \in 1..Len(given) : n = pos
    BY <1>1, <1>5 DEF AgreeInv, Present
  <2>2. /\ input = given /\ n \in Present /\ value = given[n]
        /\ Gathers(SyncLoop[n - 1])
    BY <1>1, <1>5, <2>1 DEF AgreeInv
  <2> DEFINE so_far == SyncLoop[n - 1]
  <2>3. SyncLoop[n] = Parsed(so_far, n)
    BY <1>1, <2>2, LoopSteps
  <2> HIDE DEF so_far
  <2>4. /\ warnings' = SyncLoop[n].warnings /\ output' = SyncLoop[n].output
        /\ SyncLoop[n].issues = so_far.issues \o KeyIssues(n) \o ItemIssues(n, given[n])
    <3>1. /\ SyncLoop[n].issues = so_far.issues \o KeyIssues(n) \o ItemIssues(n, given[n])
          /\ SyncLoop[n].warnings = so_far.warnings \o ItemWarnings(n, given[n])
          /\ SyncLoop[n].output = Emitted(n, given[n], so_far.output)
      <4> DEFINE k == so_far.issues \o KeyIssues(n) \o ItemIssues(n, given[n])
                 w == so_far.warnings \o ItemWarnings(n, given[n])
                 o == Emitted(n, given[n], so_far.output)
      <4>1. SyncLoop[n] = [issues |-> k, warnings |-> w, output |-> o]
        BY <2>3, Zenon DEF Parsed
      <4> HIDE DEF k, w, o
      <4>2. SyncLoop[n].issues = k /\ SyncLoop[n].warnings = w /\ SyncLoop[n].output = o
        BY <4>1
      <4>3. QED
        BY <4>2 DEF k, w, o
    <3>2. warnings = so_far.warnings /\ output = so_far.output
      BY <2>2 DEF Gathers, so_far
    <3>3. QED
      BY <1>1, <2>1, <2>2, <3>1, <3>2
  <2>5. issues' = SyncLoop[n].issues
    <3>1. CASE kind = "record"
      BY <1>1, <2>1, <2>2, <2>4, <3>1 DEF Gathers, so_far
    <3>2. CASE kind # "record"
      <4>1. issues = so_far.issues /\ KeyIssues(n) = <<>> /\ issues \in Seq(Findings)
        BY <1>1, <2>2, <3>2 DEF Gathers, KeyIssues, TypeInv, so_far
      <4>2. issues \o <<>> = issues
        BY <4>1
      <4>3. QED
        BY <1>1, <2>1, <2>2, <2>4, <4>1, <4>2
    <3>3. QED
      BY <3>1, <3>2
  <2>6. kind = "tuple" => Len(given) = Arity
    BY <1>1 DEF SequenceInv, LengthInv
  <2>7. n \in 0..Len(given) /\ Advance(n)
    BY <1>1, <2>1
  <2>8. QED
    BY <1>1, <1>5, <2>2, <2>4, <2>5, <2>6, <2>7, OnwardAgrees
<1>6. QED
  BY <1>4, <1>5

\* An input that is changed is no longer left alone.
LEMMA ChangeAgrees ==
  ASSUME AgreeInv, NEW next, Change(next)
  PROVE  AgreeInv'
<1>1. changes' = changes + 1 /\ changes \in Nat /\ stage' = stage /\ stage # "idle"
  BY DEF Change, AgreeInv
<1>2. changes' \in Nat /\ changes' # 0
  BY <1>1
<1>3. QED
  BY <1>1, <1>2 DEF AgreeInv

\* The agreement holds initially, and is kept.
LEMMA Agreeing == Spec => []AgreeInv
<1>1. Init => AgreeInv
  BY DEF Init, AgreeInv
<1>2. SequenceInv /\ AgreeInv /\ [Next]_vars => AgreeInv'
  <2> SUFFICES ASSUME SequenceInv, AgreeInv, [Next]_vars PROVE AgreeInv'
    OBVIOUS
  <2>1. CASE Call \/ KeySettles \/ ItemSettles
    BY <2>1, CallAgrees, KeyAgrees, ItemAgrees
  <2>2. ASSUME Replace \/ Push \/ Pop PROVE \E next : Change(next)
    BY <2>2 DEF Replace, Push, Pop
  <2>3. CASE Replace \/ Push \/ Pop
    BY <2>2, <2>3, ChangeAgrees
  <2>4. CASE UNCHANGED vars
    <3>1. UNCHANGED <<kind, given, input, changes, pos, value, output, issues, warnings, stage>>
      BY <2>4 DEF vars, schema, caller
    <3>2. /\ SyncLoop' = SyncLoop /\ Dense' = Dense /\ Present' = Present
          /\ LastPosition' = LastPosition
      BY <3>1, LoopStands
    <3>3. KeyIssues(pos)' = KeyIssues(pos)
      BY <3>1 DEF KeyIssues
    <3>4. QED
      BY <3>1, <3>2, <3>3 DEF AgreeInv, Gathers
  <2>5. QED
    BY <2>1, <2>3, <2>4 DEF Next
<1>3. QED
  BY <1>1, <1>2, Inductive, PTL DEF Spec

\* Of an input that is left alone, and has no holes unless it is a record, the
\* asynchronous parse reports what the synchronous one does: the same diagnostics in
\* the same order, and the same data (parseBaseAsync and parseBase).
THEOREM AgreesWithSync == Spec => []SequenceAgreesWithSync
<1>1. AgreeInv => SequenceAgreesWithSync
  <2> SUFFICES ASSUME AgreeInv, stage = "done", changes = 0, Dense
               PROVE  [issues |-> issues, warnings |-> warnings,
                       data |-> IF issues = <<>> THEN output ELSE <<>>] = SyncParse
    BY DEF SequenceAgreesWithSync
  <2> DEFINE end == SyncLoop[LastPosition]
  <2>1. issues = end.issues /\ warnings = end.warnings /\ output = end.output
    BY DEF AgreeInv, Gathers
  <2>2. SyncParse = [issues |-> end.issues, warnings |-> end.warnings,
                     data |-> IF end.issues = <<>> THEN end.output ELSE <<>>]
    BY DEF SyncParse, LastPosition
  <2> HIDE DEF end
  <2>3. QED
    BY <2>1, <2>2
<1>2. QED
  BY <1>1, Agreeing, PTL

-----------------------------------------------------------------------------
(* Bounds. *)

\* The output of an array has no gap, and is not longer than what was read.
BoundInv ==
  /\ TypeOK
  /\ stage = "idle" => pos = 0
  /\ stage \in {"key", "item"} => pos \in Positions
  /\ stage = "key" => kind = "record"
  /\ kind = "array" => \E n \in Nat : DOMAIN output = 1..n /\ n <= pos /\ (stage = "item" => n < pos)

\* An input is a sequence that is not too long.
LEMMA InputsAre ==
  \A s : s \in Inputs <=> s \in Seq(Values \cup {Hole}) /\ Len(s) <= MaxLength
<1>1. MaxLength \in Nat
  BY SequenceAssumption
<1>2. ASSUME NEW s \in Inputs PROVE s \in Seq(Values \cup {Hole}) /\ Len(s) <= MaxLength
  <2>1. PICK n \in 0..MaxLength : s \in [1..n -> Values \cup {Hole}]
    BY <1>2 DEF Inputs
  <2> QED
    BY <1>1, <2>1
<1>3. ASSUME NEW s \in Seq(Values \cup {Hole}), Len(s) <= MaxLength PROVE s \in Inputs
  <2>1. Len(s) \in 0..MaxLength /\ s \in [1..Len(s) -> Values \cup {Hole}]
    BY <1>1, <1>3
  <2> QED
    BY <2>1 DEF Inputs
<1> QED
  BY <1>2, <1>3

\* An output is a function on some positions.
LEMMA OutputsAre ==
  \A f : f \in UNION {[at -> Values] : at \in SUBSET Positions}
           <=> f \in [DOMAIN f -> Values] /\ DOMAIN f \subseteq Positions
  OBVIOUS

\* One diagnostic.
LEMMA NoteTyped ==
  ASSUME NEW p \in 0..MaxLength
  PROVE  /\ KeyIssues(p) \in Seq(Diagnostics)
         /\ \A v : ItemIssues(p, v) \in Seq(Diagnostics) /\ ItemWarnings(p, v) \in Seq(Diagnostics)
         /\ \A length : LengthIssues(length) \in Seq(Diagnostics)
<1>1. 0 \in 0..MaxLength
  BY SequenceAssumption
<1>2. ASSUME NEW code \in {"too_small", "too_large", "invalid_tuple_length", "key", "item", "noted"},
             NEW at \in 0..MaxLength
      PROVE  Note(code, at) \in Seq(Diagnostics)
  <2>1. [code |-> code, at |-> at] \in Diagnostics
    BY DEF Diagnostics
  <2> QED
    BY <2>1 DEF Note
<1>3. <<>> \in Seq(Diagnostics)
  OBVIOUS
<1>4. ASSUME NEW length PROVE LengthIssues(length) \in Seq(Diagnostics)
  <2>1. LengthIssues(length) \in {Note("too_small", 0), Note("too_large", 0), Note("invalid_tuple_length", 0), <<>>}
    BY Zenon DEF LengthIssues
  <2>2. /\ Note("too_small", 0) \in Seq(Diagnostics) /\ Note("too_large", 0) \in Seq(Diagnostics)
        /\ Note("invalid_tuple_length", 0) \in Seq(Diagnostics)
    BY <1>1, <1>2
  <2> QED
    BY <1>3, <2>1, <2>2
<1>5. KeyIssues(p) \in Seq(Diagnostics)
  <2>1. Note("key", p) \in Seq(Diagnostics)
    BY <1>2
  <2> QED
    BY <1>3, <2>1 DEF KeyIssues
<1>6. ASSUME NEW v PROVE ItemIssues(p, v) \in Seq(Diagnostics) /\ ItemWarnings(p, v) \in Seq(Diagnostics)
  <2>1. Note("item", p) \in Seq(Diagnostics) /\ Note("noted", p) \in Seq(Diagnostics)
    BY <1>2
  <2> QED
    BY <1>3, <2>1 DEF ItemIssues, ItemWarnings
<1> QED
  BY <1>4, <1>5, <1>6

\* Diagnostics are added to diagnostics.
LEMMA Added == ASSUME NEW S, NEW s \in Seq(S), NEW t \in Seq(S) PROVE s \o t \in Seq(S)
  OBVIOUS

\* Where the loop goes on, within the bounds.
LEMMA AdvanceBounded ==
  ASSUME TypeOK, NEW p \in 0..MaxLength, Advance(p)
  PROVE  /\ value' \in Values /\ stage' \in Stages \ {"idle"}
         /\ stage' = "key" => kind = "record"
         /\ \/ stage' = "done" /\ pos' = pos
            \/ pos' \in Positions /\ pos' > p
<1>1. /\ given \in Seq(Values \cup {Hole}) /\ Len(given) <= MaxLength
      /\ input \in Seq(Values \cup {Hole}) /\ Len(input) <= MaxLength
      /\ MaxLength \in Nat /\ Undefined \in Values
  BY InputsAre, SequenceAssumption DEF TypeOK
<1>2. CASE Ahead(p) = {}
  BY <1>2 DEF Advance, TypeOK, Stages
<1>3. CASE Ahead(p) # {}
  <2>1. \A q \in Ahead(p) : q \in Positions /\ q > p /\ ReadAt(q) \in Values
    <3>1. CASE kind = "record"
      BY <1>1, <3>1 DEF Ahead, Present, ReadAt, Positions
    <3>2. CASE kind # "record"
      BY <1>1, <3>2 DEF Ahead, ReadAt, Positions
    <3> QED
      BY <3>1, <3>2
  <2>2. Ahead(p) \in SUBSET Nat
    BY <1>1, <2>1 DEF Positions
  <2>3. PICK n \in Ahead(p) : n = Min(Ahead(p))
    BY <1>3, <2>2, FirstPosition
  <2>4. /\ pos' = n /\ value' = ReadAt(n)
        /\ stage' = CASE kind = "record" -> "key"
                      [] kind = "tuple" /\ n > Arity -> "thrown"
                      [] OTHER -> "item"
    BY <1>3, <2>3 DEF Advance
  <2>5. stage' \in {"key", "thrown", "item"} /\ (stage' = "key" => kind = "record")
    BY <2>4
  <2> QED
    BY <2>1, <2>4, <2>5 DEF Stages
<1> QED
  BY <1>2, <1>3

\* What the parse of an item puts into the output.
LEMMA EmittedBounded ==
  ASSUME BoundInv, stage = "item"
  PROVE  /\ Emitted(pos, value, output) \in UNION {[at -> Values] : at \in SUBSET Positions}
         /\ kind = "array" => \E n \in Nat : DOMAIN Emitted(pos, value, output) = 1..n /\ n <= pos
<1>1. pos \in Positions /\ value \in Values /\ MaxLength \in Nat /\ pos \in Nat
      /\ output \in [DOMAIN output -> Values] /\ DOMAIN output \subseteq Positions
  <2>1. pos \in Positions /\ value \in Values /\ MaxLength \in Nat
        /\ output \in UNION {[at -> Values] : at \in SUBSET Positions}
    BY SequenceAssumption DEF BoundInv, TypeOK
  <2> QED
    BY <2>1, OutputsAre DEF Positions
<1> DEFINE place == Place(pos, output)
           larger == [at \in DOMAIN output \cup {place} |-> IF at = place THEN value ELSE output[at]]
<1>2. Emitted(pos, value, output) = IF value \notin TypedAt(pos) THEN output ELSE larger
  BY DEF Emitted
<1>3. ASSUME kind = "array"
      PROVE  \E n \in Nat : DOMAIN output = 1..n /\ n < pos /\ place = n + 1
  <2>1. PICK n \in Nat : DOMAIN output = 1..n /\ n < pos
    BY <1>3 DEF BoundInv
  <2>2. Cardinality(DOMAIN output) = n
    BY <2>1, FS_Interval
  <2> QED
    BY <1>3, <2>1, <2>2 DEF Place
<1>4. place \in Positions
  <2>1. CASE kind = "array"
    BY <1>1, <1>3, <2>1 DEF Positions
  <2>2. CASE kind # "array"
    BY <1>1, <2>2 DEF Place
  <2> QED
    BY <2>1, <2>2
<1> HIDE DEF place
<1>5. larger \in [DOMAIN output \cup {place} -> Values] /\ DOMAIN output \cup {place} \subseteq Positions
  BY <1>1, <1>4
<1>6. DOMAIN larger = DOMAIN output \cup {place} /\ larger \in [DOMAIN larger -> Values]
  BY <1>5
<1> HIDE DEF larger
<1>7. Emitted(pos, value, output) \in UNION {[at -> Values] : at \in SUBSET Positions}
  BY <1>1, <1>2, <1>5, <1>6, OutputsAre
<1>8. ASSUME kind = "array"
      PROVE  \E n \in Nat : DOMAIN Emitted(pos, value, output) = 1..n /\ n <= pos
  <2>1. PICK n \in Nat : DOMAIN output = 1..n /\ n < pos /\ place = n + 1
    BY <1>3, <1>8
  <2>2. n + 1 \in Nat /\ n + 1 <= pos /\ 1..n + 1 = 1..n \cup {n + 1} /\ n <= pos
    BY <1>1, <2>1
  <2> QED
    BY <1>2, <1>6, <2>1, <2>2
<1> QED
  BY <1>7, <1>8

\* A step of the parse.
LEMMA ParseBounded ==
  ASSUME BoundInv, Call \/ KeySettles \/ ItemSettles
  PROVE  BoundInv'
<1>1. /\ TypeOK /\ issues \in Seq(Diagnostics) /\ warnings \in Seq(Diagnostics) /\ MaxLength \in Nat
      /\ pos \in 0..MaxLength + 1
  BY SequenceAssumption DEF BoundInv, TypeOK
<1>2. CASE Call
  <2>1. /\ stage = "idle" /\ issues' = LengthIssues(Len(input))
        /\ UNCHANGED <<kind, given, input, changes, resized, output, warnings>>
        /\ \/ stage' = "done" /\ UNCHANGED <<pos, value>>
           \/ Advance(0)
        /\ 0 \in 0..MaxLength
    BY <1>1, <1>2 DEF Call, schema, caller
  <2>2. issues' \in Seq(Diagnostics)
    BY <2>1, NoteTyped
  <2>3. /\ value' \in Values /\ stage' \in Stages \ {"idle"} /\ (stage' = "key" => kind = "record")
        /\ \/ stage' = "done" /\ pos' = pos
           \/ pos' \in Positions /\ pos' > 0
    BY <1>1, <2>1, AdvanceBounded DEF TypeOK, Stages
  <2>4. TypeOK'
    BY <1>1, <2>1, <2>2, <2>3 DEF TypeOK, Positions
  <2>5. kind = "array" => \E n \in Nat : DOMAIN output = 1..n /\ n <= pos' /\ (stage' = "item" => n < pos')
    <3> SUFFICES ASSUME kind = "array"
                 PROVE  \E n \in Nat : DOMAIN output = 1..n /\ n <= pos' /\ (stage' = "item" => n < pos')
      OBVIOUS
    <3>1. PICK n \in Nat : DOMAIN output = 1..n /\ n <= pos
      BY DEF BoundInv
    <3>2. stage = "idle" => pos = 0
      BY DEF BoundInv
    <3>3. n = 0
      BY <2>1, <3>1, <3>2
    <3>4. 0 <= pos' /\ (stage' = "item" => 0 < pos')
      BY <1>1, <2>1, <2>3, <3>2 DEF Positions
    <3> QED
      BY <2>1, <3>1, <3>3, <3>4
  <2> QED
    BY <2>1, <2>3, <2>4, <2>5 DEF BoundInv
<1>3. CASE KeySettles
  <2>1. /\ stage = "key" /\ stage' = "item" /\ issues' = issues \o KeyIssues(pos)
        /\ UNCHANGED <<kind, given, input, changes, resized, pos, value, output, warnings>>
        /\ pos \in Positions /\ pos \in 0..MaxLength
    BY <1>1, <1>3 DEF KeySettles, schema, caller, BoundInv, Positions
  <2>2. issues' \in Seq(Diagnostics)
    BY <1>1, <2>1, NoteTyped, Added
  <2>3. TypeOK'
    BY <1>1, <2>1, <2>2 DEF TypeOK, Stages
  <2>4. kind = "record"
    BY <2>1 DEF BoundInv
  <2> QED
    BY <2>1, <2>3, <2>4 DEF BoundInv
<1>4. CASE ItemSettles
  <2>1. /\ stage = "item" /\ issues' = issues \o ItemIssues(pos, value)
        /\ warnings' = warnings \o ItemWarnings(pos, value)
        /\ output' = Emitted(pos, value, output) /\ Advance(pos)
        /\ UNCHANGED <<kind, given, input, changes, resized>>
        /\ pos \in Positions /\ pos \in 0..MaxLength
    BY <1>1, <1>4 DEF ItemSettles, schema, caller, BoundInv, Positions
  <2>2. issues' \in Seq(Diagnostics) /\ warnings' \in Seq(Diagnostics)
    BY <1>1, <2>1, NoteTyped, Added
  <2>3. /\ value' \in Values /\ stage' \in Stages \ {"idle"} /\ (stage' = "key" => kind = "record")
        /\ \/ stage' = "done" /\ pos' = pos
           \/ pos' \in Positions /\ pos' > pos
    BY <1>1, <2>1, AdvanceBounded
  <2>4. /\ output' \in UNION {[at -> Values] : at \in SUBSET Positions}
        /\ kind = "array" => \E n \in Nat : DOMAIN output' = 1..n /\ n <= pos
    BY <2>1, EmittedBounded
  <2>5. TypeOK'
    BY <1>1, <2>1, <2>2, <2>3, <2>4 DEF TypeOK, Positions
  <2>6. kind = "array" => \E n \in Nat : DOMAIN output' = 1..n /\ n <= pos' /\ (stage' = "item" => n < pos')
    <3> SUFFICES ASSUME kind = "array"
                 PROVE  \E n \in Nat : DOMAIN output' = 1..n /\ n <= pos' /\ (stage' = "item" => n < pos')
      OBVIOUS
    <3>1. PICK n \in Nat : DOMAIN output' = 1..n /\ n <= pos
      BY <2>4
    <3>2. n <= pos' /\ (stage' = "item" => n < pos')
      BY <1>1, <2>1, <2>3, <3>1 DEF Positions
    <3> QED
      BY <3>1, <3>2
  <2> QED
    BY <2>1, <2>3, <2>5, <2>6 DEF BoundInv
<1> QED
  BY <1>2, <1>3, <1>4

\* What the caller hands in instead is an input too.
LEMMA ChangeBounded ==
  ASSUME BoundInv, NEW next \in Inputs, Change(next)
  PROVE  BoundInv'
<1>1. /\ changes' \in 0..MaxChanges /\ resized' \in BOOLEAN /\ input' = next
      /\ UNCHANGED <<kind, given, pos, value, output, issues, warnings, stage>>
  BY SequenceAssumption DEF Change, schema, BoundInv, TypeOK
<1>2. TypeOK'
  BY <1>1 DEF BoundInv, TypeOK
<1> QED
  BY <1>1, <1>2 DEF BoundInv

\* The bounds hold initially, and are kept.
LEMMA Bounded == Spec => []BoundInv
<1>1. Init => BoundInv
  <2> SUFFICES ASSUME Init PROVE BoundInv
    OBVIOUS
  <2>1. <<>> \in Seq(Diagnostics) /\ 0 \in 0..MaxChanges /\ 0 \in 0..MaxLength + 1 /\ Undefined \in Values
    BY SequenceAssumption
  <2>2. <<>> \in UNION {[at -> Values] : at \in SUBSET Positions}
    <3>1. DOMAIN <<>> = {} /\ <<>> \in [{} -> Values]
      OBVIOUS
    <3> QED
      BY <3>1, OutputsAre
  <2>3. TypeOK
    BY <2>1, <2>2 DEF Init, TypeOK, Stages
  <2>4. DOMAIN output = 1..0 /\ pos = 0 /\ stage = "idle" /\ 0 \in Nat
    BY DEF Init
  <2> QED
    BY <2>3, <2>4 DEF BoundInv
<1>2. BoundInv /\ [Next]_vars => BoundInv'
  <2> SUFFICES ASSUME BoundInv, [Next]_vars PROVE BoundInv'
    OBVIOUS
  <2>1. CASE Call \/ KeySettles \/ ItemSettles
    BY <2>1, ParseBounded
  <2> DEFINE AnyItem == Values \cup {Hole}
  <2>2. input \in Seq(AnyItem) /\ Len(input) <= MaxLength /\ Len(input) \in Nat /\ MaxLength \in Nat
    BY InputsAre, SequenceAssumption DEF BoundInv, TypeOK
  <2>3. CASE Replace
    <3>1. PICK p \in DOMAIN input, v \in AnyItem : Change([input EXCEPT ![p] = v])
      BY <2>3 DEF Replace
    <3>2. [input EXCEPT ![p] = v] \in Seq(AnyItem) /\ Len([input EXCEPT ![p] = v]) = Len(input)
      BY <2>2
    <3>3. [input EXCEPT ![p] = v] \in Inputs
      BY <2>2, <3>2, InputsAre
    <3> QED
      BY <3>1, <3>3, ChangeBounded
  <2>4. CASE Push
    <3>1. Len(input) < MaxLength /\ \E v \in Values : Change(Append(input, v))
      BY <2>4 DEF Push
    <3>2. PICK v \in Values : Change(Append(input, v))
      BY <3>1
    <3>3. Append(input, v) \in Seq(AnyItem) /\ Len(Append(input, v)) = Len(input) + 1
      BY <2>2
    <3>4. Len(Append(input, v)) <= MaxLength
      BY <2>2, <3>1, <3>3
    <3>5. Append(input, v) \in Inputs
      BY <3>3, <3>4, InputsAre
    <3> QED
      BY <3>2, <3>5, ChangeBounded
  <2>5. CASE Pop
    <3>1. Change(Front(input)) /\ input # <<>>
      BY <2>5 DEF Pop
    <3>2. Front(input) \in Seq(AnyItem) /\ Len(Front(input)) <= Len(input)
      BY <2>2, <3>1 DEF Front
    <3>3. Front(input) \in Inputs
      BY <2>2, <3>2, InputsAre
    <3> QED
      BY <3>1, <3>3, ChangeBounded
  <2>6. CASE UNCHANGED vars
    BY <2>6 DEF vars, schema, caller, BoundInv, TypeOK
  <2> QED
    BY <2>1, <2>3, <2>4, <2>5, <2>6 DEF Next
<1> QED
  BY <1>1, <1>2, PTL DEF Spec

\* Every state of the parse is well typed, however the caller changes its input: no
\* position is read, reported or written that an input cannot have.
THEOREM TypeCorrect == Spec => []TypeOK
<1>1. BoundInv => TypeOK
  BY DEF BoundInv
<1> QED
  BY <1>1, Bounded, PTL

-----------------------------------------------------------------------------
(* The lazy graph: a remembered answer about asynchronous rules stays true,   *)
(* whatever graph of schemas there is, whatever getters give and however      *)
(* walks are nested in them, for every schema that reaches no lazy schema     *)
(* whose schema was replaced.                                                 *)

Closed(c) == c \subseteq Schemas /\ \A t \in c : Below(t) \subseteq c

\* What a walk has visited, and what it knows to be ahead.
Covered(c) == c.seen \cup ToSet(c.ahead)

\* Everything a walk comes to is reached from the schema that was asked.
StaysBelow(c) == Covered(c) \subseteq Reachable(c.asked)

\* What it has visited has no rule, no getter still to be asked, and nothing
\* below that would be missed.
LeavesNothing(c) ==
  /\ c.seen \cap rules = {}
  /\ \A s \in c.seen : s \in Lazy => resolved[s] # Nowhere
  /\ \A s \in c.seen : Below(s) \subseteq Covered(c)

\* A schema below which nothing was replaced.
Kept(s) == Reachable(s) \cap replaced = {}

WalkInv(c) == c.asked # Nowhere /\ Kept(c.asked) =>
  c.asked \in Covered(c) /\ StaysBelow(c) /\ LeavesNothing(c)

\* A call that is no walk is in a getter, and a walk that is in one is at a lazy
\* schema without a rule.
CallInv(c) ==
  /\ c.asked = Nowhere => c.called # Nowhere
  /\ c.asked # Nowhere /\ c.called # Nowhere =>
       c.ahead # <<>> /\ c.called = Head(c.ahead) /\ c.called \notin rules

CallsInv == \A c \in ToSet(calls) : CallInv(c) /\ WalkInv(c)

GraphInv == GraphTypeOK /\ CallsInv /\ AnswersStand

-----------------------------------------------------------------------------
(* Sequences. *)

\* What is ahead is the first schema and the rest.
LEMMA HeadAndTail ==
  ASSUME NEW S, NEW q \in Seq(S), q # <<>>
  PROVE  /\ Head(q) \in S /\ Tail(q) \in Seq(S)
         /\ ToSet(q) = {Head(q)} \cup ToSet(Tail(q))
<1>1. Head(q) \in S /\ Tail(q) \in Seq(S)
  OBVIOUS
<1>2. Len(Tail(q)) = Len(q) - 1 /\ \A i \in 1..Len(q) - 1 : Tail(q)[i] = q[i + 1]
  OBVIOUS
<1>3. DOMAIN q = 1..Len(q) /\ DOMAIN Tail(q) = 1..Len(Tail(q)) /\ Len(q) \in Nat \ {0}
  OBVIOUS
<1>4. q[1] = Head(q)
  OBVIOUS
<1>5. ToSet(Tail(q)) = {q[i + 1] : i \in 1..Len(q) - 1}
  BY <1>2, <1>3 DEF ToSet
<1>6. ToSet(q) = {q[i] : i \in 1..Len(q)}
  BY <1>3 DEF ToSet
<1>7. ToSet(q) \subseteq {Head(q)} \cup ToSet(Tail(q))
  <2> SUFFICES ASSUME NEW i \in 1..Len(q), i # 1 PROVE q[i] \in ToSet(Tail(q))
    BY <1>4, <1>6
  <2>1. i - 1 \in 1..Len(q) - 1 /\ q[i] = q[(i - 1) + 1]
    BY <1>3
  <2> QED
    BY <2>1, <1>5
<1>8. {Head(q)} \cup ToSet(Tail(q)) \subseteq ToSet(q)
  <2>1. 1 \in 1..Len(q) /\ \A i \in 1..Len(q) - 1 : i + 1 \in 1..Len(q)
    BY <1>3
  <2> QED
    BY <2>1, <1>4, <1>5, <1>6
<1> QED
  BY <1>1, <1>7, <1>8

\* A concatenation has the elements of both.
LEMMA Concatenated ==
  ASSUME NEW S, NEW p \in Seq(S), NEW q \in Seq(S)
  PROVE  p \o q \in Seq(S) /\ ToSet(p \o q) = ToSet(p) \cup ToSet(q)
<1>1. p \o q \in Seq(S) /\ Len(p \o q) = Len(p) + Len(q) /\ Len(p) \in Nat /\ Len(q) \in Nat
  OBVIOUS
<1>2. \A i \in 1..Len(p) : i \in 1..Len(p \o q) /\ (p \o q)[i] = p[i]
  BY <1>1
<1>3. \A i \in 1..Len(q) : Len(p) + i \in 1..Len(p \o q) /\ (p \o q)[Len(p) + i] = q[i]
  BY <1>1
<1>4. \A i \in 1..Len(p \o q) : i \in 1..Len(p) \/ (i - Len(p) \in 1..Len(q) /\ i = Len(p) + (i - Len(p)))
  BY <1>1
<1>5. /\ ToSet(p) = {p[i] : i \in 1..Len(p)} /\ ToSet(q) = {q[i] : i \in 1..Len(q)}
      /\ ToSet(p \o q) = {(p \o q)[i] : i \in 1..Len(p \o q)}
  BY <1>1 DEF ToSet
<1>6. ToSet(p) \cup ToSet(q) \subseteq ToSet(p \o q)
  BY <1>2, <1>3, <1>5
<1>7. ToSet(p \o q) \subseteq ToSet(p) \cup ToSet(q)
  <2> SUFFICES ASSUME NEW i \in 1..Len(p \o q) PROVE (p \o q)[i] \in ToSet(p) \cup ToSet(q)
    BY <1>5
  <2>1. CASE i \in 1..Len(p)
    BY <2>1, <1>2, <1>5
  <2>2. CASE i - Len(p) \in 1..Len(q) /\ i = Len(p) + (i - Len(p))
    <3> DEFINE j == i - Len(p)
    <3>1. j \in 1..Len(q) /\ (p \o q)[i] = q[j]
      BY <2>2, <1>3
    <3> QED
      BY <3>1, <1>5
  <2> QED
    BY <1>4, <2>1, <2>2
<1> QED
  BY <1>1, <1>6, <1>7

\* A sequence of one schema.
LEMMA Single == ASSUME NEW S, NEW s \in S PROVE <<s>> \in Seq(S) /\ ToSet(<<s>>) = {s}
  BY DEF ToSet

\* A call on top of others is one of them now.
LEMMA Pushed ==
  ASSUME NEW S, NEW c \in S, NEW q \in Seq(S)
  PROVE  <<c>> \o q \in Seq(S) /\ ToSet(<<c>> \o q) = {c} \cup ToSet(q)
<1> DEFINE p == <<c>>
<1>1. p \in Seq(S) /\ ToSet(p) = {c}
  BY Single
<1> HIDE DEF p
<1>2. p \o q \in Seq(S) /\ ToSet(p \o q) = {c} \cup ToSet(q)
  BY <1>1, Concatenated
<1> QED
  BY <1>2 DEF p

\* The parts of a schema are schemas.
LEMMA Parts == ASSUME NEW s, NEW p \in PartsOf(s) PROVE p \in Seq(Schemas)
<1>1. PICK n \in 0..MaxParts : p \in [1..n -> {t \in Schemas : t < s}]
  BY DEF PartsOf
<1>2. n \in Nat
  BY GraphAssumption
<1> QED
  BY <1>1, <1>2

-----------------------------------------------------------------------------
(* What is reached. *)

\* Reachable(s) is a closed set with s, and it is in every other one.
LEMMA ReachableIsLeast ==
  ASSUME GraphTypeOK, NEW s \in Schemas
  PROVE  /\ s \in Reachable(s)
         /\ Closed(Reachable(s))
         /\ \A c : Closed(c) /\ s \in c => Reachable(s) \subseteq c
<1>1. \A t \in Schemas : Below(t) \subseteq Schemas
  <2> SUFFICES ASSUME NEW t \in Schemas PROVE Below(t) \subseteq Schemas
    OBVIOUS
  <2>1. CASE t \in Eager
    BY <2>1 DEF GraphTypeOK, Below, ToSet
  <2>2. CASE t \notin Eager
    BY <2>2 DEF GraphTypeOK, Below, Schemas
  <2> QED
    BY <2>1, <2>2
<1>2. s \in Reachable(s)
  BY DEF Reachable
<1>3. \A c : Closed(c) /\ s \in c => Reachable(s) \subseteq c
  BY DEF Closed, Reachable
<1>4. Closed(Reachable(s))
  <2> SUFFICES ASSUME NEW t \in Reachable(s), NEW u \in Below(t) PROVE u \in Reachable(s)
    BY DEF Closed, Reachable
  <2>1. t \in Schemas /\ u \in Schemas
    BY <1>1 DEF Reachable
  <2> SUFFICES ASSUME NEW c \in SUBSET Schemas, s \in c, \A d \in c : Below(d) \subseteq c PROVE u \in c
    BY <2>1 DEF Reachable
  <2>2. t \in c
    BY DEF Reachable
  <2> QED
    BY <2>2
<1> QED
  BY <1>2, <1>3, <1>4

\* A step that resolves lazy schemas, notes the ones whose schema it replaces, and
\* changes neither parts nor rules.
Grows ==
  /\ UNCHANGED <<parts, rules>>
  /\ replaced \subseteq replaced'
  /\ \A l \in Lazy \ replaced' : resolved[l] # Nowhere => resolved'[l] = resolved[l]

\* What is below a schema that is not replaced stays below it, and is all of it
\* unless the schema is a lazy one that was not resolved.
LEMMA BelowGrows ==
  ASSUME GraphTypeOK, Grows, NEW s \in Schemas, s \notin replaced'
  PROVE  /\ Below(s) \subseteq Below(s)'
         /\ (s \in Lazy => resolved[s] # Nowhere) => Below(s)' = Below(s)
  BY GraphAssumption DEF Grows, Below, Schemas, GraphTypeOK

\* What is reached stays reached where nothing is replaced, and is all of it if every
\* lazy schema that is reached is resolved.
LEMMA ReachableGrows ==
  ASSUME GraphTypeOK, GraphTypeOK', Grows, NEW s \in Schemas, Kept(s)'
  PROVE  /\ Reachable(s) \subseteq Reachable(s)'
         /\ Kept(s)
         /\ (\A t \in Reachable(s) : t \in Lazy => resolved[t] # Nowhere) => Reachable(s)' \subseteq Reachable(s)
<1>1. Reachable(s)' \subseteq Schemas /\ Reachable(s)' \cap replaced' = {}
  BY DEF Reachable, Kept
<1>2. \A c \in SUBSET Schemas : s \in c /\ (\A d \in c : Below(d)' \subseteq c) => Reachable(s)' \subseteq c
  BY DEF Reachable
<1>3. Reachable(s) \subseteq Reachable(s)'
  <2> SUFFICES ASSUME NEW t \in Reachable(s), NEW k \in SUBSET Schemas, s \in k,
                      \A d \in k : Below(d)' \subseteq k
               PROVE  t \in k
    BY DEF Reachable
  <2> DEFINE c == {u \in k : u \in Reachable(s)'}
  <2>1. \A d \in c : Below(d)' \subseteq c
    <3> SUFFICES ASSUME NEW d \in c, NEW u \in Below(d)' PROVE u \in Reachable(s)'
      OBVIOUS
    <3>1. u \in k /\ d \in Reachable(s)'
      OBVIOUS
    <3> SUFFICES ASSUME NEW e \in SUBSET Schemas, s \in e, \A f \in e : Below(f)' \subseteq e PROVE u \in e
      BY <3>1 DEF Reachable
    <3>2. d \in e
      BY <3>1, <1>2
    <3> QED
      BY <3>2
  <2>2. \A d \in c : Below(d) \subseteq Below(d)'
    BY <1>1, BelowGrows
  <2>3. s \in c
    BY DEF Reachable
  <2>4. c \in SUBSET Schemas /\ \A d \in c : Below(d) \subseteq c
    BY <2>1, <2>2
  <2> HIDE DEF c
  <2>5. t \in c
    BY <2>3, <2>4 DEF Reachable
  <2> QED
    BY <2>5 DEF c
<1>4. Kept(s)
  BY <1>1, <1>3 DEF Kept, Grows
<1>5. ASSUME \A t \in Reachable(s) : t \in Lazy => resolved[t] # Nowhere
      PROVE  Reachable(s)' \subseteq Reachable(s)
  <2> DEFINE c == Reachable(s)
  <2>1. c \in SUBSET Schemas /\ s \in c /\ \A d \in c : Below(d) \subseteq c
    BY ReachableIsLeast DEF Closed
  <2>2. \A d \in c : Below(d)' \subseteq c
    BY <1>1, <1>3, <1>5, <2>1, BelowGrows
  <2> HIDE DEF c
  <2>3. Reachable(s)' \subseteq c
    BY <1>2, <2>1, <2>2
  <2> QED
    BY <2>3 DEF c
<1> QED
  BY <1>3, <1>4, <1>5

\* Answers that are remembered stand when lazy schemas are resolved.
LEMMA AnswersOutlive ==
  ASSUME GraphTypeOK, GraphTypeOK', Grows, AnswersStand, known' = known
  PROVE  AnswersStand'
<1> SUFFICES ASSUME NEW s \in Schemas, known[s] # "open", Kept(s)'
             PROVE  /\ known[s] = "sync" => \A t \in Reachable(s)' : t \notin rules' /\ (t \in Lazy => resolved'[t] # Nowhere)
                    /\ known[s] = "async" => Reachable(s)' \cap rules' # {}
  BY DEF AnswersStand, Kept
<1>1. Reachable(s) \subseteq Reachable(s)' /\ Kept(s) /\ Reachable(s)' \cap replaced' = {}
  BY ReachableGrows DEF Kept
<1>2. /\ known[s] = "sync" => \A t \in Reachable(s) : t \notin rules /\ (t \in Lazy => resolved[t] # Nowhere)
      /\ known[s] = "async" => Reachable(s) \cap rules # {}
  BY <1>1 DEF AnswersStand, Kept
<1>3. rules' = rules
  BY DEF Grows
<1>4. CASE known[s] = "sync"
  <2>1. Reachable(s)' \subseteq Reachable(s)
    BY <1>2, <1>4, ReachableGrows
  <2>2. \A t \in Reachable(s)' : t \in Lazy => resolved'[t] = resolved[t]
    BY <1>1, <1>2, <1>4, <2>1 DEF Grows
  <2> QED
    BY <1>2, <1>3, <1>4, <2>1, <2>2
<1> QED
  BY <1>1, <1>2, <1>3, <1>4

\* So does what a walk knows while a getter, or what the getter calls, goes on.
LEMMA WalkOutlives ==
  ASSUME GraphTypeOK, GraphTypeOK', Grows, NEW c \in Frame, WalkInv(c)
  PROVE  WalkInv(c)'
<1> SUFFICES ASSUME c.asked # Nowhere, Kept(c.asked)'
             PROVE  c.asked \in Covered(c) /\ StaysBelow(c)' /\ LeavesNothing(c)'
  BY DEF WalkInv, Covered
<1>1. c.asked \in Schemas /\ c.seen \subseteq Schemas
  BY DEF Frame
<1>2. Reachable(c.asked) \subseteq Reachable(c.asked)' /\ Kept(c.asked) /\ Reachable(c.asked)' \cap replaced' = {}
  BY <1>1, ReachableGrows DEF Kept
<1>3. c.asked \in Covered(c) /\ StaysBelow(c) /\ LeavesNothing(c)
  BY <1>2 DEF WalkInv
<1>4. StaysBelow(c)'
  BY <1>2, <1>3 DEF StaysBelow, Covered
<1>5. c.seen \cap replaced' = {}
  BY <1>2, <1>3 DEF StaysBelow, Covered
<1>6. \A s \in c.seen : Below(s)' = Below(s) /\ (s \in Lazy => resolved'[s] = resolved[s])
  BY <1>1, <1>3, <1>5, BelowGrows DEF LeavesNothing, Grows
<1>7. LeavesNothing(c)'
  BY <1>3, <1>6 DEF LeavesNothing, Covered, Grows
<1> QED
  BY <1>3, <1>4, <1>7

-----------------------------------------------------------------------------
(* The types. *)

\* The first states have the types.
LEMMA TypesHold == GraphInit => GraphTypeOK
<1> SUFFICES ASSUME GraphInit PROVE GraphTypeOK
  OBVIOUS
<1>1. parts \in [Eager -> Seq(Schemas)] /\ \A s \in Eager : parts[s] \in PartsOf(s)
  <2>1. \A s \in Eager : parts[s] \in PartsOf(s)
    BY DEF GraphInit
  <2>2. \A s \in Eager : parts[s] \in Seq(Schemas)
    BY <2>1, Parts
  <2>3. parts \in [Eager -> UNION {PartsOf(s) : s \in Eager}]
    BY DEF GraphInit
  <2> QED
    BY <2>1, <2>2, <2>3
<1>2. calls \in Seq(Frame)
  BY DEF GraphInit
<1> QED
  BY <1>1, <1>2, GraphAssumption DEF GraphInit, GraphTypeOK

\* The innermost call and the others are calls.
LEMMA CallsAre ==
  ASSUME GraphTypeOK, calls # <<>>
  PROVE  /\ call \in Frame /\ Tail(calls) \in Seq(Frame)
         /\ ToSet(calls) = {call} \cup ToSet(Tail(calls))
  BY HeadAndTail DEF GraphTypeOK, call

\* The next schema a walk visits is a schema, and so are the others ahead.
LEMMA AheadAre ==
  ASSUME NEW c \in Frame, c.ahead # <<>>
  PROVE  /\ Head(c.ahead) \in Schemas /\ Tail(c.ahead) \in Seq(Schemas)
         /\ ToSet(c.ahead) = {Head(c.ahead)} \cup ToSet(Tail(c.ahead))
<1>1. c.ahead \in Seq(Schemas)
  BY DEF Frame
<1> QED
  BY <1>1, HeadAndTail

\* A walk that goes on to what a schema is made of.
LEMMA GoesOn ==
  ASSUME GraphTypeOK, calls # <<>>, call.ahead # <<>>, NEW s \in Schemas, NEW next \in Seq(Schemas)
  PROVE  /\ ToParts(s, next) \in Frame
         /\ ToParts(s, next).asked = call.asked
         /\ ToParts(s, next).seen = call.seen \cup {s}
         /\ ToParts(s, next).ahead = next \o Tail(call.ahead)
         /\ ToParts(s, next).called = Nowhere
<1>1. call \in Frame
  BY CallsAre
<1>2. Tail(call.ahead) \in Seq(Schemas)
  BY <1>1, AheadAre
<1>3. next \o Tail(call.ahead) \in Seq(Schemas)
  BY <1>2, Concatenated
<1>4. PICK c \in Frame : c = call
  BY <1>1
<1>5. PICK rest : rest = next \o Tail(c.ahead) /\ rest \in Seq(Schemas)
  BY <1>3, <1>4
<1>6. ToParts(s, next) = [c EXCEPT !.seen = c.seen \cup {s}, !.ahead = rest, !.called = Nowhere]
  BY <1>4, <1>5 DEF ToParts
<1>7. ToParts(s, next) = [asked |-> c.asked, ahead |-> rest, seen |-> c.seen \cup {s}, called |-> Nowhere]
  BY <1>6 DEF Frame
<1> QED
  BY <1>4, <1>5, <1>7 DEF Frame

\* Every step keeps them: what a getter gives is put in the place of the lazy schema
\* that is first ahead.
LEMMA TypesStay == GraphTypeOK /\ CallsInv /\ [GraphNext]_graph => GraphTypeOK'
<1> SUFFICES ASSUME GraphTypeOK, CallsInv, [GraphNext]_graph PROVE GraphTypeOK'
  OBVIOUS
<1>1. parts' = parts /\ rules' = rules
  BY DEF GraphNext, WalkNext, Ask, Meet, Enter, PassOver, VisitEager, VisitLazy, FindRule, FindNone,
         Answer, Give, Refuse, graph
<1> DEFINE Well == /\ resolved' \in [Lazy -> Eager \cup {Nowhere}] /\ replaced' \in SUBSET Lazy
                     /\ known' \in [Schemas -> {"open", "sync", "async"}]
                     /\ calls' \in Seq(Frame)
<1>2. Well => GraphTypeOK'
  BY <1>1 DEF GraphTypeOK
<1>3. /\ resolved \in [Lazy -> Eager \cup {Nowhere}] /\ replaced \in SUBSET Lazy
      /\ known \in [Schemas -> {"open", "sync", "async"}]
      /\ calls \in Seq(Frame)
  BY DEF GraphTypeOK
<1>4. ASSUME NEW c \in Frame, Enter(c) PROVE Well
  BY <1>3, <1>4, Pushed DEF Enter
<1>5. ASSUME NEW s \in Schemas, Enter([asked |-> s, ahead |-> <<s>>, seen |-> {}, called |-> Nowhere]) PROVE Well
  <2>1. <<s>> \in Seq(Schemas)
    BY Single
  <2>2. [asked |-> s, ahead |-> <<s>>, seen |-> {}, called |-> Nowhere] \in Frame
    BY <2>1 DEF Frame
  <2> QED
    BY <1>4, <1>5, <2>2
<1>6. ASSUME NEW l \in Lazy, Enter([asked |-> Nowhere, ahead |-> <<>>, seen |-> {}, called |-> l]) PROVE Well
  <2>1. [asked |-> Nowhere, ahead |-> <<>>, seen |-> {}, called |-> l] \in Frame
    BY DEF Frame
  <2> QED
    BY <1>4, <1>6, <2>1
<1>7. ASSUME NEW c \in Frame, GoOn(c), calls # <<>> PROVE calls' \in Seq(Frame)
  BY <1>7, CallsAre, Pushed DEF GoOn
<1>8. CASE PassOver
  <2>1. call \in Frame /\ calls # <<>> /\ call.ahead # <<>>
    BY <1>8, CallsAre DEF PassOver, Walks
  <2>2. Tail(call.ahead) \in Seq(Schemas)
    BY <2>1, AheadAre
  <2>3. [call EXCEPT !.ahead = Tail(@)] \in Frame
    BY <2>1, <2>2 DEF Frame
  <2> QED
    BY <1>2, <1>3, <1>7, <1>8, <2>1, <2>3 DEF PassOver
<1>9. ASSUME NEW s \in Eager, Visits(s), GoOn(ToParts(s, parts[s])), UNCHANGED <<resolved, replaced, known>>
      PROVE  Well
  <2>1. s \in Schemas /\ parts[s] \in Seq(Schemas) /\ calls # <<>> /\ call.ahead # <<>>
    BY <1>9 DEF GraphTypeOK, Schemas, Visits, Walks
  <2> QED
    BY <1>3, <1>7, <1>9, <2>1, GoesOn
<1>10. ASSUME NEW l \in Lazy, NEW t \in Eager, calls # <<>>, call.ahead # <<>>, GoOn(ToParts(l, <<t>>))
       PROVE  calls' \in Seq(Frame)
  <2>1. l \in Schemas /\ <<t>> \in Seq(Schemas)
    BY Single DEF Schemas
  <2> QED
    BY <1>7, <1>10, <2>1, GoesOn
<1>11. ASSUME NEW l \in Lazy, Visits(l), UNCHANGED <<resolved, replaced, known>>,
              GoOn(IF resolved[l] = Nowhere THEN [call EXCEPT !.called = l] ELSE ToParts(l, <<resolved[l]>>))
       PROVE  Well
  <2>1. calls # <<>> /\ call.ahead # <<>> /\ call \in Frame
    BY <1>11, CallsAre DEF Visits, Walks
  <2>2. CASE resolved[l] = Nowhere
    <3>1. [call EXCEPT !.called = l] \in Frame
      BY <2>1 DEF Frame
    <3> QED
      BY <1>3, <1>7, <1>11, <2>1, <2>2, <3>1
  <2>3. CASE resolved[l] # Nowhere
    <3>1. resolved[l] \in Eager /\ GoOn(ToParts(l, <<resolved[l]>>))
      BY <1>3, <1>11, <2>3
    <3> QED
      BY <1>3, <1>10, <1>11, <2>1, <3>1
  <2> QED
    BY <2>2, <2>3
<1>12. ASSUME NEW answer \in {"sync", "async"}, Walks, Answer(answer) PROVE Well
  BY <1>3, <1>12, CallsAre DEF Answer, Walks
<1>13. ASSUME NEW t \in Eager, calls # <<>>, call.called # Nowhere,
              resolved' = [resolved EXCEPT ![call.called] = t],
              replaced' = IF resolved[call.called] \in {Nowhere, t} THEN replaced ELSE replaced \cup {call.called},
              IF call.asked = Nowhere THEN calls' = Tail(calls) ELSE GoOn(ToParts(call.called, <<t>>)),
              known' = known
       PROVE  Well
  <2>1. call \in Frame /\ Tail(calls) \in Seq(Frame) /\ CallInv(call)
    BY <1>13, CallsAre DEF CallsInv
  <2>2. call.called \in Lazy
    BY <1>13, <2>1 DEF Frame
  <2>3. resolved' \in [Lazy -> Eager \cup {Nowhere}] /\ replaced' \in SUBSET Lazy
    BY <1>3, <1>13, <2>2
  <2>4. calls' \in Seq(Frame)
    BY <1>10, <1>13, <2>1, <2>2 DEF CallInv
  <2> QED
    BY <1>3, <1>13, <2>3, <2>4
<1>14. CASE Refuse
  BY <1>2, <1>3, <1>14, CallsAre DEF Refuse
<1>15. CASE UNCHANGED graph
  BY <1>2, <1>3, <1>15 DEF graph
<1> HIDE DEF Well
<1>16. CASE WalkNext
  BY <1>2, <1>8, <1>9, <1>11, <1>12, <1>16 DEF WalkNext, VisitEager, VisitLazy, FindRule, FindNone, Visits
<1>17. CASE Give
  BY <1>2, <1>13, <1>17 DEF Give
<1>18. CASE Ask \/ Meet
  BY <1>2, <1>5, <1>6, <1>18 DEF Ask, Meet
<1> QED
  BY <1>14, <1>15, <1>16, <1>17, <1>18 DEF GraphNext

-----------------------------------------------------------------------------
(* The walk. *)

\* A walk comes to everything below a schema that it visits, and to nothing that is
\* not reached.
LEMMA Enters ==
  ASSUME GraphTypeOK, GraphTypeOK', Grows, NEW c \in Frame, WalkInv(c), c.ahead # <<>>,
         NEW s \in Schemas \ rules, s = Head(c.ahead), NEW next \in Seq(Schemas),
         NEW d \in Frame, d.asked = c.asked, d.seen = c.seen \cup {s}, d.ahead = next \o Tail(c.ahead),
         Below(s)' = ToSet(next), s \in Lazy => resolved'[s] # Nowhere
  PROVE  WalkInv(d)'
<1> SUFFICES ASSUME c.asked # Nowhere, Kept(c.asked)'
             PROVE  c.asked \in Covered(d) /\ StaysBelow(d)' /\ LeavesNothing(d)'
  BY DEF WalkInv, Covered
<1> DEFINE a == c.asked
<1>1. a \in Schemas /\ c.seen \subseteq Schemas
  BY DEF Frame
<1>2. ToSet(c.ahead) = {s} \cup ToSet(Tail(c.ahead)) /\ ToSet(d.ahead) = ToSet(next) \cup ToSet(Tail(c.ahead))
  <2>1. ToSet(c.ahead) = {s} \cup ToSet(Tail(c.ahead)) /\ Tail(c.ahead) \in Seq(Schemas)
    BY AheadAre
  <2>2. \A q \in Seq(Schemas) : ToSet(next \o q) = ToSet(next) \cup ToSet(q)
    BY Concatenated
  <2> QED
    BY <2>1, <2>2
<1>3. Reachable(a) \subseteq Reachable(a)' /\ Kept(a) /\ Reachable(a)' \cap replaced' = {}
  BY <1>1, ReachableGrows DEF Kept
<1>4. a \in Covered(c) /\ StaysBelow(c) /\ LeavesNothing(c)
  BY <1>3 DEF WalkInv
<1>5. Covered(d) = Covered(c) \cup ToSet(next) /\ s \in Covered(c)
  BY <1>2 DEF Covered
<1>6. Covered(c) \subseteq Reachable(a)'
  BY <1>3, <1>4 DEF StaysBelow
<1>7. StaysBelow(d)'
  <2>1. s \in Reachable(a)' /\ ToSet(next) \subseteq Schemas
    BY <1>5, <1>6 DEF ToSet
  <2>2. ToSet(next) \subseteq Reachable(a)'
    <3> SUFFICES ASSUME NEW t \in ToSet(next), NEW k \in SUBSET Schemas, a \in k, \A u \in k : Below(u)' \subseteq k
                 PROVE  t \in k
      BY <2>1 DEF Reachable
    <3>1. s \in k
      BY <2>1 DEF Reachable
    <3> QED
      BY <3>1
  <2> QED
    BY <1>5, <1>6, <2>2 DEF StaysBelow, Covered
<1>8. c.seen \cap replaced' = {}
  BY <1>3, <1>6 DEF Covered
<1>9. \A t \in c.seen : Below(t)' = Below(t) /\ (t \in Lazy => resolved'[t] = resolved[t])
  BY <1>1, <1>4, <1>8, BelowGrows DEF LeavesNothing, Grows
<1>10. \A t \in d.seen : Below(t)' \subseteq Covered(d)
  BY <1>4, <1>5, <1>9 DEF LeavesNothing
<1>11. d.seen \cap rules' = {} /\ \A t \in d.seen : t \in Lazy => resolved'[t] # Nowhere
  BY <1>4, <1>9 DEF LeavesNothing, Grows
<1>12. LeavesNothing(d)'
  BY <1>10, <1>11 DEF LeavesNothing, Covered
<1> QED
  BY <1>4, <1>5, <1>7, <1>12

\* A schema that was asked and of which nothing is ahead reaches no rule and no
\* getter that is still to be asked.
LEMMA NothingIsMissed ==
  ASSUME GraphTypeOK, NEW c \in Frame, WalkInv(c), c.asked # Nowhere, Kept(c.asked), c.ahead = <<>>
  PROVE  \A t \in Reachable(c.asked) : t \notin rules /\ (t \in Lazy => resolved[t] # Nowhere)
<1>1. Covered(c) = c.seen
  BY DEF Covered, ToSet
<1>2. Closed(c.seen) /\ c.asked \in c.seen /\ c.asked \in Schemas
  BY <1>1 DEF WalkInv, LeavesNothing, Closed, Frame
<1>3. Reachable(c.asked) \subseteq c.seen
  BY <1>2, ReachableIsLeast
<1> QED
  BY <1>3 DEF WalkInv, LeavesNothing

\* A walk that ends with an answer ends with one that stands.
LEMMA AnswerStands ==
  ASSUME GraphTypeOK, CallsInv, AnswersStand, NEW answer \in {"sync", "async"}, Answer(answer),
         NEW c \in Frame, c = call, calls # <<>>, c.asked # Nowhere,
         Kept(c.asked) /\ answer = "sync" =>
           \A t \in Reachable(c.asked) : t \notin rules /\ (t \in Lazy => resolved[t] # Nowhere),
         Kept(c.asked) /\ answer = "async" => Reachable(c.asked) \cap rules # {}
  PROVE  AnswersStand' /\ CallsInv'
<1>1. rules' = rules /\ resolved' = resolved /\ parts' = parts /\ replaced' = replaced /\ calls' = Tail(calls)
  BY DEF Answer
<1>2. \A s \in Schemas : Reachable(s)' = Reachable(s)
  BY <1>1 DEF Reachable, Below
<1>3. \A s \in Schemas : known'[s] = IF s = c.asked THEN answer ELSE known[s]
  BY DEF Answer, GraphTypeOK
<1>4. AnswersStand'
  BY <1>1, <1>2, <1>3 DEF AnswersStand, Kept
<1>5. ToSet(calls') \subseteq ToSet(calls)
  BY <1>1, CallsAre
<1>6. \A d \in ToSet(calls) : CallInv(d)' /\ WalkInv(d)'
  <2> SUFFICES ASSUME NEW d \in ToSet(calls) PROVE CallInv(d)' /\ WalkInv(d)'
    OBVIOUS
  <2>1. CallInv(d) /\ WalkInv(d)
    BY DEF CallsInv
  <2>2. Kept(d.asked)' = Kept(d.asked) /\ StaysBelow(d)' = StaysBelow(d)
    BY <1>1 DEF Kept, StaysBelow, Covered, Reachable, Below
  <2>3. LeavesNothing(d)' = LeavesNothing(d)
    BY <1>1 DEF LeavesNothing, Covered, Below
  <2> QED
    BY <1>1, <2>1, <2>2, <2>3 DEF CallInv, WalkInv, Covered
<1> QED
  BY <1>4, <1>5, <1>6 DEF CallsInv

-----------------------------------------------------------------------------
(* The theorem. *)

\* No answer is remembered at first, and nothing is called.
LEMMA GraphStarts == GraphInit => GraphInv
<1> SUFFICES ASSUME GraphInit PROVE CallsInv /\ AnswersStand
  BY TypesHold DEF GraphInv
<1>1. ToSet(calls) = {}
  BY DEF GraphInit, ToSet
<1> QED
  BY <1>1 DEF GraphInit, CallsInv, AnswersStand

\* A step that puts one call in the place of the innermost, or on top of it, and
\* remembers nothing.
LEMMA OneCall ==
  ASSUME GraphInv, GraphTypeOK', Grows, known' = known, NEW d \in Frame, CallInv(d), WalkInv(d)',
         \/ calls # <<>> /\ calls' = <<d>> \o Tail(calls)
         \/ calls' = <<d>> \o calls
         \/ calls # <<>> /\ calls' = Tail(calls)
         \/ calls' = calls
  PROVE  CallsInv' /\ AnswersStand'
<1>1. GraphTypeOK /\ CallsInv /\ AnswersStand /\ calls \in Seq(Frame)
  BY DEF GraphInv, GraphTypeOK
<1>2. ToSet(calls') \subseteq ToSet(calls) \cup {d}
  <2>1. calls # <<>> => Tail(calls) \in Seq(Frame) /\ ToSet(Tail(calls)) \subseteq ToSet(calls)
    BY <1>1, CallsAre
  <2>2. \A q \in Seq(Frame) : ToSet(<<d>> \o q) = {d} \cup ToSet(q)
    BY Pushed
  <2> QED
    BY <1>1, <2>1, <2>2
<1>3. ToSet(calls) \subseteq Frame
  BY <1>1 DEF ToSet
<1>4. ASSUME NEW c \in ToSet(calls) PROVE CallInv(c)' /\ WalkInv(c)'
  <2>1. c \in Frame /\ CallInv(c) /\ WalkInv(c)
    BY <1>1, <1>3 DEF CallsInv
  <2>2. WalkInv(c)'
    BY <1>1, <2>1, WalkOutlives
  <2> QED
    BY <2>1, <2>2 DEF CallInv, Grows
<1>5. CallInv(d)'
  BY DEF CallInv, Grows
<1> QED
  BY <1>1, <1>2, <1>4, <1>5, AnswersOutlive DEF CallsInv

\* Every step keeps the invariant.
LEMMA GraphSteps == GraphInv /\ [GraphNext]_graph => GraphInv'
<1> SUFFICES ASSUME GraphInv, [GraphNext]_graph PROVE CallsInv' /\ AnswersStand'
  BY TypesStay DEF GraphInv
<1>1. GraphTypeOK /\ GraphTypeOK' /\ CallsInv /\ AnswersStand
  BY TypesStay DEF GraphInv
<1>2. ASSUME UNCHANGED <<parts, rules, resolved, replaced>>
      PROVE  /\ Grows /\ \A s : Below(s)' = Below(s) /\ Reachable(s)' = Reachable(s)
             /\ \A c : WalkInv(c) => WalkInv(c)'
  <2>1. \A s : Below(s)' = Below(s) /\ Reachable(s)' = Reachable(s)
    BY <1>2 DEF Below, Reachable
  <2>2. \A s : Kept(s)' = Kept(s)
    BY <1>2, <2>1 DEF Kept
  <2>3. \A c : StaysBelow(c)' = StaysBelow(c) /\ LeavesNothing(c)' = LeavesNothing(c)
    BY <1>2, <2>1 DEF StaysBelow, LeavesNothing, Covered
  <2> QED
    BY <1>2, <2>1, <2>2, <2>3 DEF Grows, WalkInv, Covered
<1>3. ASSUME calls # <<>> PROVE call \in Frame /\ CallInv(call) /\ WalkInv(call)
  BY <1>1, <1>3, CallsAre DEF CallsInv
<1>4. ASSUME NEW s \in Schemas, Enter([asked |-> s, ahead |-> <<s>>, seen |-> {}, called |-> Nowhere])
      PROVE  CallsInv' /\ AnswersStand'
  <2> DEFINE d == [asked |-> s, ahead |-> <<s>>, seen |-> {}, called |-> Nowhere]
  <2>1. <<s>> \in Seq(Schemas) /\ ToSet(<<s>>) = {s}
    BY Single
  <2>2. d \in Frame /\ d.asked = s /\ d.called = Nowhere /\ d.seen = {} /\ Covered(d) = {s}
    BY <2>1 DEF Frame, Covered
  <2>3. s \in Reachable(s)'
    BY DEF Reachable
  <2> HIDE DEF d
  <2>4. CallInv(d) /\ WalkInv(d)'
    BY <2>2, <2>3, GraphAssumption DEF CallInv, WalkInv, StaysBelow, LeavesNothing, Covered
  <2>5. calls' = <<d>> \o calls /\ known' = known /\ UNCHANGED <<parts, rules, resolved, replaced>>
    BY <1>4 DEF Enter, d
  <2> QED
    BY <1>1, <1>2, <2>2, <2>4, <2>5, OneCall
<1>5. ASSUME NEW l \in Lazy, Enter([asked |-> Nowhere, ahead |-> <<>>, seen |-> {}, called |-> l])
      PROVE  CallsInv' /\ AnswersStand'
  <2> DEFINE d == [asked |-> Nowhere, ahead |-> <<>>, seen |-> {}, called |-> l]
  <2>1. d \in Frame /\ CallInv(d) /\ WalkInv(d)'
    BY GraphAssumption DEF Frame, CallInv, WalkInv, Schemas
  <2>2. calls' = <<d>> \o calls /\ known' = known /\ UNCHANGED <<parts, rules, resolved, replaced>>
    BY <1>5 DEF Enter
  <2> HIDE DEF d
  <2> QED
    BY <1>1, <1>2, <2>1, <2>2, OneCall
<1>6. CASE PassOver
  <2>1. calls # <<>> /\ call.called = Nowhere
    BY <1>6 DEF PassOver, Walks
  <2>2. PICK c \in Frame : c = call
    BY <1>3, <2>1
  <2>3. CallInv(c) /\ WalkInv(c) /\ c.ahead # <<>> /\ Head(c.ahead) \in c.seen
    BY <1>3, <1>6, <2>1, <2>2 DEF PassOver
  <2>4. Tail(c.ahead) \in Seq(Schemas) /\ ToSet(c.ahead) = {Head(c.ahead)} \cup ToSet(Tail(c.ahead))
    BY <2>3, AheadAre
  <2>5. PICK rest \in Seq(Schemas) : rest = Tail(c.ahead)
    BY <2>4
  <2>6. PICK d \in Frame : /\ d = [c EXCEPT !.ahead = rest] /\ d.asked = c.asked /\ d.seen = c.seen
                           /\ d.called = c.called /\ d.ahead = rest
    <3>1. [c EXCEPT !.ahead = rest] = [asked |-> c.asked, ahead |-> rest, seen |-> c.seen, called |-> c.called]
      BY DEF Frame
    <3> QED
      BY <3>1 DEF Frame
  <2>7. Covered(d) = Covered(c)
    BY <2>3, <2>4, <2>5, <2>6 DEF Covered
  <2>8. CallInv(d) /\ WalkInv(d)
    BY <2>1, <2>2, <2>3, <2>6, <2>7 DEF CallInv, WalkInv, StaysBelow, LeavesNothing
  <2>9. calls' = <<d>> \o Tail(calls) /\ known' = known /\ UNCHANGED <<parts, rules, resolved, replaced>>
    BY <1>6, <2>2, <2>5, <2>6 DEF PassOver, GoOn
  <2> QED
    BY <1>1, <1>2, <2>1, <2>8, <2>9, OneCall
\* A walk goes on to what a schema without a rule is made of.
<1>7. ASSUME calls # <<>>, call.ahead # <<>>, NEW s \in Schemas \ rules, s = Head(call.ahead), call.asked # Nowhere,
             NEW next \in Seq(Schemas), GoOn(ToParts(s, next)), Grows, known' = known,
             Below(s)' = ToSet(next), s \in Lazy => resolved'[s] # Nowhere
      PROVE  CallsInv' /\ AnswersStand'
  <2>1. PICK c \in Frame : c = call
    BY <1>3, <1>7
  <2>2. PICK d \in Frame : /\ d = ToParts(s, next) /\ d.asked = c.asked /\ d.seen = c.seen \cup {s}
                           /\ d.ahead = next \o Tail(c.ahead) /\ d.called = Nowhere
    BY <1>1, <1>7, <2>1, GoesOn
  <2>3. WalkInv(c) /\ c.ahead # <<>> /\ s = Head(c.ahead) /\ c.asked # Nowhere
    BY <1>3, <1>7, <2>1
  <2>4. WalkInv(d)'
    BY <1>1, <1>7, <2>2, <2>3, Enters
  <2>5. CallInv(d)
    BY <2>2, <2>3 DEF CallInv
  <2>6. calls' = <<d>> \o Tail(calls)
    BY <1>7, <2>2 DEF GoOn
  <2> QED
    BY <1>7, <2>4, <2>5, <2>6, <1>1, OneCall
<1>8. ASSUME Walks PROVE calls # <<>> /\ call.asked # Nowhere /\ call.called = Nowhere
  BY <1>3, <1>8 DEF Walks, CallInv
<1>9. ASSUME NEW s \in Eager \ rules, Visits(s), GoOn(ToParts(s, parts[s])),
             UNCHANGED <<parts, rules, resolved, replaced, known>>
      PROVE  CallsInv' /\ AnswersStand'
  <2>1. s \in Schemas \ rules /\ s \notin Lazy /\ parts[s] \in Seq(Schemas)
    BY <1>1, GraphAssumption DEF Schemas, GraphTypeOK
  <2>2. Below(s)' = ToSet(parts[s])
    BY <1>9 DEF Below
  <2>3. calls # <<>> /\ call.asked # Nowhere /\ call.ahead # <<>> /\ s = Head(call.ahead)
    BY <1>8, <1>9 DEF Visits
  <2> QED
    BY <1>2, <1>7, <1>9, <2>1, <2>2, <2>3
\* What a lazy schema got is all that is below it.
<1>10. ASSUME NEW l \in Lazy \ rules, NEW t \in Eager, calls # <<>>, call.ahead # <<>>, l = Head(call.ahead),
              call.asked # Nowhere, GoOn(ToParts(l, <<t>>)), Grows, known' = known, resolved'[l] = t
       PROVE  CallsInv' /\ AnswersStand'
  <2>1. l \in Schemas \ rules /\ l \notin Eager /\ t \in Schemas /\ t # Nowhere
    BY GraphAssumption DEF Schemas
  <2>2. <<t>> \in Seq(Schemas) /\ ToSet(<<t>>) = {t}
    BY <2>1, Single
  <2>3. Below(l)' = {t}
    BY <1>10, <2>1 DEF Below
  <2> QED
    BY <1>7, <1>10, <2>1, <2>2, <2>3
<1>11. ASSUME NEW l \in Lazy \ rules, Visits(l), UNCHANGED <<parts, rules, resolved, replaced, known>>,
              GoOn(IF resolved[l] = Nowhere THEN [call EXCEPT !.called = l] ELSE ToParts(l, <<resolved[l]>>))
       PROVE  CallsInv' /\ AnswersStand'
  <2>1. calls # <<>> /\ call.asked # Nowhere /\ call.ahead # <<>> /\ l = Head(call.ahead)
    BY <1>8, <1>11 DEF Visits
  <2>2. CASE resolved[l] = Nowhere
    <3>1. PICK c \in Frame : c = call
      BY <1>3, <2>1
    <3>2. PICK d \in Frame : /\ d = [c EXCEPT !.called = l] /\ d.asked = c.asked /\ d.seen = c.seen
                             /\ d.called = l /\ d.ahead = c.ahead
      <4>1. [c EXCEPT !.called = l] = [asked |-> c.asked, ahead |-> c.ahead, seen |-> c.seen, called |-> l]
        BY DEF Frame
      <4> QED
        BY <4>1 DEF Frame
    <3>3. CallInv(d) /\ WalkInv(d)
      BY <1>3, <2>1, <3>1, <3>2 DEF CallInv, WalkInv, StaysBelow, LeavesNothing, Covered
    <3>4. calls' = <<d>> \o Tail(calls)
      BY <1>11, <2>2, <3>1, <3>2 DEF GoOn
    <3> QED
      BY <1>1, <1>2, <1>11, <2>1, <3>3, <3>4, OneCall
  <2>3. CASE resolved[l] # Nowhere
    <3>1. PICK t \in Eager : t = resolved[l]
      BY <1>1, <2>3 DEF GraphTypeOK
    <3>2. GoOn(ToParts(l, <<t>>)) /\ resolved'[l] = t
      BY <1>11, <2>3, <3>1
    <3> QED
      BY <1>2, <1>10, <1>11, <2>1, <3>2
  <2> QED
    BY <2>2, <2>3
<1>12. CASE FindRule
  <2>1. PICK s \in rules : Visits(s)
    BY <1>12 DEF FindRule
  <2>2. calls # <<>> /\ call.asked # Nowhere /\ call.ahead # <<>> /\ s = Head(call.ahead)
    BY <1>8, <2>1 DEF Visits
  <2>3. PICK c \in Frame : c = call
    BY <1>3, <2>2
  <2>4. WalkInv(c) /\ s \in Covered(c) /\ c.asked # Nowhere
    BY <1>3, <2>2, <2>3, AheadAre DEF Covered
  <2>5. Kept(c.asked) => Reachable(c.asked) \cap rules # {}
    BY <2>4 DEF WalkInv, StaysBelow
  <2>6. Answer("async")
    BY <1>12 DEF FindRule
  <2> QED
    BY <1>1, <2>2, <2>3, <2>4, <2>5, <2>6, AnswerStands
<1>13. CASE FindNone
  <2>1. calls # <<>> /\ call.asked # Nowhere /\ call.ahead = <<>> /\ Answer("sync")
    BY <1>8, <1>13 DEF FindNone
  <2>2. PICK c \in Frame : c = call
    BY <1>3, <2>1
  <2>3. WalkInv(c) /\ c.asked # Nowhere /\ c.ahead = <<>>
    BY <1>3, <2>1, <2>2
  <2>4. Kept(c.asked) => \A t \in Reachable(c.asked) : t \notin rules /\ (t \in Lazy => resolved[t] # Nowhere)
    BY <1>1, <2>3, NothingIsMissed
  <2> QED
    BY <1>1, <2>1, <2>2, <2>3, <2>4, AnswerStands
<1>14. ASSUME NEW t \in Eager, calls # <<>>, call.called # Nowhere,
              resolved' = [resolved EXCEPT ![call.called] = t],
              replaced' = IF resolved[call.called] \in {Nowhere, t} THEN replaced ELSE replaced \cup {call.called},
              IF call.asked = Nowhere THEN calls' = Tail(calls) ELSE GoOn(ToParts(call.called, <<t>>)),
              UNCHANGED <<parts, rules, known>>
       PROVE  CallsInv' /\ AnswersStand'
  <2>1. PICK l \in Lazy : l = call.called
    BY <1>3, <1>14 DEF Frame
  <2>2. Grows /\ resolved'[l] = t
    BY <1>1, <1>14, <2>1 DEF Grows, GraphTypeOK
  <2>3. CASE call.asked = Nowhere
    <3>1. PICK c \in Frame : c = call
      BY <1>3, <1>14
    <3>2. CallInv(c) /\ WalkInv(c)'
      BY <1>3, <1>14, <2>3, <3>1 DEF WalkInv
    <3> QED
      BY <1>1, <1>14, <2>2, <2>3, <3>2, OneCall
  <2>4. CASE call.asked # Nowhere
    <3>1. call.ahead # <<>> /\ l = Head(call.ahead) /\ l \in Lazy \ rules
      BY <1>3, <1>14, <2>1, <2>4 DEF CallInv
    <3> QED
      BY <1>10, <1>14, <2>1, <2>2, <2>4, <3>1
  <2> QED
    BY <2>3, <2>4
<1>15. CASE Refuse
  <2>1. calls # <<>> /\ calls' = Tail(calls) /\ UNCHANGED <<parts, rules, resolved, replaced, known>>
    BY <1>15 DEF Refuse
  <2>2. PICK c \in Frame : c = call /\ CallInv(c) /\ WalkInv(c)
    BY <1>3, <2>1
  <2> QED
    BY <1>1, <1>2, <2>1, <2>2, OneCall
<1>16. CASE UNCHANGED graph
  <2>1. UNCHANGED <<parts, rules, resolved, replaced, known, calls>>
    BY <1>16 DEF graph
  <2>2. Grows /\ \A c : WalkInv(c) => WalkInv(c)'
    BY <1>2, <2>1
  <2> QED
    BY <1>1, <2>1, <2>2, AnswersOutlive DEF CallsInv, CallInv
<1>17. CASE Ask \/ Meet
  BY <1>4, <1>5, <1>17 DEF Ask, Meet
<1>18. CASE VisitEager \/ VisitLazy
  BY <1>9, <1>11, <1>18 DEF VisitEager, VisitLazy
<1>19. CASE Give
  BY <1>14, <1>19 DEF Give
<1> QED
  BY <1>6, <1>12, <1>13, <1>15, <1>16, <1>17, <1>18, <1>19 DEF GraphNext, WalkNext

\* Every state of the graph and of the walks over it is well typed.
THEOREM GraphTypeCorrect == GraphSpec => []GraphTypeOK
<1>1. GraphInv => GraphTypeOK
  BY DEF GraphInv
<1> QED
  BY <1>1, GraphStarts, GraphSteps, PTL DEF GraphSpec

\* asyncRoots does not lie: for every graph of schemas, whatever getters give or throw
\* and whatever is asked while they run, nested as deep as one likes, what is
\* remembered of a schema that reaches no replaced one is true of it.
THEOREM RememberedAnswersStand == GraphSpec => []AnswersStand
<1>1. GraphInv => AnswersStand
  BY DEF GraphInv
<1> QED
  BY <1>1, GraphStarts, GraphSteps, PTL DEF GraphSpec

=============================================================================
