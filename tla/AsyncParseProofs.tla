--------------------------- MODULE AsyncParseProofs ---------------------------
(***************************************************************************)
(* What an asynchronous parse of an object stands for, for every           *)
(* shape, every refinement and every change that the caller makes to its   *)
(* input while the parse waits.                                            *)
(*                                                                         *)
(* Diagnostics only grow.  So as long as there is none, every position     *)
(* that the parse has left behind was in order: what is required was put   *)
(* into the output, after its schema had accepted the value that was read, *)
(* and no rule at it was rejected.                                         *)
(*                                                                         *)
(* The second half follows the synchronous parse along: it is a fold over  *)
(* the properties, the other keys and the rules, and what is gathered is   *)
(* that fold up to the place where the asynchronous parse is.              *)
(***************************************************************************)
EXTENDS AsyncParse, WellFoundedInduction, TLAPS

Rejected(p, i) == rules[p][i].async /\ rules[p][i].does = "throw"

\* Where the parse is.
PlaceInv ==
  /\ stage = "idle" => pos = 1 /\ output = <<>> /\ input = given
  /\ stage = "absent" => pos # Root /\ Shape[pos] \notin DOMAIN input
  /\ stage \in {"left", "done"} => pos = Root
  /\ stage \in {"check", "rule"} => at \in DOMAIN rules[pos]
  /\ stage \in {"idle", "absent", "left", "base"} => found = Nothing
  /\ changes = 0 => input = given

\* A position that has no diagnostics yet: its schema accepted the value, and no rule
\* that has run was rejected.
ChecksInv ==
  stage \in {"check", "rule", "settled"} /\ found.issues = <<>> /\ (pos = Root => issues = <<>>) =>
    /\ pos # Root => Accepts(Shape[pos], value)
    /\ \A i \in DOMAIN rules[pos] : stage = "settled" \/ i < at => ~Rejected(pos, i)

\* The positions that are behind.
BehindInv ==
  issues = <<>> =>
    /\ \A p \in 1..pos - 1 :
         /\ policy # "passthrough" /\ Shape[p] \in Required => Shape[p] \in DOMAIN output
         /\ changes = 0 /\ Shape[p] \in DOMAIN given => \A i \in DOMAIN rules[p] : ~Rejected(p, i)
    /\ stage = "done" => \A i \in DOMAIN rules[Root] : ~Rejected(Root, i)

OutputInv ==
  policy # "passthrough" => DOMAIN output \subseteq Declared /\ \A k \in DOMAIN output : Accepts(k, output[k])

ParseInv == TypeOK /\ PlaceInv /\ ChecksInv /\ BehindInv /\ OutputInv

-----------------------------------------------------------------------------
(* Diagnostics and objects. *)

\* Nothing is taken out of a sequence by appending to it.
LEMMA EmptyBoth ==
  ASSUME NEW S, NEW s \in Seq(S), NEW t \in Seq(S)
  PROVE  s \o t \in Seq(S) /\ (s \o t = <<>> => s = <<>> /\ t = <<>>)
  OBVIOUS

\* A note is one diagnostic.
LEMMA Notes ==
  ASSUME NEW code \in Codes, NEW name \in Keys \cup {"root"}
  PROVE  Note(code, name) \in Seq(Diagnostics) /\ Note(code, name) # <<>>
<1>1. [code |-> code, of |-> name] \in Diagnostics
  BY DEF Diagnostics
<1> QED
  BY <1>1 DEF Note

Findings == [issues : Seq(Diagnostics), warnings : Seq(Diagnostics)]

\* What a rule that is not met, or was not run to its end, adds.
LEMMA Unmets ==
  ASSUME NEW rule \in Checks, NEW name \in Keys \cup {"root"}
  PROVE  /\ Unmet(rule, name) \in Findings
         /\ Broken(rule, name) \in Findings /\ Broken(rule, name).issues # <<>>
<1>1. /\ Note("custom", name) \in Seq(Diagnostics) /\ Note("execution", name) \in Seq(Diagnostics)
      /\ Note("execution", name) # <<>>
  BY Notes DEF Codes
<1>2. <<>> \in Seq(Diagnostics)
  OBVIOUS
<1>3. Unmet(rule, name) \in Findings
  BY <1>1, <1>2 DEF Unmet, Fatal, Findings
<1>4. CASE rule.collector
  <2> DEFINE all == Unmet(rule, name).issues \o Note("execution", name)
  <2>1. all \in Seq(Diagnostics) /\ all # <<>>
    BY <1>1, <1>3, EmptyBoth DEF Findings
  <2>2. Broken(rule, name) = [issues |-> all, warnings |-> Unmet(rule, name).warnings]
    BY <1>3, <1>4 DEF Broken, Findings
  <2> HIDE DEF all
  <2> QED
    BY <1>3, <2>1, <2>2 DEF Findings
<1>5. CASE ~rule.collector
  BY <1>1, <1>2, <1>3, <1>5 DEF Broken, Fatal, Findings
<1> QED
  BY <1>3, <1>4, <1>5

\* A rule that is rejected leaves an issue.
LEMMA Ran ==
  ASSUME NEW rule \in Checks, NEW name \in Keys \cup {"root"}
  PROVE  /\ RunAsyncRule(rule, name) \in Findings
         /\ rule.async /\ rule.does = "throw" => RunAsyncRule(rule, name).issues # <<>>
<1>1. Nothing \in Findings
  <2>1. <<>> \in Seq(Diagnostics)
    OBVIOUS
  <2> QED
    BY <2>1 DEF Nothing, Findings
<1>2. CASE rule.does = "pass"
  BY <1>1, <1>2 DEF RunAsyncRule
<1>3. CASE rule.does = "fail"
  BY <1>3, Unmets DEF RunAsyncRule
<1>4. CASE rule.does = "promise"
  BY <1>4, Unmets DEF RunAsyncRule
<1>5. CASE rule.does = "throw"
  BY <1>5, Unmets DEF RunAsyncRule
<1> QED
  BY <1>2, <1>3, <1>4, <1>5 DEF Checks

\* Findings of two rules.
LEMMA BothFound ==
  ASSUME NEW m \in Findings, NEW n \in Findings
  PROVE  /\ Both(m, n) \in Findings
         /\ Both(m, n).issues = <<>> => m.issues = <<>> /\ n.issues = <<>>
<1>1. m.issues \o n.issues \in Seq(Diagnostics) /\ m.warnings \o n.warnings \in Seq(Diagnostics)
  BY EmptyBoth DEF Findings
<1>2. m.issues \o n.issues = <<>> => m.issues = <<>> /\ n.issues = <<>>
  BY EmptyBoth DEF Findings
<1> QED
  BY <1>1, <1>2 DEF Both, Findings

\* An object is a function on some of the keys.
LEMMA Objects ==
  ASSUME NEW f
  PROVE  f \in Inputs <=> f \in [DOMAIN f -> Values] /\ DOMAIN f \subseteq Keys
  BY DEF Inputs

\* The names of positions and of properties.
LEMMA Named ==
  /\ Root \in Nat /\ Root >= 1
  /\ \A p \in 1..Root : p # Root => p \in DOMAIN Shape /\ Shape[p] \in Declared
  /\ \A p \in 1..Root : NameAt(p) \in Keys \cup {"root"}
  /\ \A i \in DOMAIN Names : Names[i] \in Keys
  /\ \A k \in Declared : \E p \in 1..Root - 1 : Shape[p] = k
<1>1. Shape \in Seq(Declared) /\ Undeclared \in Seq(Range(Undeclared))
  BY ParseAssumption
<1>2. Root \in Nat /\ Root >= 1 /\ DOMAIN Shape = 1..Root - 1
  BY <1>1 DEF Root
<1>3. \A p \in 1..Root : p # Root => p \in DOMAIN Shape /\ Shape[p] \in Declared
  BY <1>1, <1>2
<1>4. \A p \in 1..Root : NameAt(p) \in Keys \cup {"root"}
  BY <1>3 DEF NameAt, Keys
<1>5. Names \in Seq(Keys)
  <2>1. Shape \in Seq(Keys) /\ Undeclared \in Seq(Keys)
    BY <1>1 DEF Keys
  <2> QED
    BY <2>1 DEF Names
<1>6. \A k \in Declared : \E p \in 1..Root - 1 : Shape[p] = k
  BY <1>2 DEF Declared, Range
<1> QED
  BY <1>2, <1>3, <1>4, <1>5, <1>6

-----------------------------------------------------------------------------
(* One step. *)

\* The loop over the shape comes to a position.
LEMMA Comes ==
  ASSUME TypeOK, NEW p \in 1..Root, ComeTo(p), input' = input
  PROVE  /\ pos' = p /\ pos' \in 1..Root /\ value' \in Values /\ stage' \in {"absent", "left", "base"}
         /\ stage' = "absent" => pos' # Root /\ Shape[pos'] \notin DOMAIN input'
         /\ stage' = "left" => pos' = Root
<1>1. input \in [DOMAIN input -> Values]
  BY Objects DEF TypeOK
<1>2. Undefined \in Values
  BY ParseAssumption
<1> QED
  BY <1>1, <1>2, Named DEF ComeTo

\* The rules come to an index.
LEMMA Goes ==
  ASSUME TypeOK, NEW i \in Nat \ {0}, Onward(i)
  PROVE  /\ rules[pos] \in Seq(Checks)
         /\ at' = i /\ stage' \in {"check", "rule", "settled"}
         /\ stage' # "settled" => at' \in DOMAIN rules[pos]
         /\ stage' = "settled" => \A j \in DOMAIN rules[pos] : j < i
<1>1. rules[pos] \in Seq(Checks)
  BY ParseAssumption DEF TypeOK
<1> QED
  BY <1>1 DEF Onward

\* The first state.
LEMMA ParseStarts == Init => ParseInv
<1> SUFFICES ASSUME Init PROVE ParseInv
  OBVIOUS
<1>1. TypeOK
  <2>1. <<>> \in Seq(Diagnostics)
    OBVIOUS
  <2>2. <<>> \in Inputs
    <3>1. DOMAIN <<>> = {} /\ <<>> \in [{} -> Values]
      OBVIOUS
    <3> QED
      BY <3>1, Objects
  <2>3. 1 \in 1..Root /\ Undefined \in Values /\ 0 \in 0..MaxChanges
    BY Named, ParseAssumption
  <2> QED
    BY <2>1, <2>2, <2>3 DEF Init, TypeOK, Nothing, Stages
<1>2. PlaceInv /\ ChecksInv /\ BehindInv /\ OutputInv
  BY ParseAssumption DEF Init, PlaceInv, ChecksInv, BehindInv, OutputInv, TypeOK
<1> QED
  BY <1>1, <1>2 DEF ParseInv

\* The call reads its first property.
LEMMA CallStep == ParseInv /\ Call => ParseInv'
<1> SUFFICES ASSUME ParseInv, Call PROVE ParseInv'
  OBVIOUS
<1>1. TypeOK /\ PlaceInv /\ BehindInv /\ OutputInv
  BY DEF ParseInv
<1>2. /\ ComeTo(1) /\ 1 \in 1..Root /\ stage = "idle" /\ keys' = DOMAIN input
      /\ UNCHANGED <<policy, rules, given, input, changes, at, found, output, issues, warnings>>
  BY Named DEF Call, schema
<1>3. /\ pos' = 1 /\ pos' \in 1..Root /\ value' \in Values /\ stage' \in {"absent", "left", "base"}
      /\ stage' = "absent" => pos' # Root /\ Shape[pos'] \notin DOMAIN input'
      /\ stage' = "left" => pos' = Root
  BY <1>1, <1>2, Comes
<1>4. TypeOK'
  <2>1. keys' \subseteq DOMAIN given
    BY <1>1, <1>2 DEF PlaceInv
  <2> QED
    BY <1>1, <1>2, <1>3, <2>1 DEF TypeOK, Stages, Awaits
<1>5. PlaceInv'
  BY <1>1, <1>2, <1>3 DEF PlaceInv
<1>6. ChecksInv' /\ BehindInv' /\ OutputInv'
  BY <1>1, <1>2, <1>3 DEF ChecksInv, BehindInv, OutputInv, TypeOK
<1> QED
  BY <1>4, <1>5, <1>6 DEF ParseInv

\* A property that is passed over is optional, or leaves an issue.
LEMMA PassOverStep == ParseInv /\ PassOver => ParseInv'
<1> SUFFICES ASSUME ParseInv, PassOver PROVE ParseInv'
  OBVIOUS
<1>1. TypeOK /\ PlaceInv /\ BehindInv /\ OutputInv
  BY DEF ParseInv
<1>2. /\ ComeTo(pos + 1) /\ stage = "absent" /\ issues' = issues \o Absent(Shape[pos])
      /\ UNCHANGED <<policy, rules, given, input, changes, keys, at, found, output, warnings>>
  BY DEF PassOver, schema
<1>3. pos \in 1..Root /\ pos # Root /\ Shape[pos] \notin DOMAIN input /\ Shape[pos] \in Declared /\ pos + 1 \in 1..Root
  BY <1>1, <1>2, Named DEF PlaceInv, TypeOK
<1>4. /\ pos' = pos + 1 /\ pos' \in 1..Root /\ value' \in Values /\ stage' \in {"absent", "left", "base"}
      /\ stage' = "absent" => pos' # Root /\ Shape[pos'] \notin DOMAIN input'
      /\ stage' = "left" => pos' = Root
  BY <1>1, <1>2, <1>3, Comes
<1>5. Absent(Shape[pos]) \in Seq(Diagnostics) /\ (Absent(Shape[pos]) = <<>> => Shape[pos] \notin Required)
  <2>1. Shape[pos] \in Keys \cup {"root"} /\ "missing" \in Codes
    BY <1>3 DEF Keys, Codes
  <2>2. <<>> \in Seq(Diagnostics)
    OBVIOUS
  <2> QED
    BY <2>1, <2>2, Notes DEF Absent
<1>6. issues' \in Seq(Diagnostics) /\ (issues' = <<>> => issues = <<>> /\ Shape[pos] \notin Required)
  BY <1>1, <1>2, <1>5, EmptyBoth DEF TypeOK
<1>7. TypeOK'
  BY <1>1, <1>2, <1>4, <1>6 DEF TypeOK, Stages, Awaits
<1>8. PlaceInv'
  BY <1>1, <1>2, <1>4 DEF PlaceInv
<1>9. BehindInv'
  <2> SUFFICES ASSUME issues' = <<>>, NEW p \in 1..pos
               PROVE  /\ policy # "passthrough" /\ Shape[p] \in Required => Shape[p] \in DOMAIN output
                      /\ changes = 0 /\ Shape[p] \in DOMAIN given => \A i \in DOMAIN rules[p] : ~Rejected(p, i)
    BY <1>2, <1>3, <1>4 DEF BehindInv, Rejected
  <2>1. CASE p = pos
    BY <2>1, <1>1, <1>2, <1>3, <1>6 DEF PlaceInv
  <2>2. CASE p # pos
    <3>1. p \in 1..pos - 1
      BY <2>2, <1>3
    <3> QED
      BY <3>1, <1>1, <1>6 DEF BehindInv
  <2> QED
    BY <2>1, <2>2
<1>10. ChecksInv' /\ OutputInv'
  BY <1>1, <1>2, <1>4 DEF ChecksInv, OutputInv
<1> QED
  BY <1>7, <1>8, <1>9, <1>10 DEF ParseInv

\* A key that is rejected leaves an issue.
LEMMA RejectStep == ParseInv /\ RejectKey => ParseInv'
<1> SUFFICES ASSUME ParseInv, RejectKey PROVE ParseInv'
  OBVIOUS
<1>1. TypeOK /\ PlaceInv /\ BehindInv /\ OutputInv
  BY DEF ParseInv
<1>2. PICK i \in DOMAIN Names : issues' = issues \o Note("unexpected", Names[i]) /\ keys' = keys \ {Names[i]}
  BY DEF RejectKey
<1>3. stage = "left" /\ UNCHANGED <<policy, rules, given, input, changes, pos, value, at, found, output, warnings, stage>>
  BY DEF RejectKey, schema
<1>4. issues' \in Seq(Diagnostics) /\ issues' # <<>>
  <2>1. Note("unexpected", Names[i]) \in Seq(Diagnostics) /\ Note("unexpected", Names[i]) # <<>>
    BY Notes, Named DEF Codes
  <2> QED
    BY <1>1, <1>2, <2>1, EmptyBoth DEF TypeOK
<1>5. TypeOK'
  BY <1>1, <1>2, <1>3, <1>4 DEF TypeOK
<1> QED
  BY <1>1, <1>3, <1>4, <1>5 DEF ParseInv, PlaceInv, ChecksInv, BehindInv, OutputInv

\* The object is complete; only under passthrough has it other properties.
LEMMA CompleteStep == ParseInv /\ Complete => ParseInv'
<1> SUFFICES ASSUME ParseInv, Complete PROVE ParseInv'
  OBVIOUS
<1>1. TypeOK /\ PlaceInv /\ BehindInv /\ OutputInv
  BY DEF ParseInv
<1>2. /\ stage = "left" /\ stage' = "base"
      /\ output' = IF policy # "passthrough" THEN output
                   ELSE [k \in DOMAIN output \cup keys |-> IF k \in keys THEN ValueOf(input, k) ELSE output[k]]
      /\ UNCHANGED <<policy, rules, given, input, changes, keys, pos, value, at, found, issues, warnings>>
  BY DEF Complete, schema
<1>3. output' \in Inputs
  <2>1. output \in [DOMAIN output -> Values] /\ input \in [DOMAIN input -> Values] /\ given \in [DOMAIN given -> Values]
        /\ DOMAIN output \subseteq Keys /\ DOMAIN given \subseteq Keys /\ keys \subseteq DOMAIN given /\ output \in Inputs
    BY <1>1, Objects DEF TypeOK
  <2>2. \A k : ValueOf(input, k) \in Values
    BY <2>1, ParseAssumption DEF ValueOf
  <2>3. CASE policy = "passthrough"
    <3>1. output' \in [DOMAIN output \cup keys -> Values] /\ DOMAIN output \cup keys \subseteq Keys
      BY <1>2, <2>1, <2>2, <2>3
    <3> QED
      BY <3>1, Objects
  <2> QED
    BY <1>2, <2>1, <2>3
<1>4. TypeOK'
  BY <1>1, <1>2, <1>3 DEF TypeOK, Stages, Awaits
<1> QED
  BY <1>1, <1>2, <1>4 DEF ParseInv, PlaceInv, ChecksInv, BehindInv, OutputInv, Rejected

\* Rules run on what a schema accepted.
LEMMA BaseStep == ParseInv /\ BaseSettles => ParseInv'
<1> SUFFICES ASSUME ParseInv, BaseSettles PROVE ParseInv'
  OBVIOUS
<1>1. TypeOK /\ PlaceInv /\ BehindInv /\ OutputInv
  BY DEF ParseInv
<1>2. /\ stage = "base" /\ found = Nothing
      /\ UNCHANGED <<policy, rules, given, input, changes, keys, pos, value, output, issues, warnings>>
  BY <1>1 DEF BaseSettles, schema, PlaceInv
<1>3. CASE IF pos = Root THEN issues = <<>> ELSE Accepts(Shape[pos], value)
  <2>1. Onward(1) /\ found' = found
    BY <1>3 DEF BaseSettles
  <2>2. /\ rules[pos] \in Seq(Checks) /\ at' = 1 /\ stage' \in {"check", "rule", "settled"}
        /\ stage' # "settled" => at' \in DOMAIN rules[pos]
        /\ stage' = "settled" => \A j \in DOMAIN rules[pos] : j < 1
    BY <1>1, <2>1, Goes
  <2>3. TypeOK'
    BY <1>1, <1>2, <2>1, <2>2 DEF TypeOK, Stages, Awaits
  <2>4. \A j \in DOMAIN rules[pos] : ~(j < 1)
    BY <2>2
  <2>5. ChecksInv'
    BY <1>2, <1>3, <2>1, <2>2, <2>4 DEF ChecksInv, Accepts
  <2>6. PlaceInv' /\ BehindInv' /\ OutputInv'
    BY <1>1, <1>2, <2>2 DEF PlaceInv, BehindInv, OutputInv, Rejected
  <2> QED
    BY <2>3, <2>5, <2>6 DEF ParseInv
<1>4. CASE ~(IF pos = Root THEN issues = <<>> ELSE Accepts(Shape[pos], value))
  <2>1. stage' = "settled" /\ at' = at /\ found' = IF pos = Root THEN Nothing ELSE Fatal("invalid", Shape[pos])
    BY <1>4 DEF BaseSettles
  <2>2. found' \in Findings /\ (pos # Root => found'.issues # <<>>)
    <3>1. pos # Root => Note("invalid", Shape[pos]) \in Seq(Diagnostics) /\ Note("invalid", Shape[pos]) # <<>>
      BY <1>1, Named, Notes DEF TypeOK, Codes, Keys
    <3>2. <<>> \in Seq(Diagnostics)
      OBVIOUS
    <3> QED
      BY <2>1, <3>1, <3>2 DEF Fatal, Nothing, Findings
  <2>3. TypeOK'
    BY <1>1, <1>2, <2>1, <2>2 DEF TypeOK, Stages, Awaits, Findings
  <2>4. ChecksInv'
    BY <1>2, <1>4, <2>1, <2>2 DEF ChecksInv
  <2>5. PlaceInv' /\ BehindInv' /\ OutputInv'
    BY <1>1, <1>2, <2>1 DEF PlaceInv, BehindInv, OutputInv, Rejected
  <2> QED
    BY <2>3, <2>4, <2>5 DEF ParseInv
<1> QED
  BY <1>3, <1>4

\* A rule that was rejected has left an issue when the next one is looked at.
LEMMA RuleStep == ParseInv /\ RuleSettles => ParseInv'
<1> SUFFICES ASSUME ParseInv, RuleSettles PROVE ParseInv'
  OBVIOUS
<1>1. TypeOK /\ PlaceInv /\ ChecksInv /\ BehindInv /\ OutputInv
  BY DEF ParseInv
<1> DEFINE ran == RunAsyncRule(rules[pos][at], NameAt(pos))
<1>2. /\ stage \in {"check", "rule"} /\ found' = Both(found, ran) /\ Onward(at + 1) /\ at + 1 \in Nat \ {0}
      /\ UNCHANGED <<policy, rules, given, input, changes, keys, pos, value, output, issues, warnings>>
  BY <1>1 DEF RuleSettles, schema, TypeOK
<1>3. /\ rules[pos] \in Seq(Checks) /\ at' = at + 1 /\ stage' \in {"check", "rule", "settled"}
      /\ stage' # "settled" => at' \in DOMAIN rules[pos]
      /\ stage' = "settled" => \A j \in DOMAIN rules[pos] : j < at + 1
  BY <1>1, <1>2, Goes
<1>4. at \in DOMAIN rules[pos] /\ rules[pos][at] \in Checks /\ NameAt(pos) \in Keys \cup {"root"}
  BY <1>1, <1>2, <1>3, Named DEF PlaceInv, TypeOK
<1>5. ran \in Findings /\ (Rejected(pos, at) => ran.issues # <<>>)
  BY <1>4, Ran DEF Rejected
<1>6. found' \in Findings /\ (found'.issues = <<>> => found.issues = <<>> /\ ran.issues = <<>>)
  <2>1. found \in Findings
    BY <1>1 DEF TypeOK, Findings
  <2> HIDE DEF ran
  <2> QED
    BY <1>2, <1>5, <2>1, BothFound
<1> HIDE DEF ran
<1>7. TypeOK'
  BY <1>1, <1>2, <1>3, <1>6 DEF TypeOK, Stages, Awaits, Findings
<1>8. ChecksInv'
  <2> SUFFICES ASSUME found'.issues = <<>>, pos = Root => issues = <<>>
               PROVE  /\ pos # Root => Accepts(Shape[pos], value)
                      /\ \A i \in DOMAIN rules[pos] : stage' = "settled" \/ i < at + 1 => ~Rejected(pos, i)
    BY <1>2, <1>3 DEF ChecksInv, Rejected, Accepts
  <2>1. /\ pos # Root => Accepts(Shape[pos], value)
        /\ \A i \in DOMAIN rules[pos] : i < at => ~Rejected(pos, i)
    BY <1>1, <1>2, <1>6 DEF ChecksInv
  <2>2. ~Rejected(pos, at)
    BY <1>5, <1>6
  <2>3. \A i \in DOMAIN rules[pos] : stage' = "settled" \/ i < at + 1 => i < at \/ i = at
    BY <1>3, <1>4
  <2> QED
    BY <2>1, <2>2, <2>3
<1>9. PlaceInv' /\ BehindInv' /\ OutputInv'
  BY <1>1, <1>2, <1>3 DEF PlaceInv, BehindInv, OutputInv, Rejected
<1> QED
  BY <1>7, <1>8, <1>9 DEF ParseInv

\* A property without diagnostics is put into the output as its schema accepted it.
LEMMA PropertyStep == ParseInv /\ PropertySettles => ParseInv'
<1> SUFFICES ASSUME ParseInv, PropertySettles PROVE ParseInv'
  OBVIOUS
<1>1. TypeOK /\ PlaceInv /\ ChecksInv /\ BehindInv /\ OutputInv
  BY DEF ParseInv
<1> DEFINE key == Shape[pos]
<1>2. /\ stage = "settled" /\ pos # Root /\ keys' = keys \ {key} /\ ComeTo(pos + 1)
      /\ output' = IF Emitted THEN With(output, key, value) ELSE output
      /\ issues' = issues \o found.issues /\ warnings' = warnings \o found.warnings /\ found' = Nothing
      /\ UNCHANGED <<policy, rules, given, input, changes, at>>
  BY DEF PropertySettles, schema
<1>3. pos \in 1..Root /\ pos + 1 \in 1..Root /\ key \in Declared /\ key \in Keys
  BY <1>1, <1>2, Named DEF TypeOK, Keys
<1>4. /\ pos' = pos + 1 /\ pos' \in 1..Root /\ value' \in Values /\ stage' \in {"absent", "left", "base"}
      /\ stage' = "absent" => pos' # Root /\ Shape[pos'] \notin DOMAIN input'
      /\ stage' = "left" => pos' = Root
  BY <1>1, <1>2, <1>3, Comes
<1>5. /\ issues' \in Seq(Diagnostics) /\ warnings' \in Seq(Diagnostics)
      /\ issues' = <<>> => issues = <<>> /\ found.issues = <<>>
  BY <1>1, <1>2, EmptyBoth DEF TypeOK
<1>6. output' \in Inputs
  <2>1. output \in [DOMAIN output -> Values] /\ DOMAIN output \subseteq Keys /\ value \in Values
    BY <1>1, Objects DEF TypeOK
  <2>2. With(output, key, value) \in [DOMAIN output \cup {key} -> Values] /\ DOMAIN output \cup {key} \subseteq Keys
    BY <1>3, <2>1 DEF With
  <2>3. With(output, key, value) \in Inputs
    BY <2>2, Objects
  <2> QED
    BY <1>1, <1>2, <2>3 DEF TypeOK
<1>7. TypeOK'
  <2>1. Nothing \in [issues : Seq(Diagnostics), warnings : Seq(Diagnostics)]
    <3>1. <<>> \in Seq(Diagnostics)
      OBVIOUS
    <3> QED
      BY <3>1 DEF Nothing
  <2> QED
    BY <1>1, <1>2, <1>4, <1>5, <1>6, <2>1 DEF TypeOK, Stages, Awaits
<1>8. PlaceInv' /\ ChecksInv'
  BY <1>1, <1>2, <1>4 DEF PlaceInv, ChecksInv
<1>9. found.issues = <<>> => Accepts(key, value) /\ \A i \in DOMAIN rules[pos] : ~Rejected(pos, i)
  BY <1>1, <1>2 DEF ChecksInv
<1>10. /\ Emitted => found.issues = <<>> /\ DOMAIN output' = DOMAIN output \cup {key}
                     /\ \A k \in DOMAIN output' : output'[k] = IF k = key THEN value ELSE output[k]
       /\ found.issues = <<>> /\ key \in Required => Emitted
       /\ ~Emitted => output' = output
  BY <1>2 DEF Emitted, With
<1>11. OutputInv'
  BY <1>1, <1>2, <1>3, <1>9, <1>10 DEF OutputInv, Accepts
<1>12. BehindInv'
  <2> SUFFICES ASSUME issues' = <<>>, NEW p \in 1..pos
               PROVE  /\ policy # "passthrough" /\ Shape[p] \in Required => Shape[p] \in DOMAIN output'
                      /\ changes = 0 /\ Shape[p] \in DOMAIN given => \A i \in DOMAIN rules[p] : ~Rejected(p, i)
    BY <1>2, <1>3, <1>4 DEF BehindInv, Rejected
  <2>1. CASE p = pos
    BY <2>1, <1>5, <1>9, <1>10
  <2>2. CASE p # pos
    <3>1. p \in 1..pos - 1
      BY <2>2, <1>3
    <3> QED
      BY <3>1, <1>1, <1>5, <1>10 DEF BehindInv
  <2> QED
    BY <2>1, <2>2
<1> QED
  BY <1>7, <1>8, <1>11, <1>12 DEF ParseInv

\* The parse resolves.
LEMMA ObjectStep == ParseInv /\ ObjectSettles => ParseInv'
<1> SUFFICES ASSUME ParseInv, ObjectSettles PROVE ParseInv'
  OBVIOUS
<1>1. TypeOK /\ PlaceInv /\ ChecksInv /\ BehindInv /\ OutputInv
  BY DEF ParseInv
<1>2. /\ stage = "settled" /\ pos = Root /\ stage' = "done" /\ found' = Nothing
      /\ issues' = issues \o found.issues /\ warnings' = warnings \o found.warnings
      /\ UNCHANGED <<policy, rules, given, input, changes, keys, pos, value, at, output>>
  BY DEF ObjectSettles, schema
<1>3. /\ issues' \in Seq(Diagnostics) /\ warnings' \in Seq(Diagnostics)
      /\ issues' = <<>> => issues = <<>> /\ found.issues = <<>>
  BY <1>1, <1>2, EmptyBoth DEF TypeOK
<1>4. TypeOK'
  <2>1. Nothing \in [issues : Seq(Diagnostics), warnings : Seq(Diagnostics)]
    <3>1. <<>> \in Seq(Diagnostics)
      OBVIOUS
    <3> QED
      BY <3>1 DEF Nothing
  <2> QED
    BY <1>1, <1>2, <1>3, <2>1 DEF TypeOK, Stages
<1>5. issues' = <<>> => \A i \in DOMAIN rules[Root] : ~Rejected(Root, i)
  BY <1>1, <1>2, <1>3 DEF ChecksInv
<1>6. BehindInv'
  BY <1>1, <1>2, <1>3, <1>5 DEF BehindInv, Rejected
<1>7. PlaceInv' /\ ChecksInv' /\ OutputInv'
  BY <1>1, <1>2 DEF PlaceInv, ChecksInv, OutputInv
<1> QED
  BY <1>4, <1>6, <1>7 DEF ParseInv

\* What the caller changes is behind the parse, or is read later.
LEMMA ChangeStep == ASSUME NEW key \in Keys PROVE ParseInv /\ Change(key) => ParseInv'
<1> SUFFICES ASSUME ParseInv, Change(key) PROVE ParseInv'
  OBVIOUS
<1>1. TypeOK /\ PlaceInv /\ ChecksInv /\ BehindInv /\ OutputInv
  BY DEF ParseInv
<1>2. /\ stage \in Awaits /\ changes < MaxChanges /\ changes' = changes + 1
      /\ UNCHANGED <<policy, rules, given, keys, pos, value, at, found, output, issues, warnings, stage>>
  BY DEF Change, schema
<1>3. changes \in Nat /\ changes' \in 0..MaxChanges /\ changes' # 0
  BY <1>1, <1>2, ParseAssumption DEF TypeOK
<1>4. input' \in Inputs
  <2>1. input \in [DOMAIN input -> Values] /\ DOMAIN input \subseteq Keys
    BY <1>1, Objects DEF TypeOK
  <2>2. CASE input' = [k \in DOMAIN input \ {key} |-> input[k]]
    <3>1. input' \in [DOMAIN input \ {key} -> Values] /\ DOMAIN input \ {key} \subseteq Keys
      BY <2>1, <2>2
    <3> QED
      BY <3>1, Objects
  <2>3. ASSUME NEW v \in Values, input' = [k \in DOMAIN input \cup {key} |-> IF k = key THEN v ELSE input[k]]
        PROVE  input' \in Inputs
    <3>1. input' \in [DOMAIN input \cup {key} -> Values] /\ DOMAIN input \cup {key} \subseteq Keys
      BY <2>1, <2>3
    <3> QED
      BY <3>1, Objects
  <2> QED
    BY <2>2, <2>3 DEF Change
<1>5. TypeOK'
  BY <1>1, <1>2, <1>3, <1>4 DEF TypeOK
<1>6. PlaceInv'
  BY <1>1, <1>2, <1>3 DEF PlaceInv, Awaits
<1>7. ChecksInv' /\ BehindInv' /\ OutputInv'
  BY <1>1, <1>2, <1>3 DEF ChecksInv, BehindInv, OutputInv, Rejected
<1> QED
  BY <1>5, <1>6, <1>7 DEF ParseInv

\* The invariant holds throughout.
LEMMA Parses == Spec => []ParseInv
<1>1. ParseInv /\ [Next]_vars => ParseInv'
  <2> SUFFICES ASSUME ParseInv, [Next]_vars PROVE ParseInv'
    OBVIOUS
  <2>1. CASE UNCHANGED vars
    BY <2>1 DEF vars, ParseInv, TypeOK, PlaceInv, ChecksInv, BehindInv, OutputInv, Rejected
  <2> QED
    BY <2>1, CallStep, PassOverStep, RejectStep, CompleteStep, BaseStep, RuleStep, PropertyStep, ObjectStep,
       ChangeStep DEF Next
<1> QED
  BY <1>1, ParseStarts, PTL DEF Spec

-----------------------------------------------------------------------------
(* Theorems. *)

\* Every state of an asynchronous parse is well typed.
THEOREM TypeCorrect == Spec => []TypeOK
<1>1. ParseInv => TypeOK
  BY DEF ParseInv
<1> QED
  BY <1>1, Parses, PTL

\* A parse that succeeds on an input left alone has run no asynchronous rule that was
\* rejected, not even one that only warns (applyChecksAsync).
THEOREM RejectionsAreFatal == Spec => []RejectionIsFatal
<1>1. ParseInv => RejectionIsFatal
  <2> SUFFICES ASSUME ParseInv, stage = "done", issues = <<>>, changes = 0,
                      NEW p \in 1..Root, p = Root \/ Shape[p] \in DOMAIN given
               PROVE  ~\E i \in DOMAIN rules[p] : Rejected(p, i)
    BY DEF RejectionIsFatal, Succeeded, Rejected
  <2>1. pos = Root /\ BehindInv
    BY DEF ParseInv, PlaceInv
  <2>2. CASE p = Root
    BY <2>1, <2>2 DEF BehindInv
  <2>3. CASE p # Root
    <3>1. p \in 1..pos - 1
      BY <2>1, <2>3, Named
    <3> QED
      BY <2>1, <2>3, <3>1 DEF BehindInv
  <2> QED
    BY <2>2, <2>3
<1> QED
  BY <1>1, Parses, PTL

\* Whatever the caller does to its object meanwhile, a successful parse under reject or
\* strip yields declared properties only, each accepted by its schema, and all that
\* are required (ObjectSchema.parseBaseAsync).
THEOREM ClosedOutputsAreValidated == Spec => []ClosedOutputIsValidated
<1>1. ParseInv => ClosedOutputIsValidated
  <2> SUFFICES ASSUME ParseInv, stage = "done", issues = <<>>, policy # "passthrough"
               PROVE  DOMAIN output \subseteq Declared /\ Validated(output)
    BY DEF ClosedOutputIsValidated, Succeeded
  <2>1. pos = Root /\ BehindInv /\ OutputInv
    BY DEF ParseInv, PlaceInv
  <2>2. Required \subseteq DOMAIN output
    <3> SUFFICES ASSUME NEW k \in Required PROVE k \in DOMAIN output
      OBVIOUS
    <3>1. PICK p \in 1..Root - 1 : Shape[p] = k
      BY Named, ParseAssumption
    <3> QED
      BY <2>1, <3>1 DEF BehindInv
  <2> QED
    BY <2>1, <2>2 DEF OutputInv, Validated
<1> QED
  BY <1>1, Parses, PTL

-----------------------------------------------------------------------------
(* Findings in a row. *)

\* Of some positions, one is the first (well-founded induction over Nat).
LEMMA FirstPosition ==
  ASSUME NEW S \in SUBSET Nat, S # {}
  PROVE  \E n \in S : \A k \in S : n <= k
<1> DEFINE R == OpToRel(<, Nat)
<1>1. IsWellFoundedOn(R, Nat)
  BY NatLessThanWellFounded
<1>2. \A x, y \in Nat : x < y => <<x, y>> \in R
  BY Zenon DEF OpToRel
<1> HIDE DEF R
<1>3. PICK x \in S : \A y \in S : ~(<<y, x>> \in R)
  BY <1>1, WFMin
<1>4. ASSUME NEW k \in S PROVE x <= k
  <2>1. x \in Nat /\ k \in Nat
    OBVIOUS
  <2>2. ~(k < x)
    BY <1>2, <1>3, <2>1
  <2> QED
    BY <2>1, <2>2
<1> QED
  BY <1>4

\* The function that Upto chooses, up to part n.
Sums(parts, n, f) == f = [k \in 0..n |-> IF k = 0 THEN Nothing ELSE Both(f[k - 1], parts[k])]

\* There is such a function: of the lengths without one, there would be a first.
LEMMA UptoExists ==
  ASSUME NEW parts, Len(parts) \in Nat
  PROVE  Sums(parts, Len(parts), Upto(parts))
<1> DEFINE Missing == {n \in Nat : ~\E f : Sums(parts, n, f)}
<1>1. Missing = {}
  <2> SUFFICES ASSUME Missing # {} PROVE FALSE
    OBVIOUS
  <2>1. PICK n \in Missing : \A k \in Missing : n <= k
    <3>1. Missing \in SUBSET Nat
      OBVIOUS
    <3> HIDE DEF Missing
    <3> QED
      BY <3>1, FirstPosition
  <2>2. n \in Nat /\ ~\E f : Sums(parts, n, f)
    OBVIOUS
  <2>3. CASE n = 0
    <3>1. Sums(parts, 0, [k \in 0..0 |-> Nothing])
      BY DEF Sums
    <3> QED
      BY <2>2, <2>3, <3>1
  <2>4. CASE n # 0
    <3>1. n - 1 \in Nat /\ n - 1 \notin Missing
      BY <2>1, <2>2, <2>4
    <3>2. PICK f : Sums(parts, n - 1, f)
      BY <3>1
    <3> DEFINE last == Both(f[n - 1], parts[n])
               g == [k \in 0..n |-> IF k = n THEN last ELSE f[k]]
    <3>3. \A k \in 0..n - 1 : f[k] = IF k = 0 THEN Nothing ELSE Both(f[k - 1], parts[k])
      BY <3>2 DEF Sums
    <3>4. \A k \in 0..n : k # n => k \in 0..n - 1 /\ g[k] = f[k]
      BY <2>2
    <3>5. g[n - 1] = f[n - 1] /\ g[n] = last /\ n \in 0..n
      BY <2>2, <3>1
    <3> HIDE DEF last
    <3>6. ASSUME NEW k \in 0..n PROVE g[k] = IF k = 0 THEN Nothing ELSE Both(g[k - 1], parts[k])
      <4>1. CASE k = n
        BY <2>4, <3>5, <4>1 DEF last
      <4>2. CASE k # n
        <5>1. k # 0 => k - 1 \in 0..n /\ k - 1 # n
          BY <2>2, <4>2
        <5>2. k # 0 => g[k - 1] = f[k - 1]
          BY <3>4, <5>1
        <5>3. k \in 0..n - 1 /\ g[k] = f[k]
          BY <3>4, <4>2
        <5> HIDE DEF g
        <5> QED
          BY <3>3, <5>2, <5>3
      <4> QED
        BY <4>1, <4>2
    <3>7. g = [k \in 0..n |-> g[k]]
      OBVIOUS
    <3> HIDE DEF g
    <3>8. g = [k \in 0..n |-> IF k = 0 THEN Nothing ELSE Both(g[k - 1], parts[k])]
      BY <3>6, <3>7
    <3> QED
      BY <2>2, <3>8 DEF Sums
  <2> QED
    BY <2>3, <2>4
<1>2. PICK f : Sums(parts, Len(parts), f)
  BY <1>1
<1>3. Upto(parts) = CHOOSE g : Sums(parts, Len(parts), g)
  BY DEF Upto, Sums
<1> QED
  BY <1>2, <1>3

\* Findings in a row, read at a part.
LEMMA UptoSteps ==
  ASSUME NEW parts, Len(parts) \in Nat
  PROVE  /\ Upto(parts)[0] = Nothing
         /\ \A n \in 1..Len(parts) : Upto(parts)[n] = Both(Upto(parts)[n - 1], parts[n])
<1>1. \A n \in 0..Len(parts) : Upto(parts)[n] = IF n = 0 THEN Nothing ELSE Both(Upto(parts)[n - 1], parts[n])
  BY UptoExists DEF Sums
<1> QED
  BY <1>1

\* Nothing is one of the findings, and adds none.
LEMMA NothingFound ==
  /\ Nothing \in Findings
  /\ \A m \in Findings : Both(m, Nothing) = m /\ Both(Nothing, m) = m
<1>1. <<>> \in Seq(Diagnostics)
  OBVIOUS
<1>2. Nothing \in Findings
  BY <1>1 DEF Nothing, Findings
<1>3. ASSUME NEW m \in Findings PROVE Both(m, Nothing) = m /\ Both(Nothing, m) = m
  <2> DEFINE i == m.issues
             w == m.warnings
  <2>1. i \in Seq(Diagnostics) /\ w \in Seq(Diagnostics) /\ m = [issues |-> i, warnings |-> w]
    BY DEF Findings
  <2>2. Both(m, Nothing) = [issues |-> i \o <<>>, warnings |-> w \o <<>>]
        /\ Both(Nothing, m) = [issues |-> <<>> \o i, warnings |-> <<>> \o w]
    BY DEF Both, Nothing
  <2> HIDE DEF i, w
  <2>3. i \o <<>> = i /\ w \o <<>> = w /\ <<>> \o i = i /\ <<>> \o w = w
    BY <2>1
  <2> QED
    BY <2>1, <2>2, <2>3
<1> QED
  BY <1>2, <1>3

\* Findings in a row are findings.
LEMMA UptoFound ==
  ASSUME NEW parts \in Seq(Findings), NEW n \in 0..Len(parts)
  PROVE  Upto(parts)[n] \in Findings
<1> DEFINE Wrong == {k \in 0..Len(parts) : Upto(parts)[k] \notin Findings}
<1>1. Wrong = {}
  <2> SUFFICES ASSUME Wrong # {} PROVE FALSE
    OBVIOUS
  <2>1. PICK k \in Wrong : \A j \in Wrong : k <= j
    <3>1. Wrong \in SUBSET Nat
      OBVIOUS
    <3> HIDE DEF Wrong
    <3> QED
      BY <3>1, FirstPosition
  <2>2. k \in 0..Len(parts) /\ Upto(parts)[k] \notin Findings /\ Len(parts) \in Nat
    OBVIOUS
  <2>3. k # 0
    BY <2>2, UptoSteps, NothingFound
  <2>4. k - 1 \in 0..Len(parts) /\ k - 1 \notin Wrong /\ k \in 1..Len(parts)
    BY <2>1, <2>2, <2>3
  <2>5. Upto(parts)[k - 1] \in Findings /\ parts[k] \in Findings
    BY <2>4
  <2>6. Upto(parts)[k] = Both(Upto(parts)[k - 1], parts[k])
    BY <2>2, <2>4, UptoSteps
  <2> QED
    BY <2>2, <2>5, <2>6, BothFound
<1> QED
  BY <1>1

\* Parts that are nothing change nothing.
LEMMA UptoRests ==
  ASSUME NEW parts \in Seq(Findings), NEW p \in 0..Len(parts), NEW n \in p..Len(parts),
         \A q \in p + 1..n : parts[q] = Nothing
  PROVE  Upto(parts)[n] = Upto(parts)[p]
<1> DEFINE Moved == {k \in p..n : Upto(parts)[k] # Upto(parts)[p]}
<1>1. Moved = {}
  <2> SUFFICES ASSUME Moved # {} PROVE FALSE
    OBVIOUS
  <2>1. PICK k \in Moved : \A j \in Moved : k <= j
    <3>1. Moved \in SUBSET Nat
      OBVIOUS
    <3> HIDE DEF Moved
    <3> QED
      BY <3>1, FirstPosition
  <2>2. k \in p..n /\ Upto(parts)[k] # Upto(parts)[p] /\ Len(parts) \in Nat
    OBVIOUS
  <2>3. k # p
    BY <2>2
  <2>4. k - 1 \in p..n /\ k - 1 \notin Moved /\ k \in p + 1..n /\ k \in 1..Len(parts) /\ k - 1 \in 0..Len(parts)
    BY <2>1, <2>2, <2>3
  <2>5. Upto(parts)[k] = Both(Upto(parts)[k - 1], Nothing)
    BY <2>2, <2>4, UptoSteps
  <2>6. Upto(parts)[k - 1] \in Findings
    BY <2>4, UptoFound
  <2> QED
    BY <2>2, <2>4, <2>5, <2>6, NothingFound
<1> QED
  BY <1>1

-----------------------------------------------------------------------------
(* Agreement. *)

Runs(p) == [i \in DOMAIN rules[p] |-> RunRule(rules[p][i], NameAt(p))]

Base == Upto(Parts)[Len(Names)]

Seen(p) == {Shape[q] : q \in 1..p - 1}
Kept(S) == {k \in DOMAIN given \cap S : ~(k \notin Required /\ given[k] = Undefined)}
Open == IF policy = "passthrough" THEN DOMAIN given \ Declared ELSE {}

Later(m) == {Names[i] : i \in m + 1..Len(Names)}

Gathered(m) == issues = m.issues /\ warnings = m.warnings
Holds(S) == issues = <<>> => output = [k \in S |-> given[k]]

\* At a property, the ones before it are behind both parses.
AtProperty ==
  /\ Gathered(Upto(Parts)[pos - 1])
  /\ keys = DOMAIN given \ Seen(pos)
  /\ Holds(Kept(Seen(pos)))
  /\ stage # "absent" => Shape[pos] \in DOMAIN given /\ value = given[Shape[pos]]
  /\ stage = "check" => Accepts(Shape[pos], value) /\ found = Upto(Runs(pos))[at - 1]
  /\ stage = "settled" => found = ParseProperty(pos)

\* After the last property, so are some of the other keys.
AtLeft ==
  \E m \in Len(Shape)..Len(Names) :
    /\ Gathered(Upto(Parts)[m])
    /\ keys = DOMAIN given \cap Later(m)
    /\ Holds(Kept(Declared))
    /\ policy = "reject" \/ m = Len(Shape)

\* At the object itself, all properties are behind, and in the end its rules.
AtRoot ==
  /\ Holds(Kept(Declared) \cup Open)
  /\ stage # "done" => Gathered(Base)
  /\ stage = "check" => issues = <<>> /\ found = Upto(Runs(Root))[at - 1]
  /\ stage = "settled" => found = IF issues = <<>> THEN ApplyChecks(Root) ELSE Nothing
  /\ stage = "done" => Gathered(IF Base.issues = <<>> THEN Both(Base, ApplyChecks(Root)) ELSE Base)

\* Of an input that is left alone, and a schema whose rules are synchronous: what is
\* gathered is what the synchronous parse finds up to the same place.
AgreeInv ==
  /\ stage = "idle" => issues = <<>> /\ warnings = <<>>
  /\ changes = 0 /\ AllSync =>
       /\ stage # "rule"
       /\ stage # "idle" /\ pos # Root => AtProperty
       /\ stage = "left" => AtLeft
       /\ pos = Root /\ stage \notin {"idle", "left"} => AtRoot

\* The synchronous parse is of the input as it was given, whatever happens to it.
LEMMA Stands ==
  ASSUME UNCHANGED <<policy, rules, given>>
  PROVE  /\ Parts' = Parts /\ Upto(Parts)' = Upto(Parts) /\ Base' = Base
         /\ \A p : Runs(p)' = Runs(p)
         /\ \A p : Upto(Runs(p))' = Upto(Runs(p))
         /\ \A p : ApplyChecks(p)' = ApplyChecks(p)
         /\ \A p : ParseProperty(p)' = ParseProperty(p)
         /\ \A S : Kept(S)' = Kept(S)
         /\ Open' = Open /\ AllSync' = AllSync
<1>1. \A p : Runs(p)' = Runs(p)
  BY DEF Runs
<1>2. \A p : Upto(Runs(p))' = Upto(Runs(p))
  BY <1>1 DEF Upto
<1>3. \A p : ApplyChecks(p)' = ApplyChecks(p)
  BY DEF ApplyChecks, Upto
<1>4. \A p : ParseProperty(p)' = ParseProperty(p)
  BY <1>3 DEF ParseProperty
<1>5. \A k : Unexpected(k)' = Unexpected(k)
  BY DEF Unexpected
<1>6. Parts' = Parts
  BY <1>4, <1>5 DEF Parts
<1>7. Upto(Parts)' = Upto(Parts)
  BY <1>6 DEF Upto
<1>8. Base' = Base
  BY <1>7 DEF Base
<1> QED
  BY <1>1, <1>2, <1>3, <1>4, <1>6, <1>7, <1>8 DEF Kept, Open, AllSync

\* What a rule finds; a synchronous one finds the same in both parses.
LEMMA RuleFound ==
  ASSUME NEW rule \in Checks, NEW name \in Keys \cup {"root"}
  PROVE  /\ RunRule(rule, name) \in Findings
         /\ ~rule.async => RunAsyncRule(rule, name) = RunRule(rule, name)
<1>1. CASE rule.does = "pass"
  BY <1>1, NothingFound DEF RunRule, RunAsyncRule
<1>2. CASE rule.does = "fail"
  BY <1>2, Unmets DEF RunRule, RunAsyncRule
<1>3. CASE rule.does = "promise"
  BY <1>3, Unmets DEF RunRule, RunAsyncRule
<1>4. CASE rule.does = "throw"
  BY <1>4, Unmets DEF RunRule, RunAsyncRule
<1> QED
  BY <1>1, <1>2, <1>3, <1>4 DEF Checks

\* The rules of a position, one after another.
LEMMA RunsFound ==
  ASSUME TypeOK, NEW p \in 1..Root
  PROVE  /\ rules[p] \in Seq(Checks) /\ Len(rules[p]) \in Nat
         /\ Runs(p) \in Seq(Findings) /\ Len(Runs(p)) = Len(rules[p])
         /\ \A i \in DOMAIN rules[p] : Runs(p)[i] = RunRule(rules[p][i], NameAt(p))
         /\ Upto(Runs(p))[0] = Nothing
         /\ Upto(Runs(p))[Len(rules[p])] = ApplyChecks(p)
         /\ ApplyChecks(p) \in Findings
<1>1. rules[p] \in Seq(Checks) /\ Len(rules[p]) \in Nat /\ DOMAIN rules[p] = 1..Len(rules[p])
  <2>1. rules \in [1..Root -> Seq(Checks)]
    BY ParseAssumption DEF TypeOK
  <2>2. rules[p] \in Seq(Checks)
    BY <2>1
  <2> QED
    BY <2>2
<1>2. \A i \in 1..Len(rules[p]) : RunRule(rules[p][i], NameAt(p)) \in Findings
  BY <1>1, Named, RuleFound
<1>3. Runs(p) \in [1..Len(rules[p]) -> Findings]
  BY <1>1, <1>2 DEF Runs
<1>4. Runs(p) \in Seq(Findings) /\ Len(Runs(p)) = Len(rules[p])
  BY <1>1, <1>3
<1>5. \A i \in DOMAIN rules[p] : Runs(p)[i] = RunRule(rules[p][i], NameAt(p))
  BY DEF Runs
<1>6. Upto(Runs(p))[0] = Nothing
  BY <1>1, <1>4, UptoSteps
<1>7. Upto(Runs(p))[Len(rules[p])] = ApplyChecks(p)
  BY DEF Runs, ApplyChecks
<1>8. Len(rules[p]) \in 0..Len(Runs(p))
  BY <1>1, <1>4
<1>9. Upto(Runs(p))[Len(rules[p])] \in Findings
  BY <1>4, <1>8, UptoFound
<1> QED
  BY <1>1, <1>4, <1>5, <1>6, <1>7, <1>9

\* Names in their order.
LEMMA NamesListed ==
  /\ Len(Shape) \in Nat /\ Root = Len(Shape) + 1 /\ Len(Names) \in Nat /\ Len(Shape) <= Len(Names)
  /\ DOMAIN Names = 1..Len(Names)
  /\ \A i \in 1..Len(Shape) : Names[i] = Shape[i] /\ Shape[i] \in Declared
  /\ \A i \in Len(Shape) + 1..Len(Names) : Names[i] \in Range(Undeclared) /\ Names[i] \notin Declared
  /\ \A k \in Range(Undeclared) : \E i \in Len(Shape) + 1..Len(Names) : Names[i] = k
  /\ \A i, j \in Len(Shape) + 1..Len(Names) : Names[i] = Names[j] => i = j
<1>1. /\ Shape \in Seq(Declared) /\ Undeclared \in Seq(Range(Undeclared))
      /\ \A i, j \in DOMAIN Undeclared : Undeclared[i] = Undeclared[j] => i = j
      /\ Declared \cap Range(Undeclared) = {}
  BY ParseAssumption DEF IsInjective
<1> DEFINE n == Len(Shape)
           u == Len(Undeclared)
<1>2. n \in Nat /\ u \in Nat /\ Root = n + 1 /\ DOMAIN Shape = 1..n /\ DOMAIN Undeclared = 1..u
  BY <1>1 DEF Root
<1>3. /\ Len(Names) = n + u /\ DOMAIN Names = 1..n + u
      /\ \A i \in 1..n + u : Names[i] = IF i <= n THEN Shape[i] ELSE Undeclared[i - n]
  <2>1. Shape \in Seq(Keys) /\ Undeclared \in Seq(Keys)
    BY <1>1 DEF Keys
  <2> QED
    BY <2>1 DEF Names
<1> HIDE DEF n, u
<1>4. \A i \in 1..n : Names[i] = Shape[i] /\ Shape[i] \in Declared
  <2>1. \A i \in 1..n : i \in 1..n + u /\ i <= n
    BY <1>2
  <2>2. \A i \in 1..n : Shape[i] \in Declared
    BY <1>1, <1>2
  <2> QED
    BY <1>3, <2>1, <2>2
<1>5. \A i \in n + 1..n + u : i - n \in DOMAIN Undeclared /\ Names[i] = Undeclared[i - n]
  <2>1. \A i \in n + 1..n + u : i - n \in 1..u /\ i \in 1..n + u /\ ~(i <= n)
    BY <1>2
  <2> QED
    BY <1>2, <1>3, <2>1
<1>6. \A i \in n + 1..n + u : Names[i] \in Range(Undeclared) /\ Names[i] \notin Declared
  BY <1>1, <1>5 DEF Range
<1>7. \A k \in Range(Undeclared) : \E i \in n + 1..n + u : Names[i] = k
  <2> SUFFICES ASSUME NEW j \in DOMAIN Undeclared PROVE \E i \in n + 1..n + u : Names[i] = Undeclared[j]
    BY DEF Range
  <2>1. j \in 1..u
    BY <1>2
  <2>2. n + j \in n + 1..n + u /\ (n + j) - n = j
    BY <1>2, <2>1
  <2>3. Names[n + j] = Undeclared[j]
    BY <1>5, <2>2
  <2> QED
    BY <2>2, <2>3
<1>8. \A i, j \in n + 1..n + u : Names[i] = Names[j] => i = j
  <2> SUFFICES ASSUME NEW i \in n + 1..n + u, NEW j \in n + 1..n + u, Names[i] = Names[j] PROVE i = j
    OBVIOUS
  <2>1. i - n = j - n
    BY <1>1, <1>5
  <2> QED
    BY <1>2, <2>1
<1> QED
  BY <1>2, <1>3, <1>4, <1>6, <1>7, <1>8 DEF n

\* What the properties and the other keys contribute.
LEMMA PartsFound ==
  ASSUME TypeOK
  PROVE  /\ Parts \in Seq(Findings) /\ Len(Parts) = Len(Names)
         /\ \A p \in 1..Root - 1 : Parts[p] = ParseProperty(p) /\ ParseProperty(p) \in Findings
         /\ \A p \in Root..Len(Names) : Parts[p] = Unexpected(Names[p])
         /\ Upto(Parts)[0] = Nothing
         /\ Base \in Findings
<1>1. ASSUME NEW p \in 1..Root - 1 PROVE ParseProperty(p) \in Findings
  <2>1. Shape[p] \in Keys /\ p \in 1..Root /\ p # Root /\ Shape[p] \in Declared
    BY <1>1, Named DEF Keys
  <2>2. <<>> \in Seq(Diagnostics) /\ Note("missing", Shape[p]) \in Seq(Diagnostics)
        /\ Note("invalid", Shape[p]) \in Seq(Diagnostics)
    BY <2>1, Notes DEF Codes
  <2>3. Absent(Shape[p]) \in Seq(Diagnostics)
    BY <2>2 DEF Absent
  <2>4. Fatal("invalid", Shape[p]) \in Findings
    BY <2>2 DEF Fatal, Findings
  <2>5. [issues |-> Absent(Shape[p]), warnings |-> <<>>] \in Findings
    BY <2>2, <2>3 DEF Findings
  <2>6. ApplyChecks(p) \in Findings
    BY <2>1, RunsFound
  <2> QED
    BY <2>4, <2>5, <2>6 DEF ParseProperty
<1>2. ASSUME NEW p \in DOMAIN Names PROVE Unexpected(Names[p]) \in Findings
  <2>1. Note("unexpected", Names[p]) \in Seq(Diagnostics) /\ <<>> \in Seq(Diagnostics)
    BY <1>2, Named, Notes DEF Codes
  <2>2. Fatal("unexpected", Names[p]) \in Findings
    BY <2>1 DEF Fatal, Findings
  <2> QED
    BY <2>2, NothingFound DEF Unexpected
<1>3. \A p \in DOMAIN Names : Parts[p] = IF p < Root THEN ParseProperty(p) ELSE Unexpected(Names[p])
  BY DEF Parts
<1>4. Parts \in [1..Len(Names) -> Findings]
  <2>1. \A p \in 1..Len(Names) : p < Root => p \in 1..Root - 1
    BY NamesListed
  <2>2. \A p \in 1..Len(Names) : (IF p < Root THEN ParseProperty(p) ELSE Unexpected(Names[p])) \in Findings
    BY <1>1, <1>2, <2>1, NamesListed
  <2> QED
    BY <2>2, NamesListed DEF Parts
<1>5. Parts \in Seq(Findings) /\ Len(Parts) = Len(Names) /\ Len(Names) \in Nat
  BY <1>4, NamesListed
<1>6. \A p \in 1..Root - 1 : Parts[p] = ParseProperty(p) /\ ParseProperty(p) \in Findings
  <2>1. \A p \in 1..Root - 1 : p \in DOMAIN Names /\ p < Root
    BY NamesListed
  <2> QED
    BY <1>1, <1>3, <2>1
<1>7. \A p \in Root..Len(Names) : Parts[p] = Unexpected(Names[p])
  <2>1. \A p \in Root..Len(Names) : p \in DOMAIN Names /\ ~(p < Root)
    BY NamesListed
  <2> QED
    BY <1>3, <2>1
<1>8. Upto(Parts)[0] = Nothing /\ Base \in Findings
  <2>1. Len(Names) \in 0..Len(Parts)
    BY <1>5
  <2> QED
    BY <1>5, <2>1, UptoSteps, UptoFound DEF Base
<1> QED
  BY <1>5, <1>6, <1>7, <1>8

\* Findings of two, field by field.
LEMMA BothParts ==
  ASSUME NEW m, NEW n
  PROVE  Both(m, n).issues = m.issues \o n.issues /\ Both(m, n).warnings = m.warnings \o n.warnings
<1> DEFINE i == m.issues \o n.issues
           w == m.warnings \o n.warnings
<1>1. Both(m, n) = [issues |-> i, warnings |-> w]
  BY Zenon DEF Both
<1> HIDE DEF i, w
<1>2. Both(m, n).issues = i /\ Both(m, n).warnings = w
  BY <1>1
<1> QED
  BY <1>2 DEF i, w

\* The keys that are behind a position.
LEMMA SeenKeys ==
  ASSUME TypeOK
  PROVE  /\ Seen(1) = {} /\ Seen(Root) = Declared
         /\ \A p \in 1..Root - 1 : Seen(p + 1) = Seen(p) \cup {Shape[p]}
         /\ DOMAIN given \ Declared = DOMAIN given \cap Later(Len(Shape))
<1>1. Root \in Nat /\ Root >= 1
  BY Named
<1>2. Seen(1) = {}
  BY DEF Seen
<1>3. Seen(Root) = Declared
  <2>1. \A p \in 1..Root - 1 : Shape[p] \in Declared
    BY NamesListed
  <2> QED
    BY <2>1, Named DEF Seen
<1>4. ASSUME NEW p \in 1..Root - 1 PROVE Seen(p + 1) = Seen(p) \cup {Shape[p]}
  <2>1. 1..(p + 1) - 1 = (1..p - 1) \cup {p}
    BY <1>1
  <2> QED
    BY <2>1 DEF Seen
<1>5. DOMAIN given \ Declared = DOMAIN given \cap Later(Len(Shape))
  <2>1. DOMAIN given \subseteq Declared \cup Range(Undeclared)
    BY Objects DEF TypeOK, Keys
  <2>2. Later(Len(Shape)) = Range(Undeclared)
    BY NamesListed DEF Later
  <2>3. Declared \cap Range(Undeclared) = {}
    BY ParseAssumption
  <2> QED
    BY <2>1, <2>2, <2>3
<1> QED
  BY <1>2, <1>3, <1>4, <1>5

\* One more part.
LEMMA NextPart ==
  ASSUME TypeOK, NEW n \in 1..Len(Names)
  PROVE  /\ Upto(Parts)[n].issues = Upto(Parts)[n - 1].issues \o Parts[n].issues
         /\ Upto(Parts)[n].warnings = Upto(Parts)[n - 1].warnings \o Parts[n].warnings
<1>1. Len(Parts) = Len(Names) /\ Len(Parts) \in Nat
  BY PartsFound, NamesListed
<1> DEFINE one == Parts[n]
           before == Upto(Parts)[n - 1]
           after == Upto(Parts)[n]
<1>2. after = Both(before, one)
  BY <1>1, UptoSteps
<1> HIDE DEF one, before, after
<1>3. after.issues = before.issues \o one.issues /\ after.warnings = before.warnings \o one.warnings
  BY <1>2, BothParts
<1> QED
  BY <1>3 DEF one, before, after

\* Of a schema with asynchronous rules, or an input that changed, nothing is said.
LEMMA NotAlone ==
  ASSUME UNCHANGED <<policy, rules, given>>, stage' # "idle", changes' # 0 \/ ~AllSync
  PROVE  AgreeInv'
BY Stands DEF AgreeInv

\* The loop over the shape comes to a position, and both parses have got there.
LEMMA ComesAgrees ==
  ASSUME TypeOK, NEW p \in 1..Root, ComeTo(p), UNCHANGED <<policy, rules, given, input>>,
         input = given,
         issues' = Upto(Parts)[p - 1].issues, warnings' = Upto(Parts)[p - 1].warnings,
         keys' = DOMAIN given \ Seen(p),
         issues' = <<>> => output' = [k \in Kept(Seen(p)) |-> given[k]]
  PROVE  AgreeInv'
<1>1. /\ pos' = p /\ stage' \in {"absent", "left", "base"}
      /\ p # Root => stage' # "left"
      /\ p = Root => stage' = "left"
      /\ stage' = "base" => Shape[p] \in DOMAIN given /\ value' = given[Shape[p]]
  BY DEF ComeTo
<1>2. Upto(Parts)' = Upto(Parts) /\ given' = given /\ policy' = policy
  BY Stands
<1>3. Kept(Seen(p))' = Kept(Seen(p)) /\ Kept(Declared)' = Kept(Declared)
  BY DEF Kept
<1>4. CASE p # Root
  <2>1. AtProperty'
    BY <1>1, <1>2, <1>3, <1>4 DEF AtProperty, Gathered, Holds
  <2> QED
    BY <1>1, <1>4, <2>1 DEF AgreeInv
<1>5. CASE p = Root
  <2>1. p - 1 = Len(Shape) /\ Len(Shape) \in Len(Shape)..Len(Names) /\ Seen(p) = Declared
    BY <1>5, NamesListed, SeenKeys
  <2>2. keys' = DOMAIN given \cap Later(Len(Shape))
    BY <2>1, SeenKeys
  <2>3. AtLeft'
    BY <1>2, <1>3, <2>1, <2>2 DEF AtLeft, Gathered, Holds
  <2> QED
    BY <1>1, <1>5, <2>3 DEF AgreeInv
<1> QED
  BY <1>4, <1>5

\* The rules come to an index, and both parses have got there.
LEMMA GoesAgrees ==
  ASSUME TypeOK, NEW i \in Nat \ {0}, i <= Len(rules[pos]) + 1, Onward(i), AllSync,
         UNCHANGED <<policy, rules, given, keys, pos, value, output, issues, warnings>>,
         found' = Upto(Runs(pos))[i - 1],
         pos # Root => /\ AtProperty /\ Shape[pos] \in DOMAIN given /\ value = given[Shape[pos]]
                       /\ Accepts(Shape[pos], value),
         pos = Root => issues = <<>> /\ Holds(Kept(Declared) \cup Open) /\ Gathered(Base)
  PROVE  AgreeInv'
<1>1. PICK p \in 1..Root : p = pos
  BY DEF TypeOK
<1>2. /\ rules[p] \in Seq(Checks) /\ Len(rules[p]) \in Nat
      /\ Upto(Runs(p))[Len(rules[p])] = ApplyChecks(p)
  BY RunsFound
<1>3. /\ at' = i /\ pos' = p
      /\ stage' = IF i > Len(rules[p]) THEN "settled" ELSE "check"
  <2>1. ASSUME i <= Len(rules[p]) PROVE ~rules[p][i].async
    <3>1. rules \in [1..Root -> Seq(Checks)]
      BY ParseAssumption DEF TypeOK
    <3>2. p \in DOMAIN rules
      BY <3>1
    <3>3. i \in DOMAIN rules[p]
      BY <1>2, <2>1
    <3> QED
      BY <3>2, <3>3 DEF AllSync
  <2>2. ~(i > Len(rules[p])) => i <= Len(rules[p])
    BY <1>2
  <2> QED
    BY <1>1, <2>1, <2>2 DEF Onward
<1>4. found' = Upto(Runs(p))[i - 1] /\ (stage' = "settled" => found' = ApplyChecks(p))
  <2>1. i > Len(rules[p]) => i - 1 = Len(rules[p])
    BY <1>1, <1>2
  <2> QED
    BY <1>1, <1>2, <1>3, <2>1
<1>5. /\ Upto(Parts)' = Upto(Parts) /\ Upto(Runs(p))' = Upto(Runs(p)) /\ Base' = Base
      /\ ApplyChecks(p)' = ApplyChecks(p) /\ ParseProperty(p)' = ParseProperty(p)
      /\ Kept(Seen(p))' = Kept(Seen(p)) /\ Kept(Declared)' = Kept(Declared) /\ Open' = Open
      /\ UNCHANGED <<given, keys, value, output, issues, warnings>>
  BY Stands
<1>6. CASE p # Root
  <2>1. ParseProperty(p) = ApplyChecks(p)
    BY <1>1, <1>6 DEF ParseProperty
  <2>2. AtProperty'
    BY <1>1, <1>3, <1>4, <1>5, <1>6, <2>1 DEF AtProperty, Gathered, Holds, Accepts
  <2> QED
    BY <1>3, <1>6, <2>2 DEF AgreeInv
<1>7. CASE p = Root
  <2>1. AtRoot'
    BY <1>1, <1>3, <1>4, <1>5, <1>7 DEF AtRoot, Gathered, Holds
  <2> QED
    BY <1>3, <1>7, <2>1 DEF AgreeInv
<1> QED
  BY <1>6, <1>7

\* Both parses begin with nothing.
LEMMA CallAgrees == ParseInv /\ AgreeInv /\ Call => AgreeInv'
<1> SUFFICES ASSUME ParseInv, AgreeInv, Call PROVE AgreeInv'
  OBVIOUS
<1>1. /\ TypeOK /\ PlaceInv /\ stage = "idle" /\ issues = <<>> /\ warnings = <<>> /\ output = <<>> /\ input = given
      /\ keys' = DOMAIN input /\ ComeTo(1) /\ 1 \in 1..Root
      /\ UNCHANGED <<policy, rules, given, input, changes, output, issues, warnings>>
  BY Named DEF Call, schema, ParseInv, PlaceInv, AgreeInv
<1>2. Upto(Parts)[1 - 1] = [issues |-> <<>>, warnings |-> <<>>] /\ Seen(1) = {}
  BY <1>1, PartsFound, SeenKeys DEF Nothing
<1>3. output' = [k \in Kept(Seen(1)) |-> given[k]]
  BY <1>1, <1>2 DEF Kept
<1> QED
  BY <1>1, <1>2, <1>3, ComesAgrees

\* A property that is absent contributes what is said of it.
LEMMA PassOverAgrees == ParseInv /\ AgreeInv /\ PassOver => AgreeInv'
<1> SUFFICES ASSUME ParseInv, AgreeInv, PassOver PROVE AgreeInv'
  OBVIOUS
<1>1. /\ TypeOK /\ PlaceInv /\ stage = "absent" /\ pos \in 1..Root /\ pos # Root
      /\ Shape[pos] \notin DOMAIN input /\ ComeTo(pos + 1) /\ issues' = issues \o Absent(Shape[pos])
      /\ UNCHANGED <<policy, rules, given, input, changes, keys, output, warnings>>
  BY DEF PassOver, schema, ParseInv, PlaceInv, TypeOK
<1>2. stage' # "idle"
  BY <1>1 DEF ComeTo
<1>3. CASE ~(changes = 0 /\ AllSync)
  BY <1>1, <1>2, <1>3, NotAlone
<1>4. CASE changes = 0 /\ AllSync
  <2>1. input = given /\ AtProperty
    BY <1>1, <1>4 DEF PlaceInv, AgreeInv
  <2>2. PICK p \in 1..Root - 1 : p = pos
    BY <1>1, Named
  <2>3. p \in 1..Len(Names) /\ (p + 1) - 1 = p /\ p + 1 \in 1..Root
    BY NamesListed
  <2>4. Parts[p].issues = Absent(Shape[p]) /\ Parts[p].warnings = <<>>
    <3>1. Parts[p] = [issues |-> Absent(Shape[p]), warnings |-> <<>>]
      BY <1>1, <2>1, <2>2, PartsFound DEF ParseProperty
    <3> QED
      BY <3>1
  <2>5. warnings \o <<>> = warnings /\ issues \in Seq(Diagnostics)
    BY <1>1 DEF TypeOK
  <2>6. issues' = Upto(Parts)[p].issues /\ warnings' = Upto(Parts)[p].warnings
    BY <1>1, <2>1, <2>2, <2>3, <2>4, <2>5, NextPart DEF AtProperty, Gathered
  <2>7. Kept(Seen(p + 1)) = Kept(Seen(p)) /\ DOMAIN given \ Seen(p + 1) = DOMAIN given \ Seen(p)
    BY <1>1, <2>1, <2>2, SeenKeys DEF Kept
  <2>8. issues' = <<>> => issues = <<>>
    <3>1. <<>> \in Seq(Diagnostics) /\ Note("missing", Shape[p]) \in Seq(Diagnostics)
      BY <2>2, Named, Notes DEF Codes, Keys
    <3>2. Absent(Shape[p]) \in Seq(Diagnostics)
      BY <3>1 DEF Absent
    <3> QED
      BY <1>1, <2>2, <2>5, <3>2, EmptyBoth
  <2>9. /\ keys' = DOMAIN given \ Seen(p + 1)
        /\ issues' = <<>> => output' = [k \in Kept(Seen(p + 1)) |-> given[k]]
    BY <1>1, <2>1, <2>2, <2>7, <2>8 DEF AtProperty, Holds
  <2> QED
    BY <1>1, <2>1, <2>2, <2>3, <2>6, <2>9, ComesAgrees
<1> QED
  BY <1>3, <1>4

\* The first of the keys that are left is the next that both reject.
LEMMA RejectAgrees == ParseInv /\ AgreeInv /\ RejectKey => AgreeInv'
<1> SUFFICES ASSUME ParseInv, AgreeInv, RejectKey PROVE AgreeInv'
  OBVIOUS
<1>1. /\ TypeOK /\ PlaceInv /\ stage = "left" /\ pos = Root /\ policy = "reject"
      /\ UNCHANGED <<policy, rules, given, input, changes, pos, output, warnings, stage>>
  BY DEF RejectKey, schema, ParseInv, PlaceInv
<1>2. CASE ~(changes = 0 /\ AllSync)
  BY <1>1, <1>2, NotAlone
<1>3. CASE changes = 0 /\ AllSync
  <2>1. PICK m \in Len(Shape)..Len(Names) :
          /\ issues = Upto(Parts)[m].issues /\ warnings = Upto(Parts)[m].warnings
          /\ keys = DOMAIN given \cap Later(m)
          /\ Holds(Kept(Declared))
    BY <1>1, <1>3 DEF AgreeInv, AtLeft, Gathered
  <2>2. PICK i \in DOMAIN Names :
          /\ Names[i] \in keys /\ \A j \in 1..i - 1 : Names[j] \notin keys
          /\ issues' = issues \o Note("unexpected", Names[i]) /\ keys' = keys \ {Names[i]}
    BY DEF RejectKey
  <2>3. i \in m + 1..Len(Names)
    <3>1. PICK j \in m + 1..Len(Names) : Names[i] = Names[j]
      BY <2>1, <2>2 DEF Later
    <3>2. j \in Len(Shape) + 1..Len(Names) /\ Names[i] \notin Declared
      BY <3>1, NamesListed
    <3>3. i \in Len(Shape) + 1..Len(Names)
      BY <3>2, NamesListed
    <3> QED
      BY <3>1, <3>2, <3>3, NamesListed
  <2>4. /\ Len(Shape) \in Nat /\ Len(Names) \in Nat /\ m \in Nat /\ i \in Nat /\ Root = Len(Shape) + 1
        /\ i \in 1..Len(Names) /\ i \in Root..Len(Names) /\ i \in Len(Shape)..Len(Names)
    BY <2>1, <2>3, NamesListed
  <2>5. Upto(Parts)[i - 1] = Upto(Parts)[m]
    <3>1. \A q \in m + 1..i - 1 : Parts[q] = Nothing
      <4> SUFFICES ASSUME NEW q \in m + 1..i - 1 PROVE Parts[q] = Nothing
        OBVIOUS
      <4>1. q \in 1..i - 1 /\ q \in m + 1..Len(Names) /\ q \in Root..Len(Names)
        BY <2>3, <2>4, <2>1
      <4>2. Names[q] \notin DOMAIN given
        BY <2>1, <2>2, <4>1 DEF Later
      <4> QED
        BY <1>1, <4>1, <4>2, PartsFound DEF Unexpected
    <3>2. /\ Parts \in Seq(Findings) /\ Len(Parts) = Len(Names)
          /\ m \in 0..Len(Parts) /\ i - 1 \in m..Len(Parts)
      BY <1>1, <2>1, <2>3, <2>4, PartsFound
    <3> QED
      BY <3>1, <3>2, UptoRests
  <2>6. Parts[i].issues = Note("unexpected", Names[i]) /\ Parts[i].warnings = <<>>
    <3>1. Names[i] \in DOMAIN given
      BY <2>1, <2>2
    <3>2. Parts[i] = [issues |-> Note("unexpected", Names[i]), warnings |-> <<>>]
      BY <1>1, <2>4, <3>1, PartsFound DEF Unexpected, Fatal
    <3> QED
      BY <3>2
  <2>7. warnings \o <<>> = warnings /\ issues \in Seq(Diagnostics)
    BY <1>1 DEF TypeOK
  <2>8. issues' = Upto(Parts)[i].issues /\ warnings' = Upto(Parts)[i].warnings
    BY <1>1, <2>1, <2>2, <2>4, <2>5, <2>6, <2>7, NextPart
  <2>9. keys' = DOMAIN given \cap Later(i)
    <3>1. ASSUME NEW k \in DOMAIN given, k \in Later(m), k # Names[i] PROVE k \in Later(i)
      <4>1. PICK j \in m + 1..Len(Names) : k = Names[j]
        BY <3>1 DEF Later
      <4>2. ~(j <= i)
        <5>1. j <= i => j \in 1..i - 1
          BY <2>4, <3>1, <4>1
        <5> QED
          BY <2>1, <2>2, <3>1, <4>1, <5>1
      <4>3. j \in i + 1..Len(Names)
        BY <2>4, <4>1, <4>2
      <4> QED
        BY <4>1, <4>3 DEF Later
    <3>2. ASSUME NEW k \in Later(i) PROVE k \in Later(m) /\ k # Names[i]
      <4>1. PICK j \in i + 1..Len(Names) : k = Names[j]
        BY <3>2 DEF Later
      <4>2. j \in m + 1..Len(Names) /\ j \in Len(Shape) + 1..Len(Names) /\ i \in Len(Shape) + 1..Len(Names) /\ j # i
        BY <2>3, <2>4, <2>1, <4>1
      <4> QED
        BY <4>1, <4>2, NamesListed DEF Later
    <3> QED
      BY <2>1, <2>2, <3>1, <3>2
  <2>10. issues' # <<>>
    <3>1. Note("unexpected", Names[i]) \in Seq(Diagnostics) /\ Note("unexpected", Names[i]) # <<>>
      BY <2>2, Named, Notes DEF Codes
    <3> QED
      BY <2>2, <2>7, <3>1, EmptyBoth
  <2>11. AtLeft'
    <3>1. Upto(Parts)' = Upto(Parts)
      BY <1>1, Stands
    <3> QED
      BY <1>1, <2>4, <2>8, <2>9, <2>10, <3>1 DEF AtLeft, Gathered, Holds
  <2> QED
    BY <1>1, <2>11 DEF AgreeInv
<1> QED
  BY <1>2, <1>3

\* The object is complete when the keys that are left are none, or are not rejected.
LEMMA CompleteAgrees == ParseInv /\ AgreeInv /\ Complete => AgreeInv'
<1> SUFFICES ASSUME ParseInv, AgreeInv, Complete PROVE AgreeInv'
  OBVIOUS
<1>1. /\ TypeOK /\ PlaceInv /\ stage = "left" /\ pos = Root /\ stage' = "base"
      /\ policy = "reject" => keys = {}
      /\ output' = IF policy # "passthrough" THEN output
                   ELSE [k \in DOMAIN output \cup keys |-> IF k \in keys THEN ValueOf(input, k) ELSE output[k]]
      /\ UNCHANGED <<policy, rules, given, input, changes, pos, keys, issues, warnings>>
  BY DEF Complete, schema, ParseInv, PlaceInv
<1>2. CASE ~(changes = 0 /\ AllSync)
  BY <1>1, <1>2, NotAlone
<1>3. CASE changes = 0 /\ AllSync
  <2>1. PICK m \in Len(Shape)..Len(Names) :
          /\ Gathered(Upto(Parts)[m])
          /\ keys = DOMAIN given \cap Later(m)
          /\ Holds(Kept(Declared))
          /\ policy = "reject" \/ m = Len(Shape)
    BY <1>1, <1>3 DEF AgreeInv, AtLeft
  <2>2. Base = Upto(Parts)[m]
    <3>1. \A q \in m + 1..Len(Names) : Parts[q] = Nothing
      <4> SUFFICES ASSUME NEW q \in m + 1..Len(Names) PROVE Parts[q] = Nothing
        OBVIOUS
      <4>1. q \in Root..Len(Names)
        BY <2>1, NamesListed
      <4>2. policy = "reject" => Names[q] \notin DOMAIN given
        BY <1>1, <2>1 DEF Later
      <4> QED
        BY <1>1, <4>1, <4>2, PartsFound DEF Unexpected
    <3>2. /\ Parts \in Seq(Findings) /\ Len(Parts) = Len(Names)
          /\ m \in 0..Len(Parts) /\ Len(Names) \in m..Len(Parts)
      BY <1>1, <2>1, PartsFound, NamesListed
    <3> QED
      BY <3>1, <3>2, UptoRests DEF Base
  <2>3. issues = <<>> => output' = [k \in Kept(Declared) \cup Open |-> given[k]]
    <3> SUFFICES ASSUME issues = <<>> PROVE output' = [k \in Kept(Declared) \cup Open |-> given[k]]
      OBVIOUS
    <3>1. output = [k \in Kept(Declared) |-> given[k]]
      BY <2>1 DEF Holds
    <3>2. CASE policy # "passthrough"
      BY <1>1, <3>1, <3>2 DEF Open
    <3>3. CASE policy = "passthrough"
      <4>1. keys = Open
        BY <1>1, <2>1, <3>3, SeenKeys DEF Open
      <4>2. \A k \in keys : ValueOf(input, k) = given[k]
        BY <1>1, <1>3, <2>1 DEF ValueOf, PlaceInv
      <4>3. output' = [k \in Kept(Declared) \cup Open |-> IF k \in Open THEN ValueOf(input, k) ELSE output[k]]
        BY <1>1, <3>1, <3>3, <4>1
      <4> QED
        BY <3>1, <4>1, <4>2, <4>3
    <3> QED
      BY <3>2, <3>3
  <2>4. AtRoot'
    <3>1. Base' = Base /\ Open' = Open /\ Kept(Declared)' = Kept(Declared) /\ given' = given
      BY <1>1, Stands
    <3> QED
      BY <1>1, <2>1, <2>2, <2>3, <3>1 DEF AtRoot, Gathered, Holds
  <2> QED
    BY <1>1, <2>4 DEF AgreeInv
<1> QED
  BY <1>2, <1>3

\* Rules run on the same values.
LEMMA BaseAgrees == ParseInv /\ AgreeInv /\ BaseSettles => AgreeInv'
<1> SUFFICES ASSUME ParseInv, AgreeInv, BaseSettles PROVE AgreeInv'
  OBVIOUS
<1>1. /\ TypeOK /\ PlaceInv /\ stage = "base" /\ found = Nothing /\ pos \in 1..Root
      /\ UNCHANGED <<policy, rules, given, input, changes, keys, pos, value, output, issues, warnings>>
  BY DEF BaseSettles, schema, ParseInv, PlaceInv, TypeOK
<1>2. stage' # "idle"
  BY DEF BaseSettles, Onward
<1>3. CASE ~(changes = 0 /\ AllSync)
  BY <1>1, <1>2, <1>3, NotAlone
<1>4. CASE changes = 0 /\ AllSync
  <2>1. /\ pos # Root => AtProperty /\ Shape[pos] \in DOMAIN given /\ value = given[Shape[pos]]
        /\ pos = Root => Holds(Kept(Declared) \cup Open) /\ Gathered(Base)
    BY <1>1, <1>4 DEF AgreeInv, AtProperty, AtRoot
  <2>2. CASE IF pos = Root THEN issues = <<>> ELSE Accepts(Shape[pos], value)
    <3>1. Onward(1) /\ found' = found
      BY <2>2 DEF BaseSettles
    <3>2. Upto(Runs(pos))[1 - 1] = Nothing /\ 1 <= Len(rules[pos]) + 1
      BY <1>1, RunsFound
    <3>3. 1 \in Nat \ {0} /\ found' = Upto(Runs(pos))[1 - 1] /\ AllSync
      BY <1>1, <1>4, <3>1, <3>2
    <3>4. pos # Root => /\ AtProperty /\ Shape[pos] \in DOMAIN given /\ value = given[Shape[pos]]
                        /\ Accepts(Shape[pos], value)
      BY <2>1, <2>2
    <3>5. pos = Root => issues = <<>> /\ Holds(Kept(Declared) \cup Open) /\ Gathered(Base)
      BY <2>1, <2>2
    <3> QED
      BY <1>1, <3>1, <3>2, <3>3, <3>4, <3>5, GoesAgrees
  <2>3. CASE ~(IF pos = Root THEN issues = <<>> ELSE Accepts(Shape[pos], value))
    <3>1. stage' = "settled" /\ found' = IF pos = Root THEN Nothing ELSE Fatal("invalid", Shape[pos])
      BY <2>3 DEF BaseSettles
    <3>2. PICK p \in 1..Root : p = pos
      BY <1>1
    <3>3. /\ Upto(Parts)' = Upto(Parts) /\ Base' = Base /\ ParseProperty(p)' = ParseProperty(p)
          /\ Kept(Seen(p))' = Kept(Seen(p)) /\ Kept(Declared)' = Kept(Declared) /\ Open' = Open
      BY <1>1, Stands
    <3>4. CASE p # Root
      <4>1. ParseProperty(p) = Fatal("invalid", Shape[p])
        BY <2>1, <2>3, <3>2, <3>4 DEF ParseProperty
      <4>2. AtProperty'
        BY <1>1, <2>1, <3>1, <3>2, <3>3, <3>4, <4>1 DEF AtProperty, Gathered, Holds
      <4> QED
        BY <1>1, <3>1, <3>2, <3>4, <4>2 DEF AgreeInv
    <3>5. CASE p = Root
      <4>1. AtRoot'
        BY <1>1, <2>1, <2>3, <3>1, <3>2, <3>3, <3>5 DEF AtRoot, Gathered, Holds
      <4> QED
        BY <1>1, <3>1, <3>2, <3>5, <4>1 DEF AgreeInv
    <3> QED
      BY <3>4, <3>5
  <2> QED
    BY <2>2, <2>3
<1> QED
  BY <1>3, <1>4

\* A synchronous rule finds the same in both.
LEMMA RuleAgrees == ParseInv /\ AgreeInv /\ RuleSettles => AgreeInv'
<1> SUFFICES ASSUME ParseInv, AgreeInv, RuleSettles PROVE AgreeInv'
  OBVIOUS
<1>1. /\ TypeOK /\ PlaceInv /\ stage \in {"check", "rule"} /\ pos \in 1..Root /\ at \in DOMAIN rules[pos]
      /\ found' = Both(found, RunAsyncRule(rules[pos][at], NameAt(pos))) /\ Onward(at + 1)
      /\ UNCHANGED <<policy, rules, given, input, changes, keys, pos, value, output, issues, warnings>>
  BY DEF RuleSettles, schema, ParseInv, PlaceInv, TypeOK
<1>2. stage' # "idle"
  BY <1>1 DEF Onward
<1>3. CASE ~(changes = 0 /\ AllSync)
  BY <1>1, <1>2, <1>3, NotAlone
<1>4. CASE changes = 0 /\ AllSync
  <2>1. stage = "check"
    BY <1>1, <1>4 DEF AgreeInv
  <2>2. /\ pos # Root => /\ AtProperty /\ Shape[pos] \in DOMAIN given /\ value = given[Shape[pos]]
                         /\ Accepts(Shape[pos], value) /\ found = Upto(Runs(pos))[at - 1]
        /\ pos = Root => /\ issues = <<>> /\ Holds(Kept(Declared) \cup Open) /\ Gathered(Base)
                         /\ found = Upto(Runs(pos))[at - 1]
    BY <1>1, <1>4, <2>1 DEF AgreeInv, AtProperty, AtRoot
  <2>3. /\ rules[pos] \in Seq(Checks) /\ Len(rules[pos]) \in Nat /\ DOMAIN rules[pos] = 1..Len(rules[pos])
        /\ Runs(pos) \in Seq(Findings) /\ Len(Runs(pos)) = Len(rules[pos])
        /\ Runs(pos)[at] = RunRule(rules[pos][at], NameAt(pos))
    BY <1>1, RunsFound
  <2>4. at \in 1..Len(rules[pos]) /\ (at + 1) - 1 = at /\ at + 1 \in Nat \ {0} /\ at + 1 <= Len(rules[pos]) + 1
    BY <1>1, <2>3
  <2>5. RunAsyncRule(rules[pos][at], NameAt(pos)) = Runs(pos)[at]
    <3>1. rules[pos][at] \in Checks /\ NameAt(pos) \in Keys \cup {"root"}
      BY <1>1, <2>3, <2>4, Named
    <3>2. ~rules[pos][at].async
      <4>1. rules \in [1..Root -> Seq(Checks)]
        BY <1>1, ParseAssumption DEF TypeOK
      <4>2. pos \in DOMAIN rules
        BY <1>1, <4>1
      <4> QED
        BY <1>1, <1>4, <4>2 DEF AllSync
    <3> QED
      BY <2>3, <3>1, <3>2, RuleFound
  <2>6. found' = Upto(Runs(pos))[at]
    <3>1. Upto(Runs(pos))[at] = Both(Upto(Runs(pos))[at - 1], Runs(pos)[at])
      BY <2>3, <2>4, UptoSteps
    <3> QED
      BY <1>1, <2>2, <2>5, <3>1
  <2> QED
    BY <1>1, <1>4, <2>2, <2>4, <2>6, GoesAgrees
<1> QED
  BY <1>3, <1>4

\* A property that has settled is behind both parses, and both have kept it or not.
LEMMA PropertyAgrees == ParseInv /\ AgreeInv /\ PropertySettles => AgreeInv'
<1> SUFFICES ASSUME ParseInv, AgreeInv, PropertySettles PROVE AgreeInv'
  OBVIOUS
<1>1. /\ TypeOK /\ PlaceInv /\ stage = "settled" /\ pos \in 1..Root /\ pos # Root
      /\ keys' = keys \ {Shape[pos]} /\ ComeTo(pos + 1)
      /\ output' = IF Emitted THEN With(output, Shape[pos], value) ELSE output
      /\ issues' = issues \o found.issues /\ warnings' = warnings \o found.warnings
      /\ UNCHANGED <<policy, rules, given, input, changes>>
  BY DEF PropertySettles, schema, ParseInv, TypeOK
<1>2. stage' # "idle"
  BY <1>1 DEF ComeTo
<1>3. CASE ~(changes = 0 /\ AllSync)
  BY <1>1, <1>2, <1>3, NotAlone
<1>4. CASE changes = 0 /\ AllSync
  <2>1. /\ input = given /\ AtProperty /\ found = ParseProperty(pos)
        /\ Shape[pos] \in DOMAIN given /\ value = given[Shape[pos]]
    BY <1>1, <1>4 DEF PlaceInv, AgreeInv, AtProperty
  <2>2. PICK p \in 1..Root - 1 : p = pos
    BY <1>1, Named
  <2>3. p \in 1..Len(Names) /\ (p + 1) - 1 = p /\ p + 1 \in 1..Root
    BY NamesListed
  <2>4. Parts[p] = found
    BY <1>1, <2>1, <2>2, PartsFound
  <2>5. issues' = Upto(Parts)[p].issues /\ warnings' = Upto(Parts)[p].warnings
    BY <1>1, <2>1, <2>2, <2>3, <2>4, NextPart DEF AtProperty, Gathered
  <2>6. keys' = DOMAIN given \ Seen(p + 1)
    BY <1>1, <2>1, <2>2, SeenKeys DEF AtProperty
  <2>7. issues' = <<>> => output' = [k \in Kept(Seen(p + 1)) |-> given[k]]
    <3> SUFFICES ASSUME issues' = <<>> PROVE output' = [k \in Kept(Seen(p + 1)) |-> given[k]]
      OBVIOUS
    <3> DEFINE key == Shape[p]
               behind == Kept(Seen(p))
    <3>1. issues = <<>> /\ found.issues = <<>>
      BY <1>1, EmptyBoth DEF TypeOK
    <3>2. output = [k \in behind |-> given[k]]
      BY <2>1, <2>2, <3>1 DEF AtProperty, Holds
    <3>3. Kept(Seen(p + 1)) = behind \cup Kept({key})
      BY <1>1, SeenKeys DEF Kept
    <3>4. Kept({key}) = IF key \notin Required /\ given[key] = Undefined THEN {} ELSE {key}
      BY <2>1, <2>2 DEF Kept
    <3>5. CASE Emitted
      <4>1. Kept({key}) = {key}
        BY <2>1, <2>2, <3>4, <3>5 DEF Emitted
      <4>2. output' = [k \in DOMAIN output \cup {key} |-> IF k = key THEN value ELSE output[k]]
        BY <1>1, <2>2, <3>5 DEF With
      <4> HIDE DEF behind
      <4> QED
        BY <2>1, <2>2, <3>2, <3>3, <4>1, <4>2
    <3>6. CASE ~Emitted
      <4>1. Kept({key}) = {}
        BY <2>1, <2>2, <3>1, <3>4, <3>6 DEF Emitted
      <4> QED
        BY <1>1, <3>2, <3>3, <3>6, <4>1
    <3> QED
      BY <3>5, <3>6
  <2> QED
    BY <1>1, <2>1, <2>2, <2>3, <2>5, <2>6, <2>7, ComesAgrees
<1> QED
  BY <1>3, <1>4

\* The rules of the object come last in both.
LEMMA ObjectAgrees == ParseInv /\ AgreeInv /\ ObjectSettles => AgreeInv'
<1> SUFFICES ASSUME ParseInv, AgreeInv, ObjectSettles PROVE AgreeInv'
  OBVIOUS
<1>1. /\ TypeOK /\ PlaceInv /\ stage = "settled" /\ pos = Root /\ stage' = "done"
      /\ issues' = issues \o found.issues /\ warnings' = warnings \o found.warnings
      /\ UNCHANGED <<policy, rules, given, input, changes, pos, output>>
  BY DEF ObjectSettles, schema, ParseInv
<1>2. CASE ~(changes = 0 /\ AllSync)
  BY <1>1, <1>2, NotAlone
<1>3. CASE changes = 0 /\ AllSync
  <2>1. /\ issues = Base.issues /\ warnings = Base.warnings /\ Holds(Kept(Declared) \cup Open)
        /\ found = IF issues = <<>> THEN ApplyChecks(Root) ELSE Nothing
    BY <1>1, <1>3 DEF AgreeInv, AtRoot, Gathered
  <2> DEFINE all == IF Base.issues = <<>> THEN Both(Base, ApplyChecks(Root)) ELSE Base
  <2>2. issues' = all.issues /\ warnings' = all.warnings
    <3>1. CASE issues = <<>>
      BY <1>1, <2>1, <3>1, BothParts
    <3>2. CASE issues # <<>>
      <4>1. found.issues = <<>> /\ found.warnings = <<>>
        BY <2>1, <3>2 DEF Nothing
      <4>2. issues \o <<>> = issues /\ warnings \o <<>> = warnings
        BY <1>1 DEF TypeOK
      <4> QED
        BY <1>1, <2>1, <3>2, <4>1, <4>2
    <3> QED
      BY <3>1, <3>2
  <2>3. issues' = <<>> => issues = <<>>
    BY <1>1, EmptyBoth DEF TypeOK
  <2>4. /\ Base' = Base /\ ApplyChecks(Root)' = ApplyChecks(Root)
        /\ Open' = Open /\ Kept(Declared)' = Kept(Declared) /\ given' = given
    BY <1>1, Stands
  <2>5. AtRoot'
    <3>1. all' = all
      BY <2>4
    <3> HIDE DEF all
    <3>2. Gathered(all)'
      BY <2>2, <3>1 DEF Gathered
    <3>3. Holds(Kept(Declared) \cup Open)'
      BY <1>1, <2>1, <2>3, <2>4 DEF Holds
    <3> QED
      BY <1>1, <3>2, <3>3 DEF AtRoot, all
  <2> QED
    BY <1>1, <2>5 DEF AgreeInv
<1> QED
  BY <1>2, <1>3

\* Both parses stay at the same place.
LEMMA Agrees == Spec => []AgreeInv
<1>1. Init => AgreeInv
  BY DEF Init, AgreeInv
<1>2. ParseInv /\ AgreeInv /\ [Next]_vars => AgreeInv'
  <2> SUFFICES ASSUME ParseInv, AgreeInv, [Next]_vars PROVE AgreeInv'
    OBVIOUS
  <2>1. ASSUME NEW key \in Keys, Change(key) PROVE AgreeInv'
    <3>1. changes \in Nat
      BY ParseAssumption DEF ParseInv, TypeOK
    <3>2. changes' # 0 /\ stage' # "idle" /\ UNCHANGED <<policy, rules, given>>
      BY <2>1, <3>1 DEF Change, schema, Awaits
    <3> QED
      BY <3>2, NotAlone
  <2>2. CASE UNCHANGED vars
    <3>1. UNCHANGED <<policy, rules, given, changes, keys, pos, value, at, found, output, issues, warnings, stage>>
      BY <2>2 DEF vars
    <3>2. PICK p \in 1..Root : p = pos
      BY DEF ParseInv, TypeOK
    <3>3. /\ Upto(Parts)' = Upto(Parts) /\ Base' = Base /\ ParseProperty(p)' = ParseProperty(p)
          /\ Upto(Runs(p))' = Upto(Runs(p)) /\ Upto(Runs(Root))' = Upto(Runs(Root))
          /\ ApplyChecks(Root)' = ApplyChecks(Root)
          /\ Kept(Seen(p))' = Kept(Seen(p)) /\ Kept(Declared)' = Kept(Declared) /\ Open' = Open
          /\ AllSync' = AllSync
      BY <3>1, Stands
    <3>4. AtProperty => AtProperty'
      BY <3>1, <3>2, <3>3 DEF AtProperty, Gathered, Holds, Accepts
    <3>5. AtLeft => AtLeft'
      BY <3>1, <3>3 DEF AtLeft, Gathered, Holds
    <3>6. AtRoot => AtRoot'
      <4>1. Holds(Kept(Declared) \cup Open)' <=> Holds(Kept(Declared) \cup Open)
        BY <3>1, <3>3 DEF Holds
      <4>2. Gathered(Base)' <=> Gathered(Base)
        BY <3>1, <3>3 DEF Gathered
      <4> DEFINE all == IF Base.issues = <<>> THEN Both(Base, ApplyChecks(Root)) ELSE Base
      <4>3. all' = all
        BY <3>3
      <4> HIDE DEF all
      <4>4. Gathered(all)' <=> Gathered(all)
        BY <3>1, <4>3 DEF Gathered
      <4> QED
        BY <3>1, <3>3, <4>1, <4>2, <4>4 DEF AtRoot, all
    <3> QED
      BY <3>1, <3>3, <3>4, <3>5, <3>6 DEF AgreeInv
  <2> QED
    BY <2>1, <2>2, CallAgrees, PassOverAgrees, RejectAgrees, CompleteAgrees, BaseAgrees, RuleAgrees,
       PropertyAgrees, ObjectAgrees DEF Next
<1> QED
  BY <1>1, <1>2, Parses, PTL DEF Spec

\* Of a schema without asynchronous rules, and an input that is left alone, the
\* asynchronous parse of an object reports what the synchronous one does: the same
\* diagnostics in the same order, and the same data (parseBaseAsync and parseBase,
\* applyChecksAsync and applyChecks).
THEOREM AgreesWithSync == Spec => []AsyncAgreesWithSync
<1>1. ParseInv /\ AgreeInv => AsyncAgreesWithSync
  <2> SUFFICES ASSUME ParseInv, AgreeInv, stage = "done", changes = 0, AllSync
               PROVE  [issues |-> issues, warnings |-> warnings,
                       data |-> IF issues = <<>> THEN output ELSE <<>>] = SyncParse
    BY DEF AsyncAgreesWithSync
  <2> DEFINE all == IF Base.issues = <<>> THEN Both(Base, ApplyChecks(Root)) ELSE Base
             data == [k \in Kept(Declared) \cup Open |-> given[k]]
  <2>1. pos = Root
    BY DEF ParseInv, PlaceInv
  <2>2. issues = all.issues /\ warnings = all.warnings /\ (issues = <<>> => output = data)
    BY <2>1 DEF AgreeInv, AtRoot, Gathered, Holds
  <2>3. SyncParse = [issues |-> all.issues, warnings |-> all.warnings,
                     data |-> IF all.issues = <<>> THEN data ELSE <<>>]
    BY DEF SyncParse, Base, Kept, Open
  <2> HIDE DEF all, data
  <2> QED
    BY <2>2, <2>3
<1> QED
  BY <1>1, Parses, Agrees, PTL

=============================================================================
