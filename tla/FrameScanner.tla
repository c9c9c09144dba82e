---------------------------- MODULE FrameScanner ----------------------------
(***************************************************************************)
(* createBoundedInput (packages/mcp/src/stdio.ts): the scanner that cuts   *)
(* the input into frames and stops it before JSON.parse sees a frame that  *)
(* is too long or too deep.                                                *)
(*                                                                         *)
(* A byte is one of the classes the scanner tells apart.  A chunk is a run *)
(* of ByteArrives steps: all that is kept from one chunk to the next is    *)
(* the state below, so chunk boundaries are not modelled.  `input` is the  *)
(* history of the bytes; nothing but the properties looks at it.           *)
(***************************************************************************)
EXTENDS Integers, Sequences, SequencesExt, FiniteSetsExt

CONSTANTS MaxBytes,  \* limits.requestBytes
          MaxDepth,  \* limits.depth
          MaxInput   \* bound on the bytes that arrive

ASSUME ScannerAssumption == {MaxBytes, MaxDepth} \subseteq Nat \ {0}

\* { and [ open, } and ] close; every other byte is a letter.
Byte == {"newline", "quote", "backslash", "open", "close", "letter"}

VARIABLES
  buffer,  \* the frame so far: buffer.subarray(0, length)
  depth,
  quoted,
  escaped,
  frames,  \* what was pushed to the reader
  status,  \* the stream goes on, has ended, or the error that stopped it
  input    \* the bytes that arrived

scanner == <<buffer, depth, quoted, escaped, frames, status, input>>

ScannerTypeOK ==
  /\ buffer \in Seq(Byte \ {"newline"})
  /\ Len(buffer) <= MaxBytes
  /\ depth \in Int
  /\ quoted \in BOOLEAN
  /\ escaped \in BOOLEAN
  /\ frames \in Seq(Seq(Byte \ {"newline"}))
  /\ status \in {"open", "ended", "too_long", "too_deep", "incomplete"}
  /\ input \in Seq(Byte)

ScannerInit ==
  /\ buffer = <<>>
  /\ depth = 0
  /\ quoted = FALSE
  /\ escaped = FALSE
  /\ frames = <<>>
  /\ status = "open"
  /\ input = <<>>

-----------------------------------------------------------------------------
\* Mutant: the brackets of one frame count for the next.
NewlineKeepingDepth ==
  /\ frames' = Append(frames, buffer)
  /\ buffer' = <<>>
  /\ quoted' = FALSE
  /\ escaped' = FALSE
  /\ UNCHANGED <<depth, status>>

\* A newline ends the frame, even inside a string, and resets the scanner.
Newline ==
  /\ frames' = Append(frames, buffer)
  /\ buffer' = <<>>
  /\ depth' = 0
  /\ quoted' = FALSE
  /\ escaped' = FALSE
  /\ UNCHANGED status

\* The byte that does not fit is not stored.
TooLong ==
  /\ Len(buffer) >= MaxBytes
  /\ status' = "too_long"
  /\ UNCHANGED <<buffer, depth, quoted, escaped, frames>>

\* Mutant: a backslash escapes although it is escaped itself.
InsideEscaping(b) ==
  /\ quoted
  /\ escaped' = (b = "backslash")
  /\ quoted' = (escaped \/ b # "quote")
  /\ UNCHANGED <<depth, status>>

\* Inside a string only the end of the string matters.
Inside(b) ==
  /\ quoted
  /\ escaped' = (~escaped /\ b = "backslash")
  /\ quoted' = (escaped \/ b # "quote")
  /\ UNCHANGED <<depth, status>>

\* Outside, brackets are counted; a bracket too deep stops the stream.
Outside(b) ==
  /\ ~quoted
  /\ quoted' = (b = "quote")
  /\ depth' = CASE b = "open" -> depth + 1
                [] b = "close" -> depth - 1
                [] OTHER -> depth
  /\ status' = IF depth' > MaxDepth THEN "too_deep" ELSE status
  /\ UNCHANGED escaped

\* A byte that belongs to the frame is stored and looked at.
Stored(b) ==
  /\ Len(buffer) < MaxBytes
  /\ buffer' = Append(buffer, b)
  /\ Inside(b) \/ Outside(b)
  /\ UNCHANGED frames

ByteArrives(b) ==
  /\ status = "open"
  /\ Len(input) < MaxInput
  /\ input' = Append(input, b)
  /\ \/ b = "newline" /\ Newline
     \/ b # "newline" /\ (TooLong \/ Stored(b))

\* Mutant: an unfinished frame is dropped at the end of the input.
FlushSilently ==
  /\ status = "open"
  /\ status' = "ended"
  /\ UNCHANGED <<buffer, depth, quoted, escaped, frames, input>>

\* flush(): the input ends.
Flush ==
  /\ status = "open"
  /\ status' = IF buffer = <<>> THEN "ended" ELSE "incomplete"
  /\ UNCHANGED <<buffer, depth, quoted, escaped, frames, input>>

ScannerNext == (\E b \in Byte : ByteArrives(b)) \/ Flush

ScannerSpec == ScannerInit /\ [][ScannerNext]_scanner

-----------------------------------------------------------------------------
(* Reference: what the brackets and quotes of a text mean, by position. *)

\* Backslashes that stand right before position k of t.
BackslashesBefore(t, k) ==
  Cardinality({j \in 1..k - 1 : \A i \in j..k - 1 : t[i] = "backslash"})

\* The positions of a text, and the one after it, that lie within a string: a quote
\* closes a string unless an odd number of backslashes precede it, one outside a
\* string always opens one, and every other byte changes nothing.
Strings(t) ==
  CHOOSE within \in [1..Len(t) + 1 -> BOOLEAN] :
    \A k \in 1..Len(t) + 1 :
      within[k] <=>
        /\ k > 1
        /\ IF t[k - 1] # "quote" THEN within[k - 1]
           ELSE within[k - 1] => BackslashesBefore(t, k - 1) % 2 = 1

\* Brackets of t up to position k that are not inside a string.
Structural(t, k, b) == LET within == Strings(t) IN {j \in 1..k : t[j] = b /\ ~within[j]}
Nesting(t, k) == Cardinality(Structural(t, k, "open")) - Cardinality(Structural(t, k, "close"))

\* The newlines of the input, and what lies between the one before position k and k.
Newlines == {k \in 1..Len(input) : input[k] = "newline"}
Piece(k) == SubSeq(input, Max({j \in Newlines : j < k} \cup {0}) + 1, k - 1)
Unfinished == Piece(Len(input) + 1)

-----------------------------------------------------------------------------
(* Properties. *)

\* The state the scanner carries is the meaning of the frame so far: strings,
\* escapes and nesting are those of the text, whatever came in earlier frames.
ScannerAgrees ==
  /\ depth = Nesting(buffer, Len(buffer))
  /\ quoted = Strings(buffer)[Len(buffer) + 1]
  /\ escaped <=> quoted /\ BackslashesBefore(buffer, Len(buffer) + 1) % 2 = 1

\* The limits are exact.  No frame that reaches JSON.parse is too long, or nested
\* too deep at any point; the stream stops only for the frame that breaks a limit
\* or is cut off, so one within the limits passes however many came before it.
LimitsAreExact ==
  /\ \A f \in Range(frames) :
       Len(f) <= MaxBytes /\ \A k \in 1..Len(f) : Nesting(f, k) <= MaxDepth
  /\ status = "too_long" => Len(Unfinished) = MaxBytes + 1
  /\ status = "too_deep" => Nesting(Unfinished, Len(Unfinished)) = MaxDepth + 1
  /\ status = "incomplete" => Unfinished # <<>>

\* No byte is lost, doubled or moved: the frames are the pieces of the input between
\* its newlines, in their order, and the frame so far is what comes after the last
\* one; a stream that ended has delivered all of it.
NothingLost ==
  /\ Len(frames) = Cardinality(Newlines)
  /\ \A k \in Newlines : frames[Cardinality({j \in Newlines : j <= k})] = Piece(k)
  /\ Unfinished = IF status = "too_long" THEN Append(buffer, Last(input)) ELSE buffer
  /\ status = "ended" => buffer = <<>>

=============================================================================
