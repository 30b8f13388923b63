----------------------------- MODULE PibashText -----------------------------
(***************************************************************************)
(* The text functions of pibash: decoding of a chunk, lines, the tail      *)
(* truncation of the built-in tool and the compression to the budget the   *)
(* model sees.  A byte is one of                                           *)
(*   "x"  any plain byte        "nl"  the newline                          *)
(*   "e"  a plain byte that makes its line actionable (an error, a         *)
(*        warning, a file:line reference)                                  *)
(*   "z"  a carriage return or an escape sequence, as one byte             *)
(*   "L"  the first byte and "C" the second byte of a wide character       *)
(* and a character is "x", "nl", "e", "z", "m" (a wide character, two      *)
(* bytes), "r" (U+FFFD, three bytes), "k" (an omission marker) or "d" (the *)
(* note on a repeated line).  A cut at a byte is one at a character.       *)
(***************************************************************************)
EXTENDS Naturals, SequencesExt, FiniteSetsExt

CONSTANTS
    MaxLines,   \* DEFAULT_MAX_LINES of a display (2000)
    MaxBytes,   \* DEFAULT_MAX_BYTES of a display (50 KiB)
    CapLines,   \* COMPRESS_MAX_LINES (40)
    CapBytes    \* COMPRESS_MAX_BYTES (2 KiB)

\* The display holds at least one character, of up to three bytes.
ASSUME TextAssumption ==
    /\ MaxLines \in Nat \ {0} /\ MaxBytes \in Nat /\ MaxBytes >= 3
    /\ CapLines \in 3..MaxLines /\ CapBytes \in 1..MaxBytes

Bytes == {"x", "nl", "e", "z", "L", "C"}
Chars == {"x", "nl", "e", "z", "m", "r", "k", "d"}

Least(a, b) == IF a < b THEN a ELSE b
Minus(a, b) == IF a > b THEN a - b ELSE 0      \* saturating_sub

\* js_byte_length of a text (two bytes each for "m", "k" and "d"), and of the lines S of ls with a newline each.
Size(t) == Len(t) + Cardinality({i \in DOMAIN t : t[i] \in {"m", "k", "d"}})
                  + 2 * Cardinality({i \in DOMAIN t : t[i] = "r"})
SizeWithNl(ls, S) ==
    Size(FlattenSeq([i \in 1..Len(ls) |-> IF i \in S THEN Append(ls[i], "nl") ELSE <<>>]))

\* The numbers 1..n that pass Test, in ascending order.
Numbers(n, Test(_)) == FlattenSeq([i \in 1..n |-> IF Test(i) THEN <<i>> ELSE <<>>])

-----------------------------------------------------------------------------
(* Decoding. *)

\* What byte i of b adds to the text: a wide character at its first byte, a
\* U+FFFD for a byte that is not part of one, nothing for an incomplete end.
Decoded(b, i) ==
    CASE b[i] = "L" /\ i = Len(b)                 -> <<>>
      [] b[i] = "L" /\ i < Len(b) /\ b[i+1] = "C" -> <<"m">>
      [] b[i] = "L" /\ i < Len(b) /\ b[i+1] # "C" -> <<"r">>
      [] b[i] = "C" /\ i > 1 /\ b[i-1] = "L"      -> <<>>
      [] b[i] = "C" /\ ~(i > 1 /\ b[i-1] = "L")   -> <<"r">>
      [] OTHER                                    -> <<b[i]>>

\* decode_slice: the text of the bytes b, an incomplete character left over.
DecodeSlice(b) ==
    [text |-> FlattenSeq([i \in 1..Len(b) |-> Decoded(b, i)]),
     left |-> IF b # <<>> /\ Last(b) = "L" THEN <<"L">> ELSE <<>>]

\* decode_into: a pending byte is decoded with the first three bytes of the
\* chunk.  What these leave over is stored as pending before the rest is
\* decoded, and is not put in front of the rest.
DecodeInto(left, b) ==
    LET n    == Least(3, Len(b))
        head == DecodeSlice(left \o SubSeq(b, 1, n))
        rest == DecodeSlice(SubSeq(b, n + 1, Len(b)))
    IN  IF left = <<>> THEN DecodeSlice(b)
        ELSE [text |-> head.text \o rest.text,
              left |-> IF rest.left # <<>> THEN rest.left ELSE head.left]

\* finish_into.
Flushed(left) == IF left # <<>> THEN <<"r">> ELSE <<>>

\* String::from_utf8_lossy of a whole stream.
Lossy(b) == DecodeSlice(b).text \o Flushed(DecodeSlice(b).left)

\* skip_continuation: the bytes from position i on, at a character.
FromCharacter(b, i) ==
    LET starts == {j \in i..Len(b) : b[j] # "C"}
    IN  IF starts = {} THEN <<>> ELSE SubSeq(b, Min(starts), Len(b))

-----------------------------------------------------------------------------
(* Lines and cuts. *)

\* split_lines: a newline at the end starts no further line.
LinesOf(t) ==
    LET starts == Numbers(Len(t), LAMBDA i : i = 1 \/ t[i - 1] = "nl")
        Ends(k) == IF k < Len(starts) THEN starts[k + 1] - 2
                   ELSE IF Last(t) = "nl" THEN Len(t) - 1 ELSE Len(t)
    IN  IF t = <<>> THEN <<>>
        ELSE [k \in 1..Len(starts) |-> SubSeq(t, starts[k], Ends(k))]

JoinLines(ls) ==
    IF ls = <<>> THEN <<>>
    ELSE Tail(FlattenSeq([k \in 1..Len(ls) |-> <<"nl">> \o ls[k]]))

LastLines(ls, k) == SubSeq(ls, Len(ls) - k + 1, Len(ls))

\* truncate_string_to_bytes_from_end and ..._from_start.
CutFromEnd(t, n) ==
    LET k == Max({j \in 0..Len(t) : Size(LastLines(t, j)) <= n}) IN LastLines(t, k)
CutFromStart(t, n) ==
    LET k == Max({j \in 0..Len(t) : Size(SubSeq(t, 1, j)) <= n}) IN SubSeq(t, 1, k)

Fits(t, lines, bytes) == Len(LinesOf(t)) <= lines /\ Size(t) <= bytes

\* truncate_tail.
TruncateTail(t) ==
    LET ls   == LinesOf(t)
        most == Least(MaxLines, Len(ls))
        kept == Max({k \in 0..most : Size(JoinLines(LastLines(ls, k))) <= MaxBytes})
        cut  == CutFromEnd(Last(ls), MaxBytes)
    IN  IF Fits(t, MaxLines, MaxBytes)
        THEN [content |-> t, outputLines |-> Len(ls), partial |-> FALSE, by |-> "none"]
        ELSE [content     |-> IF kept = 0 THEN cut ELSE JoinLines(LastLines(ls, kept)),
              outputLines |-> IF kept = 0 THEN 1 ELSE kept,
              partial     |-> kept = 0,
              by          |-> IF kept = most \/ MaxLines = 1 THEN "lines" ELSE "bytes"]

-----------------------------------------------------------------------------
(* compress_output: over the budget, repeats are folded and lines omitted. *)

Marker == <<"k">>       \* omission_marker, which holds OMISSION_TAG
HasTag(t) == Contains(t, "k")

\* strip_ansi.
Strip(t) == FlattenSeq([i \in 1..Len(t) |-> IF t[i] = "z" THEN <<>> ELSE <<t[i]>>])

\* is_actionable.
Actionable(line) == Contains(line, "e")

\* dedup_repeats: a run of one line is folded unless actionable or blank.
Dedup(t) ==
    LET ls == LinesOf(t)
        Repeats(i) == i > 1 /\ ls[i] = ls[i - 1]
        Foldable(i) == /\ ~Actionable(ls[i]) /\ ls[i] # <<>>
                       /\ Repeats(i) \/ (i < Len(ls) /\ Repeats(i + 1))
        Out(i) == CASE ~Foldable(i)              -> <<ls[i]>>
                    [] Foldable(i) /\ Repeats(i) -> <<>>
                    [] OTHER                     -> <<Append(ls[i], "d")>>
    IN  IF \A i \in 1..Len(ls) : ~Foldable(i) THEN t
        ELSE JoinLines(FlattenSeq([i \in 1..Len(ls) |-> Out(i)]))

Verbatim(t) == [content |-> t, strategy |-> "none"]

\* take_head and take_tail: whole lines, or a piece of a line that is too long.
TakeHead(ls, lines, bytes) ==
    LET k == Max({j \in 0..Least(lines, Len(ls)) : Size(JoinLines(SubSeq(ls, 1, j))) <= bytes})
    IN  [kept |-> k, partial |-> k = 0 /\ lines > 0,
         text |-> IF k = 0 /\ lines > 0 THEN CutFromStart(ls[1], bytes)
                  ELSE JoinLines(SubSeq(ls, 1, k))]
TakeTail(ls, lines, bytes) ==
    LET k == Max({j \in 0..Least(lines, Len(ls)) :
                      SizeWithNl(ls, Len(ls) - j + 1 .. Len(ls)) <= bytes})
    IN  [kept |-> k, partial |-> k = 0 /\ lines > 0,
         text |-> IF k = 0 /\ lines > 0 THEN CutFromEnd(Last(ls), bytes)
                  ELSE JoinLines(LastLines(ls, k))]

\* head_tail: two thirds of the budget for the head of a success, for the tail
\* of a failure; three lines are reserved for the marker.
HeadTail(t, success) ==
    LET ls    == LinesOf(t)
        n     == Len(ls)
        Share(budget) == (budget * (IF success THEN 2 ELSE 1)) \div 3
        lines == CapLines - 3
        head  == TakeHead(ls, Share(lines), Share(CapBytes))
        tail0 == TakeTail(ls, lines - Share(lines), CapBytes - Share(CapBytes))
        tail  == IF tail0.partial \/ n - tail0.kept >= head.kept THEN tail0
                 ELSE [tail0 EXCEPT !.kept = n - head.kept,
                                    !.text = JoinLines(LastLines(ls, n - head.kept))]
    IN  IF Fits(t, CapLines, CapBytes) \/ HasTag(t) \/ head.kept + tail.kept >= n
        THEN Verbatim(t)
        ELSE [content  |-> head.text \o <<"nl", "nl">> \o Marker \o <<"nl", "nl">> \o tail.text,
              strategy |-> "head-tail"]

\* fill_context: the first lines of the sequence idx of line numbers.
FillContext(ls, idx, lines, bytes) ==
    LET k == Max({j \in 0..Least(lines, Len(idx)) : SizeWithNl(ls, ToSet(SubSeq(idx, 1, j))) <= bytes})
    IN  ToSet(SubSeq(idx, 1, k))

\* Fault: the context is filled first, the actionable lines get what is left.
KeptContextFirst(ls) ==
    LET head == FillContext(ls, [i \in 1..Len(ls) |-> i], CapLines - 2, CapBytes)
        acts == Numbers(Len(ls), LAMBDA i : Actionable(ls[i]) /\ i \notin head)
    IN  head \cup FillContext(ls, acts, Minus(CapLines - 2, Cardinality(head)), CapBytes)

\* error_priority, the lines kept: all actionable ones, then context from both
\* ends (each end may take the whole budget of bytes).
KeptLines(ls) ==
    LET acts   == {i \in 1..Len(ls) : Actionable(ls[i])}
        bytes  == Minus(CapBytes, SizeWithNl(ls, acts))
        lines  == Minus(CapLines, Cardinality(acts) + 2)
        Rest(S) == Numbers(Len(ls), LAMBDA i : i \notin S)
        head   == IF bytes = 0 THEN {}
                  ELSE FillContext(ls, Rest(acts), lines \div 2, bytes)
        tail   == IF bytes = 0 THEN {}
                  ELSE FillContext(ls, Reverse(Rest(acts \cup head)),
                                   Least(lines \div 2, Minus(lines, Cardinality(head))), bytes)
    IN  acts \cup head \cup tail

\* error_priority: a marker stands for every run of dropped lines.
ErrorPriority(t) ==
    LET ls   == LinesOf(t)
        keep == KeptLines(ls)
        Out(i) == CASE i \in keep                            -> <<ls[i]>>
                    [] i \notin keep /\ i > 1 /\ (i-1) \notin keep -> <<>>
                    [] OTHER                                 -> <<Marker>>
    IN  IF Fits(t, CapLines, CapBytes) \/ HasTag(t) \/ Cardinality(keep) = Len(ls)
        THEN Verbatim(t)
        ELSE [content  |-> JoinLines(FlattenSeq([i \in 1..Len(ls) |-> Out(i)])),
              strategy |-> "error-priority"]

\* compress_output (kind is the class of the command).
CompressOutput(t, kind, success) ==
    LET cleaned == Dedup(Strip(t))
        byError == ErrorPriority(cleaned)
    IN  CASE Fits(t, CapLines, CapBytes) -> Verbatim(t)
          [] ~Fits(t, CapLines, CapBytes) /\ kind = "test" /\ byError.strategy # "none" -> byError
          [] OTHER -> HeadTail(cleaned, success)
=============================================================================
