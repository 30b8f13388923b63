---------------------------- MODULE PibashOutput ----------------------------
(***************************************************************************)
(* One command of pibash from spawn to answer: the shell and what it       *)
(* leaves in the background write to two pipes, a thread per pipe reads    *)
(* chunks into one channel, the run loop feeds them to the accumulator     *)
(* until the shell is reaped or the deadline passes, drains the channel    *)
(* for a grace period, and builds the answer.  The accumulator decodes,    *)
(* counts, keeps a bounded tail for the display and spills the raw stream  *)
(* to a temporary file when it outgrows the display.                       *)
(***************************************************************************)
EXTENDS PibashText

CONSTANTS
    Words,        \* what the shell may write at once: sequences of bytes
    MaxWrites,    \* bound: writes of a command
    StructLimit,  \* cap of the structured output (1 MiB)
    Timeout,      \* whether the request has a timeout
    Unset

Streams == {"out", "err"}
MaxRolling == 2 * MaxBytes

ASSUME OutputAssumption ==
    /\ \A w \in Words : w \in Seq(Bytes) /\ w # <<>>
    /\ MaxWrites \in Nat /\ StructLimit \in Nat /\ StructLimit > MaxBytes
    /\ Timeout \in BOOLEAN
    /\ Unset \notin Seq(Bytes)

VARIABLES
    phase,     \* of run_observed: "start", "loop", "drain", "last", "done"
    shell,     \* "none", "running", "exited"
    held,      \* a background process holds the pipes
    pipe,      \* bytes in each pipe
    chan,      \* the mpsc channel: chunks with their stream
    acc,       \* the OutputAccumulator
    outcome,   \* "ok", "spawn", "timeout" or "io", Unset while it runs
    wrote,     \* ghost: the words written to each pipe
    fed,       \* ghost: the chunks appended, with their stream
    lapsed,    \* ghost: the grace period ended before the pipes did
    hole       \* ghost: a chunk was dropped, as no spill file could be made or
               \* a write to it failed

outputVars == <<phase, shell, held, pipe, chan, acc, outcome, wrote, fed, lapsed,
          hole>>

-----------------------------------------------------------------------------
(* The accumulator. *)

Empty == [decoded |-> <<>>, tail |-> <<>>, atBoundary |-> TRUE, pending |-> <<>>,
          rawBytes |-> 0, decodedBytes |-> 0, completed |-> 0,
          currentBytes |-> 0, openLine |-> FALSE, raw |-> <<>>, spill |-> Unset]

TotalLines(a) == a.completed + (IF a.openLine THEN 1 ELSE 0)

\* trim_tail: keep the last MaxRolling bytes and note whether they start a line.
TrimTail(a) ==
    LET rest == CutFromEnd(a.tail, MaxRolling)
        cut  == Len(a.tail) - Len(rest)
    IN  [a EXCEPT !.tail = rest,
                  !.atBoundary = IF cut > 0 THEN a.tail[cut] = "nl" ELSE @]

\* append_decoded_text.
AppendDecoded(a, text) ==
    LET added    == [a EXCEPT !.decoded = @ \o text, !.tail = @ \o text,
                              !.decodedBytes = @ + Size(text)]
        trimmed  == IF Size(added.tail) > 2 * MaxRolling THEN TrimTail(added) ELSE added
        newlines == Cardinality({i \in DOMAIN text : text[i] = "nl"})
        open     == IF newlines = 0 THEN text
                    ELSE SubSeq(text, SelectLastInSeq(text, LAMBDA c : c = "nl") + 1, Len(text))
    IN  IF text = <<>> THEN a
        ELSE [trimmed EXCEPT
                !.completed    = @ + newlines,
                !.currentBytes = (IF newlines = 0 THEN @ ELSE 0) + Size(open),
                !.openLine     = newlines = 0 \/ open # <<>>]

\* should_use_temp_file.
Outgrown(a) ==
    a.rawBytes > MaxBytes \/ a.decodedBytes > MaxBytes \/ TotalLines(a) > MaxLines

\* How the spill file takes what is written to it: it can be made if it is not
\* there ("none": it cannot), and the write succeeds ("lost": it fails).
Writes == {"kept", "lost", "none"}

\* Fault: the raw bytes stay in memory as well.
EnsureTempKeepsRaw(a, how) ==
    IF a.spill # Unset \/ how = "none" THEN a
    ELSE [a EXCEPT !.spill = IF how = "lost" THEN <<>> ELSE a.raw]

\* Fault: the spill starts with the chunk that made it necessary.
EnsureTempEmpty(a, how) ==
    IF a.spill # Unset \/ how = "none" THEN a ELSE [a EXCEPT !.spill = <<>>, !.raw = <<>>]

\* ensure_temp_file: the raw bytes so far move to a new file.
EnsureTemp(a, how) ==
    IF a.spill # Unset \/ how = "none" THEN a
    ELSE [a EXCEPT !.spill = IF how = "lost" THEN <<>> ELSE a.raw, !.raw = <<>>]

\* append, first half: decode and count.
Count(a, chunk) ==
    LET d == DecodeInto(a.pending, chunk)
    IN  AppendDecoded([a EXCEPT !.rawBytes = @ + Len(chunk), !.pending = d.left], d.text)

\* append, second half: keep the raw chunk, in the file once that is needed (a
\* chunk for which no file can be made is not kept at all; that a write fails
\* goes unnoticed).
Keep(a, chunk, how) ==
    IF a.spill = Unset /\ ~Outgrown(a) THEN [a EXCEPT !.raw = @ \o chunk]
    ELSE [EnsureTemp(a, how) EXCEPT
            !.spill = IF @ = Unset \/ how = "lost" THEN @ ELSE @ \o chunk]

\* finish.
FinishAcc(a, how) ==
    LET flushed == AppendDecoded([a EXCEPT !.pending = <<>>], Flushed(a.pending))
    IN  IF Outgrown(flushed) THEN EnsureTemp(flushed, how) ELSE flushed

\* snapshot_text: a tail that starts inside a line loses that line, if there
\* is another.
SnapshotText(a) ==
    LET nl == SelectInSeq(a.tail, LAMBDA c : c = "nl")
    IN  IF a.atBoundary \/ nl = 0 THEN a.tail ELSE SubSeq(a.tail, nl + 1, Len(a.tail))

\* Fault: the totals are those of the tail that is still in memory.
SnapshotTailTotals(a) ==
    LET t == TruncateTail(SnapshotText(a))
    IN  [content    |-> t.content, outputLines |-> t.outputLines,
         partial    |-> t.partial, totalLines  |-> Len(LinesOf(SnapshotText(a))),
         truncated  |-> a.decodedBytes > MaxBytes \/ TotalLines(a) > MaxLines,
         by         |-> t.by, lastLine |-> a.currentBytes]

\* snapshot(false): the display, its totals taken from the counters.
Snapshot(a) ==
    LET t       == TruncateTail(SnapshotText(a))
        tooLong == a.decodedBytes > MaxBytes
    IN  [content    |-> t.content, outputLines |-> t.outputLines,
         partial    |-> t.partial, totalLines  |-> TotalLines(a),
         truncated  |-> tooLong \/ TotalLines(a) > MaxLines,
         by         |-> CASE t.by # "none" -> t.by
                          [] t.by = "none" /\ tooLong -> "bytes"
                          [] OTHER -> "lines",
         lastLine   |-> a.currentBytes]

\* format_output: the lines a truncated display says it shows; the last one
\* alone, in part, when it was too long.
Note(s) == [from |-> Minus(s.totalLines, s.outputLines) + 1, to |-> s.totalLines]

\* full_text reads the spill file, or the raw bytes.
FullBytes(a) == IF a.spill = Unset THEN a.raw ELSE a.spill

\* read_full_output: above the limit the first and the last half of it.
Structured(a) ==
    LET b    == FullBytes(a)
        half == StructLimit \div 2
        from == Len(b) - (StructLimit - half) + 1
    IN  IF a.spill = Unset \/ Len(b) <= StructLimit
        THEN [head |-> Lossy(b), tail |-> <<>>, capped |-> FALSE]
        ELSE [head |-> DecodeSlice(SubSeq(b, 1, half)).text,
              tail |-> Lossy(FromCharacter(b, from)), capped |-> TRUE]

-----------------------------------------------------------------------------
(* The run. *)

OutputInit ==
    /\ phase = "start" /\ shell = "none" /\ held = FALSE
    /\ pipe = [s \in Streams |-> <<>>] /\ chan = <<>>
    /\ acc = Empty /\ outcome = Unset
    /\ wrote = [s \in Streams |-> <<>>] /\ fed = <<>>
    /\ lapsed = FALSE /\ hole = FALSE

\* The working directory is missing or the shell cannot be started: the
\* accumulator is finished without a chunk.
SpawnFails ==
    /\ phase = "start"
    /\ phase' = "done" /\ outcome' = "spawn"
    /\ UNCHANGED <<shell, held, pipe, chan, acc, wrote, fed, lapsed, hole>>

Spawn ==
    /\ phase = "start"
    /\ phase' = "loop" /\ shell' = "running"
    /\ UNCHANGED <<held, pipe, chan, acc, outcome, wrote, fed, lapsed, hole>>

\* The shell, or a background process that outlives it, writes.
Write(s, w) ==
    /\ phase \in {"loop", "drain"}
    /\ shell = "running" \/ held
    /\ Len(wrote["out"]) + Len(wrote["err"]) < MaxWrites
    /\ pipe' = [pipe EXCEPT ![s] = @ \o w]
    /\ wrote' = [wrote EXCEPT ![s] = Append(@, w)]
    /\ UNCHANGED <<phase, shell, held, chan, acc, outcome, fed, lapsed, hole>>

ShellExits ==
    /\ shell = "running"
    /\ shell' = "exited"
    /\ held' \in BOOLEAN
    /\ UNCHANGED <<phase, pipe, chan, acc, outcome, wrote, fed, lapsed, hole>>

\* The background process closes the pipes.
Release ==
    /\ held /\ held' = FALSE
    /\ UNCHANGED <<phase, shell, pipe, chan, acc, outcome, wrote, fed, lapsed, hole>>

\* A reader thread reads what its pipe holds and sends it.
ReadPipe(s) ==
    /\ phase \in {"loop", "drain"} /\ pipe[s] # <<>>
    /\ chan' = Append(chan, [stream |-> s, bytes |-> pipe[s]])
    /\ pipe' = [pipe EXCEPT ![s] = <<>>]
    /\ UNCHANGED <<phase, shell, held, acc, outcome, wrote, fed, lapsed, hole>>

\* The chunks of one stream, and the bytes of chunks.
OfStream(ch, s) ==
    FlattenSeq([i \in 1..Len(ch) |-> IF ch[i].stream = s THEN <<ch[i]>> ELSE <<>>])
BytesOf(ch) == FlattenSeq([i \in 1..Len(ch) |-> ch[i].bytes])

\* flush_pending: of one batch stdout goes first, each stream in its order.
Batch(ch) == OfStream(ch, "out") \o OfStream(ch, "err")

\* The accumulator fed with a chunk.  There is a hole when the file that was
\* needed could not be made or written.
AfterChunk(st, c) ==
    LET counted == Count(st.acc, c.bytes)
        Holed(a, how) == IF a.spill = Unset THEN Outgrown(a) ELSE how = "lost"
    IN  {[acc  |-> Keep(counted, c.bytes, how),
          hole |-> st.hole \/ Holed(Keep(counted, c.bytes, how), how)] : how \in Writes}

\* What it can be once it is fed with the chunks of a batch.
Fed(batch) ==
    LET upto[n \in 0..Len(batch)] ==
            IF n = 0 THEN {[acc |-> acc, hole |-> hole]}
            ELSE UNION {AfterChunk(st, batch[n]) : st \in upto[n - 1]}
    IN  upto[Len(batch)]

\* One turn of the loop that finds chunks in the channel.
Flush ==
    /\ phase = "loop" /\ chan # <<>>
    /\ \E st \in Fed(Batch(chan)) :
          acc' = st.acc /\ hole' = st.hole
    /\ fed' = fed \o Batch(chan) /\ chan' = <<>>
    /\ UNCHANGED <<phase, shell, held, pipe, outcome, wrote, lapsed>>

\* The reaper reports: the loop ends.
Reaped ==
    /\ phase = "loop" /\ shell = "exited"
    /\ phase' = "drain" /\ outcome' = "ok"
    /\ UNCHANGED <<shell, held, pipe, chan, acc, wrote, fed, lapsed, hole>>

\* The wait for the shell fails: no exit code.
WaitFails ==
    /\ phase = "loop" /\ shell = "exited"
    /\ phase' = "drain" /\ outcome' = "io"
    /\ UNCHANGED <<shell, held, pipe, chan, acc, wrote, fed, lapsed, hole>>

\* The deadline: the process group is killed - at once, or after two seconds.
Deadline ==
    /\ phase = "loop" /\ Timeout
    /\ phase' = "drain" /\ outcome' = "timeout" /\ shell' = "exited"
    /\ held' \in IF shell = "running" THEN BOOLEAN ELSE {held}
    /\ UNCHANGED <<pipe, chan, acc, wrote, fed, lapsed, hole>>

\* All writers are gone and the readers have met the end of their pipes.
PipesEnded == ~held /\ \A s \in Streams : pipe[s] = <<>>

\* Fault: the drain waits for the end of the pipes.
DrainEndsAtEof == PipesEnded

\* drain_readers returns when the readers have finished, or after the grace.
DrainEnds == TRUE

DrainReturns ==
    /\ phase = "drain" /\ DrainEnds
    /\ phase' = "last" /\ lapsed' = ~PipesEnded
    /\ UNCHANGED <<shell, held, pipe, chan, acc, outcome, wrote, fed, hole>>

\* The last flush, and finish.
Finish ==
    /\ phase = "last"
    /\ \E st \in Fed(Batch(chan)), how \in Writes :
          /\ acc' = FinishAcc(st.acc, how)
          /\ hole' = (st.hole \/ (how = "lost" /\ acc'.spill # st.acc.spill))
    /\ fed' = fed \o Batch(chan) /\ chan' = <<>>
    /\ phase' = "done"
    /\ UNCHANGED <<shell, held, pipe, outcome, wrote, lapsed>>

Done == phase = "done" /\ UNCHANGED outputVars

OutputNext ==
    \/ SpawnFails \/ Spawn \/ ShellExits \/ Release \/ Flush
    \/ Reaped \/ WaitFails \/ Deadline \/ DrainReturns \/ Finish \/ Done
    \/ \E s \in Streams : ReadPipe(s) \/ \E w \in Words : Write(s, w)

\* The run loop and the drain are never blocked for longer than their timeouts,
\* and the spawn returns; nothing is assumed of the shell or its children.
OutputSpec ==
    /\ OutputInit /\ [][OutputNext]_outputVars
    /\ WF_outputVars(SpawnFails \/ Spawn) /\ WF_outputVars(Reaped \/ WaitFails)
    /\ WF_outputVars(DrainReturns)

-----------------------------------------------------------------------------
(* The answer (execute_observed), a function of the finished accumulator. *)

\* full_text; the spill file, if there is one, may be unreadable.
FullText(readable) == IF readable \/ acc.spill = Unset THEN Lossy(FullBytes(acc)) ELSE <<>>

\* What compress_output may make of it: the command failed or did not.
Compressed(kind, readable) ==
    {CompressOutput(t, kind, success) : t \in {FullText(readable)}, success \in BOOLEAN}

\* The compressed text goes through an accumulator of its own.
Shadow(text) == AppendDecoded([Empty EXCEPT !.rawBytes = Size(text)], text)

\* What the caller is told, with the display of the compressed text; a failure
\* shows the display of the stream itself.
Response(compressed, readable) ==
    {CASE outcome = "ok" ->
            [ok |-> TRUE, display |-> display, strategy |-> compressed.strategy,
             structured |-> IF readable \/ acc.spill = Unset THEN Structured(acc)
                            ELSE [head |-> <<>>, tail |-> <<>>, capped |-> FALSE],
             truncated |-> acc.spill # Unset \/ display.truncated]
       [] outcome \in {"spawn", "timeout"} -> [ok |-> FALSE, display |-> Snapshot(acc)]
       [] outcome = "io" -> [ok |-> FALSE]
     : display \in {Snapshot(Shadow(compressed.content))}}

-----------------------------------------------------------------------------
(* Properties. *)

FedBytes == BytesOf(fed)
FedOf(s) == BytesOf(OfStream(fed, s))

\* Shapes; and the counters are those of the text decoded so far.
OutputTypeOK ==
    /\ phase \in {"start", "loop", "drain", "last", "done"}
    /\ shell \in {"none", "running", "exited"} /\ held \in BOOLEAN
    /\ pipe \in [Streams -> Seq(Bytes)] /\ wrote \in [Streams -> Seq(Words)]
    /\ outcome \in {"ok", "spawn", "timeout", "io", Unset}
    /\ acc.decoded \in Seq(Chars) /\ IsSuffix(acc.tail, acc.decoded)
    /\ acc.decodedBytes = Size(acc.decoded) /\ acc.rawBytes = Len(FedBytes)
    /\ TotalLines(acc) = Len(LinesOf(acc.decoded))
    /\ acc.spill = Unset \/ acc.raw = <<>>

\* Nothing of either pipe is reordered, doubled or - unless the grace period
\* ended first - lost on its way through reader, channel, batch and the move
\* from memory to the spill file; and the structured output is that stream,
\* or its two ends cut at characters.
StreamKept ==
    LET full == FullBytes(acc)
        st   == Structured(acc)
    IN  /\ \A s \in Streams : IsPrefix(FedOf(s), FlattenSeq(wrote[s]))
        /\ phase = "done" /\ ~lapsed => \A s \in Streams : FedOf(s) = FlattenSeq(wrote[s])
        /\ ~hole => full = FedBytes
        /\ IsPrefix(st.head, Lossy(full))
        /\ IF st.capped THEN IsSuffix(st.tail, Lossy(full)) ELSE st.head = Lossy(full)

\* The last line is complete and longer than the tail that is left of it.
LongLastLine ==
    ~acc.atBoundary /\ SelectInSeq(acc.tail, LAMBDA c : c = "nl") = Len(acc.tail)

\* The display at any moment - a streamed partial, the text of a timeout - is
\* the tail truncation of everything decoded so far, and its note names the
\* lines of the stream that it shows, as if the rolling tail had never been
\* trimmed (a trimmed tail that fits keeps a newline at its end).  When
\* LongLastLine holds it is empty instead of the end of that line.
SnapshotIsTail ==
    ~LongLastLine =>
        \A s \in {Snapshot(acc)}, t \in {TruncateTail(acc.decoded)} :
            /\ s.content \in {t.content, Append(t.content, "nl")} /\ s.outputLines = t.outputLines
            /\ s.partial = t.partial
            /\ s.truncated /\ ~s.partial =>
                   t.content = JoinLines(SubSeq(LinesOf(acc.decoded), Note(s).from, Note(s).to))
            /\ s.truncated <=> ~Fits(acc.decoded, MaxLines, MaxBytes)

\* The lines a display leaves out: those above the first one that its note
\* names, or all when it shows a piece of the last line only.
LeftOut(display, i) == display.truncated /\ (display.partial \/ i < Note(display).from)

\* No error line of a test or build command is lost in silence, wherever it
\* stood in the stream and however the text was stripped, folded, filled up
\* with context, marked and cut again to a display.  It is a line of the
\* compressed text, and then of the text the model sees or one that the note
\* of this text excludes.  The other losses are announced too: error_priority
\* found nothing to drop, and the answer names head-tail as the strategy that
\* cut; or the spill file could not be read, and it says that it is truncated.
ErrorLinesSurvive ==
    phase = "done" /\ outcome = "ok" /\ ~hole =>
        \A all \in {LinesOf(Lossy(FedBytes))}, readable \in BOOLEAN :
        \A c \in Compressed("test", readable) : \A r \in Response(c, readable) :
            LET lines == LinesOf(c.content)
            IN  \A i \in DOMAIN all : Actionable(Strip(all[i])) =>
                    \/ \E j \in DOMAIN lines :
                          /\ lines[j] \in {all[i], Strip(all[i])}
                          /\ \/ Contains(LinesOf(r.display.content), lines[j])
                             \/ LeftOut(r.display, j)
                    \/ r.strategy = "head-tail"
                    \/ ~readable /\ r.truncated

\* A character that straddles two reads is decoded once: the text does not
\* depend on how the stream was cut into chunks (accumulator.rs, Utf8Stream).
DecodedOnce == acc.decoded \o Flushed(acc.pending) = Lossy(FedBytes)

\* A background process that keeps the pipes open cannot hold up the answer:
\* once the shell is gone the drain ends (what follows does not wait).
Returns == shell = "exited" ~> phase \in {"last", "done"}
=============================================================================
