---------------------------- MODULE GateCoverage ----------------------------
(***************************************************************************)
(* The permission gate's read coverage for one file: which of its lines    *)
(* the session "has in context", and the three guards that rest on it -    *)
(* R1 (no re-read of what is in context), the edit binding (Anchor Guard   *)
(* Stale / Unread) and the write binding.  Coverage is kept per path and   *)
(* no rule relates two paths, so one file is the whole component.          *)
(*                                                                         *)
(* A tool call is three steps: the gate's tool_call handler admits it, the *)
(* tool runs, the tool_result handler books the result.  Calls overlap     *)
(* (pi runs the calls of one turn in parallel) and other programs write,   *)
(* delete and re-create the file whenever they like.                       *)
(*                                                                         *)
(* A line is a token that no other line ever has; what a token spells is   *)
(* abstracted.  "stat" stands for mtime and size together, the hash for    *)
(* the content itself (16 hex digits of sha256, assumed collision-free).   *)
(***************************************************************************)
EXTENDS Integers, Sequences, FiniteSets, FiniteSetsExt

CONSTANTS
    Calls,            \* tool calls that may be in flight together
    InitLines,        \* lines of the file at the start
    MaxLines,         \* bound: the file never grows past this
    MaxVer,           \* bound: number of content changes
    Windows,          \* read windows the agent asks for, [start, end]
    EditShapes,       \* edit calls the agent sends: sets of disjoint regions
    WriteSizes,       \* line counts of whole-file writes
    ReadMax,          \* piread's MAX_LINES
    CompactLines,     \* piread's COMPRESS_MAX_LINES, 0 for PI_READ_COMPRESS=0
    BigLines,         \* line count standing for R1b's BIG_READ_BYTES
    BigWindow,        \* R1b's BIG_READ_WIN
    ExternalInFlight, \* may other programs write while a call is in flight?
    HiddenWrites,     \* may they write without moving mtime and size?
    None              \* absent map entry / undefined field

\* Infinity as a line number: every line past the longest file.
Top == MaxLines + 1

Window == [start: 1..MaxLines, end: 1..Top]
Region == [from: 1..MaxLines, to: 1..MaxLines, new: 0..MaxLines,
           nl: BOOLEAN, fuzzy: BOOLEAN]

ASSUME ConstAssumption ==
    /\ MaxLines \in Nat \ {0}
    /\ InitLines \in 0..MaxLines
    /\ MaxVer \in Nat
    /\ Windows \subseteq Window /\ \A w \in Windows : w.start <= w.end
    /\ EditShapes \subseteq SUBSET Region /\ \A E \in EditShapes : IsFiniteSet(E)
    /\ WriteSizes \subseteq 0..MaxLines
    /\ ReadMax \in Nat \ {0}
    /\ CompactLines \in Nat \ (1..3)
    /\ BigLines \in Nat /\ BigWindow \in Nat \ {0}
    /\ ExternalInFlight \in BOOLEAN /\ HiddenWrites \in BOOLEAN
    /\ None \notin Windows /\ None \notin Int

VARIABLES
    file,          \* the lines on disk
    gone,          \* there is no file at the path (and no lines)
    stat,          \* what stat() reports: moves with every visible change
    ver,           \* number of content changes so far
    cov,           \* coverage.get(path): None or [lines, stat, hash]
    pendingReads,  \* toolCallId -> window awaiting its tool_result
    pendingEdits,  \* toolCallId -> spans awaiting their tool_result
    run,           \* the call as the tool executes it
    context,       \* ghost: the lines on disk shown to the model since compaction
    unseen,        \* ghost: the lines a compacted read counted and did not show
    basis,         \* ghost: the content cov was last certified against, or None
    loose          \* ghost: cov was certified by one of the five loose steps

vars == <<file, gone, stat, ver, cov, pendingReads, pendingEdits, run,
          context, unseen, basis, loose>>

Idle == [at |-> "idle"]
AllIdle == \A c \in Calls : run[c] = Idle

-----------------------------------------------------------------------------
(* Lines and spans *)

Token(v, i) == <<v, i>>
Lines(f) == {f[i] : i \in DOMAIN f}

\* The line numbers of a window or a span.
Span(w) == w.start .. w.end

WholeFile == [start |-> 1, end |-> Top]

\* Fault: certify remembers the stat from before the call's own change.
CertifyBehind(e, lines, st) ==
    [lines |-> lines \cup (IF e = None THEN {} ELSE e.lines),
     stat  |-> IF st = None THEN None ELSE st - 1,
     hash  |-> IF e = None THEN None ELSE e.hash]

\* read-coverage.ts certify: union of spans; stat and hash survive when the
\* caller brings no new one.  Spans are kept merged, so the set of covered
\* line numbers carries the same information.
Certify(e, lines, st) ==
    [lines |-> lines \cup (IF e = None THEN {} ELSE e.lines),
     stat  |-> IF st = None /\ e # None THEN e.stat ELSE st,
     hash  |-> IF e = None THEN None ELSE e.hash]

\* read-coverage.ts coversAll
CoversAll(e, w) == Span(w) \subseteq e.lines

\* Fault: spans behind the first edited line are kept.
SpansKept(lines, n) == lines

\* The spans that end before line n: a line stays when its run of covered
\* lines has a gap at or before n.
SpansBefore(lines, n) ==
    {l \in lines : \E gap \in (l + 1)..n : gap \notin lines}

(* An edit call is a set of disjoint regions; region r replaces the lines   *)
(* r.from..r.to by r.new lines.  r.nl: both texts end in a newline, so      *)
(* their split("\n") counts one line more.  r.fuzzy: matched only after     *)
(* normalisation, so the gate derives no span from it.                      *)
Extra(r) == IF r.nl THEN 1 ELSE 0
OrigSpan(r) == r.from .. (r.to + Extra(r))
Touched(E) == UNION {r.from .. r.to : r \in E}
Added(E) == UNION {{r} \X (1..r.new) : r \in E}

\* By how many lines the regions of E make the file longer.
Grown(E) == Cardinality(Added(E)) - Cardinality(Touched(E))

\* Where line i is found after the regions before it are replaced.
Moved(E, i) == i + Grown({q \in E : q.from < i})

NewSpan(E, r) ==
    Moved(E, r.from) .. (Moved(E, r.from) + r.new + Extra(r) - 1)

Exact(E) == {r \in E : ~r.fuzzy}

\* Does the call name text that is in file f?  (disjoint, inside the file)
Applies(E, f) ==
    /\ E # {}
    /\ \A r \in E : /\ r.from <= r.to /\ r.to <= Len(f)
                    /\ r.nl => r.to < Len(f)
                    /\ ~r.nl => r.new >= 1
    /\ \A r, q \in E : r # q => r.to < q.from \/ q.to < r.from

\* The file with the regions of E replaced, all against the same original.
Overlay(f, E, v) ==
    LET Before(k) == {i \in (DOMAIN f) \ Touched(E) : Moved(E, i) = k}
    IN  [k \in 1..(Len(f) + Grown(E)) |->
          IF Before(k) # {} THEN f[CHOOSE i \in Before(k) : TRUE]
          ELSE Token(v, k)]

-----------------------------------------------------------------------------
(* What a read returns (piread pipeline.rs and compress.rs).  How many bytes *)
(* a line has is abstracted: the compaction may keep fewer than it has room  *)
(* for, and a text that has its marker already is left alone.                *)

ReadFails(w, f) == w.start > 1 /\ w.start > Len(f)

\* How many lines of the file are in the window.
Selected(w, f) == (IF w.end < Len(f) THEN w.end ELSE Len(f)) - w.start + 1

\* How many of them the head truncation leaves.
Returned(w, f) == IF Selected(w, f) <= ReadMax THEN Selected(w, f) ELSE ReadMax

\* details.truncation is present exactly when lines were cut off the end.
Truncated(w, f) == Returned(w, f) < Selected(w, f)

\* The "[N more lines in file...]" note and its blank line, under a window that
\* ends before the file does; they are body text to the compaction.
Note(w, f) == IF ~Truncated(w, f) /\ w.end < Len(f) THEN 2 ELSE 0

\* The whole lines a compaction takes at most, two thirds of them from the head;
\* three more are kept for the marker.
HeadBudget == ((CompactLines - 3) * 2) \div 3
TailBudget == CompactLines - 3 - HeadBudget

\* A text with h whole lines from the head and t from the tail: an end of which
\* no whole line fits shows part of one, and the marker stands between blanks.
\* A tail that is one empty line is left out with the blank before it.
TextLines(h, t, empty) == (IF h = 0 THEN 1 ELSE h) + 2
                            + (IF empty THEN 0 ELSE 1 + (IF t = 0 THEN 1 ELSE t))

\* The text as it is.
Verbatim(w, f) ==
    [shown |-> w.start..(w.start + Returned(w, f) - 1),
     lines |-> Returned(w, f), hides |-> FALSE]

\* Head-tail compaction of the lines and the note.  tool_result counts the lines
\* of the text less the note, or takes truncation.outputLines when present.
Compacted(w, f, h, t, empty) ==
    LET end == w.start + Returned(w, f) - 1
    IN  [shown |-> (w.start..(w.start + h - 1))
                     \cup ((end + 1 + Note(w, f) - t)..end),
         lines |-> IF Truncated(w, f) THEN Returned(w, f)
                   ELSE TextLines(h, t, empty) - Note(w, f),
         hides |-> TRUE]

\* The texts a read may give.  The note is short and always fits the tail.
Texts(w, f) ==
    {Verbatim(w, f)} \cup
    {Compacted(w, f, x[1], x[2], x[3]) :
        x \in {y \in (0..HeadBudget) \X (0..TailBudget) \X BOOLEAN :
                 /\ CompactLines # 0 /\ y[1] + y[2] < Returned(w, f) + Note(w, f)
                 /\ y[2] >= Note(w, f) \/ y[2] = TailBudget
                 /\ y[3] => y[2] = 1 /\ Note(w, f) = 0}}

-----------------------------------------------------------------------------
Init ==
    /\ gone \in BOOLEAN
    /\ file = [i \in 1..(IF gone THEN 0 ELSE InitLines) |-> Token(0, i)]
    /\ stat = 0 /\ ver = 0
    /\ cov = None
    /\ pendingReads = [c \in Calls |-> None]
    /\ pendingEdits = [c \in Calls |-> None]
    /\ run = [c \in Calls |-> Idle]
    /\ context = {} /\ unseen = {} /\ basis = None /\ loose = FALSE

(* ---- reads ---- *)

\* read-coverage.ts snapshot: undefined when there is no file
Snapshot == IF gone THEN None ELSE stat

\* R1b: a whole or a very large window of a large file.
BigRead(w) == /\ w.end = Top \/ w.end - w.start >= BigWindow
              /\ Len(file) > BigLines

\* R1: fully covered and the file still has the certified stat.
ReRead(e, w) == /\ e # None /\ CoversAll(e, w)
                /\ Snapshot # None /\ e.stat = Snapshot

ReadAdmitted(w) == ~BigRead(w) /\ ~ReRead(cov, w)

\* tool_call(piread): a covered window of a changed file drops the entry.
ReadCall(c, w) ==
    /\ run[c] = Idle
    /\ ReadAdmitted(w)
    /\ LET drop == cov # None /\ CoversAll(cov, w)
       IN  /\ cov' = IF drop THEN None ELSE cov
           /\ basis' = IF drop THEN None ELSE basis
           /\ loose' = (loose /\ ~drop)
           /\ unseen' = IF drop THEN {} ELSE unseen
    /\ pendingReads' = [pendingReads EXCEPT ![c] = w]
    /\ run' = [run EXCEPT ![c] = [at |-> "reading", win |-> w]]
    /\ UNCHANGED <<file, gone, stat, ver, pendingEdits, context>>

ReadFailed == [at |-> "read", error |-> TRUE, shown |-> {}, lines |-> 0,
               hides |-> FALSE, cut |-> FALSE, content |-> <<>>]

\* The tool reads the file.
ReadExec(c) ==
    /\ run[c].at = "reading"
    /\ LET w == run[c].win
       IN  IF gone \/ ReadFails(w, file) THEN run' = [run EXCEPT ![c] = ReadFailed]
           ELSE \E text \in Texts(w, file) :
                  run' = [run EXCEPT ![c] =
                    [at |-> "read", error |-> FALSE,
                     shown |-> {file[i] : i \in text.shown},
                     lines |-> text.lines, hides |-> text.hides,
                     cut |-> Truncated(w, file), content |-> file]]
    /\ UNCHANGED <<file, gone, stat, ver, cov, pendingReads, pendingEdits,
                   context, unseen, basis, loose>>

\* The lines that result r of a read of window w certifies: past the end of the
\* file too when nothing was cut off the whole of it.
Whole(r, w) == w = WholeFile /\ ~r.cut
BookedLines(r, w) ==
    IF Whole(r, w) THEN Span(w) ELSE w.start .. (w.start + r.lines - 1)

\* tool_result(piread): certify the returned lines against the stat of NOW.
ReadResult(c) ==
    /\ run[c].at = "read"
    /\ LET r == run[c]
           w == pendingReads[c]
           lines == BookedLines(r, w)
           booked == w # None /\ ~r.error /\ r.lines > 0
           moved == r.content # file
           claimed == {file[i] : i \in lines \cap DOMAIN file}
           merged == ~Whole(r, w) /\ cov # None /\ (loose \/ cov.stat # stat)
       IN  /\ context' = IF r.error THEN context
                        ELSE context \cup (r.shown \cap Lines(file))
           /\ unseen' = (IF booked /\ r.hides THEN unseen \cup claimed ELSE unseen)
                          \ context'
           /\ cov' = IF booked THEN Certify(cov, lines, Snapshot) ELSE cov
           /\ basis' = IF booked THEN file ELSE basis
           /\ loose' = IF booked THEN gone \/ moved \/ merged ELSE loose
    /\ pendingReads' = [pendingReads EXCEPT ![c] = None]
    /\ run' = [run EXCEPT ![c] = Idle]
    /\ UNCHANGED <<file, gone, stat, ver, pendingEdits>>

(* ---- edits ---- *)

\* Fault: only a stat that went backwards counts as stale.
StaleStatOlder == /\ cov # None /\ cov.stat # None
                  /\ ~gone /\ stat < cov.stat

\* Both checks fail open where there is nothing to compare.
StaleStat == /\ cov # None /\ cov.stat # None
             /\ ~gone /\ cov.stat # stat
StaleHash == /\ cov # None /\ cov.hash # None
             /\ ~gone /\ ~StaleStat /\ cov.hash # file
Unread(E) == \/ cov = None
             \/ \E r \in Exact(E) : OrigSpan(r) \cap cov.lines = {}

EditAdmitted(E) == ~StaleStat /\ ~StaleHash /\ ~Unread(E)

\* Fault: the disproved entry survives the block.
AfterBlockKept == cov

\* What a blocked edit or write leaves of the entry: the hash chain, having
\* disproved it, drops it.
AfterBlock == IF StaleHash THEN None ELSE cov

\* tool_call(edit | write) blocked by the hash chain.
HashBlock ==
    /\ StaleHash
    /\ cov' = AfterBlock
    /\ basis' = IF AfterBlock = None THEN None ELSE basis
    /\ loose' = (loose /\ AfterBlock # None)
    /\ unseen' = IF AfterBlock = None THEN {} ELSE unseen
    /\ UNCHANGED <<file, gone, stat, ver, pendingReads, pendingEdits, run, context>>

\* What the gate remembers of an edit call it admits under stat st.
Booking(E, st) ==
    [kind |-> "edit",
     lines |-> UNION {NewSpan(Exact(E), r) : r \in Exact(E)},
     first |-> IF Exact(E) = {} THEN None ELSE Min({r.from : r \in Exact(E)}),
     preStat |-> st, fuzzy |-> Exact(E) # E]

\* tool_call(piedit): validateEditAnchors passed; remember spans and stat.
\* Ghost: how the gate stood to the file when it let the edit through.
EditCall(c, E) ==
    /\ run[c] = Idle
    /\ Applies(E, file)
    /\ EditAdmitted(E)
    /\ pendingEdits' = [pendingEdits EXCEPT ![c] = Booking(E, stat)]
    /\ run' = [run EXCEPT ![c] =
           [at |-> "editing", edits |-> E, content |-> file, checked |-> TRUE,
            loose |-> loose, unseen |-> unseen]]
    /\ UNCHANGED <<file, gone, stat, ver, cov, pendingReads, context, unseen, basis,
                   loose>>

\* What the gate remembers of an edit call it had nothing to check against.
Unchecked == [kind |-> "edit", lines |-> {}, first |-> None, preStat |-> None,
              fuzzy |-> FALSE]

\* tool_call(piedit) on a path without a file, or with edits that are no list
\* (E = {}): validateEditAnchors leaves the answer to the tool.
EditUnchecked(c, E) ==
    /\ run[c] = Idle
    /\ gone \/ E = {}
    /\ pendingEdits' = [pendingEdits EXCEPT ![c] = Unchecked]
    /\ run' = [run EXCEPT ![c] =
           [at |-> "editing", edits |-> E, content |-> <<>>, checked |-> FALSE,
            loose |-> TRUE, unseen |-> {}]]
    /\ UNCHANGED <<file, gone, stat, ver, cov, pendingReads, context, unseen,
                   basis, loose>>

\* The regions of E, matched by content in the file as it is now.
Located(E, old) ==
    LET Place(r) == CHOOSE d \in (1 - r.from)..(Len(file) - r.to) :
                      \A i \in r.from..r.to : file[i + d] = old[i]
    IN  {[r EXCEPT !.from = @ + Place(r), !.to = @ + Place(r)] : r \in E}

Matches(E, old) ==
    \A r \in E : \E d \in (1 - r.from)..(Len(file) - r.to) :
        \A i \in r.from..r.to : file[i + d] = old[i]

Fits(f) == Len(f) \in 0..MaxLines

\* A change of the file that stat() sees.
Changes(newFile) ==
    /\ ver < MaxVer
    /\ Fits(newFile)
    /\ file' = newFile /\ gone' = FALSE
    /\ ver' = ver + 1
    /\ stat' = ver + 1

\* The tool's answer to an edit or a write: what it applied to which content.
Done(raced, nl, f) == [at |-> "edited", error |-> FALSE, raced |-> raced,
                       nl |-> nl, content |-> f]
Failed == [at |-> "edited", error |-> TRUE, raced |-> FALSE,
           nl |-> FALSE, content |-> <<>>]

\* The tool applies the edits; an abort can still turn an applied edit into
\* an error result (piedit throws "Operation aborted" after the fact).
EditExec(c, error) ==
    /\ run[c].at = "editing"
    /\ LET E   == run[c].edits
           old == run[c].content
       IN  /\ run[c].checked => Matches(E, old)
           /\ LET L == IF run[c].checked THEN Located(E, old) ELSE E
                  f == Overlay(file, L, ver + 1)
              IN  /\ Applies(L, file)
                  /\ Changes(f)
                  /\ context' = (context \cup (Lines(f) \ Lines(file))) \cap Lines(f)
                  /\ unseen' = unseen \cap Lines(f)
                  /\ run' = [run EXCEPT ![c] =
                         IF error THEN Failed
                         ELSE Done(old # file, \E r \in Exact(E) : r.nl, f)]
    /\ UNCHANGED <<cov, pendingReads, pendingEdits, basis, loose>>

\* The tool reports an error and leaves the file alone.
MutationFails(c) ==
    /\ run[c].at \in {"editing", "writing"}
    /\ run' = [run EXCEPT ![c] = Failed]
    /\ UNCHANGED <<file, gone, stat, ver, cov, pendingReads, pendingEdits,
                   context, unseen, basis, loose>>

\* prior spans survive an edit only if nothing else touched the file between
\* certification and this edit and every anchor matched exactly
Drifted(p) == /\ cov # None /\ p.kind = "edit"
              /\ \/ p.fuzzy \/ cov.stat = None
                 \/ p.preStat = None \/ cov.stat # p.preStat

\* Coverage after a successful edit or write: truncate, certify, chain hash.
AfterMutation(p) ==
    LET kept == IF Drifted(p) THEN None ELSE cov
        cut  == IF kept = None \/ p.first = None THEN kept
                ELSE [kept EXCEPT !.lines = SpansBefore(kept.lines, p.first)]
        done == IF p.lines = {} THEN kept ELSE Certify(cut, p.lines, Snapshot)
    IN  IF done = None THEN None
        ELSE [done EXCEPT !.hash = IF gone THEN None ELSE file]

\* tool_result(edit | write)
MutationResult(c) ==
    /\ run[c].at = "edited"
    /\ LET r == run[c]
           p == pendingEdits[c]
           new == AfterMutation(p)
           carried == p.kind = "edit" /\ ~Drifted(p) /\ cov # None /\ loose
           overcounted == \/ r.nl
                          \/ p.fuzzy /\ p.lines # {}
       IN  IF p = None THEN UNCHANGED <<cov, unseen, basis, loose>>
           ELSE IF r.error
             THEN cov' = None /\ unseen' = {} /\ basis' = None /\ loose' = FALSE
             ELSE /\ cov' = new
                  /\ unseen' = IF new = None THEN {} ELSE unseen
                  /\ basis' = IF new = None THEN None ELSE file
                  /\ loose' = (new # None /\ (\/ gone \/ r.raced
                                              \/ r.content # file
                                              \/ carried
                                              \/ overcounted))
    /\ pendingEdits' = [pendingEdits EXCEPT ![c] = None]
    /\ run' = [run EXCEPT ![c] = Idle]
    /\ UNCHANGED <<file, gone, stat, ver, pendingReads, context>>

(* ---- writes ---- *)

\* write binding: an entry must not be stale, an existing file must have one
WriteAdmitted == IF cov = None THEN gone ELSE ~StaleStat /\ ~StaleHash

\* What the gate remembers of a write call.
WriteBooking == [kind |-> "write", lines |-> Span(WholeFile), first |-> None,
                 preStat |-> None, fuzzy |-> FALSE]

WriteCall(c, n) ==
    /\ run[c] = Idle
    /\ WriteAdmitted
    /\ pendingEdits' = [pendingEdits EXCEPT ![c] = WriteBooking]
    /\ run' = [run EXCEPT ![c] = [at |-> "writing", size |-> n]]
    /\ UNCHANGED <<file, gone, stat, ver, cov, pendingReads, context, unseen, basis,
                   loose>>

WriteExec(c, error) ==
    /\ run[c].at = "writing"
    /\ LET f == [i \in 1..run[c].size |-> Token(ver + 1, i)]
       IN  /\ Changes(f)
           /\ context' = Lines(f) /\ unseen' = {}
           /\ run' = [run EXCEPT ![c] =
                  IF error THEN Failed ELSE Done(FALSE, FALSE, f)]
    /\ UNCHANGED <<cov, pendingReads, pendingEdits, basis, loose>>

(* ---- the rest of the world ---- *)

\* Another program replaces, inserts or deletes a line; stat() sees it.
ExternalWrite ==
    /\ ExternalInFlight \/ AllIdle
    /\ \E i \in 1..(Len(file) + 1), drop \in {0, 1}, add \in {0, 1} :
         /\ drop + add > 0 /\ i + drop <= Len(file) + 1
         /\ Changes(SubSeq(file, 1, i - 1)
                    \o [j \in 1..add |-> Token(ver + 1, j)]
                    \o SubSeq(file, i + drop, Len(file)))
    /\ context' = context \cap Lines(file') /\ unseen' = unseen \cap Lines(file')
    /\ UNCHANGED <<cov, pendingReads, pendingEdits, run, basis, loose>>

\* Another program deletes the file.
ExternalDelete ==
    /\ ExternalInFlight \/ AllIdle
    /\ ~gone /\ ver < MaxVer
    /\ file' = <<>> /\ gone' = TRUE
    /\ ver' = ver + 1 /\ stat' = ver + 1
    /\ context' = {} /\ unseen' = {}
    /\ UNCHANGED <<cov, pendingReads, pendingEdits, run, basis, loose>>

\* Another program changes a line within one mtime tick or restores the mtime.
HiddenWrite ==
    /\ HiddenWrites
    /\ ExternalInFlight \/ AllIdle
    /\ ver < MaxVer
    /\ \E i \in DOMAIN file :
         file' = [file EXCEPT ![i] = Token(ver + 1, 1)]
    /\ ver' = ver + 1
    /\ loose' = (cov # None)
    /\ context' = context \cap Lines(file') /\ unseen' = unseen \cap Lines(file')
    /\ UNCHANGED <<gone, stat, cov, pendingReads, pendingEdits, run, basis>>

\* session_compact: the summary replaced what was shown.
SessionCompact ==
    /\ cov' = None /\ loose' = FALSE
    /\ pendingReads' = [c \in Calls |-> None]
    /\ pendingEdits' = [c \in Calls |-> None]
    /\ context' = {} /\ unseen' = {} /\ basis' = None
    /\ UNCHANGED <<file, gone, stat, ver, run>>

\* before_agent_start: a <file> block of the prompt that byte-matches the disk.
InjectFile ==
    /\ AllIdle /\ ~gone
    /\ cov' = [lines |-> Span(WholeFile), stat |-> stat, hash |-> file]
    /\ context' = Lines(file) /\ unseen' = {}
    /\ basis' = file /\ loose' = FALSE
    /\ UNCHANGED <<file, gone, stat, ver, pendingReads, pendingEdits, run>>

Next ==
    \/ \E c \in Calls, w \in Windows : ReadCall(c, w)
    \/ \E c \in Calls : ReadExec(c)
    \/ \E c \in Calls : ReadResult(c)
    \/ \E c \in Calls, E \in EditShapes : EditCall(c, E)
    \/ \E c \in Calls, E \in EditShapes \cup {{}} : EditUnchecked(c, E)
    \/ \E c \in Calls, error \in BOOLEAN : EditExec(c, error)
    \/ \E c \in Calls : MutationFails(c)
    \/ \E c \in Calls : MutationResult(c)
    \/ HashBlock
    \/ \E c \in Calls, n \in WriteSizes : WriteCall(c, n)
    \/ \E c \in Calls, error \in BOOLEAN : WriteExec(c, error)
    \/ ExternalWrite
    \/ ExternalDelete
    \/ HiddenWrite
    \/ SessionCompact
    \/ InjectFile

Spec == Init /\ [][Next]_vars

-----------------------------------------------------------------------------
(* Properties *)

\* The gate's maps and the file have the shape the code gives them.
TypeOK ==
    /\ ver \in 0..MaxVer
    /\ stat \in 0..ver
    /\ cov # None => /\ cov = [lines |-> cov.lines, stat |-> cov.stat,
                               hash |-> cov.hash]
                     /\ cov.lines \subseteq Int
                     /\ cov.stat \in (0..stat) \cup {None}
    /\ pendingReads \in [Calls -> Windows \cup {None}]
    /\ DOMAIN pendingEdits = Calls
    /\ \A c \in Calls : pendingEdits[c] # None =>
          /\ pendingEdits[c].kind \in {"edit", "write"}
          /\ pendingEdits[c].lines \subseteq Int
    /\ DOMAIN run = Calls
    /\ \A c \in Calls : run[c].at \in
          {"idle", "reading", "read", "editing", "edited", "writing"}
    /\ loose \in BOOLEAN /\ gone \in BOOLEAN /\ (gone => file = <<>>)

\* R1's promise (the coverage map's comment in index.ts): as long as the file
\* has the certified stat, every line the entry covers was shown to the model
\* in its present form since the last compaction - across reads, overlay
\* edits that shift lines, writes, injections, compactions, other programs
\* and two calls in flight.  The steps that certify loosely are excepted and
\* named by the ghost variable loose.
TightCoverageInContext ==
    (cov # None /\ ~loose /\ cov.stat = stat) =>
        \A i \in cov.lines \cap DOMAIN file : file[i] \in context \cup unseen

\* What an edit that the gate let through replaces (S5 M2 in anchor-guard.ts):
\* at the moment the tool applies it, each region matched exactly has a line -
\* or the one behind its final newline - that the model was shown, whatever
\* other programs and the other call did to the file, its lines' numbers and
\* the entry since the gate read them.  Excepted are edits let through on a
\* loosely certified entry, and those whose booking a compaction dropped.
EditReplacesShown ==
    [][\A c \in Calls :
         (/\ run[c].at = "editing" /\ run'[c].at = "edited" /\ file' # file
          /\ run[c].checked /\ ~run[c].loose /\ pendingEdits[c] # None)
            => \A r \in Exact(run[c].edits) : \E i \in OrigSpan(r) :
                  LET line == run[c].content[i]
                  IN  line \in Lines(file) =>
                        line \in context \cup run[c].unseen]_vars

\* A read that is let through when a block has left e of the entry.
LetThrough(e, w) == ~BigRead(w) /\ ~ReRead(e, w) /\ ~ReadFails(w, file)

\* The windows inside the lines from..to.
Inside(from, to) == {w \in Window : /\ from <= w.start /\ w.start <= w.end
                                    /\ w.end <= to}

\* No guard deadlock (the S5 M3 comment in index.ts): when an edit of text that
\* is in the file, or a write to a file that has lines, is blocked, some read
\* of what is to be replaced is blocked neither as a re-read nor as a big read.
NoGuardDeadlock ==
    /\ \A E \in EditShapes :
         Applies(E, file) /\ ~EditAdmitted(E) =>
            \E r \in E : \E w \in Inside(r.from, r.to) : LetThrough(AfterBlock, w)
    /\ (file # <<>> /\ ~WriteAdmitted) =>
            \E w \in Inside(1, Len(file)) : LetThrough(AfterBlock, w)

\* The coverage map's promise with no exception for loose certification.
CoverageInContext ==
    (cov # None /\ cov.stat = stat) =>
        \A i \in cov.lines \cap DOMAIN file : file[i] \in context
=============================================================================
