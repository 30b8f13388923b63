--------------------------- MODULE ViolationStore ---------------------------
(***************************************************************************)
(* Violation memory: an append-only NDJSON file that pi processes - the    *)
(* main session and its subagents - share without a lock.  Each block is   *)
(* appended as one row; a process aggregates the file when it loads, and   *)
(* when the file has grown long it rewrites it, through a temporary file   *)
(* whose name all processes share.  Every file operation is one step; any  *)
(* number of steps of other processes may come in between.                 *)
(*                                                                         *)
(* The lines of the file are a set of rows: their order tells nothing.  A  *)
(* row without a session gets one made up from its position when it is     *)
(* migrated; within one migration these differ, and the file that comes of *)
(* one holds no rows of the old shape any more, so that they stay apart    *)
(* (sid = None stands for all of them).  The rows that record the use of a *)
(* native tool are, to what is modelled here, rows of a family without a   *)
(* lesson.                                                                 *)
(***************************************************************************)
EXTENDS Naturals, FiniteSets

CONSTANTS
    Procs,         \* pi processes
    SidOf,         \* memorySid() of a process
    Families,      \* rule families with a lesson (FAMILY_LESSONS)
    Fallback,      \* families without a lesson, and rows without a family
    InitStore,     \* the rows of the file at the outset
    Floor,         \* families in the frozen pre-NDJSON blob
    CompactLines,  \* rows that trigger a compaction (200)
    Threshold,     \* MEMORY_THRESHOLD
    MaxRows,       \* bound: rows ever written
    None

Sids == {SidOf[p] : p \in Procs}

\* A legacy row lacks the kind field and may lack the sid and the time.
Rows == [id : 1..MaxRows, family : Families \cup {Fallback},
         sid : Sids \cup {None}, legacy : BOOLEAN, dated : BOOLEAN]

ASSUME StoreAssumption ==
    /\ InitStore \subseteq Rows /\ IsFiniteSet(InitStore)
    /\ \A r \in InitStore : r.id <= Cardinality(InitStore)
    /\ \A r, s \in InitStore : r.id = s.id => r = s
    /\ Fallback \notin Families /\ Floor \subseteq Families
    /\ None \notin Sids
    /\ CompactLines \in Nat /\ Threshold \in Nat /\ MaxRows \in Nat

VARIABLES
    store,     \* the NDJSON file
    tmp,       \* the rows of the shared .compact file, {None} if it is absent
    pc,        \* how far loadCounts, then the session, has come
    parsed,    \* rows a compacting process has read
    counts,    \* what loadCounts returned, per process and family
    lessons,   \* families whose lesson was injected into the prompt
    written,   \* ghost: all rows ever in the file
    old,       \* rows that left the 30-day window (by id)
    raced      \* ghost: ids of rows appended while a compaction was under way

vars == <<store, tmp, pc, parsed, counts, lessons, written, old, raced>>

-----------------------------------------------------------------------------
InWindow(S) == {r \in S : r.id \notin old}

\* The distinct keys of a family: its sids; a row without one counts alone.
Key(r) == IF r.sid = None THEN r.id ELSE r.sid
\* Fault: rows are counted, not sessions.
DistinctRows(S, f) == {r.id : r \in {s \in InWindow(S) : s.family = f}}

Distinct(S, f) == {Key(r) : r \in {s \in InWindow(S) : s.family = f}}

\* mergeLessonCounts: the blob adds at most one session.
Merged(S, f) == Cardinality(Distinct(S, f)) + (IF f \in Floor THEN 1 ELSE 0)

\* Fault: the rewritten rows lose their session.
MigratedBare(S) == {[id |-> r.id, family |-> r.family] : r \in InWindow(S)}

\* Fault: fallback rows of the current shape are dropped, too.
MigratedNoFallback(S) ==
    {[r EXCEPT !.legacy = FALSE] :
        r \in {s \in InWindow(S) : s.family # Fallback}}

\* migrateRows drops a row of the old shape without a time or a lesson.
Carried(r) == r.legacy => r.dated /\ r.family # Fallback

\* ... and those out of the window; the others come in the current shape.
Migrated(S) ==
    {[r EXCEPT !.legacy = FALSE] : r \in {s \in InWindow(S) : Carried(s)}}

Compacting(p) == pc[p] \in {"write", "rename"}

-----------------------------------------------------------------------------
Init ==
    /\ store = InitStore /\ tmp = {None}
    /\ pc = [p \in Procs |-> "down"]
    /\ parsed = [p \in Procs |-> {}]
    /\ counts = [p \in Procs |-> [f \in Families |-> 0]]
    /\ lessons = [p \in Procs |-> {}]
    /\ written = InitStore /\ old = {} /\ raced = {}

\* loadCounts, the first read: count, and see whether the file is long.
LoadCounts(p) ==
    /\ pc[p] = "down"
    /\ counts' = [counts EXCEPT ![p] = [f \in Families |-> Merged(store, f)]]
    /\ pc' = [pc EXCEPT ![p] = IF Cardinality(store) > CompactLines
                               THEN "snap" ELSE "ready"]
    /\ UNCHANGED <<store, tmp, parsed, lessons, written, old, raced>>

\* The second read and migrateRows.
Snapshot(p) ==
    /\ pc[p] = "snap"
    /\ parsed' = [parsed EXCEPT ![p] = Migrated(store)]
    /\ pc' = [pc EXCEPT ![p] = "write"]
    /\ UNCHANGED <<store, tmp, counts, lessons, written, old, raced>>

WriteTmp(p) ==
    /\ pc[p] = "write"
    /\ tmp' = parsed[p]
    /\ parsed' = [parsed EXCEPT ![p] = {}]
    /\ pc' = [pc EXCEPT ![p] = "rename"]
    /\ UNCHANGED <<store, counts, lessons, written, old, raced>>

\* renameSync; it fails, unnoticed, when another process renamed the file.
Rename(p) ==
    /\ pc[p] = "rename"
    /\ \/ tmp # {None} /\ store' = tmp /\ tmp' = {None}
       \/ tmp = {None} /\ UNCHANGED <<store, tmp>>
    /\ pc' = [pc EXCEPT ![p] = "ready"]
    /\ UNCHANGED <<parsed, counts, lessons, written, old, raced>>

\* before_agent_start, once per process: the three worst families at most.
Inject(p) ==
    /\ pc[p] = "ready"
    /\ pc' = [pc EXCEPT ![p] = "live"]
    /\ LET repeated == {f \in Families : counts[p][f] >= Threshold}
       IN  \E L \in SUBSET repeated :
              /\ Cardinality(L) <= 3
              /\ L # repeated => Cardinality(L) = 3
              /\ \A f \in L, g \in repeated \ L : counts[p][f] >= counts[p][g]
              /\ lessons' = [lessons EXCEPT ![p] = L]
    /\ UNCHANGED <<store, tmp, parsed, counts, written, old, raced>>

\* blockCall appends a block, a native tool's logFallback its fallback,
\* recordAdoption a use of a native tool.
AppendRow(p, f) ==
    LET r == [id |-> Cardinality(written) + 1, family |-> f,
              sid |-> SidOf[p], legacy |-> FALSE, dated |-> TRUE]
    IN  /\ pc[p] = "live" /\ Cardinality(written) < MaxRows
        /\ store' = store \cup {r}
        /\ written' = written \cup {r}
        /\ counts' = IF f = Fallback THEN counts
                     ELSE [counts EXCEPT ![p][f] = @ + 1]
        /\ raced' = IF \E q \in Procs : Compacting(q)
                    THEN raced \cup {r.id} ELSE raced
        /\ UNCHANGED <<tmp, pc, parsed, lessons, old>>

\* Thirty days pass for a row with a time.
RowAges(r) ==
    /\ r.id \notin old /\ r.dated
    /\ old' = old \cup {r.id}
    /\ UNCHANGED <<store, tmp, pc, parsed, counts, lessons, written, raced>>

\* A process ends, or is killed at any point, and may start again.
Exit(p) ==
    /\ pc[p] # "down"
    /\ pc' = [pc EXCEPT ![p] = "down"]
    /\ parsed' = [parsed EXCEPT ![p] = {}]
    /\ counts' = [counts EXCEPT ![p] = [f \in Families |-> 0]]
    /\ lessons' = [lessons EXCEPT ![p] = {}]
    /\ UNCHANGED <<store, tmp, written, old, raced>>

Next ==
    \/ \E p \in Procs : \/ LoadCounts(p) \/ Snapshot(p) \/ WriteTmp(p)
                        \/ Rename(p) \/ Inject(p) \/ Exit(p)
                        \/ \E f \in Families \cup {Fallback} : AppendRow(p, f)
    \/ \E r \in written : RowAges(r)

Spec == Init /\ [][Next]_vars

-----------------------------------------------------------------------------
TypeOK ==
    /\ store \subseteq Rows
    /\ tmp = {None} \/ tmp \subseteq Rows
    /\ pc \in [Procs -> {"down", "snap", "write", "rename", "ready", "live"}]
    /\ counts \in [Procs -> [Families -> Nat]]
    /\ lessons \in [Procs -> SUBSET Families]
    /\ old \subseteq 1..MaxRows /\ raced \subseteq 1..MaxRows

\* H7: a lesson is earned by blocks in THRESHOLD distinct sessions (the blob
\* standing for one, a legacy row without a sid for one) - never by the depth
\* of one session, and not by rows that a compaction rewrote or repeated.
LessonsEarned ==
    \A p \in Procs : \A f \in lessons[p] :
        Cardinality({Key(r) : r \in {s \in written : s.family = f}})
            + (IF f \in Floor THEN 1 ELSE 0) >= Threshold

\* A compaction keeps what it may keep: a row in the window is still in the
\* file, with its family and session, unless it was appended while some process
\* was compacting - whichever processes load, rewrite the shared temporary
\* file, rename it and die in between.  (Some rows of the old shape go.)
KeepsUnraced ==
    \A r \in InWindow(written) :
        (r.id \notin raced /\ Carried(r)) =>
            \E s \in store : s.id = r.id /\ s.sid = r.sid /\ s.family = r.family
=============================================================================
