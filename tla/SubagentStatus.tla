--------------------------- MODULE SubagentStatus ---------------------------
(***************************************************************************)
(* One subagent as its parent sees it.  The child records what it does in  *)
(* a snapshot file, written at once or throttled; the parent reads the     *)
(* file every second, and by it tells a starting, active, waiting or       *)
(* stalled child.  The child may ask its parent a question through a       *)
(* second file, and then stays open; the parent answers by steering, which *)
(* types a message into the child's pane.                                  *)
(*                                                                         *)
(* Child and parent are processes of their own: each is single-threaded,   *)
(* the files are where they meet.  pi's own order of events (a run of the  *)
(* agent is a row of turns, tools run inside a turn) is external.  What    *)
(* the status shows besides its kind - labels, durations - is left out.    *)
(* Sequence numbers order the snapshots of one clock tick: what they tell  *)
(* the parent is whether it has seen the one in the file ("seen").         *)
(***************************************************************************)
EXTENDS Naturals

CONSTANTS
    AutoExit,          \* PI_SUBAGENT_AUTO_EXIT
    MaxWriteFailures,  \* MAX_WRITE_FAILURES
    StallAfter,        \* SNAPSHOT_STALLED_AFTER_MS, in ticks of the clock
    MaxClock,          \* bound: ticks of the clock both processes read
    MaxTools,          \* bound: tool calls of a turn under way together
    MaxSteers,         \* bound: messages of the parent
    MaxKids,           \* bound: subagents of the subagent
    None

Phases == {"starting", "active", "waiting", "done"}
Snapshots == [at : Nat, phase : Phases, fresh : BOOLEAN]

ASSUME StatusAssumption ==
    /\ AutoExit \in BOOLEAN
    /\ MaxWriteFailures \in Nat \ {0} /\ StallAfter \in Nat \ {0}
    /\ {MaxClock, MaxTools, MaxSteers, MaxKids} \subseteq Nat
    /\ None \notin Nat \cup Snapshots

VARIABLES
    clock,
    stage,      \* of the child: boot, idle, woken, agent, turn, exiting, gone
    wake,       \* a message waits to start a run of the agent
    tools,      \* tool calls under way
    kids,       \* runningChildrenCount()
    awaiting,   \* awaitingAnswer
    rec,        \* the recorder's activity object
    disabled, failures, pending,   \* ... and its flush state
    file,       \* the snapshot on disk, or None
    seen,       \* the parent has taken over the snapshot on disk
    ask,        \* the .ask file: none, torn (emptied for writing) or whole
    writing,    \* writeFileSync of a question is under way
    inbox,      \* messages typed into the pane
    watched,    \* the parent watches the child
    view,       \* the parent's SubagentStatusState
    picked,     \* what the parent's tick read from .ask, not yet unlinked
    steers,     \* messages sent
    open,       \* ghost: a question was asked and no message came since
    superseded, \* ghost: a run began without a message in answer to it
    calm,       \* ghost: the write under way met no access of the parent
    due,        \* ghost: a question was written in calm and not yet delivered
    quietSince, \* ghost: when the parent last knew the child at work or at rest
    restarted   \* ghost: the child's session was reloaded in its pane

flush == <<disabled, failures, pending>>
child == <<stage, wake, tools, kids, awaiting, rec, flush, writing>>
disk == <<file, seen>>
parent == <<watched, view, picked, steers>>
ghosts == <<open, superseded, calm, due, quietSince, restarted>>
vars == <<clock, child, disk, ask, inbox, parent, ghosts>>

Flags == {"agent", "turn", "provider", "tool"}

-----------------------------------------------------------------------------
(* The recorder (activity.ts) *)

NewRecorder == [at |-> clock, phase |-> "starting", on |-> {}, fresh |-> FALSE]

\* A recorder that is off: nothing reads its object again.
Off == [at |-> 0, phase |-> "starting", on |-> {}, fresh |-> FALSE]

\* What a snapshot tells the parent; fresh is a ghost: recorded since the
\* last steer.
Snapshot(r) == [at |-> r.at, phase |-> r.phase, fresh |-> r.fresh]

\* flushNow: written whole by rename, or a failure; too many of those in a row
\* and the recorder is off.
Flush(r, ok) ==
    IF ok THEN /\ file' = Snapshot(r) /\ seen' = FALSE
               /\ failures' = 0 /\ UNCHANGED disabled
    ELSE /\ failures' = failures + 1
         /\ disabled' = (failures + 1 >= MaxWriteFailures)
         /\ UNCHANGED disk

\* Fault: an event inside the throttle window is not scheduled.
FlushThrottledDrops(r) == UNCHANGED <<disk, flush>>

\* scheduleFlush: one timer, unless the last flush is long enough ago.
FlushThrottled(r) ==
    \/ pending /\ UNCHANGED <<disk, flush>>
    \/ ~pending /\ pending' = TRUE /\ UNCHANGED <<disk, disabled, failures>>
    \/ ~pending /\ \E ok \in BOOLEAN : Flush(r, ok) /\ UNCHANGED pending

FlushAtOnce(r) ==
    \E ok \in BOOLEAN : Flush(r, ok) /\ pending' = FALSE

\* record(): r is the activity after the event's update.
Record(r, throttled) ==
    IF disabled THEN UNCHANGED <<rec, disk, flush>>
    ELSE LET stamped == [r EXCEPT !.at = clock, !.fresh = TRUE]
         IN  /\ IF throttled THEN FlushThrottled(stamped)
                             ELSE FlushAtOnce(stamped)
             /\ rec' = IF disabled' THEN Off ELSE stamped

DoneRecord == [at |-> clock, phase |-> "done", on |-> {}, fresh |-> TRUE]

WritesDone == \/ file' = Snapshot(DoneRecord) /\ seen' = FALSE
              \/ UNCHANGED disk

\* markDone: a last record, then the recorder is off, whatever came of it.
MarkDone ==
    IF disabled THEN UNCHANGED <<rec, disk, flush>>
    ELSE /\ rec' = Off
         /\ WritesDone
         /\ disabled' = TRUE /\ pending' = FALSE /\ failures' = 0

\* markActive, with the flags the event raises
Active(r, flags) == [r EXCEPT !.phase = "active", !.on = @ \cup flags]

\* refreshActiveScope after flags fall: nothing active leaves the phase alone.
Refresh(r, flags) ==
    LET on == r.on \ flags
    IN  [r EXCEPT !.on = on, !.phase = IF on # {} THEN "active" ELSE @]

\* Fault: the flags stay up.
ClearedPhaseOnly(r, phase) == [r EXCEPT !.phase = phase]

\* clearActiveState
Cleared(r, phase) == [r EXCEPT !.phase = phase, !.on = {}]

\* The throttle timer.
FlushTimer ==
    /\ pending /\ ~writing /\ stage # "gone"
    /\ pending' = FALSE
    /\ \E ok \in BOOLEAN : Flush(rec, ok)
    /\ rec' = IF disabled' THEN Off ELSE rec
    /\ UNCHANGED <<clock, stage, wake, tools, kids, awaiting, writing,
                   ask, inbox, parent, ghosts>>

-----------------------------------------------------------------------------
(* The parent's view (status.ts) *)

NewView == [first |-> None, lastAt |-> None, overAt |-> None, phase |-> None,
            state |-> "unseen", problem |-> None, kind |-> "starting"]

Else(x, y) == IF x = None THEN y ELSE x

\* Fault: a snapshot of the same tick counts as old.
OlderOrSame(v, s) == v.lastAt # None /\ s.at <= v.lastAt

\* observeStatus's first test (a lower sequence number in the same tick does
\* not occur: snapshots are written in order, and a restart takes a tick)
OlderThanSeen(v, s) == v.lastAt # None /\ s.at < v.lastAt

\* Fault: a snapshot the parent had seen when it steered lifts the override.
BlockedNever(v, s) == FALSE

\* ... and its second: the local override holds against what it overrode.
BlockedByOverride(v, s) ==
    /\ v.overAt # None
    /\ s.at < v.overAt \/ (s.at = v.overAt /\ seen)

Accepted(v) == file # None /\ ~OlderThanSeen(v, file) /\ ~BlockedByOverride(v, file)

\* observeRunningSubagent at the present time
Observed(v) ==
    IF file = None
    THEN [v EXCEPT !.first = Else(@, clock), !.state = "missing",
                   !.problem = Else(@, clock)]
    ELSE IF ~Accepted(v) THEN v
    ELSE [v EXCEPT !.first = Else(@, clock), !.lastAt = file.at,
                   !.overAt = None, !.phase = file.phase,
                   !.state = "present", !.problem = None]

\* Fault: the silence before the steer counts on.
ForcedKeepsProblem(v) ==
    [v EXCEPT !.first = Else(@, clock), !.lastAt = clock, !.overAt = clock,
              !.phase = "waiting",
              !.state = "present", !.kind = "waiting"]

\* forceStatusAfterInterrupt
Forced(v) ==
    [v EXCEPT !.first = Else(@, clock), !.lastAt = clock, !.overAt = clock,
              !.phase = "waiting",
              !.state = "present", !.problem = None, !.kind = "waiting"]

\* Silent for StallAfter since t?
Long(t) == clock - t >= StallAfter

\* Does the parent, seeing v, know the child at work or at rest?
Known(v) == v.state = "present" /\ v.phase \in {"active", "waiting", "done"}

\* classifyStatus, for children that run pi
Kind(v) ==
    CASE Known(v) -> IF v.phase = "active" THEN "active" ELSE "waiting"
      [] ~Known(v) /\ (v.state = "present" \/ v.lastAt = None) ->
            IF Long(Else(v.first, 0)) THEN "stalled" ELSE "starting"
      [] OTHER ->
            IF Long(Else(v.problem, clock)) THEN "stalled"
            ELSE IF v.phase = "active" THEN "active"
            ELSE IF v.phase \in {"waiting", "done"} THEN "waiting"
            ELSE IF v.kind = "stalled" THEN "starting" ELSE v.kind

\* advanceStatusState
Advanced(v) == [v EXCEPT !.kind = Kind(v)]

-----------------------------------------------------------------------------
Init ==
    /\ clock = 0
    /\ stage = "boot" /\ wake = FALSE /\ tools = 0 /\ kids = 0
    /\ awaiting = FALSE
    /\ rec = NewRecorder
    /\ disabled = FALSE /\ failures = 0 /\ pending = FALSE
    /\ file = None /\ seen = FALSE /\ ask = "none" /\ writing = FALSE
    /\ inbox = 1    \* the task
    /\ watched = TRUE /\ view = NewView
    /\ picked = "none" /\ steers = 0
    /\ open = FALSE /\ superseded = FALSE /\ calm = FALSE /\ due = FALSE
    /\ quietSince = 0 /\ restarted = FALSE

(* ---- the child's events (subagent-done.ts) ---- *)

\* An event of the child that changes its stage and records r.
Event(from, to, r, throttled) ==
    /\ stage = from /\ stage' = to /\ ~writing
    /\ Record(r, throttled)
    /\ UNCHANGED <<clock, kids, writing, ask, parent, calm, due,
                   quietSince, restarted>>

Calm == UNCHANGED <<wake, tools, awaiting, inbox, open, superseded>>

\* A restarted session, whose sequence numbers start again, takes longer than
\* a tick of the clock.
SessionStart ==
    /\ restarted => clock # view.lastAt /\ (file # None => file.at # clock)
    /\ Event("boot", "idle", Cleared(rec, "starting"), FALSE)
    /\ Calm

\* input: a typed message answers whatever was asked.
Input ==
    /\ stage \in {"idle", "woken", "agent", "turn"}
    /\ inbox > 0 /\ inbox' = inbox - 1
    /\ Event(stage, stage, rec, FALSE)
    /\ awaiting' = FALSE /\ open' = FALSE /\ superseded' = FALSE
    /\ wake' = (wake \/ stage = "idle")
    /\ UNCHANGED tools

BeforeAgentStart ==
    /\ wake /\ wake' = FALSE
    /\ Event("idle", "woken", Active(rec, {"agent"}), FALSE)
    /\ UNCHANGED <<tools, awaiting, inbox, open, superseded>>

\* agent_start: "any pending ask_question has now been answered (or superseded)"
AgentStart ==
    /\ Event("woken", "agent", Active(rec, {"agent"}), FALSE)
    /\ awaiting' = FALSE
    /\ superseded' = (superseded \/ open)
    /\ UNCHANGED <<wake, tools, inbox, open>>

TurnStart ==
    /\ Event("agent", "turn", Active(rec, {"agent", "turn"}), FALSE)
    /\ Calm

TurnEnd ==
    /\ tools = 0
    /\ Event("turn", "agent", Refresh(rec, {"turn", "provider", "tool"}), FALSE)
    /\ Calm

ProviderRequest ==
    /\ tools = 0
    /\ Event("turn", "turn", Active(rec, {"provider"}), FALSE)
    /\ Calm

ProviderResponse ==
    /\ Event("turn", "turn", Refresh(rec, {"provider"}), FALSE)
    /\ Calm

\* message_update; under a running tool it raises flags and leaves the phase.
MessageUpdate ==
    /\ Event("turn", "turn",
             IF "tool" \in rec.on THEN [rec EXCEPT !.on = @ \cup {"agent", "turn"}]
             ELSE Active(rec, {"agent", "turn"}), TRUE)
    /\ Calm

ToolStart ==
    /\ tools < MaxTools /\ tools' = tools + 1
    /\ Event("turn", "turn", Active(rec, {"tool"}), FALSE)
    /\ UNCHANGED <<wake, awaiting, inbox, open, superseded>>

\* tool_call, and the throttled tool_execution_update
ToolProgress(throttled) ==
    /\ tools > 0
    /\ Event("turn", "turn", Active(rec, {"tool"}), throttled)
    /\ Calm

ToolResult ==
    /\ tools > 0
    /\ Event("turn", "turn", Refresh(rec, {}), FALSE)
    /\ Calm

ToolEnd ==
    /\ tools > 0 /\ tools' = tools - 1
    /\ Event("turn", "turn", Refresh(rec, {"tool"}), FALSE)
    /\ UNCHANGED <<wake, awaiting, inbox, open, superseded>>

\* A subagent the child spawned, as a tool, registers; later its result comes,
\* into the run under way or as the start of one.
KidStarts ==
    /\ stage = "turn" /\ tools > 0 /\ ~writing
    /\ kids < MaxKids /\ kids' = kids + 1
    /\ UNCHANGED <<clock, stage, wake, tools, awaiting, rec, flush,
                   writing, disk, ask, inbox, parent, ghosts>>

KidReports ==
    /\ kids > 0 /\ kids' = kids - 1
    /\ stage \in {"idle", "woken", "agent", "turn"} /\ ~writing
    /\ wake' = (wake \/ stage = "idle")
    /\ UNCHANGED <<clock, stage, tools, awaiting, rec, flush, writing,
                   disk, ask, inbox, parent, ghosts>>

\* ask_question: parked, recorded, and the file is opened, which empties it; a
\* question in it that was not yet read is lost.  When opening it fails the
\* child is parked all the same, with no question asked.
AskQuestion(opened) ==
    /\ stage = "turn" /\ tools > 0 /\ ~writing
    /\ writing' = opened /\ ask' = IF opened THEN "torn" ELSE ask
    /\ awaiting' = TRUE /\ open' = TRUE /\ superseded' = FALSE
    /\ calm' = (opened /\ picked = "none")
    /\ due' = (due /\ (picked = "whole" \/ ~opened))
    /\ Record(Cleared(rec, "waiting"), FALSE)
    /\ UNCHANGED <<clock, stage, wake, tools, kids, inbox, parent,
                   quietSince, restarted>>

\* ... and filled, unless the write fails - in vain when the parent has unlinked
\* it meanwhile.
QuestionWritten(filled) ==
    /\ writing /\ writing' = FALSE
    /\ ask' = IF filled /\ ask = "torn" THEN "whole" ELSE ask
    /\ due' = (due \/ (filled /\ calm)) /\ calm' = FALSE
    /\ UNCHANGED <<clock, stage, wake, tools, kids, awaiting, rec, flush,
                   disk, inbox, parent, open, superseded, quietSince, restarted>>

\* Fault: a question under way does not keep the session open.
ExitsAsking(aborted) == kids = 0 /\ AutoExit /\ ~aborted

\* agent_end's shouldExit
Exits(aborted) == ~awaiting /\ kids = 0 /\ AutoExit /\ ~aborted

AgentEnd(aborted) ==
    /\ stage = "agent" /\ ~writing
    /\ stage' = IF Exits(aborted) THEN "exiting" ELSE "idle"
    /\ IF Exits(aborted) THEN MarkDone
                         ELSE Record(Cleared(rec, "waiting"), FALSE)
    /\ UNCHANGED <<clock, wake, tools, kids, awaiting, writing, ask,
                   inbox, parent, ghosts>>

\* The process ends: what it remembered is gone, the files stay.
Gone ==
    /\ stage' = "gone"
    /\ wake' = FALSE /\ tools' = 0 /\ kids' = 0 /\ awaiting' = FALSE
    /\ disabled' = TRUE /\ pending' = FALSE /\ failures' = 0
    /\ writing' = FALSE /\ inbox' = 0
    /\ open' = FALSE /\ superseded' = FALSE /\ calm' = FALSE /\ due' = FALSE
    /\ rec' = Off
    /\ UNCHANGED <<clock, ask, parent, quietSince, restarted>>

\* session_shutdown(quit), on the child's own account or by its user: markDone
\* writes, and the process ends.
Quit ==
    /\ stage \notin {"boot", "gone"} /\ ~writing
    /\ IF disabled THEN UNCHANGED disk ELSE WritesDone
    /\ Gone

\* session_shutdown(reload, new, resume, fork) and the extension loaded anew;
\* bounded to one per child.
Restart ==
    /\ stage = "idle" /\ ~wake /\ ~restarted /\ ~writing
    /\ stage' = "boot" /\ restarted' = TRUE
    /\ rec' = NewRecorder
    /\ disabled' = FALSE /\ failures' = 0 /\ pending' = FALSE
    /\ awaiting' = FALSE /\ kids' = 0
    /\ UNCHANGED <<clock, wake, tools, writing, disk, ask, inbox,
                   parent, open, superseded, calm, due, quietSince>>

\* The child is killed, wherever it is.
Dies == stage # "gone" /\ Gone /\ UNCHANGED disk

(* ---- the parent (index.ts) ---- *)

Free == watched /\ picked = "none"

SeesFile == seen' = (seen \/ Accepted(view)) /\ UNCHANGED file

See(v) ==
    /\ view' = v
    /\ quietSince' = IF Known(v) THEN clock ELSE quietSince

\* A tick of the watcher, as long as the child has not exited: look at the
\* snapshot, read the question.
WatchTick ==
    /\ Free /\ stage # "gone"
    /\ See(Observed(view)) /\ SeesFile
    /\ picked' = ask
    /\ calm' = (calm /\ ask # "torn")
    /\ UNCHANGED <<clock, child, ask, inbox, watched, steers, open,
                   superseded, due, restarted>>

\* Fault: a child that does not look parked is not asking.
DeliverWaiting ==
    /\ picked # "none" /\ picked' = "none"
    /\ ask' = "none"
    /\ due' = (due /\ (picked = "torn" \/ view.phase # "waiting"))
    /\ UNCHANGED <<clock, child, disk, inbox, watched, view, steers, open,
                   superseded, calm, quietSince, restarted>>

\* ... then unlink the file, and tell the orchestrator if it was whole.
DeliverQuestion ==
    /\ picked # "none" /\ picked' = "none"
    /\ ask' = "none"
    /\ due' = (due /\ picked = "torn")
    /\ UNCHANGED <<clock, child, disk, inbox, watched, view, steers, open,
                   superseded, calm, quietSince, restarted>>

\* The status interval: observe and classify.
StatusTick ==
    /\ Free
    /\ See(Advanced(Observed(view)))
    /\ SeesFile
    /\ UNCHANGED <<clock, child, ask, inbox, watched, picked,
                   steers, open, superseded, calm, due, restarted>>

\* handleSubagentSteer: observe, type the message, force the status.  Of the
\* same tick, a snapshot on disk counts as recorded before the steer, one that
\* the throttle still holds back as recorded after it: there time and sequence
\* number, which are all the parent has, do not tell them apart.
Steer ==
    /\ Free /\ steers < MaxSteers /\ steers' = steers + 1
    /\ inbox' = inbox + 1
    /\ view' = Forced(Observed(view)) /\ quietSince' = clock
    /\ rec' = [rec EXCEPT !.fresh = @ /\ rec.at = clock /\ pending]
    /\ file' = IF file = None THEN None ELSE [file EXCEPT !.fresh = FALSE]
    /\ seen' = (seen \/ Accepted(view))
    /\ UNCHANGED <<clock, stage, wake, tools, kids, awaiting, flush,
                   writing, ask, watched, picked, open, superseded,
                   calm, due, restarted>>

\* ... unless typing it fails: then only the look at the snapshot remains.
SteerFails ==
    /\ Free
    /\ See(Observed(view)) /\ SeesFile
    /\ UNCHANGED <<clock, child, ask, inbox, watched, picked, steers, open,
                   superseded, calm, due, restarted>>

\* The watcher sees the sentinel and ends (Subagents); the view goes with it.
WatchEnds ==
    /\ Free /\ stage = "gone"
    /\ watched' = FALSE /\ view' = NewView
    /\ UNCHANGED <<clock, child, disk, ask, inbox, picked, steers,
                   ghosts>>

Tick ==
    /\ clock < MaxClock /\ clock' = clock + 1
    /\ UNCHANGED <<child, disk, ask, inbox, parent, ghosts>>

Next ==
    \/ SessionStart \/ Input \/ BeforeAgentStart \/ AgentStart
    \/ TurnStart \/ TurnEnd \/ ProviderRequest \/ ProviderResponse
    \/ MessageUpdate \/ ToolStart \/ ToolResult \/ ToolEnd
    \/ \E throttled \in BOOLEAN : ToolProgress(throttled)
    \/ \E aborted \in BOOLEAN : AgentEnd(aborted)
    \/ \E ok \in BOOLEAN : AskQuestion(ok) \/ QuestionWritten(ok)
    \/ KidStarts \/ KidReports
    \/ FlushTimer \/ Quit \/ Restart \/ Dies
    \/ WatchTick \/ DeliverQuestion \/ StatusTick
    \/ Steer \/ SteerFails \/ WatchEnds
    \/ Tick

Spec == Init /\ [][Next]_vars

-----------------------------------------------------------------------------
TypeOK ==
    /\ clock \in 0..MaxClock
    /\ stage \in {"boot", "idle", "woken", "agent", "turn", "exiting", "gone"}
    /\ {wake, awaiting, disabled, pending, seen, writing,
        watched, open, superseded, calm, due, restarted} \subseteq BOOLEAN
    /\ tools \in 0..MaxTools /\ kids \in 0..MaxKids
    /\ rec.at \in 0..clock /\ rec.on \subseteq Flags
    /\ rec.phase \in Phases
    /\ rec.on # {} => rec.phase = "active"
    /\ failures \in 0..MaxWriteFailures
    /\ file # None => file.at \in 0..clock
    /\ {ask, picked} \subseteq {"none", "torn", "whole"}
    /\ view.kind \in {"starting", "active", "waiting", "stalled"}

\* The throttle loses nothing (record and scheduleFlush): while writes succeed,
\* the file holds the child's latest state or a timer is armed to write it.
UnflushedIsScheduled ==
    (~disabled /\ failures = 0 /\ stage \notin {"boot", "gone"} /\ ~pending)
        => file = Snapshot(rec)

\* What forceStatusAfterInterrupt is for: after a steer the view stays at waiting
\* until it has a snapshot of something the child recorded since, though older
\* ones are still written, and read, late.
SteerHolds ==
    (watched /\ steers > 0 /\ (file # None => ~file.fresh)) => view.phase = "waiting"

\* stalled means silence for SNAPSHOT_STALLED_AFTER_MS: the parent turns to it
\* only when for so long it neither saw the child at work or at rest nor
\* steered it, and once a child has parked and its snapshot is written, one
\* tick of the status interval ends it, whatever the parent has sent meanwhile.
\* A snapshot that says starting is excepted, as after a restart of the session
\* in its pane: that is timed from the first observation ever.
StallMeansSilence ==
    [][/\ (/\ view.kind # "stalled" /\ view'.kind = "stalled"
           /\ ~(view'.state = "present" /\ view'.phase = "starting"))
             => clock - quietSince >= StallAfter
       /\ (/\ StatusTick
           /\ stage = "idle" /\ rec.phase = "waiting" /\ file = Snapshot(rec))
             => view'.kind = "waiting"]_vars

\* A question is not lost ("The file is deleted after delivery so it fires once
\* per question"): until the orchestrator is told, it is in the file or in the
\* parent's hands, unless the child ends, or asked again before a tick, or the
\* two processes met in the file.  And ask_question "keeps the session OPEN":
\* the asker does not exit by itself with its question open (or failed to be
\* written), unless a message that is no reply began another run.
QuestionKept ==
    /\ due => "whole" \in {ask, picked}
    /\ stage = "exiting" => ~open \/ superseded
=============================================================================
