------------------------ MODULE SubagentStatusProofs ------------------------
(* Proofs about SubagentStatus, for any thresholds and any number of ticks,  *)
(* tools, messages and subagents.                                            *)
EXTENDS SubagentStatus, TLAPS

Stages == {"boot", "idle", "woken", "agent", "turn", "exiting", "gone"}
Times  == Nat \cup {None}
Recs   == [at : Nat, phase : Phases, on : SUBSET Flags, fresh : BOOLEAN]
Views  == [first : Times, lastAt : Times, overAt : Times,
           phase : Phases \cup {None}, state : {"unseen", "missing", "present"},
           problem : Times, kind : {"starting", "active", "waiting", "stalled"}]

\* Flags are up only of an active child (refreshActiveScope, clearActiveState).
Sound(r) == r \in Recs /\ (r.on # {} => r.phase = "active")

Types ==
  /\ clock \in 0..MaxClock /\ stage \in Stages
  /\ wake \in BOOLEAN /\ awaiting \in BOOLEAN /\ writing \in BOOLEAN
  /\ tools \in 0..MaxTools /\ kids \in 0..MaxKids
  /\ Sound(rec) /\ rec.at <= clock
  /\ disabled \in BOOLEAN /\ pending \in BOOLEAN
  /\ failures \in 0..MaxWriteFailures
  /\ file # None => file \in Snapshots /\ file.at <= clock
  /\ seen \in BOOLEAN /\ watched \in BOOLEAN
  /\ ask \in {"none", "torn", "whole"} /\ picked \in {"none", "torn", "whole"}
  /\ view \in Views /\ steers \in Nat
  /\ open \in BOOLEAN /\ superseded \in BOOLEAN /\ calm \in BOOLEAN
  /\ due \in BOOLEAN /\ restarted \in BOOLEAN
  /\ quietSince \in Nat

\* The recorder: a timer is armed only for a throttled event, of a child at
\* work; what is on disk is not of a later time than what is recorded.
Recorder ==
  /\ pending => ~disabled /\ rec.phase = "active"
  /\ ~disabled => failures < MaxWriteFailures
  /\ ~disabled /\ file # None => file.at <= rec.at
  /\ UnflushedIsScheduled

\* How the view came about: the last snapshot taken over, or a steer since,
\* whose override only snapshots written late by the timer can precede.
Viewed ==
  /\ view.overAt # None =>
       /\ view.lastAt = view.overAt /\ view.overAt <= clock
       /\ view.phase = "waiting"
       /\ file # None /\ view.state # "present" =>
            ~seen /\ (file.at < view.overAt => file.phase = "active")
  /\ view.overAt = None /\ view.lastAt # None => file # None /\ view.lastAt <= file.at
  /\ view.state = "present" =>
       view.problem = None /\ view.lastAt # None /\ view.phase \in Phases
  /\ watched /\ view.lastAt = None => quietSince = 0
  /\ view.problem # None => quietSince <= view.problem
  /\ quietSince <= clock

\* After a steer, what the child did not record since is held off.
Steered ==
  /\ pending /\ ~rec.fresh =>
       /\ steers > 0
       /\ file # None => ~file.fresh
       /\ rec.at < clock
       /\ watched => view.overAt # None /\ rec.at < view.overAt
  /\ watched /\ steers > 0 /\ (file # None => ~file.fresh) =>
       /\ view.overAt # None
       /\ file # None => /\ file.at <= view.overAt
                         /\ file.at = view.overAt => seen

\* Where a question is, and whether its asker may go.
Questions ==
  /\ calm => writing /\ ask = "torn" /\ picked = "none"
  /\ picked = "torn" => ~due
  /\ due => "whole" \in {ask, picked}
  /\ stage \in {"agent", "turn"} => (open /\ ~superseded => awaiting)
  /\ stage = "exiting" => ~open \/ superseded

Inv == Types /\ Recorder /\ Viewed /\ Steered /\ Questions

-----------------------------------------------------------------------------
(* The steps, in the terms of the invariant.                               *)

\* What becomes of the recorder's r: it waits for the timer, is written, or
\* could not be written.
Flushes(r) ==
  \/ /\ pending' = TRUE /\ rec' = r /\ r.phase = "active"
     /\ UNCHANGED <<file, seen, disabled, failures>>
  \/ /\ pending' = FALSE /\ rec' = r
     /\ file' = Snapshot(r) /\ seen' = FALSE
     /\ failures' = 0 /\ UNCHANGED disabled
  \/ /\ pending' = FALSE /\ failures' = failures + 1
     /\ disabled' = (failures + 1 >= MaxWriteFailures)
     /\ rec' = IF disabled' THEN Off ELSE r
     /\ UNCHANGED <<file, seen>>

\* An event is recorded.
Notes == ~disabled /\ \E r : Sound(r) /\ r.at = clock /\ r.fresh /\ Flushes(r)

\* The timer writes, or tries to.
Writes == pending /\ pending' = FALSE /\ Flushes(rec)

\* The recorder is off for good.
Stops ==
  /\ disabled' = TRUE /\ pending' = FALSE /\ failures' = 0 /\ rec' = Off
  /\ \/ UNCHANGED <<file, seen>>
     \/ file' = Snapshot(DoneRecord) /\ seen' = FALSE

\* A new recorder.
Reloads ==
  /\ disabled' = FALSE /\ pending' = FALSE /\ failures' = 0
  /\ rec' = NewRecorder /\ stage' = "boot" /\ UNCHANGED <<file, seen>>

Rests ==
  /\ UNCHANGED <<rec, file, seen, disabled, failures, pending>>
  /\ disabled \/ UNCHANGED stage

ChildStep ==
  /\ UNCHANGED <<clock, watched, view, steers, quietSince>>
  /\ Rests \/ Notes \/ Writes \/ Stops \/ Reloads

\* record() on a sound record.
LEMMA Records ==
  ASSUME Types, Recorder, NEW r, Sound(r), NEW throttled \in BOOLEAN,
         throttled => r.phase = "active", Record(r, throttled)
  PROVE  \/ disabled /\ UNCHANGED <<rec, file, seen, disabled, failures, pending>>
         \/ Notes
<1>1. CASE disabled
  BY <1>1 DEF Record, disk, flush
<1>2. CASE ~disabled
  <2> DEFINE s == [r EXCEPT !.at = clock, !.fresh = TRUE]
  <2>1. s.at = clock /\ s.fresh /\ s.phase = r.phase /\ s.on = r.on /\ s \in Recs
    <3>1. clock \in Nat /\ r \in Recs
      BY StatusAssumption DEF Types, Sound
    <3> QED
      BY <3>1 DEF Recs
  <2>2. Sound(s)
    BY <2>1 DEF Sound
  <2>3. /\ IF throttled THEN FlushThrottled(s) ELSE FlushAtOnce(s)
        /\ rec' = IF disabled' THEN Off ELSE s
    BY <1>2 DEF Record
  <2> HIDE DEF s
  <2>4. Flushes(s)
    BY <1>2, <2>1, <2>3
       DEF FlushThrottled, FlushAtOnce, Flush, disk, flush, Flushes, Types
  <2> QED
    BY <1>2, <2>1, <2>2, <2>4 DEF Notes
<1> QED
  BY <1>1, <1>2 DEF Types

\* The records of the events are sound.
LEMMA SoundRecords ==
  ASSUME Types
  PROVE  /\ Sound(rec)
         /\ \A F \in SUBSET Flags : /\ Sound(Active(rec, F))
                                    /\ Active(rec, F).phase = "active"
                                    /\ Sound(Refresh(rec, F))
         /\ \A p \in Phases : Sound(Cleared(rec, p))
         /\ "tool" \in rec.on =>
              /\ Sound([rec EXCEPT !.on = @ \cup {"agent", "turn"}])
              /\ [rec EXCEPT !.on = @ \cup {"agent", "turn"}].phase = "active"
<1>1. rec \in Recs /\ (rec.on # {} => rec.phase = "active")
  BY DEF Types, Sound
<1>2. ASSUME NEW F \in SUBSET Flags
      PROVE  /\ Sound(Active(rec, F)) /\ Active(rec, F).phase = "active"
             /\ Sound(Refresh(rec, F))
  BY <1>1 DEF Active, Refresh, Sound, Recs, Phases
<1>3. ASSUME NEW p \in Phases PROVE Sound(Cleared(rec, p))
  BY <1>1, <1>3 DEF Cleared, Sound, Recs
<1>4. "tool" \in rec.on =>
        /\ Sound([rec EXCEPT !.on = @ \cup {"agent", "turn"}])
        /\ [rec EXCEPT !.on = @ \cup {"agent", "turn"}].phase = "active"
  BY <1>1 DEF Sound, Recs, Flags
<1> QED
  BY <1>1, <1>2, <1>3, <1>4 DEF Types

\* An event of the child.
LEMMA Events ==
  ASSUME Types, Recorder, NEW from, NEW to, NEW r, Sound(r),
         NEW throttled \in BOOLEAN, throttled => r.phase = "active",
         Event(from, to, r, throttled)
  PROVE  ChildStep
BY Records DEF Event, ChildStep, Rests, parent

LEMMA ChildSteps ==
  ASSUME Types, Recorder,
         \/ SessionStart \/ Input \/ BeforeAgentStart \/ AgentStart
         \/ TurnStart \/ TurnEnd \/ ProviderRequest \/ ProviderResponse
         \/ MessageUpdate \/ ToolStart \/ ToolResult \/ ToolEnd
         \/ \E throttled \in BOOLEAN : ToolProgress(throttled)
  PROVE  ChildStep
<1>1. \A F \in SUBSET Flags, throttled \in BOOLEAN : \A from, to :
        Event(from, to, Active(rec, F), throttled) => ChildStep
  BY Events, SoundRecords
<1>2. \A F \in SUBSET Flags : \A from, to :
        Event(from, to, Refresh(rec, F), FALSE) => ChildStep
  BY Events, SoundRecords
<1>3. {{}, {"agent"}, {"agent", "turn"}, {"provider"}, {"tool"},
       {"turn", "provider", "tool"}} \subseteq SUBSET Flags
  BY DEF Flags
<1>4. SessionStart \/ Input => ChildStep
  BY Events, SoundRecords DEF SessionStart, Input, Phases
<1>5. ASSUME MessageUpdate PROVE ChildStep
  <2>1. CASE "tool" \in rec.on
    BY <1>5, <2>1, Events, SoundRecords DEF MessageUpdate
  <2>2. CASE "tool" \notin rec.on
    <3>1. {"agent", "turn"} \in SUBSET Flags
      BY DEF Flags
    <3>2. Event("turn", "turn", Active(rec, {"agent", "turn"}), TRUE)
      BY <1>5, <2>2 DEF MessageUpdate
    <3> QED
      BY <1>1, <3>1, <3>2
  <2> QED
    BY <2>1, <2>2
<1> QED
  BY <1>1, <1>2, <1>3, <1>4, <1>5, SoundRecords, Events
     DEF BeforeAgentStart, AgentStart, TurnStart, TurnEnd, ProviderRequest,
         ProviderResponse, ToolStart, ToolResult, ToolEnd, ToolProgress

\* The other steps of the child, and those that concern neither recorder nor
\* view.
LEMMA OtherSteps ==
  ASSUME Types, Recorder,
         \/ \E ok \in BOOLEAN : AskQuestion(ok) \/ QuestionWritten(ok)
         \/ KidStarts \/ KidReports
         \/ FlushTimer \/ Quit \/ Restart \/ Dies \/ DeliverQuestion
         \/ \E aborted \in BOOLEAN : AgentEnd(aborted)
         \/ UNCHANGED vars
  PROVE  ChildStep
<1>1. ASSUME NEW ok \in BOOLEAN, AskQuestion(ok) PROVE ChildStep
  BY <1>1, Records, SoundRecords DEF AskQuestion, ChildStep, Rests, parent, Phases
<1>2. ASSUME NEW aborted, AgentEnd(aborted) PROVE ChildStep
  <2>1. MarkDone => Rests \/ Stops
    BY DEF MarkDone, WritesDone, Rests, Stops, disk, flush
  <2>2. Record(Cleared(rec, "waiting"), FALSE) => Rests \/ Notes
    BY Records, SoundRecords DEF Rests, Phases
  <2> QED
    BY <1>2, <2>1, <2>2 DEF AgentEnd, ChildStep, parent, ghosts
<1>3. FlushTimer => ChildStep
  <2> SUFFICES ASSUME FlushTimer PROVE ChildStep
    OBVIOUS
  <2>1. pending /\ ~disabled /\ pending' = FALSE
    BY DEF FlushTimer, Recorder
  <2>2. PICK ok \in BOOLEAN : Flush(rec, ok)
    BY DEF FlushTimer
  <2>3. rec' = IF disabled' THEN Off ELSE rec
    BY DEF FlushTimer
  <2>4. Flushes(rec)
    BY <2>1, <2>2, <2>3 DEF Flush, Flushes, disk, Types
  <2> QED
    BY <2>1, <2>4 DEF Writes, ChildStep, FlushTimer, parent, ghosts
<1>4. Quit \/ Dies => ChildStep
  BY DEF Quit, Dies, Gone, WritesDone, Stops, ChildStep, disk, parent
<1>5. Restart => ChildStep
  BY DEF Restart, Reloads, ChildStep, disk, parent
<1>6. ASSUME \/ \E ok \in BOOLEAN : QuestionWritten(ok)
             \/ KidStarts \/ KidReports \/ DeliverQuestion
             \/ UNCHANGED vars
      PROVE  ChildStep
  BY <1>6 DEF KidStarts, KidReports, QuestionWritten, DeliverQuestion, vars, child,
         flush, disk, parent, ghosts, ChildStep, Rests
<1> QED
  BY <1>1, <1>2, <1>3, <1>4, <1>5, <1>6

\* The kinds of steps.
Observes == WatchTick \/ StatusTick \/ SteerFails

LEMMA Kinds ==
  ASSUME Types, Recorder, [Next]_vars
  PROVE  ChildStep \/ Observes \/ Steer \/ WatchEnds \/ Tick
BY ChildSteps, OtherSteps DEF Next, Observes

-----------------------------------------------------------------------------
(* What the parent sees.                                                   *)

\* The facts about the types that the steps below share.
LEMMA Basics ==
  ASSUME Types
  PROVE  /\ clock \in Nat /\ rec \in Recs /\ rec.at \in Nat /\ rec.at <= clock
         /\ None \notin Nat /\ None \notin Snapshots
         /\ file # None => /\ file \in Snapshots /\ file.at \in Nat
                           /\ file.at <= clock
         /\ view \in Views /\ steers \in Nat /\ failures \in Nat
         /\ StallAfter \in Nat /\ StallAfter > 0
         /\ \A r \in Recs : /\ Snapshot(r) \in Snapshots /\ Snapshot(r) # None
                            /\ Snapshot(r).at = r.at
                            /\ Snapshot(r).phase = r.phase
                            /\ Snapshot(r).fresh = r.fresh
BY StatusAssumption DEF Types, Sound, Recs, Snapshots, Snapshot

\* observeRunningSubagent, field by field.
LEMMA Observation ==
  ASSUME Types
  PROVE  LET v == Observed(view)
         IN  /\ v \in Views /\ v.kind = view.kind
             /\ file = None =>
                  /\ v.state = "missing" /\ v.problem = Else(view.problem, clock)
                  /\ v.first = Else(view.first, clock) /\ v.lastAt = view.lastAt
                  /\ v.overAt = view.overAt /\ v.phase = view.phase
             /\ file # None /\ ~Accepted(view) => v = view
             /\ Accepted(view) =>
                  /\ file # None /\ v.state = "present" /\ v.problem = None
                  /\ v.first = Else(view.first, clock) /\ v.lastAt = file.at
                  /\ v.overAt = None /\ v.phase = file.phase
<1>1. /\ view \in Views /\ clock \in Nat
      /\ file # None => file.at \in Nat /\ file.phase \in Phases
  BY Basics DEF Snapshots
<1>2. Else(view.first, clock) \in Times /\ Else(view.problem, clock) \in Times
  BY <1>1 DEF Views, Times, Else
<1>3. CASE file = None
  <2> DEFINE v == [view EXCEPT !.first = Else(@, clock), !.state = "missing",
                               !.problem = Else(@, clock)]
  <2>1. /\ v \in Views /\ v.kind = view.kind
        /\ v.state = "missing" /\ v.problem = Else(view.problem, clock)
        /\ v.first = Else(view.first, clock) /\ v.lastAt = view.lastAt
        /\ v.overAt = view.overAt /\ v.phase = view.phase
    BY <1>1, <1>2 DEF Views
  <2>2. Observed(view) = v /\ ~Accepted(view)
    BY <1>3 DEF Observed, Accepted
  <2> QED
    BY <1>3, <2>1, <2>2
<1>4. CASE file # None /\ ~Accepted(view)
  BY <1>1, <1>4 DEF Observed
<1>5. CASE Accepted(view)
  <2> DEFINE v == [view EXCEPT !.first = Else(@, clock), !.lastAt = file.at,
                               !.overAt = None, !.phase = file.phase,
                               !.state = "present", !.problem = None]
  <2>1. /\ v \in Views /\ v.kind = view.kind
        /\ v.state = "present" /\ v.problem = None
        /\ v.first = Else(view.first, clock) /\ v.lastAt = file.at
        /\ v.overAt = None /\ v.phase = file.phase
    BY <1>1, <1>2, <1>5 DEF Views, Times, Accepted
  <2>2. Observed(view) = v /\ file # None
    BY <1>5 DEF Observed, Accepted
  <2> QED
    BY <1>5, <2>1, <2>2
<1> QED
  BY <1>3, <1>4, <1>5

\* A snapshot the parent does not take over precedes its last steer, or was
\* seen before it.
LEMMA Refused ==
  ASSUME Types, Viewed, file # None
  PROVE  /\ ~Accepted(view) =>
              /\ view.overAt # None /\ view.overAt \in Nat
              /\ \/ file.at < view.overAt
                 \/ file.at = view.overAt /\ seen
         /\ Accepted(view) /\ view.overAt # None =>
              \/ file.at > view.overAt
              \/ file.at = view.overAt /\ ~seen
<1>1. view.overAt \in Times /\ view.lastAt \in Times /\ file.at \in Nat
  BY Basics DEF Views
<1> QED
  BY <1>1, Basics DEF Accepted, OlderThanSeen, BlockedByOverride, Viewed, Times

\* What a tick, or the look before a steer, does to the view.
LEMMA Observing ==
  ASSUME Types, Observes
  PROVE  /\ watched /\ UNCHANGED <<watched, clock, steers, rec, file, disabled,
                                   failures, pending, stage>>
         /\ seen' = (seen \/ Accepted(view))
         /\ view' \in Views
         /\ \A f \in {"first", "lastAt", "overAt", "phase", "state", "problem"} :
              view'[f] = Observed(view)[f]
         /\ quietSince' = IF Known(Observed(view)) THEN clock ELSE quietSince
<1>1. Observed(view) \in Views
  BY Observation
<1>2. ASSUME NEW v \in Views, NEW k
      PROVE  /\ \A f \in {"first", "lastAt", "overAt", "phase", "state",
                          "problem"} : [v EXCEPT !.kind = k][f] = v[f]
             /\ Known([v EXCEPT !.kind = k]) <=> Known(v)
  BY DEF Views, Known
<1>3. ASSUME NEW v \in Views PROVE Kind(v) \in {"starting", "active", "waiting", "stalled"}
  BY <1>3 DEF Kind, Views
<1>4. ASSUME NEW v \in Views PROVE [v EXCEPT !.kind = Kind(v)] \in Views
  BY <1>3, <1>4 DEF Views
<1>5. CASE WatchTick \/ SteerFails
  BY <1>1, <1>5 DEF WatchTick, SteerFails, Free, See, SeesFile, child, flush
<1>6. CASE StatusTick
  <2>1. PICK v : v = Observed(view)
    OBVIOUS
  <2>2. /\ view' = [v EXCEPT !.kind = Kind(v)]
        /\ quietSince' = IF Known(view') THEN clock ELSE quietSince
    BY <1>6, <2>1 DEF StatusTick, See, Advanced
  <2>3. /\ watched /\ UNCHANGED <<watched, clock, steers, rec, file, disabled,
                                  failures, pending, stage>>
        /\ seen' = (seen \/ Accepted(view))
    BY <1>6 DEF StatusTick, Free, SeesFile, child, flush
  <2>4. v \in Views
    BY <1>1, <2>1
  <2>5. /\ view' \in Views
        /\ Known(view') <=> Known(v)
        /\ \A f \in {"first", "lastAt", "overAt", "phase", "state", "problem"} :
             view'[f] = v[f]
    BY <1>2, <1>4, <2>2, <2>4
  <2> QED
    BY <2>1, <2>2, <2>3, <2>5
<1> QED
  BY <1>5, <1>6 DEF Observes

-----------------------------------------------------------------------------
(* Every step preserves each part of the invariant.                        *)

LEMMA RecorderStep ==
  ASSUME Types, Recorder, [Next]_vars
  PROVE  Recorder'
<1>0. /\ clock \in Nat /\ rec.at \in Nat /\ rec.at <= clock
      /\ file # None => file.at \in Nat
      /\ \A r \in Recs : Snapshot(r) \in Snapshots /\ Snapshot(r).at = r.at
  BY Basics
<1>1. CASE ChildStep
  <2>1. CASE Rests
    BY <1>1, <2>1 DEF ChildStep, Rests, Recorder, UnflushedIsScheduled
  <2>2. ASSUME NEW r, Sound(r), r.at = clock \/ r = rec, ~disabled, Flushes(r)
        PROVE  Recorder'
    <3>0. r \in Recs /\ r.at \in Nat /\ rec.at <= r.at
      BY <1>0, <2>2 DEF Sound, Recs
    <3>1. CASE /\ pending' = TRUE /\ rec' = r /\ r.phase = "active"
               /\ UNCHANGED <<file, seen, disabled, failures>>
      <4>1. file # None => file.at <= r.at
        BY <1>0, <2>2, <3>0 DEF Recorder
      <4> QED
        BY <2>2, <3>1, <4>1 DEF Recorder, UnflushedIsScheduled
    <3>2. CASE /\ pending' = FALSE /\ rec' = r
               /\ file' = Snapshot(r) /\ seen' = FALSE
               /\ failures' = 0 /\ UNCHANGED disabled
      BY <1>0, <2>2, <3>0, <3>2, StatusAssumption
         DEF Recorder, UnflushedIsScheduled
    <3>3. CASE /\ pending' = FALSE /\ failures' = failures + 1
               /\ disabled' = (failures + 1 >= MaxWriteFailures)
               /\ rec' = IF disabled' THEN Off ELSE r
               /\ UNCHANGED <<file, seen>>
      <4>1. failures \in Nat /\ MaxWriteFailures \in Nat
        BY Basics, StatusAssumption
      <4>2. file # None => file.at <= r.at
        BY <1>0, <2>2, <3>0 DEF Recorder
      <4>3. disabled' <=> failures + 1 >= MaxWriteFailures
        BY <3>3
      <4>4. ~disabled' => rec' = r /\ failures' < MaxWriteFailures
        BY <3>3, <4>1, <4>3
      <4>5. failures' # 0 /\ ~pending'
        BY <3>3, <4>1
      <4>6. ~disabled' /\ file' # None => file'.at <= rec'.at
        BY <3>3, <4>2, <4>4
      <4> QED
        BY <4>4, <4>5, <4>6 DEF Recorder, UnflushedIsScheduled
    <3> QED
      BY <2>2, <3>1, <3>2, <3>3 DEF Flushes
  <2>3. CASE Notes
    BY <2>2, <2>3 DEF Notes
  <2>4. CASE Writes
    BY <2>2, <2>4 DEF Writes, Recorder, Types
  <2>5. CASE Stops
    BY <2>5 DEF Stops, Recorder, UnflushedIsScheduled
  <2>6. CASE Reloads
    <3>1. file # None => file.at <= NewRecorder.at
      BY Basics DEF NewRecorder
    <3> QED
      BY <2>6, <3>1, StatusAssumption DEF Reloads, Recorder, UnflushedIsScheduled
  <2> QED
    BY <1>1, <2>1, <2>3, <2>4, <2>5, <2>6 DEF ChildStep
<1>2. CASE Observes
  BY <1>2, Observing DEF Recorder, UnflushedIsScheduled
<1>3. CASE Steer
  <2>1. /\ UNCHANGED <<disabled, failures, pending, stage>>
        /\ rec' = [rec EXCEPT !.fresh = @ /\ rec.at = clock /\ pending]
        /\ file' = IF file = None THEN None ELSE [file EXCEPT !.fresh = FALSE]
    BY <1>3 DEF Steer, flush
  <2>2. /\ rec \in Recs /\ file # None => file \in Snapshots
    BY Basics
  <2>3. rec'.at = rec.at /\ rec'.phase = rec.phase
    BY <2>1, <2>2 DEF Recs
  <2>4. file' # None => file # None /\ file'.at = file.at
    BY <2>1, Basics DEF Snapshots
  <2>5. file = Snapshot(rec) /\ ~pending => file' = Snapshot(rec')
    <3>1. ASSUME file = Snapshot(rec), ~pending PROVE file' = Snapshot(rec')
      <4>1. file # None /\ file = [at |-> rec.at, phase |-> rec.phase, fresh |-> rec.fresh]
        BY <3>1, Basics DEF Snapshot
      <4>2. file' = [at |-> rec.at, phase |-> rec.phase, fresh |-> FALSE]
        BY <2>1, <4>1
      <4>3. rec'.fresh = FALSE
        <5>1. (rec.fresh /\ rec.at = clock /\ pending) = FALSE
          BY <3>1
        <5>2. rec' = [rec EXCEPT !.fresh = FALSE]
          BY <2>1, <5>1
        <5> QED
          BY <2>2, <5>2 DEF Recs
      <4> QED
        BY <2>3, <4>2, <4>3 DEF Snapshot
    <3> QED
      BY <3>1
  <2> QED
    BY <2>1, <2>3, <2>4, <2>5 DEF Recorder, UnflushedIsScheduled
<1>4. CASE WatchEnds \/ Tick
  BY <1>4 DEF WatchEnds, Tick, child, disk, flush, Recorder, UnflushedIsScheduled
<1> QED
  BY <1>1, <1>2, <1>3, <1>4, Kinds

LEMMA TypesStep ==
  ASSUME Types, Recorder, [Next]_vars
  PROVE  Types'
<1>0. /\ clock \in Nat /\ rec \in Recs /\ rec.at \in Nat /\ rec.at <= clock
      /\ file # None => file.at \in Nat
      /\ failures \in Nat /\ MaxWriteFailures \in Nat /\ MaxWriteFailures > 0
      /\ MaxClock \in Nat
  BY Basics, StatusAssumption
<1>1. /\ NewRecorder.at = clock /\ Sound(NewRecorder)
      /\ Off.at = 0 /\ Sound(Off)
      /\ DoneRecord.at = clock /\ Sound(DoneRecord)
  BY <1>0 DEF NewRecorder, Off, DoneRecord, Sound, Recs, Phases, Flags
<1>2. \A r : Sound(r) => /\ r \in Recs /\ r.at \in Nat
                         /\ Snapshot(r) \in Snapshots /\ Snapshot(r).at = r.at
  BY Basics DEF Sound, Recs
\* The recorder, the file and the view.
<1>3. ASSUME ChildStep
      PROVE  /\ clock' = clock /\ watched' = watched /\ view' = view
             /\ steers' = steers /\ quietSince' = quietSince
             /\ Sound(rec)' /\ rec'.at <= clock
             /\ disabled' \in BOOLEAN /\ pending' \in BOOLEAN
             /\ failures' \in 0..MaxWriteFailures
             /\ file' # None => file' \in Snapshots /\ file'.at <= clock
             /\ seen' \in BOOLEAN
  <2>1. CASE Rests
    BY <1>3, <2>1 DEF ChildStep, Rests, Types, Sound
  <2>2. ASSUME NEW r, Sound(r), r.at <= clock, ~disabled, Flushes(r)
        PROVE  /\ Sound(rec') /\ rec'.at <= clock
               /\ disabled' \in BOOLEAN /\ pending' \in BOOLEAN
               /\ failures' \in 0..MaxWriteFailures
               /\ file' # None => file' \in Snapshots /\ file'.at <= clock
               /\ seen' \in BOOLEAN
    <3>1. rec' = r \/ rec' = Off
      BY <2>2 DEF Flushes
    <3>2. Sound(rec') /\ rec'.at <= clock
      BY <1>0, <1>1, <2>2, <3>1
    <3>3. disabled' \in BOOLEAN /\ pending' \in BOOLEAN /\ seen' \in BOOLEAN
      <4>1. disabled' \in BOOLEAN
        <5>1. CASE disabled' = (failures + 1 >= MaxWriteFailures)
          BY <5>1
        <5>2. CASE disabled' = disabled
          BY <5>2 DEF Types
        <5> QED
          BY <2>2, <5>1, <5>2 DEF Flushes
      <4>2. pending' \in BOOLEAN /\ seen' \in BOOLEAN
        BY <2>2 DEF Flushes, Types
      <4> QED
        BY <4>1, <4>2
    <3>4. failures' \in 0..MaxWriteFailures
      <4>1. failures < MaxWriteFailures
        BY <2>2 DEF Recorder
      <4>2. failures' \in {failures, 0, failures + 1}
        BY <2>2 DEF Flushes
      <4> QED
        BY <1>0, <4>1, <4>2
    <3>5. file' # None => file' \in Snapshots /\ file'.at <= clock
      <4>1. file' = file \/ file' = Snapshot(r)
        BY <2>2 DEF Flushes
      <4> QED
        BY <1>2, <2>2, <4>1 DEF Types
    <3> QED
      BY <3>2, <3>3, <3>4, <3>5
  <2>3. CASE Notes \/ Writes
    <3>1. ~disabled /\ \E r : Sound(r) /\ r.at <= clock /\ Flushes(r)
      BY <1>0, <2>3 DEF Notes, Writes, Recorder, Types
    <3> QED
      BY <1>3, <2>2, <3>1 DEF ChildStep, Sound
  <2>4. CASE Stops \/ Reloads
    <3>1. file' = file \/ file' = Snapshot(DoneRecord)
      BY <2>4 DEF Stops, Reloads
    <3>2. file' # None => file' \in Snapshots /\ file'.at <= clock
      BY <1>0, <1>1, <1>2, <3>1 DEF Types
    <3>3. rec' = Off \/ rec' = NewRecorder
      BY <2>4 DEF Stops, Reloads
    <3>4. Sound(rec') /\ rec'.at <= clock
      BY <1>0, <1>1, <3>3
    <3>5. /\ disabled' \in BOOLEAN /\ pending' \in BOOLEAN /\ seen' \in BOOLEAN
          /\ failures' = 0 /\ 0 \in 0..MaxWriteFailures
      <4>1. disabled' \in BOOLEAN /\ pending' \in BOOLEAN /\ failures' = 0
        BY <2>4 DEF Stops, Reloads
      <4>2. seen' \in BOOLEAN
        BY <2>4 DEF Stops, Reloads, Types
      <4>3. 0 \in 0..MaxWriteFailures
        BY <1>0
      <4> QED
        BY <4>1, <4>2, <4>3
    <3> QED
      BY <1>3, <3>2, <3>4, <3>5 DEF ChildStep, Sound
  <2> QED
    BY <1>3, <2>1, <2>3, <2>4 DEF ChildStep
<1>4. ASSUME Observes \/ Steer \/ WatchEnds \/ Tick
      PROVE  /\ clock' \in 0..MaxClock /\ watched' \in BOOLEAN /\ view' \in Views
             /\ steers' \in Nat /\ quietSince' \in Nat
             /\ Sound(rec)' /\ rec'.at <= clock'
             /\ disabled' \in BOOLEAN /\ pending' \in BOOLEAN
             /\ failures' \in 0..MaxWriteFailures
             /\ file' # None => file' \in Snapshots /\ file'.at <= clock'
             /\ seen' \in BOOLEAN
  <2>1. CASE Observes
    BY <2>1, Observing DEF Types, Sound
  <2>2. CASE Steer
    <3>1. /\ UNCHANGED <<clock, watched, disabled, pending, failures>>
          /\ steers' = steers + 1 /\ quietSince' = clock
          /\ view' = Forced(Observed(view))
          /\ rec' = [rec EXCEPT !.fresh = @ /\ rec.at = clock /\ pending]
          /\ file' = IF file = None THEN None ELSE [file EXCEPT !.fresh = FALSE]
          /\ seen' = (seen \/ Accepted(view))
      BY <2>2 DEF Steer, flush
    <3>2. view' \in Views
      <4>1. PICK v : v = Observed(view)
        OBVIOUS
      <4>2. v \in Views
        BY <4>1, Observation
      <4>3. Else(v.first, clock) \in Times /\ clock \in Times
        BY <1>0, <4>2 DEF Views, Times, Else
      <4> QED
        BY <3>1, <4>1, <4>2, <4>3 DEF Views, Forced, Phases, Times
    <3>3. rec' \in Recs /\ rec'.at = rec.at /\ rec'.on = rec.on /\ rec'.phase = rec.phase
      <4>1. PICK b \in BOOLEAN : b = (rec.fresh /\ rec.at = clock /\ pending)
        OBVIOUS
      <4>2. rec' = [rec EXCEPT !.fresh = b]
        BY <3>1, <4>1
      <4> QED
        BY <1>0, <4>2 DEF Recs
    <3>4. file' # None => file' \in Snapshots /\ file'.at <= clock'
      BY <3>1, Basics DEF Snapshots
    <3>5. Sound(rec)'
      BY <3>3 DEF Sound, Types
    <3> QED
      BY <1>0, <3>1, <3>2, <3>3, <3>4, <3>5 DEF Types
  <2>3. CASE WatchEnds
    <3>1. NewView \in Views
      BY DEF NewView, Views, Times
    <3> QED
      BY <2>3, <3>1 DEF WatchEnds, child, disk, flush, ghosts, Types, Sound
  <2>4. CASE Tick
    <3>1. clock' = clock + 1 /\ clock' \in 0..MaxClock
      BY <1>0, <2>4 DEF Tick
    <3> QED
      BY <1>0, <2>4, <3>1 DEF Tick, child, disk, flush, parent, ghosts, Types, Sound
  <2> QED
    BY <1>4, <2>1, <2>2, <2>3, <2>4
\* What the actions assign outright.
<1>5. /\ stage' \in Stages
      /\ wake' \in BOOLEAN /\ awaiting' \in BOOLEAN /\ writing' \in BOOLEAN
      /\ open' \in BOOLEAN /\ superseded' \in BOOLEAN /\ calm' \in BOOLEAN
      /\ due' \in BOOLEAN /\ restarted' \in BOOLEAN
  <2>1. CASE \/ SessionStart \/ Input \/ BeforeAgentStart \/ AgentStart
             \/ TurnStart \/ TurnEnd \/ ProviderRequest \/ ProviderResponse
             \/ MessageUpdate \/ ToolStart \/ ToolResult \/ ToolEnd
             \/ \E throttled \in BOOLEAN : ToolProgress(throttled)
    <3>1. UNCHANGED <<writing, calm, due, restarted>>
      BY <2>1 DEF SessionStart, Input, BeforeAgentStart, AgentStart, TurnStart,
         TurnEnd, ProviderRequest, ProviderResponse, MessageUpdate, ToolStart,
         ToolResult, ToolEnd, ToolProgress, Event
    <3>2. stage' \in {stage, "idle", "woken", "agent", "turn"}
      BY <2>1 DEF SessionStart, Input, BeforeAgentStart, AgentStart, TurnStart,
         TurnEnd, ProviderRequest, ProviderResponse, MessageUpdate, ToolStart,
         ToolResult, ToolEnd, ToolProgress, Event
    <3>3. wake' \in {wake, FALSE, TRUE} /\ awaiting' \in {awaiting, FALSE}
      BY <2>1 DEF SessionStart, Input, BeforeAgentStart, AgentStart, TurnStart,
         TurnEnd, ProviderRequest, ProviderResponse, MessageUpdate, ToolStart,
         ToolResult, ToolEnd, ToolProgress, Event, Calm
    <3>4. open' \in {open, FALSE} /\ superseded' \in {superseded, FALSE, TRUE}
      BY <2>1 DEF SessionStart, Input, BeforeAgentStart, AgentStart, TurnStart,
         TurnEnd, ProviderRequest, ProviderResponse, MessageUpdate, ToolStart,
         ToolResult, ToolEnd, ToolProgress, Event, Calm
    <3>5. stage' \in Stages /\ wake' \in BOOLEAN /\ awaiting' \in BOOLEAN
      BY <3>2, <3>3 DEF Types, Stages
    <3>6. open' \in BOOLEAN /\ superseded' \in BOOLEAN
      BY <3>4 DEF Types
    <3> QED
      BY <3>1, <3>5, <3>6 DEF Types
  <2>2. CASE \/ \E aborted \in BOOLEAN : AgentEnd(aborted)
             \/ \E ok \in BOOLEAN : AskQuestion(ok) \/ QuestionWritten(ok)
             \/ KidStarts \/ KidReports
             \/ FlushTimer \/ Quit \/ Restart \/ Dies
    <3>1. stage' \in {stage, "exiting", "idle", "gone", "boot"}
      BY <2>2 DEF AgentEnd, KidStarts, KidReports, AskQuestion, QuestionWritten,
         FlushTimer, Quit, Restart, Dies, Gone
    <3>2. /\ wake' \in {wake, FALSE, TRUE} /\ awaiting' \in {awaiting, FALSE, TRUE}
          /\ writing' \in {writing, FALSE, TRUE} /\ restarted' \in {restarted, TRUE}
      BY <2>2 DEF AgentEnd, KidStarts, KidReports, AskQuestion, QuestionWritten,
         FlushTimer, Quit, Restart, Dies, Gone,
         ghosts
    <3>3. /\ open' \in {open, FALSE, TRUE} /\ superseded' \in {superseded, FALSE}
          /\ calm' \in {calm, FALSE, TRUE} /\ due' \in {due, FALSE, TRUE}
      BY <2>2 DEF AgentEnd, KidStarts, KidReports, AskQuestion, QuestionWritten,
         FlushTimer, Quit, Restart, Dies, Gone,
         ghosts, Types
    <3>4. stage' \in Stages /\ wake' \in BOOLEAN /\ awaiting' \in BOOLEAN
      BY <3>1, <3>2 DEF Types, Stages
    <3>5. writing' \in BOOLEAN /\ restarted' \in BOOLEAN
      BY <3>2 DEF Types
    <3>6. open' \in BOOLEAN /\ superseded' \in BOOLEAN
      BY <3>3 DEF Types
    <3>7. calm' \in BOOLEAN /\ due' \in BOOLEAN
      BY <3>3 DEF Types
    <3> QED
      BY <3>4, <3>5, <3>6, <3>7
  <2>3. CASE \/ WatchTick \/ DeliverQuestion \/ StatusTick
             \/ Steer \/ SteerFails \/ WatchEnds \/ Tick \/ UNCHANGED vars
    <3>1. UNCHANGED <<stage, wake, awaiting, writing, open, superseded, restarted>>
      BY <2>3 DEF WatchTick, DeliverQuestion, StatusTick, Steer, SteerFails,
         WatchEnds, Tick, vars, child, ghosts
    <3>2. calm' \in {calm, FALSE, TRUE} /\ due' \in {due, FALSE, TRUE}
      BY <2>3 DEF WatchTick, DeliverQuestion, StatusTick, Steer, SteerFails,
         WatchEnds, Tick, vars, ghosts
    <3> QED
      BY <3>1, <3>2 DEF Types, Stages
  <2> QED
    BY <2>1, <2>2, <2>3 DEF Next
<1>6. /\ tools' \in 0..MaxTools /\ kids' \in 0..MaxKids
      /\ ask' \in {"none", "torn", "whole"} /\ picked' \in {"none", "torn", "whole"}
  <2>0. MaxTools \in Nat /\ MaxKids \in Nat
    BY StatusAssumption
  <2>1. CASE \/ SessionStart \/ Input \/ BeforeAgentStart \/ AgentStart
             \/ TurnStart \/ TurnEnd \/ ProviderRequest \/ ProviderResponse
             \/ MessageUpdate \/ ToolStart \/ ToolResult \/ ToolEnd
             \/ \E throttled \in BOOLEAN : ToolProgress(throttled)
    <3>1. UNCHANGED <<kids, ask, picked>>
      BY <2>1 DEF SessionStart, Input, BeforeAgentStart, AgentStart, TurnStart,
         TurnEnd, ProviderRequest, ProviderResponse, MessageUpdate, ToolStart,
         ToolResult, ToolEnd, ToolProgress, Event, parent
    <3>2. \/ tools' = tools
          \/ tools < MaxTools /\ tools' = tools + 1
          \/ tools > 0 /\ tools' = tools - 1
      BY <2>1 DEF SessionStart, Input, BeforeAgentStart, AgentStart, TurnStart,
         TurnEnd, ProviderRequest, ProviderResponse, MessageUpdate, ToolStart,
         ToolResult, ToolEnd, ToolProgress, Calm
    <3> QED
      BY <2>0, <3>1, <3>2 DEF Types
  <2>2. CASE \/ \E aborted \in BOOLEAN : AgentEnd(aborted)
             \/ \E ok \in BOOLEAN : AskQuestion(ok) \/ QuestionWritten(ok)
             \/ KidStarts \/ KidReports
             \/ FlushTimer \/ Quit \/ Restart \/ Dies
    <3>1. UNCHANGED picked /\ ask' \in {ask, "torn", "whole"} /\ tools' \in {tools, 0}
      BY <2>2 DEF AgentEnd, KidStarts, KidReports, AskQuestion, QuestionWritten,
         FlushTimer, Quit, Restart, Dies, Gone, parent
    <3>2. \/ kids' \in {kids, 0}
          \/ kids < MaxKids /\ kids' = kids + 1
          \/ kids > 0 /\ kids' = kids - 1
      BY <2>2 DEF AgentEnd, KidStarts, KidReports, AskQuestion, QuestionWritten,
         FlushTimer, Quit, Restart, Dies, Gone
    <3> QED
      BY <2>0, <3>1, <3>2 DEF Types
  <2>3. CASE \/ WatchTick \/ DeliverQuestion \/ StatusTick
             \/ Steer \/ SteerFails \/ WatchEnds \/ Tick \/ UNCHANGED vars
    BY <2>3 DEF WatchTick, DeliverQuestion, StatusTick, Steer, SteerFails,
       WatchEnds, Tick, vars, child, parent, Types
  <2> QED
    BY <2>1, <2>2, <2>3 DEF Next
<1>7. CASE ChildStep
  BY <1>0, <1>3, <1>5, <1>6, <1>7 DEF Types, Sound
<1>8. CASE Observes \/ Steer \/ WatchEnds \/ Tick
  BY <1>4, <1>5, <1>6, <1>8 DEF Types
<1> QED
  BY <1>7, <1>8, Kinds

\* What a step of the child leaves in the file: what was there, something of
\* now, or what the timer was to write of a child at work.
LEMMA Written ==
  ASSUME Types, Recorder, ChildStep
  PROVE  \/ UNCHANGED <<file, seen>>
         \/ /\ seen' = FALSE /\ file' # None /\ file'.at = clock
            /\ file # None => file.at <= file'.at
         \/ /\ seen' = FALSE /\ file' # None /\ pending
            /\ file'.at = rec.at /\ file'.phase = "active"
            /\ file'.fresh = rec.fresh
            /\ file # None => file.at <= file'.at
<1>0. /\ clock \in Nat /\ rec \in Recs
      /\ file # None => file.at <= clock
      /\ \A r \in Recs : /\ Snapshot(r) # None /\ Snapshot(r).at = r.at
                         /\ Snapshot(r).phase = r.phase
                         /\ Snapshot(r).fresh = r.fresh
  BY Basics
<1>1. CASE Rests \/ Reloads
  BY <1>1 DEF Rests, Reloads
<1>2. CASE Stops
  <2>1. DoneRecord \in Recs /\ DoneRecord.at = clock
    BY <1>0 DEF DoneRecord, Recs, Phases
  <2> QED
    BY <1>0, <1>2, <2>1 DEF Stops
<1>3. CASE Notes
  BY <1>0, <1>3 DEF Notes, Flushes, Sound
<1>4. CASE Writes
  BY <1>0, <1>4 DEF Writes, Flushes, Recorder
<1> QED
  BY <1>1, <1>2, <1>3, <1>4 DEF ChildStep

LEMMA ViewedStep ==
  ASSUME Types, Recorder, Viewed, [Next]_vars
  PROVE  Viewed'
<1>0. /\ clock \in Nat /\ view \in Views /\ None \notin Nat
      /\ file # None => /\ file.at \in Nat /\ file.at <= clock
                        /\ file.phase \in Phases
      /\ view.overAt \in Times /\ view.lastAt \in Times /\ view.problem \in Times
      /\ quietSince \in Nat /\ rec.at \in Nat
  BY Basics DEF Views, Types, Snapshots
<1>1. CASE ChildStep
  <2>1. UNCHANGED <<clock, watched, view, quietSince>>
    BY <1>1 DEF ChildStep
  <2>0. \/ UNCHANGED <<file, seen>>
        \/ /\ ~seen' /\ file' # None /\ file'.at = clock
           /\ file # None => file.at <= file'.at
        \/ /\ ~seen' /\ file' # None
           /\ file'.at = rec.at /\ file'.phase = "active"
           /\ file # None => file.at <= file'.at
    BY <1>1, Written
  <2>2. ASSUME view.overAt # None, file' # None, view.state # "present"
        PROVE  ~seen' /\ (file'.at < view.overAt => file'.phase = "active")
    <3>1. view.overAt \in Nat /\ view.overAt <= clock
      BY <1>0, <2>2 DEF Viewed, Times
    <3>2. file # None => ~seen /\ (file.at < view.overAt => file.phase = "active")
      BY <2>2 DEF Viewed
    <3> QED
      BY <1>0, <2>0, <2>2, <3>1, <3>2
  <2>3. ASSUME view.overAt = None, view.lastAt # None
        PROVE  file' # None /\ view.lastAt <= file'.at
    <3>1. view.lastAt \in Nat /\ file # None /\ view.lastAt <= file.at
      BY <1>0, <2>3 DEF Viewed, Times
    <3> QED
      BY <1>0, <2>0, <3>1
  <2> QED
    BY <2>1, <2>2, <2>3 DEF Viewed
<1>2. CASE Observes
  <2>1. PICK v : v = Observed(view)
    OBVIOUS
  <2>2. /\ watched' /\ UNCHANGED <<clock, file>>
        /\ seen' = (seen \/ Accepted(view))
        /\ view'.lastAt = v.lastAt /\ view'.overAt = v.overAt
        /\ view'.phase = v.phase /\ view'.state = v.state
        /\ view'.problem = v.problem
        /\ quietSince' = IF Known(v) THEN clock ELSE quietSince
    BY <1>2, <2>1, Observing
  <2>3. CASE file = None
    <3>1. /\ v.state = "missing" /\ v.problem = Else(view.problem, clock)
          /\ v.lastAt = view.lastAt /\ v.overAt = view.overAt /\ v.phase = view.phase
      BY <2>1, <2>3, Observation
    <3>2. quietSince' = quietSince
      BY <2>2, <3>1 DEF Known
    <3>3. quietSince <= v.problem
      BY <1>0, <3>1 DEF Else, Viewed
    <3>4. view.overAt # None => /\ view.lastAt = view.overAt
                                /\ view.overAt <= clock /\ view.phase = "waiting"
      BY DEF Viewed
    <3>5. view.overAt # None \/ view.lastAt = None
      BY <2>3 DEF Viewed
    <3>6. view.lastAt = None => quietSince = 0
      BY <2>2, <2>3, Observing, <1>2 DEF Viewed
    <3>7. quietSince <= clock
      BY DEF Viewed
    <3> QED
      BY <2>2, <2>3, <3>1, <3>2, <3>3, <3>4, <3>5, <3>6, <3>7 DEF Viewed
  <2>4. CASE file # None /\ ~Accepted(view)
    <3>1. v = view
      BY <2>1, <2>4, Observation
    <3>2. seen' <=> seen
      BY <2>2, <2>4
    <3>3. Known(v) => view.problem = None /\ view.lastAt # None
      BY <3>1 DEF Known, Viewed
    <3>4. quietSince' = IF Known(v) THEN clock ELSE quietSince
      BY <2>2
    <3>5. /\ view.lastAt = None => quietSince' = 0
          /\ view.problem # None => quietSince' <= view.problem
          /\ quietSince' <= clock
      BY <1>0, <1>2, <3>3, <3>4, Observing DEF Viewed
    <3>6. view.state = "present" => /\ view.problem = None /\ view.lastAt # None
                                    /\ view.phase \in Phases
      BY DEF Viewed
    <3>7. view.overAt # None =>
            /\ view.lastAt = view.overAt /\ view.overAt <= clock
            /\ view.phase = "waiting"
            /\ view.state # "present" =>
                 ~seen /\ (file.at < view.overAt => file.phase = "active")
      BY <2>4 DEF Viewed
    <3>8. view.overAt = None /\ view.lastAt # None => view.lastAt <= file.at
      BY DEF Viewed
    <3> QED
      BY <2>2, <2>4, <3>1, <3>2, <3>5, <3>6, <3>7, <3>8 DEF Viewed
  <2>5. CASE Accepted(view)
    <3>1. /\ file # None /\ v.state = "present" /\ v.problem = None
          /\ v.lastAt = file.at /\ v.overAt = None /\ v.phase = file.phase
      BY <2>1, <2>5, Observation
    <3> QED
      BY <1>0, <2>2, <3>1 DEF Viewed
  <2> QED
    BY <2>3, <2>4, <2>5
<1>3. CASE Steer
  <2>1. PICK v : v = Observed(view)
    OBVIOUS
  <2>2. v \in Views
    BY <2>1, Observation
  <2>3. view' = Forced(v) /\ quietSince' = clock /\ clock' = clock
    BY <1>3, <2>1 DEF Steer
  <2>4. /\ view'.lastAt = clock /\ view'.overAt = clock /\ view'.phase = "waiting"
        /\ view'.state = "present" /\ view'.problem = None
    BY <2>2, <2>3 DEF Forced, Views
  <2> QED
    BY <1>0, <2>3, <2>4 DEF Viewed, Phases
<1>4. CASE WatchEnds
  BY <1>0, <1>4 DEF WatchEnds, Viewed, NewView, ghosts
<1>5. CASE Tick
  <2>1. clock' = clock + 1 /\ UNCHANGED <<watched, view, file, seen, quietSince>>
    BY <1>5 DEF Tick, disk, parent, ghosts
  <2> QED
    BY <1>0, <2>1 DEF Viewed, Times
<1> QED
  BY <1>1, <1>2, <1>3, <1>4, <1>5, Kinds

LEMMA SteeredStep ==
  ASSUME Types, Recorder, Viewed, Steered, [Next]_vars
  PROVE  Steered'
<1>0. /\ clock \in Nat /\ view \in Views /\ None \notin Nat /\ steers \in Nat
      /\ file # None => file.at \in Nat /\ file.at <= clock
      /\ view.overAt \in Times /\ rec.at \in Nat /\ rec.at <= clock
  BY Basics DEF Views
\* What is held off is not taken over.
<1>1. ASSUME watched, steers > 0, file # None => ~file.fresh
      PROVE  ~Accepted(view)
  BY <1>0, <1>1, Refused DEF Steered, Accepted, Times
<1>2. CASE ChildStep
  <2>1. UNCHANGED <<clock, watched, view, steers>>
    BY <1>2 DEF ChildStep
  <2>2. CASE Rests
    BY <2>1, <2>2 DEF Rests, Steered
  <2>3. ASSUME NEW r, Sound(r), Flushes(r),
               r.fresh \/ (pending /\ pending' = FALSE /\ r = rec)
        PROVE  Steered'
    <3>1. /\ Snapshot(r) # None /\ Snapshot(r).at = r.at
          /\ Snapshot(r).fresh = r.fresh
      BY <2>3, Basics DEF Sound
    <3>2. \/ UNCHANGED <<file, seen>>
          \/ file' = Snapshot(r)
      BY <2>3 DEF Flushes
    <3>3. pending' => rec'.fresh
      BY <2>3 DEF Flushes
    <3>4. CASE UNCHANGED <<file, seen>>
      BY <2>1, <3>3, <3>4 DEF Steered
    <3>5. CASE file' = Snapshot(r)
      <4>1. ASSUME watched, ~r.fresh
            PROVE  view.overAt # None /\ r.at < view.overAt
        BY <2>3, <4>1 DEF Steered
      <4>2. file' # None /\ file'.at = r.at /\ (file'.fresh <=> r.fresh)
        BY <3>1, <3>5
      <4>3. r.at \in Nat
        BY <2>3 DEF Sound, Recs
      <4>4. ASSUME watched, ~file'.fresh
            PROVE  /\ view.overAt # None
                   /\ file'.at <= view.overAt
                   /\ file'.at # view.overAt
        BY <1>0, <4>1, <4>2, <4>3, <4>4 DEF Times
      <4> QED
        BY <2>1, <3>3, <4>2, <4>4 DEF Steered
    <3> QED
      BY <3>2, <3>4, <3>5
  <2>4. CASE Notes
    BY <2>3, <2>4 DEF Notes
  <2>5. CASE Writes
    BY <2>3, <2>5 DEF Writes, Types
  <2>6. CASE Stops
    <3>1. DoneRecord \in Recs /\ DoneRecord.fresh
      BY <1>0 DEF DoneRecord, Recs, Phases
    <3>2. Snapshot(DoneRecord) # None /\ Snapshot(DoneRecord).fresh
      BY <3>1, Basics
    <3> QED
      BY <2>1, <2>6, <3>2 DEF Stops, Steered
  <2>7. CASE Reloads
    BY <2>1, <2>7 DEF Reloads, Steered
  <2> QED
    BY <1>2, <2>2, <2>4, <2>5, <2>6, <2>7 DEF ChildStep
<1>3. CASE Observes
  <2>1. /\ watched' = watched /\ watched
        /\ UNCHANGED <<clock, steers, rec, file, pending>>
        /\ seen' = (seen \/ Accepted(view))
        /\ view'.overAt = Observed(view).overAt
    BY <1>3, Observing
  <2>2. ~Accepted(view) => view'.overAt = view.overAt /\ (seen' <=> seen)
    BY <2>1, Observation
  <2> QED
    BY <1>1, <2>1, <2>2 DEF Steered
<1>4. CASE Steer
  <2>1. /\ UNCHANGED <<clock, watched, pending>> /\ steers' = steers + 1
        /\ view' = Forced(Observed(view))
        /\ rec' = [rec EXCEPT !.fresh = @ /\ rec.at = clock /\ pending]
        /\ file' = IF file = None THEN None ELSE [file EXCEPT !.fresh = FALSE]
        /\ seen' = (seen \/ Accepted(view))
    BY <1>4 DEF Steer, flush
  <2>2. view'.overAt = clock
    BY <2>1, Observation DEF Forced, Views
  <2>3. rec'.at = rec.at /\ (rec'.fresh <=> rec.fresh /\ rec.at = clock /\ pending)
    BY <2>1, Basics DEF Recs
  <2>4. file' # None => file # None /\ ~file'.fresh /\ file'.at = file.at
    BY <2>1, Basics DEF Snapshots
  <2>5. pending /\ ~rec'.fresh => rec.at < clock
    BY <1>0, <2>3 DEF Steered
  <2>6. ASSUME file # None, file.at = clock PROVE seen'
    <3>1. view.overAt # None => view.overAt <= clock
      BY DEF Viewed
    <3>2. CASE Accepted(view)
      BY <2>1, <3>2
    <3>3. CASE ~Accepted(view)
      <4>1. /\ view.overAt # None /\ view.overAt \in Nat
            /\ file.at < view.overAt \/ seen
        BY <2>6, <3>3, Refused
      <4>2. seen
        BY <1>0, <2>6, <3>1, <4>1
      <4> QED
        BY <2>1, <4>2
    <3> QED
      BY <3>2, <3>3
  <2> QED
    BY <1>0, <2>1, <2>2, <2>3, <2>4, <2>5, <2>6 DEF Steered
<1>5. CASE WatchEnds
  BY <1>5 DEF WatchEnds, child, disk, flush, Steered
<1>6. CASE Tick
  <2>1. /\ clock' = clock + 1
        /\ UNCHANGED <<watched, view, steers, rec, pending, file, seen>>
    BY <1>6 DEF Tick, child, disk, flush, parent
  <2> QED
    BY <1>0, <2>1 DEF Steered
<1> QED
  BY <1>2, <1>3, <1>4, <1>5, <1>6, Kinds

LEMMA QuestionsStep ==
  ASSUME Types, Questions, [Next]_vars
  PROVE  Questions'
<1>1. CASE \/ SessionStart \/ Input \/ BeforeAgentStart \/ AgentStart
           \/ TurnStart \/ TurnEnd \/ ProviderRequest \/ ProviderResponse
           \/ MessageUpdate \/ ToolStart \/ ToolResult \/ ToolEnd
           \/ \E throttled \in BOOLEAN : ToolProgress(throttled)
  <2>1. UNCHANGED <<calm, due, writing, ask, picked>>
    BY <1>1 DEF SessionStart, Input, BeforeAgentStart, AgentStart, TurnStart,
       TurnEnd, ProviderRequest, ProviderResponse, MessageUpdate, ToolStart,
       ToolResult, ToolEnd, ToolProgress, Event, parent
  <2>2. stage' # "exiting"
    BY <1>1 DEF SessionStart, Input, BeforeAgentStart, AgentStart, TurnStart,
       TurnEnd, ProviderRequest, ProviderResponse, MessageUpdate, ToolStart,
       ToolResult, ToolEnd, ToolProgress, Event
  <2>3. \/ ~open'
        \/ superseded'
        \/ stage' \notin {"agent", "turn"}
        \/ /\ stage \in {"agent", "turn"}
           /\ UNCHANGED <<open, superseded, awaiting>>
    BY <1>1 DEF SessionStart, Input, BeforeAgentStart, AgentStart, TurnStart,
       TurnEnd, ProviderRequest, ProviderResponse, MessageUpdate, ToolStart,
       ToolResult, ToolEnd, ToolProgress, Event, Calm
  <2> QED
    BY <2>1, <2>2, <2>3 DEF Questions
<1>2. ASSUME NEW ok \in BOOLEAN, AskQuestion(ok) PROVE Questions'
  BY <1>2 DEF AskQuestion, Questions, parent, Types
<1>3. ASSUME NEW ok \in BOOLEAN, QuestionWritten(ok) PROVE Questions'
  BY <1>3 DEF QuestionWritten, Questions, parent, Types
<1>4. CASE \E aborted \in BOOLEAN : AgentEnd(aborted)
  BY <1>4 DEF AgentEnd, Exits, Questions, parent, ghosts
<1>5. CASE KidStarts \/ KidReports \/ FlushTimer \/ Tick \/ UNCHANGED vars
  BY <1>5 DEF KidStarts, KidReports, FlushTimer, Tick, vars, child, parent,
     ghosts, Questions
<1>6. CASE Quit \/ Dies
  BY <1>6 DEF Quit, Dies, Gone, parent, Questions, Types
<1>7. CASE Restart
  BY <1>7 DEF Restart, parent, Questions
<1>8. CASE WatchTick
  BY <1>8 DEF WatchTick, Free, child, Questions, Types
<1>9. CASE DeliverQuestion
  BY <1>9 DEF DeliverQuestion, child, Questions, Types
<1>10. CASE StatusTick \/ Steer \/ SteerFails \/ WatchEnds
  BY <1>10 DEF StatusTick, Steer, SteerFails, WatchEnds, child, ghosts, Questions
<1> QED
  BY <1>1, <1>2, <1>3, <1>4, <1>5, <1>6, <1>7, <1>8, <1>9, <1>10 DEF Next

LEMMA InitInv == Init => Inv
<1> SUFFICES ASSUME Init PROVE Inv
  OBVIOUS
<1>1. /\ NewRecorder = [at |-> clock, phase |-> "starting", on |-> {}, fresh |-> FALSE]
      /\ clock = 0 /\ rec = NewRecorder /\ file = None /\ view = NewView
  BY DEF Init, NewRecorder
<1>2. Sound(rec) /\ rec.at = 0 /\ rec.phase = "starting"
  BY <1>1 DEF Sound, Recs, Phases, Flags
<1>3. NewView \in Views
  BY DEF NewView, Views, Times
<1>4. Types
  <2>1. /\ clock \in 0..MaxClock /\ tools \in 0..MaxTools /\ kids \in 0..MaxKids
        /\ failures \in 0..MaxWriteFailures
    BY StatusAssumption DEF Init
  <2>2. /\ stage \in Stages /\ ask = "none" /\ picked = "none" /\ watched = TRUE
        /\ wake = FALSE /\ awaiting = FALSE /\ writing = FALSE
    BY DEF Init, Stages
  <2>3. /\ disabled = FALSE /\ pending = FALSE /\ seen = FALSE /\ open = FALSE
        /\ superseded = FALSE /\ calm = FALSE /\ due = FALSE /\ restarted = FALSE
        /\ steers = 0 /\ quietSince = 0
    BY DEF Init
  <2>4. view \in Views /\ file = None /\ rec.at <= clock
    BY <1>1, <1>2, <1>3
  <2> QED
    BY <1>2, <2>1, <2>2, <2>3, <2>4 DEF Types
<1>5. Recorder
  BY <1>1, <1>2, StatusAssumption DEF Init, Recorder, UnflushedIsScheduled
<1>6. Viewed
  BY <1>1 DEF Init, Viewed, NewView
<1>7. Steered /\ Questions
  BY DEF Init, Steered, Questions
<1> QED
  BY <1>4, <1>5, <1>6, <1>7 DEF Inv

\* The invariant is inductive: the types, the recorder's state against its
\* file, how the view came about, what a steer holds off, where a question is.
THEOREM Inductive == Spec => []Inv
<1>1. Inv /\ [Next]_vars => Inv'
  BY TypesStep, RecorderStep, ViewedStep, SteeredStep, QuestionsStep DEF Inv
<1> QED
  BY <1>1, InitInv, PTL DEF Spec

\* TypeOK in every reachable state, whatever the thresholds and bounds.
THEOREM TypeCorrect == Spec => []TypeOK
<1>1. Inv => TypeOK
  <2> SUFFICES ASSUME Inv PROVE TypeOK
    OBVIOUS
  <2>1. /\ clock \in 0..MaxClock /\ MaxClock \in Nat /\ rec \in Recs /\ rec.at <= clock
        /\ file # None => file \in Snapshots /\ file.at <= clock
        /\ view \in Views /\ (rec.on # {} => rec.phase = "active")
    BY StatusAssumption DEF Inv, Types, Sound
  <2>2. rec.at \in 0..clock /\ rec.on \subseteq Flags /\ rec.phase \in Phases
    BY <2>1 DEF Recs
  <2>3. file # None => file.at \in 0..clock
    BY <2>1 DEF Snapshots
  <2>4. view.kind \in {"starting", "active", "waiting", "stalled"}
    BY <2>1 DEF Views
  <2> QED
    BY <2>1, <2>2, <2>3, <2>4 DEF Inv, Types, Stages, TypeOK
<1> QED
  BY <1>1, Inductive, PTL

\* The throttle of record() and scheduleFlush loses nothing: whatever the
\* child does, an unwritten state has a timer armed to write it.
THEOREM ThrottleKeeps == Spec => []UnflushedIsScheduled
<1>1. Inv => UnflushedIsScheduled
  BY DEF Inv, Recorder
<1> QED
  BY <1>1, Inductive, PTL

\* The override of forceStatusAfterInterrupt outlasts every snapshot of what
\* the child did before the steer, however late the timer writes it.
THEOREM OverrideHolds == Spec => []SteerHolds
<1>1. Inv => SteerHolds
  BY DEF Inv, Steered, Viewed, SteerHolds
<1> QED
  BY <1>1, Inductive, PTL

\* A question written in calm is delivered or still there, and its asker does
\* not exit by itself.
THEOREM QuestionsKept == Spec => []QuestionKept
<1>1. Inv => QuestionKept
  BY DEF Inv, Questions, QuestionKept
<1> QED
  BY <1>1, Inductive, PTL

\* The status turns to stalled only after silence, and a parked child ends it.
THEOREM StallsJustified == Spec => StallMeansSilence
<1>1. ASSUME Inv, [Next]_vars, view.kind # "stalled", view'.kind = "stalled",
             ~(view'.state = "present" /\ view'.phase = "starting")
      PROVE  clock - quietSince >= StallAfter
  <2>0. /\ clock \in Nat /\ quietSince \in Nat /\ StallAfter \in Nat /\ StallAfter > 0
        /\ view \in Views /\ Types /\ Viewed /\ Recorder
    BY <1>1, Basics DEF Inv, Types
  <2>1. StatusTick
    <3>1. CASE ChildStep
      BY <1>1, <3>1 DEF ChildStep
    <3>2. CASE WatchTick \/ SteerFails
      <4>1. view' = Observed(view)
        BY <3>2 DEF WatchTick, SteerFails, See
      <4> QED
        BY <1>1, <2>0, <4>1, Observation
    <3>3. CASE Steer
      <4>1. view' = Forced(Observed(view)) /\ Observed(view) \in Views
        BY <2>0, <3>3, Observation DEF Steer
      <4>2. view'.kind = "waiting"
        BY <4>1 DEF Forced, Views
      <4> QED
        BY <1>1, <4>2
    <3>4. CASE WatchEnds \/ Tick
      BY <1>1, <3>4 DEF WatchEnds, Tick, parent, NewView
    <3> QED
      BY <1>1, <2>0, <3>1, <3>2, <3>3, <3>4, Kinds DEF Observes
  <2>2. PICK v : v = Observed(view)
    OBVIOUS
  <2>3. /\ v \in Views
        /\ v.state = view.state \/ v.state \in {"missing", "present"}
        /\ v.state # "present" => /\ v.lastAt = view.lastAt
                                  /\ v.problem = view.problem \/ v.problem = clock
        /\ v.state = "present" => v.phase \in Phases
    <3>1. v = view /\ v.state = "present" => v.phase \in Phases
      BY <2>0 DEF Viewed
    <3>2. Else(view.problem, clock) \in {view.problem, clock}
      BY DEF Else
    <3>3. Accepted(view) => file.phase \in Phases
      BY <2>0, Basics DEF Accepted, Snapshots
    <3> QED
      BY <2>0, <2>2, <3>1, <3>2, <3>3, Observation
  <2>4. view' = [v EXCEPT !.kind = Kind(v)] /\ watched
    BY <2>1, <2>2 DEF StatusTick, See, Advanced, Free
  <2>5. /\ Kind(v) = "stalled"
        /\ ~(v.state = "present" /\ v.phase = "starting")
    BY <1>1, <2>3, <2>4 DEF Views
  <2>6. v.state # "present"
    BY <2>3, <2>5 DEF Kind, Known, Phases
  <2>7. CASE v.lastAt = None
    <3>1. Long(Else(v.first, 0))
      BY <2>5, <2>6, <2>7 DEF Kind, Known
    <3>2. Else(v.first, 0) \in Nat
      BY <2>3 DEF Else, Views, Times
    <3>3. quietSince = 0
      BY <2>0, <2>3, <2>4, <2>6, <2>7 DEF Viewed
    <3> QED
      BY <2>0, <3>1, <3>2, <3>3 DEF Long
  <2>8. CASE v.lastAt # None
    <3>1. Long(Else(v.problem, clock))
      BY <2>5, <2>6, <2>8 DEF Kind, Known
    <3>2. v.problem # None /\ v.problem # clock
      BY <2>0, <3>1 DEF Long, Else
    <3>3. v.problem = view.problem /\ v.problem \in Nat
      BY <2>3, <2>6, <3>2 DEF Views, Times
    <3>4. quietSince <= v.problem
      BY <2>0, <3>2, <3>3 DEF Viewed
    <3> QED
      BY <2>0, <3>1, <3>2, <3>3, <3>4 DEF Long, Else
  <2> QED
    BY <2>7, <2>8
<1>2. ASSUME Inv, StatusTick, stage = "idle", rec.phase = "waiting", file = Snapshot(rec)
      PROVE  view'.kind = "waiting"
  <2>0. Types /\ Viewed /\ view \in Views
    BY <1>2, Basics DEF Inv
  <2>1. file # None /\ file.phase = "waiting"
    BY <1>2, <2>0, Basics
  <2>2. PICK v : v = Observed(view)
    OBVIOUS
  <2>3. v \in Views /\ view'.kind = Kind(v)
    BY <1>2, <2>0, <2>2, Observation DEF StatusTick, See, Advanced, Views
  <2>4. v.state = "present" /\ v.phase = "waiting"
    <3>1. CASE Accepted(view)
      BY <2>0, <2>1, <2>2, <3>1, Observation
    <3>2. CASE ~Accepted(view)
      <4>1. v = view
        BY <2>0, <2>1, <2>2, <3>2, Observation
      <4>2. /\ view.overAt # None /\ view.overAt \in Nat
            /\ file.at < view.overAt \/ seen
        BY <2>0, <2>1, <3>2, Refused
      <4> QED
        BY <2>0, <2>1, <4>1, <4>2 DEF Viewed
    <3> QED
      BY <3>1, <3>2
  <2> QED
    BY <2>3, <2>4 DEF Kind, Known
<1>3. Inv /\ [Next]_vars =>
        [/\ (/\ view.kind # "stalled" /\ view'.kind = "stalled"
             /\ ~(view'.state = "present" /\ view'.phase = "starting"))
               => clock - quietSince >= StallAfter
         /\ (/\ StatusTick
             /\ stage = "idle" /\ rec.phase = "waiting" /\ file = Snapshot(rec))
               => view'.kind = "waiting"]_vars
  BY <1>1, <1>2
<1> QED
  BY <1>3, Inductive, PTL DEF Spec, StallMeansSilence
=============================================================================
