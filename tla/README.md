# A TLA+ model of the pi harness

The repository configures and extends the pi coding agent: extensions that pi
loads into its Node process (`src/extensions`), native tools in Rust that some
of them drive (`src/custom-tools`), and scripts, skills and prompts around them.
This directory models the parts that carry state across events, checks them with
TLC, and proves properties of nine components with TLAPS. `PROJECT.json` lists
every component, run, mutant, hazard and theorem, and maps each definition to the
lines it stands for.

## 1. Inventory

| Component | State | Operations | Talks to |
|---|---|---|---|
| **Permission gate, coverage** (`permission-gate/index.ts`, `read-coverage.ts`, `anchor-guard.ts`) | `coverage` (path -> spans, stat, hash), `pendingReads`, `pendingEdits` | `tool_call` / `tool_result` of read, edit, write; `before_agent_start` (injected files); `session_compact`; `session_start` | the file system, whose files other programs change too |
| **Permission gate, commands** (`index.ts`, `destructive.ts`) | `pendingBash`, `pendingBashFull`, `lastBashRun`, `lastBlockedBash`, `mutationSeq`, `lastApprovedDestructive`, `promptApproves` | `tool_call` / `tool_result` of bash, `confirmDestructive`, the bump by edits and writes | the user, through a dialog raced against a timer |
| **Violation memory** (`index.ts`, `violation-memory.ts`, `logFallback` of the tools) | an NDJSON file, a legacy blob, `counts` | load, compact, append, lessons | every other pi process: the file is shared, without a lock |
| **piread, piedit** (`piread/index.ts`, `piedit/index.ts`) | the `daemon` slot, per daemon `pending`, `nextId`, `dying`, ref'd handles; piedit: the mutation queue | `execute`: daemon, one-shot, built-in; abort, kill, restart, exit hook | a daemon process over two pipes, one-shot children |
| **pibash** (`pibash/index.ts`, `pibash/src`) | the `daemon` slot, `pending` with pids | `execute` over the same three rungs, process-group kills | a serial daemon, and shells in groups of their own |
| **Subagents** (`subagents/index.ts`, `tmux.ts`, `session.ts`, `subagent-done.ts`) | `runningSubagents`, `reservedNames`, the name registry, abort controllers, `.exit` and `.loadout.json` sidecars | spawn, resume, steer, watch, `session_shutdown`, `session_start` | children in tmux panes |
| **Subagent activity, status, questions** (`activity.ts`, `status.ts`, `subagent-done.ts`, `subagents/index.ts`) | the child's recorder, its throttle timer and `awaitingAnswer`; a snapshot and an `.ask` file per child; the parent's `statusState` | record, flush; observe, classify, force; ask, deliver, steer, exit or park | child and parent, through the two files and the pane |
| **pibash output** (`pibash/src/runner.rs`, `accumulator.rs`, `truncate.rs`, `compress.rs`, `render.rs`, `main.rs`) | per command: two pipes, a channel, the accumulator (decoder, counters, rolling tail, raw bytes or a spill file) | read, batch, decode, trim, spill, drain, finish; snapshot, compress, answer | the shell and what it leaves in the background |
| **Brainstorming companion** (`skills/brainstorming/scripts`) | per launch a process and a session directory (`server-info`, `server-stopped`, `events`, screens); per project `.last-port` and `.last-token`; in the tab a socket, a queue, a tombstone | launch, bind, fall back, publish, stop; write, announce; connect, queue, flush, reload | the agent (files), the browser tab (HTTP and a WebSocket), other servers of the project |
| piread and piedit pipelines (`piread/src`, `piedit/src`) | none across requests | read and compact a file; match and apply edits | the daemons' loops |
| Stateless rules (`bash-cap.ts`, `search-guard.ts`, `toolchain.ts`, `output-scrub.ts`, `commitlint.ts`, `config.ts`) | none | text to verdict | the gate's handlers |
| pidx, self-heal, handoff, compact-editor, scripts, benchmark, other skills | little or none | one-shot work | - |

The gate's handlers run before and after the native tools: `tool_call` may block
a call, the tool executes, `tool_result` books what happened. pi runs the calls
of one turn concurrently, so between the three steps of one call come steps of
others. Everything in the Node process is one event loop; the daemons, children,
panes, the user and other programs run beside it.

What is hard, per component, and the property that answers it:

* *Coverage.* A claim about what the model has seen is built from a count of
  lines, a stat and a hash taken at different moments, while other calls and
  other programs change the file. It must never claim a line not shown
  (`TightCoverageInContext`), never let an edit replace text that the model was not
  shown (`EditReplacesShown`), and its three guards must not block each other's
  remedies (`NoGuardDeadlock`).
* *Commands.* Approvals have windows, dialogs have timers, blocks arm other
  blocks, results arrive in any order (`UnapprovedNeverRuns`,
  `RerunBlockJustified`, `ApprovalUnblocks`).
* *Violation memory.* Several processes append to and rewrite one file
  (`KeepsUnraced`, `LessonsEarned`).
* *Native dispatch.* A daemon dies at any moment; its exit event, stdin error,
  failed write callbacks and last output arrive in any order; the request tables
  must stay whole (`AwaitedInSlot`, in `TypeOK`), an answer must reach its own
  request (`AnswersBelong`), every call must settle, once (`ImplementsToolCall`);
  unref'd handles let Node exit under an awaited call (`NoUnsettledExit`); edits
  of one file must not overlap (`QueueExcludes`).
* *pibash.* A command has effects, so a second start matters
  (`RunsOnceUnlessLost`); the daemon runs one command at a time and an abort may
  meet it queued, running with its pid unknown, or done (`AbortEndsDaemonRung`);
  every call settles (`Settles`).
* *pibash output.* Two reader threads, one channel and batches that put stdout
  first; a character split over two reads; a rolling tail that is trimmed while
  totals go on; a spill file made in mid-stream; a pipe that a background process
  keeps open (`StreamKept`, `SnapshotIsTail`, `ErrorLinesSurvive`, `Returns`;
  `DecodedOnce` fails).
* *Subagents.* Launches are suspended half-way and overlap each other, the
  watchers and a shutdown (`DefaultNameResolves`, `ShutdownDetaches`,
  `ExitReported`; `OneProcessPerSession` fails).
* *Activity, status, questions.* Two processes meet in two files without a lock:
  a throttled snapshot must not be forgotten (`UnflushedIsScheduled`), an old one
  must not undo what the parent knows better (`SteerHolds`), silence and nothing
  else is a stall, and it ends (`StallMeansSilence`), a question must reach the
  orchestrator and keep its asker open (`QuestionKept`).
* *Companion.* Servers of one project start, stop, die and fall back beside each
  other and hand the address on through two files (`AddressKept`); a tab lives
  through all of this, with choices in its queue and on the wire
  (`ChoicesOnceInOrder`), must come to show the newest screen (`ShowsNewest`) and
  must find a server that came back (`Recovers`).

## 2. Modules

| Module | Models | Checked with | Proofs |
|---|---|---|---|
| `GateCoverage` | the coverage entry of one file and its guards | `MCGateCoverage` | `GateCoverageProofs` |
| `GateBash` | the gate's rules on commands | `MCGateBash` | `GateBashProofs` |
| `ViolationStore` | the shared store | `MCViolationStore` | `ViolationStoreProofs` |
| `ToolCall` | the abstract promise of a tool call | `MCNativeDispatch` | `NativeDispatchProofs` |
| `NativeDispatch` | piread and piedit; implements `ToolCall` | `MCNativeDispatch` | `NativeDispatchProofs` |
| `PibashDispatch` | pibash, its daemon and its shells | `MCPibashDispatch` | `PibashProofs` |
| `PibashText` | pibash's functions on texts: decoding, lines, truncation, compression | `MCPibashOutput` | `PibashProofs` |
| `PibashOutput` | one command's output from the pipes to the answer | `MCPibashOutput` | `PibashProofs` |
| `Subagents` | launches, names, watchers | `MCSubagents` | `SubagentsProofs` |
| `SubagentStatus` | one child's recorder and questions, its parent's view | `MCSubagentStatus` | `SubagentStatusProofs` |
| `Companion` | servers of one project, their files, one tab | `MCCompanion` | `CompanionProofs` |

**GateCoverage.** `file` is a sequence of lines, each a token no other line ever has;
`stat` stands for mtime and size, the hash for the content itself. Coverage is kept
per path and no rule relates two paths, so one file is the component. `ReadCall`,
`ReadExec`, `ReadResult` (and the same for edits and writes) are the three steps of a
call; `HashBlock` is a blocked call that drops the entry. What a read returns, cuts
off and hides (`Returned`, `Truncated`, `Texts`) follows `pipeline.rs` and
`compress.rs` by line counts. How many bytes a line has is abstracted, so a read may
give the text as it is (`Verbatim`) or any compaction of it that keeps within the
budgets of lines (`Compacted`); `TextLines` is what `countTextLines` counts of such a
text, and `BookedLines` what the gate certifies. An edit is a set of disjoint line
regions: line `i` of a file moves by the lines added before it less those replaced
there (`Grown`, `Moved`), which is the running delta of `validateEditAnchors`.
`EditUnchecked` is an edit on which it has nothing to say - no file at the path, or
edits that are no list - and leaves the answer to the tool. `ExternalWrite` and
`HiddenWrite` are other programs, with and without a change that stat() sees, and
`ExternalDelete` one that removes the file (`gone`): then a stat is undefined, checks
that compare one pass, and a write is admitted without an entry. `BigRead` is R1b, for
a whole and for a very large window. Four ghosts carry the properties: `context`, the
lines shown since the last compaction; `unseen`, the lines a compacted read counted
and did not show; `basis`, the content last certified against; `loose`, set by the
five steps after which the entry is known to claim more than was shown: the file moved
between the tool's access and its booking, it is gone when the result is booked, spans
merged across a stat change, an edit booked over content other than the validated one
or with newline-terminated anchors (which count one line too many) or a fuzzy anchor
beside exact ones, and a hidden write. The properties say what holds apart from these,
and `CoverageInContext` says it without the exception. An edit under way carries how
it was let through (`checked`, `loose`, `unseen`), and `EditReplacesShown` judges it
where it matters: at the step that changes the file, whatever wrote to it since the
gate looked.

**GateBash.** `BashCall` is the `tool_call` handler up to the dialog or its end,
`UserAnswers` and `ConfirmTimeout` the two ends of the race in
`confirmDestructive` (the dialog stays on the screen after the timer won),
`Exec` the tool, `BashResult`, `BlockedResult`, `EditResult` the branches of
`tool_result`. The pattern tables become constant sets of commands. The clock
is abstracted: a record whose window elapses is as good as absent, at any time.
`tree` and `shown` are ghosts: what mutations really happened, and which
recorded outputs are still true. pi compacts with no call in flight, and
`SessionCompact` has that guard; without it a compaction would clear
`pendingBash` under a mutating command and its count would be lost. `BaseOf` is
R10's key of a command, its words with one blank between them. A line break is
white space too, so a script of two lines has the key of the one command made
of the same words: a mutating script may be taken for another command's re-run.
`OwnKey` says of a command that this cannot happen to it, and `ApprovalUnblocks`
is about such commands.

**ViolationStore.** Each file operation is one step: `LoadCounts`, `Snapshot`,
`WriteTmp`, `Rename`, `AppendRow`. Processes may end between any two of them
(`Exit`). Rows are a set, for their order tells nothing. A row of the old shape is
carried over if it has a time and a family that is still known (`Carried`). One
without a session is given a made-up one by `migrateRows` (`legacy-line-N`, N counting
the rows so far): within one migration it is no other row's, and a file that a
migration wrote has no old rows left, so `sid = None` stands for it. The rows of
adopted lessons go the same way as any other and earn nothing; they are rows of a
family without a lesson.

**NativeDispatch.** One module for piread and piedit, whose dispatch is the same
but for `dying` and the refusal of a torn-down slot (piread) and the mutation
queue (piedit); `tool` chooses. A call goes to its daemon or, with an input that
piread does not take (an image, a path that is no string), to the built-in tool at
once. Pipes are sequences; `notices` and `lost` are the
events and write callbacks not delivered yet, and `Line`, `Notice`,
`WriteCallback` and `Abort` deliver them in any order. `KillDaemon` is
`killDaemon` as its callers use it. `HostExit` is Node leaving when `LoopHeld`
is false. `ImplementsToolCall` is the refinement: `started`, `signalled` and
`outcome` of `ToolCall` are `pc # "idle"`, `aborted` and `result`.

**PibashDispatch.** As above, with the shells as processes of their own
(`shells`), which outlive the daemon; `ran` remembers which rungs started a
command. A turn has one abort signal for all its calls. Update lines only show
output and are left out.

**PibashText, PibashOutput.** A text is a sequence over a handful of bytes and
characters: a plain one, one that makes its line actionable, the newline, one that
stands for a carriage return or an escape sequence, the two halves of a wide
character, U+FFFD, the omission marker, the note on a repeated line. `DecodeInto`,
`TruncateTail`, `Strip`, `Dedup`, `HeadTail`, `KeptLines` and `ErrorPriority` are the
functions of `accumulator.rs`, `truncate.rs` and `compress.rs` with their limits as
constants; they are written with the folds and selections of the community modules, or
by position, without recursion. `PibashOutput` runs them: `Write`, `ReadPipe`,
`Flush`, `Finish` are the way of the bytes - pipe, reader thread, channel, batch,
accumulator -, `Reaped`, `WaitFails`, `Deadline` the ends of the loop in `runner.rs`,
`DrainReturns` the drain. The accumulator is the record `acc`; `Count` and `Keep` are
the two halves of `append`. At any chunk the spill file may be impossible to make, or
a write to it be lost, which the code does not notice (`Writes`); and when the answer
is built it may not be readable. `Compressed` is what the compression may give and
`Response` the whole answer: the compressed text goes through a second accumulator
(`Shadow`), and the display of that is what the model sees. `acc.decoded` is a ghost,
the whole text decoded so far, against which the display is judged; so are `wrote`,
`fed`, `lapsed` (the grace period ended before the pipes did) and `hole` (a chunk that
the spill file did not get).

**Subagents.** A launch is two steps around the shell delay
(`SpawnDefault` / `SpawnRegisters`, `ResumeChecks` / `ResumeRegisters`). A child
whose last turn failed writes its sidecar (`ChildFails`, "closing") and then exits
(`ChildExits`); between the two its parent may see the sidecar, close the pane and
cut it short ("cut"). `PaneLost` is somebody else closing the pane. A
watcher ends by `PollSidecar`, `PollSentinel` or `PollAborted`; having seen the end it
still has to read the session file and close the pane (`Reports`), which may throw into
the same catch as an abort (`Catches`). `ownAborted` and
`modAborted` are the two abort signals a watcher listens to, and `Shutdown` fires
both and clears the map. `MaySpawn` is what is checked before a spawn: no child of
the session's own agent type (`Self`), only agents on its list (`Permitted`).
`StartsChild` and `ClosesPane` are what the ends of a launch share; closing a pane
kills what runs in it. The sandbox
snapshot and the registry are written best effort (`WriteLoadout`,
`RegisterName`, each may fail): a resume needs the name in the registry
(`IsRegistered`) and the snapshot beside the session (`HasLoadout`). The ghost
`unnamed` holds the launches whose registration failed; nothing but the map keeps
their names taken, and `DefaultNameResolves` excepts them.

**SubagentStatus.** One child and one parent, each single-threaded. The recorder is
`rec`, `disabled`, `failures`, `pending`; `Record` is `record()`, and every event
handler of `subagent-done.ts` is an action through it. Whether the throttle has
elapsed is a choice (`FlushThrottled`), and so is whether a write succeeds. The
sequence numbers say only whether the parent has taken over the snapshot on disk
(`seen`): snapshots are written in order, and a session reloaded in its pane, whose
numbers start again, is taken to need more than one tick of the clock. `Observed`,
`Forced` and `Kind` are `observeStatus`, `forceStatusAfterInterrupt` and
`classifyStatus`, and `Advanced` the last of them stored (`advanceStatusState`); the
looks of the parent are `WatchTick`, `StatusTick`, `Steer` and `SteerFails`.
`writeFileSync` of a question is two steps (`AskQuestion` empties the file,
`QuestionWritten` fills it), either of which may throw, and so is its delivery (read,
then unlink). The order of pi's events - runs, turns, tools inside turns, several tool
calls a count - is external. A message typed before a question was asked and read
after it counts as its answer, as in the code. Ghosts: `open` and `superseded` follow
the question, `calm` and `due` a question written without the parent touching the
file, `quietSince` the parent's last knowledge, `fresh` in a snapshot that it was
recorded after the last steer. Of the tick of the steer itself, a snapshot on disk
counts as earlier and one that the throttle holds back as later, for time and sequence
number, which are all the parent has, do not tell them apart.

**Companion.** A launch goes through `Launch` (start-server.sh and the load of
`.last-port`), `ReadToken`, `Bind` or `AddressInUse`, `PublishPort`, `Started`: the two
files are read and written by separate steps, so that other servers of the
project come in between. It ends by `Shutdown` (the watchdog; when its
conditions - the owner dead, too long idle - hold is left open), `Stop`
(stop-server.sh) or `Killed`, which may strike between any two steps and also stands
for a bind that fails otherwise than by a port in use. Writing either file may fail,
and leave it as it was or empty. `WriteScreen` is the agent writing a file,
`Announce` the debounce timer that clears the events of the last screen and tells
the tab to reload. The tab's actions are the callbacks of `helper.js`:
`Connect` is onopen with the flush of the queue, `Disconnect` and `Breaks` are onclose
(the server went, or only the connection), `Reload` is
onmessage or `reloadAfterRecovery`. Ports and tokens are numbers, a launch's own
being its own number. Ghosts: `blind` in a server that found a file missing,
`raced` once such a server replaced an address recorded meanwhile or a write of it
failed, `of` in the tab,
which is the session its page belongs to and 0 once an announcement passed it by.
The frames of the WebSocket, branding and the files under `/files/` are left out.

Operators whose comment begins with `Fault:` are deliberate faults, one for every
property; putting one in the place of the definition it names in
`PROJECT.json` must make TLC find the property violated.

## 3. Runs and bounds

| Run | Instance | Why it is enough to show the cases |
|---|---|---|
| `gate_coverage` | 2 calls, a file of at most 3 lines that may not exist, 2 content changes, 2 windows, 2 edit shapes, writes of 1 and of 3 lines; truncation at 1 line, compaction at 4, R1b above 1 line for windows of 2 and more | two calls overlap in every order with an outside write or deletion between any of their steps; one edit joins lines, the other deletes a line before a fuzzy region that grows; a read comes whole, cut, compacted or not at all, or is too big; 1 588 912 states |
| `gate_bash` | 2 calls, a verify, a destructive and a rejected command, a destructive script with the verify's key, an edit, 1 mutation | every pair of handlers interleaves, with and without a UI; 2 803 737 states |
| `native_dispatch` | 2 calls of one file, 2 daemons in succession, either tool, aborts | the second call meets the daemon starting, answering, dying, and replaced; 70 542 states |
| `pibash_dispatch` | 2 calls, 2 daemons, 2 losses, all commands endless or none | a call runs while the other is queued behind it, and each start beyond the first has a loss to pay for it; 171 541 states |
| `pibash_output` | 3 writes of 4 words (an error in colour above equal lines, half a wide character, a long undecodable error line, blank lines); display and budget of 6 lines and 8 bytes, structured cap 9, a deadline | each limit - rolling tail, spill, display, budget, structured cap - is passed within three writes, the display's by bytes and by lines, context lines fit beside the error lines or do not, and the deadline falls anywhere; 326 681 states |
| `violation_store` | 2 processes, 5 rows, compaction at 2, old rows without sid, of a fallback and without a time, a blob | both compact at once, die and reload; the threshold is reached only through every source; 1 665 970 states |
| `subagents` | 3 launches of 2 agents by a session that is one of them, one explicit name, one loss (a snapshot, a registration, a result or a pane) | two spawns and a resume, or a spawn and two resumes, over shutdowns and restarts, with a loss anywhere; 803 530 states |
| `subagent_status` | 1 tick of the clock, a stall after 1, 1 tool at a time, 1 steer, 1 subagent of the child, 1 reload, 2 failing writes in a row switch the recorder off | every message, snapshot and question can be early, late, lost or stale once against every other; 1 058 301 states |
| `companion` | 2 launches, the second by a rival at any time, 2 screens written, 2 clicks, one tab | the second server starts before, while and after the first publishes, takes its address over or falls back; either is killed at any step; the tab is cut off, queues, reloads and moves; 931 740 states |
| `pibash_split` | two words that split a wide character | *violation* of `DecodedOnce`: section 5 |
| `coverage_stale_merge` | one call, one outside change | *violation* of `CoverageInContext` |
| `subagent_resume` | as `subagents` | *violation* of `OneProcessPerSession` |

In `gate_coverage` a compaction limit of 4 leaves one whole line beside the
marker and its blanks (the code's 40 leaves 37); a limit of 1 to 3 would leave
none, and the assumption of the module excludes it. With truncation at 1 no line
of the body stands in the tail of a compacted text; what such a read certifies is
covered by the proofs, which hold for every limit. `MaxVer`,
`MaxLines`, `MaxSeq`, `MaxGens`, `MaxLost`, `MaxWrites`, `MaxRows`, `MaxLaunches`,
`NLaunches`, `MaxClicks`, `MaxClock`, `MaxTools`, `MaxSteers` and `MaxKids` are the
bounds; each is named in its module (in the pibash modules `MaxLines` and
`MaxBytes` are no bounds but the limits of a display). Symmetry (of the two calls) is used
in `gate_coverage` only, which checks no liveness. Deadlock is not checked where
behaviours end: all calls done, the host exited, a bound reached. The store
never stops (a process can always be started), and a pibash command that is done
stutters; there it is checked.

### Fairness

* `GateCoverage`, `GateBash`, `ViolationStore`, `SubagentStatus`: none; their
  properties are about states and steps.
* `NativeDispatch`: the event loop delivers events and callbacks; a daemon that
  is up takes and answers requests; a piread child is bounded by
  `ONESHOT_TIMEOUT_MS`; a piedit child and pi's built-in tools are *assumed* to
  end, for the code sets them no deadline, and neither does it set one on the
  daemon rung: a daemon that hangs without dying holds its calls.
  Nobody has to abort, crash or start a call.
* `PibashDispatch`: the same, and a command that is not endless ends; no request
  need have a deadline. `Settles` is stated for commands that end,
  `AbortEndsDaemonRung` for those that do not, too.
* `PibashOutput`: a spawn returns, the run loop notices that the shell is gone,
  the drain ends with its grace. Nothing is assumed of the shell, of what it
  leaves behind, or of the pipes.
* `Subagents`: watchers poll on their interval; a child need not exit.
* `Companion`: the event loop of a server that lives turns (a choice received is
  handled, a debounce timer fires), and that of the tab (its socket opens or
  closes, its reconnect timer fires, a reload message is acted upon). No launch
  has to go on, no user or agent has to act.
* `ToolCall`: a call that was started settles.

## 4. Proofs

Eight modules hold theorems. Each proves an inductive invariant - `Init` implies
it, every step keeps it, one step of the proof per action - and reads the
properties off it. They hold for every value of the constants that meets the
assumption of the module, which TLC evaluates in every run of it. Where a
property is not inductive as it stands, the reason is given below.

**GateCoverageProofs**: `TypeCorrect`, `CoverageIsInContext`
(`TightCoverageInContext`), `EditsReplaceShown` (`EditReplacesShown`),
`GuardsNeverDeadlock` (`NoGuardDeadlock`), for every number of calls, file length, set
of windows and of edit shapes and any limits of truncation, compaction and R1b. A
first invariant is `IInv == TypeOK /\ StatBindsContent`, the second part of which - a
tight entry that has the file's stat has the file's content - is a step of the other
proofs and no claim about the code: it holds since the model gives every visible
change a stat of its own, its reading of "mtime and size moved" (`ChangeKeeps`). A
change that keeps them is `HiddenWrite`, which makes the entry loose.
`GuardsNeverDeadlock` shows that the reasons for a block each leave an entry that does
not cover, or does not match, some line of what was to be replaced, and that a read of
one line is no big read (`OneLineRead`).

`CoverageIsInContext` needs much more, and rests on
`StatBindsContent` for its last step only. Its invariant `Shown` follows each content
that matters, from the moment a step read it, by one remark: every line a change
brings is new (`FreshFile`), so a change can only take lines of an older content
away. `BasisShown` says that the lines the entry claims of the certified content,
and which are still on disk, were shown; there the stat does not occur, and so
changes keep it. `Editing` carries the entry's claim from the admission of an edit
to its execution: as long as no line the edit was admitted on is gone, the stat
of the admission stands for that content, and each region matched exactly has a line
there that was shown (`RegionShown`). That is `EditsReplaceShown`, at whatever lines the
tool then finds the text, and whatever others did to the rest of the file: what they add
is new and what they take away is not replaced. `Edited` carries it from the execution to
the booking: the lines the gate will book are the edit's own (`OverlayNew`), and
those before its first region stand where they stood (`OverlayKeeps`), which is all
that `SpansBefore` leaves; that no gap is needed behind them is where the truncation
at the first edited line comes in. The lemmas about `Overlay` are for any
disjoint regions: `Moved` keeps lines in order and apart, and steps by one where
no region is. They are inductions over line numbers, written with a least
counterexample (`LeastNat`), since the library's induction theorems cannot be
instantiated; `Grown` is stated as a difference of two cardinalities and not as a
fold, so that facts about cardinalities say what it adds up to.
The assumption of `GateCoverage` says that windows are not empty, edits are finite
and `None` is no line number.

**GateBashProofs**: `TypeCorrect`, `RerunsJustified` (`RerunBlockJustified`),
`ApprovalHolds` (`ApprovalUnblocks`), `NeverUnapproved` (`UnapprovedNeverRuns`),
for any calls, commands and keys. `RerunBlockJustified` compares the counter
`mutationSeq` with what really happened to the tree, and the two differ while a
mutation has run and its result is not booked. `Counted` says by how much:
`mutationSeq` and the number of such calls (`Uncounted`) add up to the mutations
there were. So a record made before a mutation either has an older count or
that mutation is still `Uncounted` (`Fresh`), and no record is of a later count
than the present one (`Earlier`). For `ApprovalUnblocks` neither rule may have
anything on record against an approved command (`Exempt`): a block by another
family would arm Re-block against it, and its own run is counted as a mutation
before the next one of it asks. What the handlers remember of a call is that call's
command, in whatever order results come (`Keyed`); and `UnapprovedNeverRuns` follows
from a dialog being about its call's own command and the approval slot holding
nothing that was not granted. `MaxSeq` bounds the mutations, and nothing else of
the proof depends on it.

**NativeDispatchProofs**: `TypeCorrect` (with `AwaitedInSlot`),
`NeverExitsUnsettled` (`NoUnsettledExit`), `AnswersNeverCross` (`AnswersBelong`),
`EditsSerialise` (`QueueExcludes`) and `KeepsPromise`, for any calls, files,
assignment of calls to files and number of daemons. The invariant has three
parts beside the properties. `Slots`: a generation not yet started is untouched,
only the one in the slot has requests pending, at most one per call, and it is
ref'd as long as it has; so whoever awaits the daemon holds the event loop.
`Queued`: a queue holds the calls of its file that are under way, each once, and
whoever is on the daemon or the one-shot rung is at its head; so a call that waits
in the queue has somebody ahead of it that holds the loop (`HeldWhileAwaited`).
`Ids`: an envelope on its way has an id that was given out before, and whoever
still awaits that id is the call it is for; so an answer finds its own request, or
none.
`KeepsPromise` is the safety half of `ImplementsToolCall`: every initial state of
`NativeDispatch` maps to one of `ToolCall` and every step to a step of it or a
stutter, so that no call settles twice, or as aborted without a signal. That
every call does settle is fairness, and stays with TLC.

**PibashProofs**: `TypeCorrect` (with `AwaitedInSlot`), `RunsCostLosses`
(`RunsOnceUnlessLost`), for any number of calls, daemons and losses. A second
start of a command needs the rung below it, and a rung is left downwards only when
something was lost. `Lossless` says what a run without a loss looks like: every
daemon is up and unnoticed, no answer is missing or odd, no call is below the
daemon rung. `Climbs` carries the count on: rungs follow one another, and a
command that both the one-shot and the built-in tool started was lost twice. It
says nothing of the daemon, for a command in the daemon's queue may start after its
call has gone on to a lower rung.

Of `PibashOutput`, whose definitions start with `Output` where both modules have one:
`StreamIsKept` (`StreamKept`), `ErrorsSurvive` (`ErrorLinesSurvive`),
`OutputTypeCorrect` (`OutputTypeOK`), `SnapshotsAreTails` (`SnapshotIsTail`), for any
words a command writes, any cuts into reads, any number of writes and any limits. Two
invariants carry them. `FlowInv` follows the bytes: what a stream has written is, in
order, what the accumulator was fed of it, what the channel holds of it and what is in
its pipe (`Ordered`); what was fed is in memory or in the spill file unless writing
that file failed (`RawKept`); once the answer is built the channel is empty, and so
are the pipes unless the grace period ended first (`Emptied`). `Counted` follows the
text: the counters are those of the decoded text, and the rolling tail is its end.
`Before` says what was trimmed off: it ends a line just when `atBoundary` says so, and
a tail that has lost anything is still at least `2 * MaxBytes - 2` long, for a cut
gives up at most two bytes to end between two characters. `SnapshotIsTail` needs that
last remark. A display drops what is left of the line at the tail's front; it may do
so because that line together with the rest of the tail is longer than a display, so
`truncate_tail` of the whole text would not have reached it either (`TakenShows`).
What it would have kept is then found in the tail: the last lines of a text are those
of its continuation (`LinesCat`), joined again they are its end (`JoinText`), and the
end of a last line that alone is too long is cut at the same place (`CutSame`). A
character has up to three bytes, and the code's 50 KiB hold one: `TextAssumption` says
`MaxBytes >= 3`. `ErrorLinesSurvive` follows a line on its way. What stands between
two newlines of a text without one inside is a line of it (`PieceIsLine`,
`BetweenIsLine`), and a line stands there (`LineIsBetween`); so stripping escape
sequences strips a line as it does the text (`StripKeepsLine`), a line is found again
after the kept lines were joined and split once more, and folding repeated lines and
filling in context never drop an actionable one (`CompressKeeps`). What the second
accumulator makes of it is `SnapshotIsTail` again (`ShadowHolds`, `DisplayShows`): a
display shows every line from the first that its note names. Sequences are taken apart
at their last element. The library's induction theorems cannot be instantiated, but
what it says of well-founded relations (`WFMin`) is about sets, and gives induction
for the set of numbers or of sequences of which a claim holds (`NatInduct`,
`SeqInduct`). That is within reach because no definition of the two modules is
RECURSIVE.

**SubagentsProofs**: `TypeCorrect`, `DefaultNamesResolve` (`DefaultNameResolves`),
`ShutdownOnlyDetaches` (`ShutdownDetaches`), `ResultsSawFinish`, for every number of
launches, agents, names and losses. `DefaultNameResolves` needs that a chosen name
stays taken between its choice and its registration, by the reservation, and after it,
by the registry (`NamesKept`), unless the registration failed (`unnamed`);
`ShutdownDetaches` that whoever watches is in the map or has its own signal fired,
that the module's signal never fires alone, and that no child is killed while it is
watched (`Signalled`). `ResultsSawFinish` is the safety half of `ExitReported`: a result, or
an error in fetching it, is reported only after a child on that session had finished
its work, for it wrote the sidecar that ends the watch, or exited (`Reported`); which
one, when a session has been resumed, the code cannot tell. It need not have exited:
closing the pane may cut its shutdown short. The assumption of `Subagents` says that
`None` is none of the strings used beside it.

**SubagentStatusProofs**: `TypeCorrect`, `ThrottleKeeps`
(`UnflushedIsScheduled`), `OverrideHolds` (`SteerHolds`), `QuestionsKept`
(`QuestionKept`), `StallsJustified` (`StallMeansSilence`), for any stall time,
throttle and number of ticks, tools, steers, reloads and subagents. Every handler
of the child is one of five steps of the recorder (`Notes`, `Writes`, `Stops`,
`Reloads`, `Rests`), so the parts of the invariant are kept by five arguments and
not by thirty. `Recorder`: a timer is armed only for a throttled event of a child
at work, and what is on disk is never later than what is recorded. `Viewed`: the
view is either the last snapshot taken over or a steer since; only a snapshot of a
child at work, written late by its timer, can be older than the steer. `Steered`
ties the two: what was recorded before the last steer is held off by the
override's time, whether it is on disk already or still waits for the timer.
`Questions`: a question that was due is whole in the file or in the parent's hands,
and its asker is not on its way out with it open.

**CompanionProofs**: `TypeCorrect`, `AddressKeptHolds` (`AddressKept`),
`ChoicesKeepOrder` (`ChoicesOnceInOrder`), for every number of launches, rivals,
screens and clicks. `AddressKept` is about servers that live;
its invariant says in advance what a server on its way up will publish.
`SeenIsRecorded`: a server that found both files holds what they say.
`PortRecorded`: the port file goes first. Together: as long as nobody published
blindly over an address and no write failed (`raced`), each file changes once, from empty to
the address of the first server that published. `ChoicesOnceInOrder` is about what
sessions have recorded; its invariant, `Session`, follows the choices there.
`Flow`: those recorded are earlier than those on the wire, and those earlier than
the queue's, so that a step from one to the next never overtakes and never doubles.
`Watching` is why it is kept: the wire is empty unless the socket is open, and the
queue is empty while it is.

**ViolationStoreProofs**: `KeepsWhatItMay` (`KeepsUnraced`), `TypeCorrect`,
`LessonsAreEarned` (`LessonsEarned`), for any processes,
families, rows at the outset and sizes. `KeepsUnraced` is about the file; the
invariant is that what is owed is covered - by the same row, or by it in the
current shape - not only by the file, but by the rows a compacting process has
read until it wrote them, and by the temporary file while somebody is about to
rename it. Processes overwrite each other's temporary file, rename it for each
other and die in between; but a row that is owed was in the file before the
compaction under way began to read, for one appended while anybody compacts is
raced. `LessonsEarned` counts sessions in what was ever written (`Earned`): every
copy of the store stems from rows that were written (`Stems`), so what a process
counts in its copy is at most that (`KeysFinite`, and the library's facts on
cardinalities). The assumption that the file at the outset is finite is the only
one it adds.

Every invariant and action property of the passing runs is proved. Model-checked only:

* Liveness: `ShowsNewest`, `Recovers`, `AbortEndsDaemonRung`, `Settles`,
  `Returns`, the halves of `ExitReported` and `ImplementsToolCall` that say that
  something does happen. The prover has neither ENABLED nor fairness.

## 5. Where the code and its documentation differ

Three have a run that TLC must refute; the quotations are in `PROJECT.json`.

* `pibash_split` - the streaming decoder is to decode a character that is split
  over two reads once. `decode_into` completes it with the first three bytes of
  the next chunk; when these end inside the next character, that one's first byte
  is kept for the chunk after, and the rest of this chunk is decoded without it.
  Partial results, counters and the text of a command that timed out show it.
* `coverage_stale_merge` - `certify` merges old spans under the new stat when a
  window that was not covered is read after an outside change.
* `subagent_resume` - the guard against two processes on one session file does
  not see a resume still launching, nor children a shutdown detached from.

Others were met and have no run of their own.

*Gate.* The README of the repository says that compaction keeps read coverage correct
(`src/README.md:239`). A read that was not truncated has no `details.truncation`; the
gate counts the compacted text, or takes a whole-file read as whole, and certifies
lines the compaction hid (`TightCoverageInContext`, `unseen`). The compacted text may
even have more lines than the window: of a read with `limit` 1 of one line longer than
the budget of bytes, in a file that goes on, the part shown, the marker and the blanks
about it are counted, and lines 2 to 4, which nobody asked for, are certified and then
may not be read (`index.ts:1011`). A run of a command is recorded under the mutation
counter of its `tool_result`, so it seems to have seen an edit booked meanwhile
(`RerunBlockJustified`, `raced`). A compaction of the store drops a row appended while
it ran (`KeepsUnraced`, `raced`). A script of two lines has the R10 key of the command
made of the same words, and is blocked as its re-run, approved or not
(`ApprovalUnblocks`, `OwnKey`).

The guards have one dead end. A file that exists and is empty may not be written, for
it was never read, and the advice is "one targeted read" (`index.ts:769-781`); but a
read of it returns no lines and certifies none (`NoGuardDeadlock` is about files with
lines). And what the gate admits it does not hold on to: a whole-file write replaces what
another program wrote between the admission and the tool's turn, and so does an edit
whose text is still there beside it (`EditReplacesShown` is about the text replaced).

*piedit.* The abort listener rejects the daemon request, and with it the queue is
released while the daemon works on (`index.ts:362` against 509-510). A request that
the daemon cannot parse - a string with half a surrogate pair is valid JSON to Node
and none to serde - is answered with a null id (piread `serve.rs:70-77`, piedit
`serve.rs:107-121`, pibash `serve.rs:112-124`), which the host drops
(`index.ts:335-341`): the call waits until it is aborted, in pibash until the daemon
ends. The models leave such requests out.

*pibash.* The note of a display that is truncated again after compression names the
spill file of that second pass, which is then deleted (`main.rs:160-175`). A spill
file that cannot be made, or written, leaves a hole (`StreamKept`, `hole`); one that
cannot be read makes an empty answer that says it is truncated. The formatters are to
produce a view that "never drops actionable lines" (`compress.rs:5-9`), but the two
ends of the context in `error_priority` may each take the whole budget of bytes, and
when nothing is dropped the text goes on to `head_tail`, which may cut error lines, as
it may in any output that is not of a test or build command (`ErrorLinesSurvive`
excepts the strategy, which the answer names). A complete last line longer than the
trimmed tail gives an empty display (`SnapshotIsTail`, `LongLastLine`), and the length
reported of a last line that is complete is 0. What a background process writes after
the grace of 30 ms is lost, by design.

*Subagents.* Any run of the child clears `awaitingAnswer`, also one that the result of
its own subagent starts; at its end the child exits with its question open
(`subagent-done.ts:222`; `QuestionKept`, `superseded`). A question whose file cannot
be written leaves the child parked with nothing asked (`subagent-done.ts:371-376`). A
question is dropped when the parent reads the file half-written, or when a second one
overwrites it (`QuestionKept`, `calm`). A child reloaded in its pane is stalled at
once, for "starting" is timed from the first observation ever (`StallMeansSilence`). A
last snapshot whose write failed is not written again (`UnflushedIsScheduled`,
`failures`). A subagent whose registration failed keeps its name only as long as it is
in the map: afterwards another may be given it, and resume and steer by name find that
one (`DefaultNameResolves`, `unnamed`). A child that somebody else took the pane of
before its end was seen is watched for ever: each round fails to read the screen,
finds no sidecar and goes on (`tmux.ts:407-418`; `ExitReported`, `panes`). A child
that wrote its sidecar may be killed in its shutdown, for its parent reports the
result and closes the pane at once (`subagent-done.ts:252-267`, `tmux.ts:381-387`).

*Companion.* Two launches that both found no address recorded overwrite each other's,
and a write that fails can leave one file old or empty (`AddressKept`, `raced`). A
reload message that falls between a page's fetch and its socket, or into an outage
shorter than the tombstone, is missed, and the tab stays on the old screen until the
next one (`ShowsNewest`, `of`). A tab that reloads while no server is there becomes an
error page, which runs no script (`Recovers`). A server that is killed leaves
`server-info` and seems alive to the agent. A choice of an old screen that arrives
after the next was announced is recorded for that one, and choices on the wire are
lost with the server.

## 6. Assumptions and what is not modelled

* Each handler is one step, though it awaits stat and hash in between; splitting
  them is planned. Rules are switched on as `config.ts` has them by default, and
  the gate's block on an internal error is left out.
* The file operations of the store are atomic; so are a file's read and write by
  a tool (`fs::write` truncates first, and a crash there is not modelled).
* 16 hex digits of a hash do not collide; files stay under the 1 MiB hash cap.
* Requests the host writes parse in the daemon, so it echoes their ids (section 5
  says when they do not); pids are not reused.
* A session shuts down with no tool call in flight; a session's registry has
  one writer at a time.
* The sandbox snapshot and the registration of a subagent, the fetching of its
  result and its pane may fail or be lost, up to `MaxLost` times together.
* What fails changed nothing (`GateBash`). A half-done command or an edit
  aborted after it was applied does not move `mutationSeq` in the code either.
* Words of a command's output are cut into reads as the reader threads find
  them; a read is at most what the pipe holds. An escape sequence is one byte, so
  none is split by a read or by the end of a line; the patterns of
  `is_actionable` are a class of characters; the class of the command is an input.
  What `BufWriter` loses of a failed write is the whole chunk, and the two reads of a
  spill file for an answer both succeed or both fail.
* Ports and tokens a companion draws are new; a port in use may be anybody's
  (`AddressInUse` needs no cause). There is one tab: each tab has its own socket,
  and they share nothing but the server.
* The gate's cap on what a read returns (`capReadOutput`, 300 lines or 8 KB) is
  above what piread leaves after compaction and is not modelled; it applies to a
  text that piread leaves alone because it holds an omission marker, or with the
  compaction switched off.
* Not modelled: the replay of a resumed branch into coverage, images, the
  protected-path confirm, widgets, a human typing in a child's pane,
  children that run Claude, what is in a session file and how a resumed one is
  seeded, streamed partial results on the host's side, the
  fuzzy matcher and the renderings of piread and piedit, the companion's HTTP and
  WebSocket framing and its watchdog's clock, and the components that
  `PROJECT.json` marks so.

## 7. Plan

1. *Done:* the models of section 2 and the proofs of section 4.
2. Models next, in this order: the replay of a resumed session and handlers
   split at their awaits in GateCoverage; a composition of NativeDispatch with
   the file, for an edit applied by a daemon that dies before it answers; the pidx
   cache, two passes over one file; the protected-path confirm.
3. Proofs next: that `Located` and `Overlay` together give what the booking of an
   edit counts when the file moved in between, so that fewer steps need be
   `loose`; that `DecodedOnce` does hold of a stream whose reads never split a
   character.
