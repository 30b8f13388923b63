------------------------------ MODULE GateBash ------------------------------
(***************************************************************************)
(* The permission gate's rules on shell commands: Re-block (no verbatim    *)
(* re-send of a blocked command), the command-shape rules, the approval    *)
(* ladder for destructive commands, and R10 (no identical re-run while     *)
(* nothing changed).  A command goes through three handlers - tool_call,   *)
(* the tool, tool_result - and calls of one turn overlap; a dialog leaves  *)
(* the tool_call handler suspended in between.                             *)
(*                                                                         *)
(* The clock is abstracted: a record's window may elapse at any time, and  *)
(* from then on the record is as good as absent.                           *)
(***************************************************************************)
EXTENDS Naturals, FiniteSets

CONSTANTS
    Calls,        \* tool calls that may be in flight together
    Cmds,         \* shell commands, verbatim
    BaseOf,       \* R10's key of a command
    Rejected,     \* commands a command-shape rule always blocks
    Destructive,  \* segmentDestructive holds of a segment
    Mutating,     \* isMutatingCommand
    Watchers,     \* watch, sleep, tail -f, --watch
    Edit,         \* stands for an edit or write call
    MaxSeq,       \* bound: mutations of the tree
    None

Bases == {BaseOf[m] : m \in Cmds}

ASSUME BashAssumption ==
    /\ Rejected \subseteq Cmds /\ Watchers \subseteq Cmds
    /\ Destructive \subseteq Mutating /\ Mutating \subseteq Cmds
    /\ Edit \notin Cmds /\ None \notin Cmds \cup Bases
    /\ MaxSeq \in Nat

VARIABLES
    hasUI,            \* is there a confirm dialog in this session?
    run,              \* where each call is, and with which command
    dialog,           \* calls whose confirm dialog is still on the screen
    pendingBash,      \* toolCallId -> base, set when all checks passed
    pendingBashFull,  \* toolCallId -> verbatim command
    lastBashRun,      \* base -> record of the last completed run
    lastBlockedBash,  \* the last blocked command, or None
    mutationSeq,
    lastApproved,     \* lastApprovedDestructive: a command or None
    promptApproves,   \* the latest user message approves
    tree,             \* ghost: mutations that took effect on the work tree
    shown,            \* ghost: bases whose recorded run saw this very tree
    granted           \* ghost: commands approved in a dialog, window open

vars == <<hasUI, run, dialog, pendingBash, pendingBashFull, lastBashRun,
          lastBlockedBash, mutationSeq, lastApproved, promptApproves,
          tree, shown, granted>>

Idle == [at |-> "idle"]
AllIdle == \A c \in Calls : run[c] = Idle

-----------------------------------------------------------------------------
\* Re-block: the exact command was blocked a moment ago and nothing changed.
Reblocks(m) ==
    /\ lastBlockedBash # None
    /\ lastBlockedBash.cmd = m
    /\ lastBlockedBash.mut = mutationSeq

\* confirmDestructive, the rungs that need no dialog.
Approved(m) == promptApproves \/ lastApproved = m

\* Fault: R10 forgets to compare the mutation counter.
RerunsAnyTree(m) ==
    LET prior == lastBashRun[BaseOf[m]]
    IN  prior # None /\ ~prior.failed /\ m \notin Watchers

\* R10: an identical, successful run with no mutation since.
Reruns(m) ==
    LET prior == lastBashRun[BaseOf[m]]
    IN  /\ prior # None
        /\ ~prior.failed
        /\ m \notin Watchers
        /\ prior.mut = mutationSeq

\* Fault: the destructive family is not told apart.
BlockedAsRule(c, m, family) ==
    /\ run' = [run EXCEPT ![c] = [at |-> "blocked", cmd |-> m,
                                  family |-> IF family = "Re-run" THEN family
                                             ELSE "Rule"]]
    /\ UNCHANGED pendingBash

Blocked(c, m, family) ==
    /\ run' = [run EXCEPT ![c] = [at |-> "blocked", cmd |-> m, family |-> family]]
    /\ UNCHANGED pendingBash

\* The end of the tool_call handler: R10, then let the call run.
Finish(c, m) ==
    \/ Reruns(m) /\ Blocked(c, m, "Re-run")
    \/ /\ ~Reruns(m)
       /\ pendingBash' = [pendingBash EXCEPT ![c] = BaseOf[m]]
       /\ run' = [run EXCEPT ![c] = [at |-> "running", cmd |-> m,
                                     seq |-> mutationSeq]]

-----------------------------------------------------------------------------
Init ==
    /\ run = [c \in Calls |-> Idle] /\ dialog = {}
    /\ pendingBash = [c \in Calls |-> None]
    /\ pendingBashFull = [c \in Calls |-> None]
    /\ lastBashRun = [b \in Bases |-> None]
    /\ lastBlockedBash = None
    /\ mutationSeq = 0
    /\ lastApproved = None
    /\ promptApproves = FALSE
    /\ tree = 0 /\ shown = {} /\ granted = {}
    /\ hasUI \in BOOLEAN

\* tool_call(pibash), up to the dialog or to the end.
BashCall(c, m) ==
    /\ run[c] = Idle /\ c \notin dialog
    /\ pendingBashFull' = [pendingBashFull EXCEPT ![c] = m]
    /\ \/ Reblocks(m) /\ Blocked(c, m, "Re-block") /\ UNCHANGED dialog
       \/ /\ ~Reblocks(m) /\ m \in Rejected
          /\ Blocked(c, m, "Rule") /\ UNCHANGED dialog
       \/ /\ ~Reblocks(m) /\ m \notin Rejected
          /\ m \in Destructive /\ ~Approved(m)
          /\ IF hasUI
             THEN /\ run' = [run EXCEPT ![c] = [at |-> "confirming", cmd |-> m]]
                  /\ dialog' = dialog \cup {c}
                  /\ UNCHANGED pendingBash
             ELSE Blocked(c, m, "Destructive") /\ UNCHANGED dialog
       \/ /\ ~Reblocks(m) /\ m \notin Rejected
          /\ m \in Destructive => Approved(m)
          /\ Finish(c, m) /\ UNCHANGED dialog
    /\ UNCHANGED <<hasUI, lastBashRun, lastBlockedBash, mutationSeq, lastApproved,
                   promptApproves, tree, shown, granted>>

\* The user answers the dialog; the race takes the answer only if the timer
\* has not won it.
UserAnswers(c, yes) ==
    /\ c \in dialog
    /\ dialog' = dialog \ {c}
    /\ LET m == run[c].cmd
       IN  \/ /\ run[c].at = "confirming" /\ yes
              /\ lastApproved' = m
              /\ granted' = granted \cup {m}
              /\ Finish(c, m)
           \/ /\ run[c].at = "confirming" /\ ~yes
              /\ Blocked(c, m, "Destructive")
              /\ UNCHANGED <<lastApproved, granted>>
           \/ /\ run[c].at # "confirming"
              /\ UNCHANGED <<run, pendingBash, lastApproved, granted>>
    /\ UNCHANGED <<hasUI, pendingBashFull, lastBashRun, lastBlockedBash, mutationSeq,
                   promptApproves, tree, shown>>

\* Fault: the timer fails open.
ConfirmTimeoutOpen(c) ==
    /\ run[c].at = "confirming"
    /\ Finish(c, run[c].cmd)
    /\ UNCHANGED <<hasUI, dialog, pendingBashFull, lastBashRun, lastBlockedBash,
                   mutationSeq, lastApproved, promptApproves, tree, shown,
                   granted>>

\* The dialog's timer fires first: fail closed; the dialog stays open.
ConfirmTimeout(c) ==
    /\ run[c].at = "confirming"
    /\ Blocked(c, run[c].cmd, "Destructive")
    /\ UNCHANGED <<hasUI, dialog, pendingBashFull, lastBashRun, lastBlockedBash,
                   mutationSeq, lastApproved, promptApproves, tree, shown,
                   granted>>

\* An edit or write passes its own rules.
EditCall(c) ==
    /\ run[c] = Idle /\ c \notin dialog
    /\ run' = [run EXCEPT ![c] = [at |-> "running", cmd |-> Edit,
                                  seq |-> mutationSeq]]
    /\ UNCHANGED <<hasUI, dialog, pendingBash, pendingBashFull, lastBashRun,
                   lastBlockedBash, mutationSeq, lastApproved, promptApproves,
                   tree, shown, granted>>

Mutates(m) == m = Edit \/ m \in Mutating

\* The tool runs; what fails changed nothing.  A mutation outdates every
\* output seen before it.
Exec(c, failed) ==
    LET mutates == ~failed /\ Mutates(run[c].cmd)
        Outdate(d) == IF mutates /\ run[d].at = "ran"
                      THEN [run[d] EXCEPT !.current = FALSE] ELSE run[d]
    IN  /\ run[c].at = "running"
        /\ mutates => tree < MaxSeq
        /\ tree' = IF mutates THEN tree + 1 ELSE tree
        /\ shown' = IF mutates THEN {} ELSE shown
        /\ run' = [d \in Calls |->
              IF d # c THEN Outdate(d)
              ELSE [at |-> "ran", cmd |-> run[c].cmd, seq |-> run[c].seq,
                    failed |-> failed, current |-> ~mutates]]
    /\ UNCHANGED <<hasUI, dialog, pendingBash, pendingBashFull, lastBashRun,
                   lastBlockedBash, mutationSeq, lastApproved, promptApproves,
                   granted>>

\* tool_result of a command that ran: record the run, then count a mutation.
BashResult(c) ==
    /\ run[c].at = "ran" /\ run[c].cmd # Edit
    /\ pendingBashFull' = [pendingBashFull EXCEPT ![c] = None]
    /\ pendingBash' = [pendingBash EXCEPT ![c] = None]
    /\ run' = [run EXCEPT ![c] = Idle]
    /\ IF pendingBash[c] = None
       THEN UNCHANGED <<lastBashRun, mutationSeq, shown>>
       ELSE /\ lastBashRun' = [lastBashRun EXCEPT ![pendingBash[c]] =
                  [mut |-> mutationSeq, failed |-> run[c].failed,
                   raced |-> run[c].seq # mutationSeq]]
            /\ mutationSeq' = IF ~run[c].failed /\ Mutates(run[c].cmd)
                              THEN mutationSeq + 1 ELSE mutationSeq
            /\ shown' = IF run[c].current THEN shown \cup {pendingBash[c]}
                                          ELSE shown \ {pendingBash[c]}
    /\ UNCHANGED <<hasUI, dialog, lastBlockedBash, lastApproved, promptApproves,
                   tree, granted>>

\* tool_result of a blocked command arms Re-block, the destructive family
\* excepted.
BlockedResult(c) ==
    /\ run[c].at = "blocked"
    /\ pendingBashFull' = [pendingBashFull EXCEPT ![c] = None]
    /\ run' = [run EXCEPT ![c] = Idle]
    /\ LET family == run[c].family
       IN  lastBlockedBash' =
              IF pendingBashFull[c] = None \/ family = "Destructive"
              THEN lastBlockedBash
              ELSE [cmd |-> pendingBashFull[c], mut |-> mutationSeq]
    /\ UNCHANGED <<hasUI, dialog, pendingBash, lastBashRun, mutationSeq, lastApproved,
                   promptApproves, tree, shown, granted>>

\* tool_result(edit | write)
EditResult(c) ==
    /\ run[c].at = "ran" /\ run[c].cmd = Edit
    /\ mutationSeq' = IF run[c].failed THEN mutationSeq ELSE mutationSeq + 1
    /\ run' = [run EXCEPT ![c] = Idle]
    /\ UNCHANGED <<hasUI, dialog, pendingBash, pendingBashFull, lastBashRun,
                   lastBlockedBash, lastApproved, promptApproves, tree, shown,
                   granted>>

\* before_agent_start: the latest prompt arms or disarms chat approval.
Prompt(approves) ==
    /\ AllIdle
    /\ promptApproves' = approves
    /\ UNCHANGED <<hasUI, run, dialog, pendingBash, pendingBashFull, lastBashRun,
                   lastBlockedBash, mutationSeq, lastApproved, tree, shown,
                   granted>>

\* session_compact: pi compacts when no call is in flight.
SessionCompact ==
    /\ AllIdle
    /\ pendingBash' = [c \in Calls |-> None]
    /\ pendingBashFull' = [c \in Calls |-> None]
    /\ lastBashRun' = [b \in Bases |-> None]
    /\ lastBlockedBash' = None
    /\ UNCHANGED <<hasUI, run, dialog, mutationSeq, lastApproved, promptApproves,
                   tree, shown, granted>>

\* A window elapses: R10's, Re-block's, or the approval's.
RunWindowElapses(b) ==
    /\ lastBashRun[b] # None
    /\ lastBashRun' = [lastBashRun EXCEPT ![b] = None]
    /\ UNCHANGED <<hasUI, run, dialog, pendingBash, pendingBashFull,
                   lastBlockedBash, mutationSeq, lastApproved, promptApproves,
                   tree, shown, granted>>

BlockWindowElapses ==
    /\ lastBlockedBash # None
    /\ lastBlockedBash' = None
    /\ UNCHANGED <<hasUI, run, dialog, pendingBash, pendingBashFull,
                   lastBashRun, mutationSeq, lastApproved, promptApproves,
                   tree, shown, granted>>

\* Fault: the approval outlives its window.
ApprovalKept ==
    /\ granted # {}
    /\ granted' = {}
    /\ UNCHANGED <<hasUI, run, dialog, pendingBash, pendingBashFull,
                   lastBashRun, lastBlockedBash, mutationSeq, lastApproved,
                   promptApproves, tree, shown>>

ApprovalWindowElapses ==
    /\ granted # {}
    /\ granted' = {}
    /\ lastApproved' = None
    /\ UNCHANGED <<hasUI, run, dialog, pendingBash, pendingBashFull,
                   lastBashRun, lastBlockedBash, mutationSeq, promptApproves,
                   tree, shown>>

Next ==
    \/ \E c \in Calls, m \in Cmds : BashCall(c, m)
    \/ \E c \in Calls : \/ \E yes \in BOOLEAN : UserAnswers(c, yes)
                        \/ ConfirmTimeout(c)
                        \/ EditCall(c)
                        \/ \E failed \in BOOLEAN : Exec(c, failed)
                        \/ BashResult(c) \/ BlockedResult(c) \/ EditResult(c)
    \/ \E approves \in BOOLEAN : Prompt(approves)
    \/ SessionCompact
    \/ \E b \in Bases : RunWindowElapses(b)
    \/ BlockWindowElapses \/ ApprovalWindowElapses

Spec == Init /\ [][Next]_vars

-----------------------------------------------------------------------------
TypeOK ==
    /\ dialog \subseteq Calls
    /\ pendingBash \in [Calls -> Bases \cup {None}]
    /\ pendingBashFull \in [Calls -> Cmds \cup {None}]
    /\ \A b \in Bases : lastBashRun[b] # None =>
          lastBashRun[b] \in [mut : 0..MaxSeq, failed : BOOLEAN,
                              raced : BOOLEAN]
    /\ lastBlockedBash # None =>
          lastBlockedBash \in [cmd : Cmds, mut : 0..MaxSeq]
    /\ mutationSeq \in 0..tree /\ tree \in 0..MaxSeq
    /\ lastApproved \in granted \cup {None} /\ granted \subseteq Destructive
    /\ promptApproves \in BOOLEAN

\* The approval ladder (confirmDestructive): a destructive command starts only
\* while the latest prompt approves, or within the window of a dialog in which
\* the user said yes to this very command before the timer fired - whatever
\* other calls, dialogs and late answers happen in between.
UnapprovedNeverRuns ==
    [][\A c \in Calls :
         (run[c].at # "running" /\ run'[c].at = "running"
            /\ run'[c].cmd \in Destructive)
            => promptApproves \/ run'[c].cmd \in granted']_vars

\* Mutations that took effect and are not counted yet.
InFlightMutation ==
    \E c \in Calls : run[c].at = "ran" /\ ~run[c].failed /\ Mutates(run[c].cmd)

\* R10's promise (the lastBashRun comment): a re-run it blocks would show what
\* is in context, for no mutation of the session took effect since the
\* recorded run executed.  Excepted: a run during which a mutation was booked.
RerunBlockJustified ==
    \A m \in Cmds :
        Reruns(m) /\ ~lastBashRun[BaseOf[m]].raced /\ ~InFlightMutation
            => BaseOf[m] \in shown

\* R10's key has one blank for white space of any kind, line breaks included: a
\* script of two lines has the key of the one command made of their words.
OwnKey(m) == \A n \in Cmds : BaseOf[n] = BaseOf[m] => n \in Mutating

\* The destructive family's exemption from Re-block and R10's order of record
\* and count: once the user approves a destructive command that no shape rule
\* rejects, sending it again is not answered by either rule.  Excepted: a
\* command that R10 takes for another, which mutates nothing.
ApprovalUnblocks ==
    \A m \in Destructive \ Rejected : OwnKey(m) => ~Reblocks(m) /\ ~Reruns(m)
=============================================================================
