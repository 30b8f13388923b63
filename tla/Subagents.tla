------------------------------ MODULE Subagents ------------------------------
(***************************************************************************)
(* Subagents: a session spawns pi processes in tmux panes, watches each    *)
(* until it exits, and addresses them by name - steering one that runs,    *)
(* resuming one that has finished.  A launch is suspended once (the pane's *)
(* shell gets ready) between its checks and its registration; launches of  *)
(* one turn overlap there, with each other and with the watchers.          *)
(*                                                                         *)
(* Beside the session file of a child lies a snapshot of the sandbox it    *)
(* was started in, its loadout, without which it is not resumed.  The      *)
(* snapshot and the registry are written with best effort.                 *)
(*                                                                         *)
(* The host shuts a session down when no tool call is in flight, and may   *)
(* then start the same session again; its panes run on.  Steering changes  *)
(* none of this state and is left out, as are status and widgets.          *)
(***************************************************************************)
EXTENDS Naturals, FiniteSets

CONSTANTS
    MaxLaunches,  \* bound: spawns and resumes
    MaxLost,      \* bound: snapshots and registrations not written, panes that
                  \* somebody closes and results that cannot be read
    Agents,       \* agents that callers ask for, the default names
    Permitted,    \* PI_SUBAGENT_ALLOWED, or every agent definition
    Self,         \* PI_SUBAGENT_AGENT: the agent this session is, or None
    Given,        \* names that callers choose themselves
    None

\* Ids are drawn in order; the session file of a spawn is named by its id.
Launches == 1..MaxLaunches
Files    == Launches
\* base, base-2, base-3, ...
Names    == Agents \X Launches

ASSUME SubagentsAssumption == MaxLaunches \in Nat /\ MaxLost \in Nat
                               /\ Given \subseteq Names
                               /\ None \notin Launches
                               /\ None \notin {"default", "explicit", "resume",
                                               "result", "detached", "aborted", "error"}

VARIABLES
    up,          \* is the session active?
    st,          \* idle, launching, watched, ended
    op,          \* default (named), explicit (named), resume, or None
    name, file,  \* of a launch, or None
    running,     \* runningSubagents, by launch
    reserved,    \* reservedNames
    registry,    \* subagent-registry.json: name -> session file or None
    ownAborted,  \* watchers, not over, whose own abort signal fired
    modAborted,  \* and whose module abort signal fired
    child,       \* the pane's process: none, alive, closing (it has written its
                 \* sidecar and shuts down), exited; killed or cut by a watcher
                 \* that closed the pane, while it was alive or closing
    panes,       \* the panes that are open and watched, by launch
    exitFile,    \* session files with an .exit sidecar beside them
    loadouts,    \* session files with a .loadout.json beside them
    outcome,     \* what the watcher reported, or None
    unnamed      \* ghost: launches whose registration failed

launches == <<st, op, name, file>>
names    == <<reserved, registry, unnamed>>
watching == <<up, running, ownAborted, modAborted, outcome>>
children == <<child, panes, exitFile>>
vars     == <<launches, names, loadouts, watching, children>>

-----------------------------------------------------------------------------
\* Fault: names of launches under way are free to take.
TakenUnreserved == {name[l] : l \in running}
                     \cup {nm \in Names : registry[nm] # None}

Taken == {name[l] : l \in running} \cup reserved
           \cup {nm \in Names : registry[nm] # None}

\* uniqueRunningName
IsDefaultName(a, nm) ==
    /\ nm \in Names \ Taken /\ nm[1] = a
    /\ \A n \in 1..(nm[2] - 1) : <<a, n>> \in Taken

\* The checks of the tool on the agent asked for.
MaySpawn(a) == a \in Permitted /\ a # Self

IsNext(l) == st[l] = "idle" /\ \A k \in 1..(l - 1) : st[k] # "idle"

Begin(l, how, nm, f) ==
    /\ up /\ IsNext(l)
    /\ st' = [st EXCEPT ![l] = "launching"]
    /\ op' = [op EXCEPT ![l] = how]
    /\ name' = [name EXCEPT ![l] = nm]
    /\ file' = [file EXCEPT ![l] = f]
    /\ UNCHANGED <<registry, unnamed, loadouts, watching, children>>

\* sendLongCommand: the command replaces the shell of the pane.
StartsChild(l) ==
    /\ child' = [child EXCEPT ![l] = "alive"]
    /\ panes' = panes \cup {l}

\* closeSurface: what still runs in the pane is killed with it.
ClosesPane(l) ==
    child' = [child EXCEPT ![l] = CASE @ = "alive"   -> "killed"
                                   [] @ = "closing" -> "cut"
                                   [] OTHER         -> @]

\* Fault: the launch is in the map and nobody watches it.
RegisterUnwatched(l) ==
    /\ StartsChild(l)
    /\ running' = running \cup {l}
    /\ UNCHANGED st

\* The pane runs the command; the launch is in the map and watched.
Register(l) ==
    /\ StartsChild(l)
    /\ running' = running \cup {l}
    /\ st' = [st EXCEPT ![l] = "watched"]

Released(l) == IF op[l] = "default" THEN reserved \ {name[l]} ELSE reserved

Init ==
    /\ up = TRUE
    /\ st = [l \in Launches |-> "idle"]
    /\ op = [l \in Launches |-> None]
    /\ name = [l \in Launches |-> None]
    /\ file = [l \in Launches |-> None]
    /\ running = {} /\ reserved = {}
    /\ registry = [nm \in Names |-> None]
    /\ ownAborted = {} /\ modAborted = {}
    /\ child = [l \in Launches |-> "none"] /\ panes = {}
    /\ exitFile = {}
    /\ loadouts = {}
    /\ outcome = [l \in Launches |-> None]
    /\ unnamed = {}

\* subagent({agent}): the name is chosen and reserved before any await.
SpawnDefault(l, a) ==
    /\ MaySpawn(a)
    /\ \E nm \in Names : /\ IsDefaultName(a, nm)
                         /\ reserved' = reserved \cup {nm}
                         /\ Begin(l, "default", nm, l)

\* subagent({agent, name}): taken as given.
SpawnExplicit(l, nm) ==
    /\ \E a \in Agents : MaySpawn(a)
    /\ Begin(l, "explicit", nm, l)
    /\ UNCHANGED reserved

\* Launches without a snapshot, a name, a pane, a result.
Lost == Cardinality({l \in Launches : child[l] # "none" /\ file[l] \notin loadouts})
          + Cardinality(unnamed)
          + Cardinality({l \in Launches : st[l] = "watched" /\ l \notin panes})
          + Cardinality({l \in Launches : outcome[l] = "error"})

\* writeSubagentLoadout
WriteLoadout(l) == loadouts' \in {loadouts, loadouts \cup {file[l]}}

\* registerName
RegisterName(l) ==
    \/ /\ registry' = [registry EXCEPT ![name[l]] = file[l]]
       /\ UNCHANGED unnamed
    \/ /\ unnamed' = unnamed \cup {l}
       /\ UNCHANGED registry

\* launchSubagent goes on after the shell delay: the child is started, the
\* launch watched and its name registered.
SpawnRegisters(l) ==
    /\ st[l] = "launching" /\ op[l] # "resume"
    /\ WriteLoadout(l)
    /\ Register(l)
    /\ reserved' = Released(l)
    /\ RegisterName(l)
    /\ UNCHANGED <<up, op, name, file, ownAborted, modAborted, exitFile, outcome>>
    /\ Lost' <= MaxLost

\* Something in the launch throws.
LaunchFails(l) ==
    /\ st[l] = "launching"
    /\ st' = [st EXCEPT ![l] = "ended"]
    /\ reserved' = Released(l)
    /\ UNCHANGED <<op, name, file, registry, unnamed, loadouts, watching, children>>

\* resolveNameInRegistry, readSubagentLoadout: a file that cannot be parsed
\* counts as none.
IsRegistered(nm) == registry[nm] # None
HasLoadout(f) == f \in loadouts

\* subagent_message({name}) with nobody of that name running: resume the
\* session the registry has for it, unless somebody runs that session or its
\* sandbox is not known.
ResumeChecks(l, nm) ==
    /\ \A r \in running : name[r] # nm
    /\ IsRegistered(nm)
    /\ \A r \in running : file[r] # registry[nm]
    /\ HasLoadout(registry[nm])
    /\ Begin(l, "resume", nm, registry[nm])
    /\ UNCHANGED reserved

\* ... and after the shell delay it is running.
ResumeRegisters(l) ==
    /\ st[l] = "launching" /\ op[l] = "resume"
    /\ Register(l)
    /\ UNCHANGED <<up, op, name, file, names, loadouts, ownAborted, modAborted,
                   exitFile, outcome>>

\* agent_end: the last turn ended in an error.  The sidecar is written - when
\* that fails there is nothing to see but the exit - and then the process is
\* asked to shut down.
ChildFails(l) ==
    /\ child[l] = "alive"
    /\ child' = [child EXCEPT ![l] = "closing"]
    /\ exitFile' = exitFile \cup {file[l]}
    /\ UNCHANGED <<launches, names, loadouts, watching, panes>>

\* The process exits; its pane stays open, with the sentinel on the screen.
ChildExits(l) ==
    /\ child[l] \in {"alive", "closing"}
    /\ child' = [child EXCEPT ![l] = "exited"]
    /\ UNCHANGED <<launches, names, loadouts, watching, panes, exitFile>>

\* Somebody else closes the pane, and its process ends.
PaneLost(l) ==
    /\ l \in panes
    /\ panes' = panes \ {l}
    /\ child' = [child EXCEPT ![l] = "exited"]
    /\ UNCHANGED <<launches, names, loadouts, watching, exitFile>>
    /\ Lost' <= MaxLost

\* The watcher is over: out of the map, and its pane closed or left alone.
Ends(l, how, closes) ==
    /\ st' = [st EXCEPT ![l] = "ended"]
    /\ outcome' = [outcome EXCEPT ![l] = how]
    /\ running' = running \ {l} /\ panes' = panes \ {l}
    /\ IF closes THEN ClosesPane(l) ELSE UNCHANGED child
    /\ ownAborted' = ownAborted \ {l} /\ modAborted' = modAborted \ {l}
    /\ UNCHANGED <<up, op, name, file, names, loadouts>>

\* watchSubagent's catch: detach when its own signal fired, else an error.
Catches(l, error) ==
    IF l \in ownAborted THEN Ends(l, "detached", FALSE) ELSE Ends(l, error, TRUE)

\* The exit is seen: the session file is read and the pane closed.  Either may
\* throw: the file is missing its end or unreadable, the pane is gone.
Reports(l) ==
    \/ l \in panes /\ Ends(l, "result", TRUE)
    \/ Catches(l, "error") /\ Lost' <= MaxLost

Aborted(l) == l \in ownAborted \cup modAborted

\* Fault: any sidecar counts.
PollAnySidecar(l) ==
    /\ st[l] = "watched" /\ (~Aborted(l) \/ l \notin panes)
    /\ exitFile # {}
    /\ exitFile' = exitFile \ {file[l]}
    /\ Reports(l)

\* pollForExit sees the sidecar, at the start of a round or when the screen
\* cannot be read - then even if an abort came meanwhile.
PollSidecar(l) ==
    /\ st[l] = "watched" /\ (~Aborted(l) \/ l \notin panes)
    /\ file[l] \in exitFile
    /\ exitFile' = exitFile \ {file[l]}
    /\ Reports(l)

\* Fault: the sentinel is not recognised on the screen.
PollBlind(l) == FALSE

\* pollForExit sees the sentinel on the screen (a read of the screen that an
\* abort finds under way still counts).
PollSentinel(l) ==
    /\ st[l] = "watched" /\ child[l] = "exited" /\ l \in panes
    /\ Reports(l)
    /\ UNCHANGED exitFile

\* pollForExit throws.
PollAborted(l) ==
    /\ st[l] = "watched" /\ Aborted(l)
    /\ Catches(l, "aborted")
    /\ UNCHANGED exitFile

\* Fault: the map is cleared before the watchers' own signals fire.
ShutdownClearsFirst ==
    /\ up /\ \A l \in Launches : st[l] # "launching"
    /\ up' = FALSE
    /\ modAborted' = modAborted \cup {l \in Launches : st[l] = "watched"}
    /\ running' = {}
    /\ UNCHANGED <<ownAborted, launches, names, loadouts, children, outcome>>

\* session_shutdown
Shutdown ==
    /\ up /\ \A l \in Launches : st[l] # "launching"
    /\ up' = FALSE
    /\ modAborted' = modAborted \cup {l \in Launches : st[l] = "watched"}
    /\ ownAborted' = ownAborted \cup running
    /\ running' = {}
    /\ UNCHANGED <<launches, names, loadouts, children, outcome>>

\* session_start installs a fresh module controller.
SessionStart ==
    /\ ~up /\ up' = TRUE
    /\ UNCHANGED <<launches, names, loadouts, children, running, ownAborted,
                   modAborted, outcome>>

Next ==
    \/ \E l \in Launches :
          \/ \E a \in Agents : SpawnDefault(l, a)
          \/ \E nm \in Given : SpawnExplicit(l, nm)
          \/ \E nm \in Names : ResumeChecks(l, nm)
          \/ SpawnRegisters(l) \/ ResumeRegisters(l) \/ LaunchFails(l)
          \/ ChildFails(l) \/ ChildExits(l) \/ PaneLost(l)
          \/ PollSidecar(l) \/ PollSentinel(l) \/ PollAborted(l)
    \/ Shutdown \/ SessionStart

\* The watchers poll on their interval; a child need not exit.
Spec == /\ Init /\ [][Next]_vars
        /\ \A l \in Launches :
              WF_vars(PollSidecar(l) \/ PollSentinel(l) \/ PollAborted(l))

-----------------------------------------------------------------------------
TypeOK ==
    /\ up \in BOOLEAN
    /\ st \in [Launches -> {"idle", "launching", "watched", "ended"}]
    /\ op \in [Launches -> {"default", "explicit", "resume", None}]
    /\ name \in [Launches -> Names \cup {None}]
    /\ file \in [Launches -> Files \cup {None}]
    /\ running \subseteq {l \in Launches : st[l] = "watched"}
    /\ reserved \subseteq Names
    /\ registry \in [Names -> Files \cup {None}]
    /\ child \in [Launches -> {"none", "alive", "closing", "exited", "killed", "cut"}]
    /\ panes \subseteq {l \in Launches : /\ st[l] = "watched"
                                         /\ child[l] \in {"alive", "closing", "exited"}}
    /\ exitFile \subseteq Files
    /\ loadouts \subseteq Files
    /\ outcome \in [Launches -> {"result", "detached", "aborted", "error", None}]
    /\ unnamed \subseteq Launches

\* uniqueRunningName's promise: a defaulted name never collides - the registry
\* goes on resolving it to the session it was given to, however spawns overlap,
\* unless a caller gave the same name explicitly or the registry could not be
\* written.
DefaultNameResolves ==
    \A l \in Launches :
        (/\ op[l] = "default" /\ child[l] # "none" /\ l \notin unnamed
         /\ \A m \in Launches : op[m] = "explicit" => name[m] # name[l])
            => registry[name[l]] = file[l]

\* "abort now only stops watching; the pane is left running" (README of
\* subagents): a shutdown never ends a watcher by an abort that is not its own,
\* which would close the pane, and a child it detached from is never killed.
ShutdownDetaches ==
    \A l \in Launches : /\ outcome[l] # "aborted"
                        /\ outcome[l] = "detached" => child[l] \notin {"killed", "cut"}

\* "Watch a launched subagent until it exits" (watchSubagent): a watcher that
\* saw an exit, and reports a result or that it cannot get at it, never ended
\* a child in the middle of its work: the child had exited, or had written
\* its sidecar and was cut short in its shutdown.  Where the session was
\* resumed this is not so - a resume may find the sidecar of an earlier run.
ResultSawFinish ==
    \A l \in Launches :
        (outcome[l] \in {"result", "error"} /\ \A m \in Launches \ {l} : file[m] # file[l])
            => child[l] \in {"exited", "cut"}

\* That, and every child that exits while it is watched is reported, or
\* detached, unless somebody closes its pane first.
ExitReported ==
    /\ []ResultSawFinish
    /\ \A l \in Launches :
         (child[l] = "exited" /\ st[l] = "watched") ~> (outcome[l] # None \/ l \notin panes)

\* "never resume a session that is still running - two processes mutating the
\* same .jsonl corrupts it" (subagent_message's guard).
OneProcessPerSession ==
    \A l, m \in Launches :
        (l # m /\ {child[l], child[m]} \subseteq {"alive", "closing"}) => file[l] # file[m]
=============================================================================
