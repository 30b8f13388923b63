--------------------------- MODULE PibashDispatch ---------------------------
(***************************************************************************)
(* How pibash runs a shell command: on the daemon, else in a one-shot      *)
(* process, else with the built-in bash tool.  Unlike a read, a command    *)
(* has effects each time it is started and may never end by itself, and    *)
(* its shell lives in a process group of its own, so it outlives the       *)
(* daemon that started it.                                                 *)
(*                                                                         *)
(* The agent passes one abort signal to all calls of a turn and a signal   *)
(* to every call, so requests always ask for the started line.  Update     *)
(* lines only show output (and repeat a kill), and are left out.           *)
(***************************************************************************)
EXTENDS Naturals, Sequences, FiniteSets

CONSTANTS
    Calls,    \* tool calls
    MaxGens,  \* bound: daemons started over the life of the host
    MaxLost,  \* bound: processes that die, unusable answers
    Endings,  \* which sets of commands may be endless
    None

Gens  == 1..MaxGens
Rungs == {"daemon", "oneshot", "builtin"}

ASSUME PibashAssumption ==
    /\ MaxGens \in Nat /\ MaxLost \in Nat
    /\ Endings \subseteq SUBSET Calls
    /\ None \notin Gens \cup Calls

VARIABLES
    pc,       \* where execute() is suspended, per call
    result,   \* how the call settled, or None
    aborted,  \* signal.aborted
    slot,     \* module-level daemon: a generation or None
    born,     \* generations started so far
    pending,  \* state.pending: the calls of a generation
    pid,      \* calls whose entry has a pid
    ref,      \* are the generation's handles ref'd?
    proc,     \* the daemon process: none, up, killed (signalled), gone
    notice,   \* its 'exit' or 'error' event is not delivered yet
    inq,      \* request lines in the daemon's stdin
    work,     \* the request the daemon is running, or None
    out,      \* response lines not read yet
    shells,   \* running shells, as <<call, rung that started it>>
    ran,      \* ghost: the rungs that started the command of a call
    lost,     \* ghost: processes that died, answers that were unusable
    endless   \* commands that end only when killed

slots   == <<slot, born, pending, pid, ref>>
daemons == <<proc, notice, inq, work, out>>
vars    == <<pc, result, aborted, slots, daemons, shells, ran, lost, endless>>

-----------------------------------------------------------------------------
Settle(c, how) ==
    /\ pc' = [pc EXCEPT ![c] = "done"]
    /\ result' = [result EXCEPT ![c] = how]

\* Fault: the handles are never unref'd again.
RefKept(g, P) == [ref EXCEPT ![g] = @ \/ P # {}]

\* The settle() of a request, with the entries P of generation g left.
RefAfter(g, P) == [ref EXCEPT ![g] = @ /\ P # {}]

\* Fault: the envelope is returned as it is.
ResolveRaw(c, kind) == Settle(c, kind)

\* Fault: a parity error falls through to the built-in tool.
ResolveRetries(c, kind) ==
    \/ kind = "ok" /\ Settle(c, "value")
    \/ /\ kind # "ok"
       /\ pc' = [pc EXCEPT ![c] = "builtin"]
       /\ UNCHANGED result

\* Where the envelope of a rung leads: a result, a parity rethrow (spawn,
\* timeout), or the built-in tool.
Resolve(c, kind) ==
    \/ kind = "ok" /\ Settle(c, "value")
    \/ kind = "parity" /\ Settle(c, "error")
    \/ /\ kind = "odd"
       /\ pc' = [pc EXCEPT ![c] = "builtin"]
       /\ UNCHANGED result

\* Fault: pending requests are dropped without being resolved.
KillDaemonSilent(g) ==
    /\ slot' = IF slot = g THEN None ELSE slot
    /\ pending' = [pending EXCEPT ![g] = {}]
    /\ ref' = RefAfter(g, {})
    /\ proc' = [proc EXCEPT ![g] = IF @ = "up" THEN "killed" ELSE @]
    /\ UNCHANGED <<pc, born, pid>>

\* killDaemon: clear the slot, fail what is pending, signal the process.
KillDaemon(g) ==
    /\ slot' = IF slot = g THEN None ELSE slot
    /\ pending' = [pending EXCEPT ![g] = {}]
    /\ ref' = RefAfter(g, {})
    /\ pc' = [c \in Calls |-> IF c \in pending[g] THEN "oneshot" ELSE pc[c]]
    /\ proc' = [proc EXCEPT ![g] = IF @ = "up" THEN "killed" ELSE @]
    /\ UNCHANGED <<born, pid>>

Runs(c, rung) ==
    /\ shells' = shells \cup {<<c, rung>>}
    /\ ran' = [ran EXCEPT ![c] = @ \cup {rung}]

Running(c, rung) == <<c, rung>> \in shells

-----------------------------------------------------------------------------
Init ==
    /\ pc = [c \in Calls |-> "idle"]
    /\ result = [c \in Calls |-> None]
    /\ aborted = [c \in Calls |-> FALSE]
    /\ slot = None /\ born = 0
    /\ pending = [g \in Gens |-> {}]
    /\ pid = {}
    /\ ref = [g \in Gens |-> FALSE]
    /\ proc = [g \in Gens |-> "none"]
    /\ notice = [g \in Gens |-> FALSE]
    /\ inq = [g \in Gens |-> <<>>]
    /\ work = [g \in Gens |-> None]
    /\ out = [g \in Gens |-> <<>>]
    /\ shells = {}
    /\ ran = [c \in Calls |-> {}]
    /\ lost = 0
    /\ endless \in Endings

(* ---- the host ---- *)

\* execute() with a signal that already fired.
ExecuteAborted(c) ==
    /\ pc[c] = "idle" /\ aborted[c]
    /\ Settle(c, "error")
    /\ UNCHANGED <<aborted, slots, daemons, shells, ran, lost, endless>>

\* The request of c goes to generation g.  A write the process no longer
\* reads is lost; its 'exit' or stdin 'error' is on the way.
Send(c, g) ==
    /\ pending' = [pending EXCEPT ![g] = @ \cup {c}]
    /\ ref' = [ref EXCEPT ![g] = TRUE]
    /\ pc' = [pc EXCEPT ![c] = "daemon"]
    /\ inq' = IF proc'[g] = "gone" THEN inq
              ELSE [inq EXCEPT ![g] = Append(@, c)]
    /\ UNCHANGED <<result, aborted, pid, notice, work, out, shells, ran, lost,
                   endless>>

ExecuteStart(c) ==
    /\ pc[c] = "idle" /\ ~aborted[c] /\ slot = None /\ born < MaxGens
    /\ born' = born + 1
    /\ slot' = born + 1
    /\ proc' = [proc EXCEPT ![born + 1] = "up"]
    /\ Send(c, born + 1)

ExecuteSend(c) ==
    /\ pc[c] = "idle" /\ ~aborted[c] /\ slot # None
    /\ UNCHANGED <<slot, born, proc>>
    /\ Send(c, slot)

\* The 'data' handler on the next line of g.
Line(g) ==
    /\ out[g] # <<>>
    /\ out' = [out EXCEPT ![g] = Tail(@)]
    /\ LET line == Head(out[g])
           c    == line.call
       IN  \/ /\ line.kind = "garbage"
              /\ KillDaemon(g)
              /\ UNCHANGED <<result, shells>>
           \/ /\ line.kind = "started" /\ c \in pending[g]
              /\ pid' = pid \cup {c}
              /\ shells' = IF aborted[c] THEN shells \ {<<c, "daemon">>}
                           ELSE shells
              /\ UNCHANGED <<slot, born, pending, ref, proc, pc, result>>
           \/ /\ line.kind \in {"ok", "parity", "odd"} /\ c \in pending[g]
              /\ pending' = [pending EXCEPT ![g] = @ \ {c}]
              /\ ref' = RefAfter(g, pending[g] \ {c})
              /\ IF aborted[c] THEN Settle(c, "error") ELSE Resolve(c, line.kind)
              /\ UNCHANGED <<slot, born, pid, proc, shells>>
           \/ /\ line.kind # "garbage" /\ c \notin pending[g]
              /\ UNCHANGED <<slots, proc, pc, result, shells>>
    /\ UNCHANGED <<aborted, notice, inq, work, ran, lost, endless>>

\* 'exit' or 'error' of the process, or 'error' of its stdin.
Notice(g) ==
    /\ notice[g]
    /\ notice' = [notice EXCEPT ![g] = FALSE]
    /\ KillDaemon(g)
    /\ UNCHANGED <<result, aborted, inq, work, out, shells, ran, lost, endless>>

\* Fault: the listener marks the request and kills nothing.
AbortDeaf ==
    /\ \E c \in Calls : pc[c] \notin {"idle", "done"} /\ ~aborted[c]
    /\ aborted' = [c \in Calls |-> TRUE]
    /\ shells' = {s \in shells : s[2] # "builtin"}
    /\ UNCHANGED <<pc, result, slots, daemons, ran, lost, endless>>

\* The user aborts the turn: the listener of each request kills the process
\* group it knows; the one-shot rung has no listener; the built-in has one.
Abort ==
    /\ \E c \in Calls : pc[c] \notin {"idle", "done"} /\ ~aborted[c]
    /\ aborted' = [c \in Calls |-> TRUE]
    /\ shells' = {s \in shells : ~ \/ /\ s[2] = "daemon" /\ s[1] \in pid
                                      /\ pc[s[1]] = "daemon"
                                   \/ s[2] = "builtin"}
    /\ UNCHANGED <<pc, result, slots, daemons, ran, lost, endless>>

\* Something goes wrong outside the host.
Loses == lost < MaxLost /\ lost' = lost + 1

(* ---- a daemon ---- *)

Alive(g) == proc[g] \in {"up", "killed"}
Answer(g, kind) ==
    out' = [out EXCEPT ![g] = Append(@, [call |-> work[g], kind |-> kind])]

\* handle_line: take the next request and spawn its shell, or fail to.
DaemonTake(g) ==
    /\ Alive(g) /\ work[g] = None /\ inq[g] # <<>>
    /\ inq' = [inq EXCEPT ![g] = Tail(@)]
    /\ LET c == Head(inq[g])
       IN  \/ /\ work' = [work EXCEPT ![g] = c]
              /\ out' = [out EXCEPT ![g] =
                            Append(@, [call |-> c, kind |-> "started"])]
              /\ Runs(c, "daemon")
           \/ /\ out' = [out EXCEPT ![g] =
                            Append(@, [call |-> c, kind |-> "parity"])]
              /\ UNCHANGED <<work, shells, ran>>
    /\ UNCHANGED <<pc, result, aborted, slots, proc, notice, lost, endless>>

\* run_observed returns: the shell ended, or could not be waited for.
DaemonAnswer(g) ==
    /\ Alive(g) /\ work[g] # None /\ ~Running(work[g], "daemon")
    /\ \/ Answer(g, "ok") /\ UNCHANGED lost
       \/ Answer(g, "odd") /\ Loses
       \/ Answer(g, "garbage") /\ Loses
    /\ work' = [work EXCEPT ![g] = None]
    /\ UNCHANGED <<pc, result, aborted, slots, proc, notice, inq, shells, ran,
                   endless>>

\* The deadline of the request: the runner kills the shell's group.
DaemonTimeout(g) ==
    /\ Alive(g) /\ work[g] # None /\ Running(work[g], "daemon")
    /\ shells' = shells \ {<<work[g], "daemon">>}
    /\ Answer(g, "parity")
    /\ work' = [work EXCEPT ![g] = None]
    /\ UNCHANGED <<pc, result, aborted, slots, proc, notice, inq, ran, lost,
                   endless>>

\* A crash, a failed spawn of the daemon itself, or the kill: what it had
\* not answered is lost, what it wrote is not, and the shell runs on.
DaemonDies(g) ==
    /\ Alive(g)
    /\ proc' = [proc EXCEPT ![g] = "gone"]
    /\ notice' = [notice EXCEPT ![g] = TRUE]
    /\ inq' = [inq EXCEPT ![g] = <<>>]
    /\ work' = [work EXCEPT ![g] = None]
    /\ IF proc[g] = "up" THEN Loses ELSE UNCHANGED lost
    /\ UNCHANGED <<pc, result, aborted, slots, out, shells, ran, endless>>

(* ---- the other rungs and the shells ---- *)

\* oneShot: the child starts the shell ...
OneshotRuns(c) ==
    /\ pc[c] = "oneshot" /\ "oneshot" \notin ran[c]
    /\ Runs(c, "oneshot")
    /\ UNCHANGED <<pc, result, aborted, slots, daemons, lost, endless>>

\* ... and prints one envelope when it ended, was killed at its deadline, or
\* could not be spawned ...
OneshotExits(c, kind) ==
    /\ pc[c] = "oneshot"
    /\ \/ kind \in {"ok", "odd"} /\ "oneshot" \in ran[c]
          /\ ~Running(c, "oneshot")
       \/ kind = "parity" /\ Running(c, "oneshot")
       \/ kind = "parity" /\ "oneshot" \notin ran[c]
    /\ shells' = shells \ {<<c, "oneshot">>}
    /\ Resolve(c, kind)
    /\ IF kind = "odd" THEN Loses ELSE UNCHANGED lost
    /\ UNCHANGED <<aborted, slots, daemons, ran, endless>>

\* ... or dies, or is missing.
OneshotFails(c) ==
    /\ pc[c] = "oneshot"
    /\ pc' = [pc EXCEPT ![c] = "builtin"]
    /\ Loses
    /\ UNCHANGED <<result, aborted, slots, daemons, shells, ran, endless>>

\* The built-in tool: nothing is started once the signal fired, and a
\* running shell is killed by it.
BuiltinRuns(c) ==
    /\ pc[c] = "builtin" /\ ~aborted[c] /\ "builtin" \notin ran[c]
    /\ Runs(c, "builtin")
    /\ UNCHANGED <<pc, result, aborted, slots, daemons, lost, endless>>

BuiltinSettles(c) ==
    /\ pc[c] = "builtin" /\ ~Running(c, "builtin")
    /\ aborted[c] \/ "builtin" \in ran[c]
    /\ Settle(c, IF aborted[c] THEN "error" ELSE "value")
    /\ UNCHANGED <<aborted, slots, daemons, shells, ran, lost, endless>>

ShellEnds(c, rung) ==
    /\ Running(c, rung) /\ c \notin endless
    /\ shells' = shells \ {<<c, rung>>}
    /\ UNCHANGED <<pc, result, aborted, slots, daemons, ran, lost, endless>>

Next ==
    \/ \E c \in Calls : \/ ExecuteAborted(c) \/ ExecuteStart(c) \/ ExecuteSend(c)
                        \/ OneshotRuns(c) \/ OneshotFails(c)
                        \/ \E k \in {"ok", "parity", "odd"} : OneshotExits(c, k)
                        \/ BuiltinRuns(c) \/ BuiltinSettles(c)
                        \/ \E rung \in Rungs : ShellEnds(c, rung)
    \/ \E g \in Gens : \/ Line(g) \/ Notice(g) \/ DaemonTake(g)
                       \/ DaemonAnswer(g) \/ DaemonTimeout(g) \/ DaemonDies(g)
    \/ Abort

\* The event loop serves its callbacks, the daemon and the one-shot child go
\* on, and a command that is not endless ends.  No deadline has to be set, and
\* nobody has to abort or crash.
Fairness ==
    /\ \A c \in Calls :
          /\ WF_vars(\/ OneshotRuns(c) \/ BuiltinRuns(c) \/ BuiltinSettles(c)
                     \/ \E k \in {"ok", "odd"} : OneshotExits(c, k))
          /\ WF_vars(\E rung \in Rungs : ShellEnds(c, rung))
    /\ \A g \in Gens :
          /\ WF_vars(Line(g) \/ Notice(g))
          /\ WF_vars(DaemonTake(g) \/ DaemonAnswer(g))

Spec == Init /\ [][Next]_vars
FairSpec == Spec /\ Fairness

-----------------------------------------------------------------------------
\* A call awaits the daemon exactly while it has an entry, entries exist only
\* in the daemon of the slot, and the handles hold the event loop exactly then
\* (settle, killDaemon).
AwaitedInSlot ==
    /\ \A c \in Calls : pc[c] = "daemon" <=> \E g \in Gens : c \in pending[g]
    /\ \A g \in Gens : pending[g] # {} => g = slot
    /\ \A g \in Gens : ref[g] <=> pending[g] # {}

TypeOK ==
    /\ pc \in [Calls -> {"idle", "done"} \cup Rungs]
    /\ result \in [Calls -> {"value", "error", None}]
    /\ aborted \in [Calls -> BOOLEAN]
    /\ slot \in Gens \cup {None} /\ born \in 0..MaxGens
    /\ pending \in [Gens -> SUBSET Calls] /\ pid \subseteq Calls
    /\ ref \in [Gens -> BOOLEAN]
    /\ proc \in [Gens -> {"none", "up", "killed", "gone"}]
    /\ notice \in [Gens -> BOOLEAN]
    /\ work \in [Gens -> Calls \cup {None}]
    /\ lost \in 0..MaxLost
    /\ shells \subseteq Calls \X Rungs
    /\ ran \in [Calls -> SUBSET Rungs]
    /\ AwaitedInSlot

\* Every further rung that starts a command costs a process or an answer: a
\* command that timed out, could not be spawned or was aborted is never handed
\* to the next rung (ParityError).
RunsOnceUnlessLost == \A c \in Calls : Cardinality(ran[c]) <= lost + 1

\* Cancelling works on the daemon rung even for commands that never end: the
\* request leaves the daemon, whether it was running, its pid not yet known,
\* or still queued behind another command (onAbort, the started line).
AbortEndsDaemonRung ==
    \A c \in Calls : (aborted[c] /\ pc[c] = "daemon") ~> pc[c] # "daemon"

\* When the commands end, every call settles, whatever process dies.
Settles ==
    \A c \in Calls :
        (endless = {} /\ pc[c] # "idle") ~> pc[c] = "done"
=============================================================================
