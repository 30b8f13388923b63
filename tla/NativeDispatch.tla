--------------------------- MODULE NativeDispatch ---------------------------
(***************************************************************************)
(* How piread and piedit carry out a tool call: a request to a persistent  *)
(* daemon, else a one-shot process, else the built-in tool.  The host is   *)
(* one Node event loop, so every handler below is one step; the daemons    *)
(* and one-shot children are processes beside it, the pipes between them   *)
(* are queues, and 'exit', 'error', 'data' and write callbacks arrive in   *)
(* any order after what caused them.                                       *)
(***************************************************************************)
EXTENDS Naturals, Sequences, FiniteSets

CONSTANTS
    Calls,     \* tool calls
    Paths,     \* files
    PathOf,    \* the file a call is about
    MaxGens,   \* bound: daemons started over the life of the host
    Tools,     \* the extensions to consider: "piread", "piedit"
    Aborts,    \* may the user abort calls?
    None

Gens == 1..MaxGens

ASSUME DispatchAssumption ==
    /\ PathOf \in [Calls -> Paths]
    /\ MaxGens \in Nat
    /\ Tools \subseteq {"piread", "piedit"}
    /\ Aborts \in BOOLEAN
    /\ None \notin Gens
    /\ None \notin {"value", "error", "aborted"}

VARIABLES
    tool,      \* which of the two extensions this behaviour is of
    host,      \* "up" or "exited"
    pc,        \* where execute() is suspended, per call
    result,    \* how the call settled, or None
    answered,  \* ghost: whose request the envelope that settled it answers
    aborted,   \* signal.aborted
    queue,     \* withFileMutationQueue: holder and waiters per path
    slot,      \* module-level daemon: a generation or None
    born,      \* generations started so far
    pending,   \* state.pending: the <<id, call>> entries of a generation
    nextId,    \* state.nextId
    dying,     \* state.dying (piread only)
    ref,       \* are the generation's handles ref'd?
    proc,      \* the daemon process: none, up, killed (signalled), gone
    notices,   \* 'exit' / stdin 'error' events not delivered yet
    lost,      \* entries whose stdin write failed, callback outstanding
    inq,       \* request lines in the daemon's stdin
    work,      \* the request the daemon is serving, or None
    out        \* response lines not read yet

slots   == <<slot, born, pending, nextId, dying, ref>>
procs   == <<proc, notices, lost, inq, work, out>>
callers == <<pc, result, answered, aborted, queue>>
vars    == <<tool, host, slots, procs, callers>>

-----------------------------------------------------------------------------
Kinds == {"ok", "fail", "odd", "garbage"}
Waiting(g) == {e[2] : e \in pending[g]}

\* Fault: an edit does not wait for its turn.
HoldsAlways(c) == TRUE

\* Does c hold the mutation queue of its path?  Reads take no queue.
Holds(c) == \/ tool = "piread"
            \/ queue[PathOf[c]] # <<>> /\ Head(queue[PathOf[c]]) = c

Released(c) ==
    IF tool = "piread" THEN queue
    ELSE [queue EXCEPT ![PathOf[c]] = Tail(@)]

\* Fault: the promise resolves without the outcome.
SettleEmpty(c, how) ==
    /\ pc' = [pc EXCEPT ![c] = "done"]
    /\ UNCHANGED result
    /\ queue' = Released(c)

Settle(c, how) ==
    /\ pc' = [pc EXCEPT ![c] = "done"]
    /\ result' = [result EXCEPT ![c] = how]
    /\ queue' = Released(c)

\* fallbackToBuiltin: after the queue is released, for the built-in editor
\* takes it itself.
Fallback(c) ==
    /\ pc' = [pc EXCEPT ![c] = "builtin"]
    /\ queue' = IF tool = "piread" THEN queue
                ELSE [queue EXCEPT ![PathOf[c]] = Append(Tail(@), c)]
    /\ UNCHANGED result

\* Fault: entries are dropped without being resolved.
OneshotForgets(W) == UNCHANGED pc

\* The calls in W go on to the one-shot rung, a process of their own.
Oneshot(W) == pc' = [c \in Calls |-> IF c \in W THEN "oneshot" ELSE pc[c]]

\* Fault: the handles are never unref'd again.
RefKept(g, P) == [ref EXCEPT ![g] = @ \/ P # {}]

\* Fault: the first answer unrefs the handles, whatever else is in flight.
RefDropped(g, P) == [ref EXCEPT ![g] = FALSE]

\* maybeUnrefStreams for generation g with the entries P left.
RefAfter(g, P) == [ref EXCEPT ![g] = @ /\ P # {}]

\* Fault: the entry stays in the map after its answer.
ForgetNothing(g, e) ==
    /\ UNCHANGED pending
    /\ ref' = RefAfter(g, pending[g])

Forget(g, e) ==
    /\ pending' = [pending EXCEPT ![g] = @ \ {e}]
    /\ ref' = RefAfter(g, pending[g] \ {e})

\* killDaemon: clear the slot, fail what is pending, signal the process.
KillDaemon(g) ==
    IF tool = "piread" /\ dying[g]
    THEN UNCHANGED <<slots, pc, proc>>
    ELSE /\ slot' = IF slot = g THEN None ELSE slot
         /\ dying' = [dying EXCEPT ![g] = tool = "piread"]
         /\ pending' = [pending EXCEPT ![g] = {}]
         /\ ref' = RefAfter(g, {})
         /\ Oneshot(Waiting(g))
         /\ proc' = [proc EXCEPT ![g] = IF @ = "up" THEN "killed" ELSE @]
         /\ UNCHANGED <<born, nextId>>

-----------------------------------------------------------------------------
Init ==
    /\ tool \in Tools /\ host = "up"
    /\ pc = [c \in Calls |-> "idle"]
    /\ result = [c \in Calls |-> None]
    /\ answered = [c \in Calls |-> None]
    /\ aborted = [c \in Calls |-> FALSE]
    /\ queue = [p \in Paths |-> <<>>]
    /\ slot = None /\ born = 0
    /\ pending = [g \in Gens |-> {}]
    /\ nextId = [g \in Gens |-> 1]
    /\ dying = [g \in Gens |-> FALSE]
    /\ ref = [g \in Gens |-> FALSE]
    /\ proc = [g \in Gens |-> "none"]
    /\ notices = [g \in Gens |-> {}]
    /\ lost = [g \in Gens |-> {}]
    /\ inq = [g \in Gens |-> <<>>]
    /\ work = [g \in Gens |-> None]
    /\ out = [g \in Gens |-> <<>>]

(* ---- the host ---- *)

\* execute() is called; an edit enters the queue of its path.  A piread of an
\* image, or with arguments that only the built-in tool knows, goes there.
Start(c) ==
    /\ host = "up" /\ pc[c] = "idle"
    /\ \E to \in {"queued"} \cup (IF tool = "piread" THEN {"builtin"} ELSE {}) :
          pc' = [pc EXCEPT ![c] = to]
    /\ queue' = IF tool = "piread" THEN queue
                ELSE [queue EXCEPT ![PathOf[c]] = Append(@, c)]
    /\ UNCHANGED <<tool, host, slots, procs, result, answered, aborted>>

Ready(c) == host = "up" /\ pc[c] = "queued" /\ Holds(c)

\* The call's turn comes after its signal fired.
DispatchAborted(c) ==
    /\ Ready(c) /\ aborted[c]
    /\ Settle(c, "aborted")
    /\ UNCHANGED <<tool, host, slots, procs, answered, aborted>>

\* startDaemon returns null, or the slot is already torn down (piread).
DispatchUnavailable(c) ==
    /\ Ready(c) /\ ~aborted[c]
    /\ \/ slot = None
       \/ tool = "piread" /\ slot # None /\ (dying[slot] \/ "stdin" \in notices[slot])
    /\ Oneshot({c})
    /\ UNCHANGED <<tool, host, slots, procs, result, answered, aborted, queue>>

\* The request of c goes to generation g: into the pipe while the process
\* reads it, else into a failing write.
Send(c, g) ==
    LET e == <<nextId[g], c>>
        open == proc'[g] \in {"up", "killed"} /\ "stdin" \notin notices[g]
    IN  /\ pending' = [pending EXCEPT ![g] = @ \cup {e}]
        /\ nextId' = [nextId EXCEPT ![g] = @ + 1]
        /\ ref' = [ref EXCEPT ![g] = TRUE]
        /\ pc' = [pc EXCEPT ![c] = "daemon"]
        /\ inq' = IF open THEN [inq EXCEPT ![g] = Append(@, e)] ELSE inq
        /\ lost' = IF open THEN lost ELSE [lost EXCEPT ![g] = @ \cup {e}]
        /\ notices' = IF open THEN notices
                      ELSE [notices EXCEPT ![g] = @ \cup {"stdin"}]
        /\ UNCHANGED <<tool, host, dying, work, out, result, answered,
                       aborted, queue>>

\* No daemon: start one and send the request.
DispatchStart(c) ==
    /\ Ready(c) /\ ~aborted[c] /\ slot = None /\ born < MaxGens
    /\ born' = born + 1
    /\ slot' = born + 1
    /\ proc' = [proc EXCEPT ![born + 1] = "up"]
    /\ Send(c, born + 1)

DispatchSend(c) ==
    /\ Ready(c) /\ ~aborted[c] /\ slot # None
    /\ tool = "piread" => ~dying[slot] /\ "stdin" \notin notices[slot]
    /\ UNCHANGED <<slot, born, proc>>
    /\ Send(c, slot)

\* Fault: the envelope is returned as it is.
ResolveRaw(c, kind) == Settle(c, kind)

\* Where the envelope of a rung leads.
Resolve(c, kind) ==
    \/ kind = "ok" /\ Settle(c, "value")
    \/ kind = "fail" /\ tool = "piedit" /\ Settle(c, "error")
    \/ kind = "fail" /\ tool = "piread" /\ Fallback(c)
    \/ kind = "odd" /\ Fallback(c)

\* handleDaemonLine on the next response line of g.
Line(g) ==
    /\ host = "up" /\ out[g] # <<>>
    /\ out' = [out EXCEPT ![g] = Tail(@)]
    /\ LET line == Head(out[g])
       IN  \/ /\ line.kind = "garbage"
              /\ KillDaemon(g)
              /\ UNCHANGED <<result, answered, queue>>
           \/ /\ line.kind # "garbage"
              /\ \E e \in pending[g] :
                    /\ e[1] = line.id
                    /\ Forget(g, e)
                    /\ Resolve(e[2], line.kind)
                    /\ answered' = [answered EXCEPT ![e[2]] = line.call]
              /\ UNCHANGED <<slot, born, nextId, dying, proc>>
           \/ /\ line.kind # "garbage"
              /\ ~\E e \in pending[g] : e[1] = line.id
              /\ UNCHANGED <<slots, proc, pc, result, answered, queue>>
    /\ UNCHANGED <<tool, host, notices, lost, inq, work, aborted>>

\* 'exit' or 'error' of the process, 'error' of its stdin.
Notice(g) ==
    /\ host = "up"
    /\ \E n \in notices[g] : notices' = [notices EXCEPT ![g] = @ \ {n}]
    /\ KillDaemon(g)
    /\ UNCHANGED <<tool, host, lost, inq, work, out, result, answered,
                   aborted, queue>>

\* The callback of a write that failed.
WriteCallback(g) ==
    /\ host = "up"
    /\ \E e \in lost[g] :
        /\ lost' = [lost EXCEPT ![g] = @ \ {e}]
        /\ Forget(g, e)
        /\ Oneshot({e[2]} \cap Waiting(g))
    /\ UNCHANGED <<tool, host, slot, born, nextId, dying, proc, notices, inq,
                   work, out, result, answered, aborted, queue>>

\* The abort listener of whichever rung the call is on.
Abort(c) ==
    /\ Aborts /\ host = "up" /\ pc[c] \notin {"idle", "done"} /\ ~aborted[c]
    /\ aborted' = [aborted EXCEPT ![c] = TRUE]
    /\ \/ /\ pc[c] = "daemon"
          /\ \E g \in Gens : \E e \in pending[g] : e[2] = c /\ Forget(g, e)
          /\ Settle(c, "aborted")
       \/ /\ pc[c] = "oneshot"
          /\ Settle(c, "aborted")
          /\ UNCHANGED <<pending, ref>>
       \/ /\ pc[c] \in {"queued", "builtin"}
          /\ UNCHANGED <<pending, ref, pc, result, queue>>
    /\ UNCHANGED <<tool, host, slot, born, nextId, dying, procs, answered>>

\* The one-shot child answers (or, for a piread, fails or times out: the
\* timeout bounds it; a piedit child fails by exiting).
OneshotAnswer(c, kind) ==
    /\ host = "up" /\ pc[c] = "oneshot"
    /\ Resolve(c, kind)
    /\ answered' = [answered EXCEPT ![c] = c]
    /\ UNCHANGED <<tool, host, slots, procs, aborted>>

OneshotFails(c) ==
    /\ host = "up" /\ pc[c] = "oneshot"
    /\ Fallback(c)
    /\ UNCHANGED <<tool, host, slots, procs, answered, aborted>>

\* The built-in tool, once it has the queue, settles the call.
BuiltinSettles(c) ==
    /\ host = "up" /\ pc[c] = "builtin" /\ Holds(c)
    /\ \E how \in {"value", "error", "aborted"} :
          /\ (how = "aborted") = aborted[c]
          /\ Settle(c, how)
    /\ UNCHANGED <<tool, host, slots, procs, answered, aborted>>

\* Is anything left that keeps the event loop alive?
LoopHeld == \/ \E g \in Gens : ref[g]
            \/ \E c \in Calls : \/ pc[c] = "oneshot"
                                \/ pc[c] \in {"queued", "builtin"} /\ Holds(c)

\* Node exits when nothing holds the loop; the exit hook kills the daemon.
HostExit ==
    /\ host = "up" /\ ~LoopHeld
    /\ host' = "exited"
    /\ proc' = [g \in Gens |-> IF slot = g /\ proc[g] = "up" THEN "killed"
                               ELSE proc[g]]
    /\ UNCHANGED <<tool, slots, notices, lost, inq, work, out, callers>>

(* ---- the processes ---- *)

Alive(g) == proc[g] \in {"up", "killed"}

\* serve(): take the next request line ...
DaemonTake(g) ==
    /\ Alive(g) /\ work[g] = None /\ inq[g] # <<>>
    /\ work' = [work EXCEPT ![g] = Head(inq[g])]
    /\ inq' = [inq EXCEPT ![g] = Tail(@)]
    /\ UNCHANGED <<tool, host, slots, callers, proc, notices, lost, out>>

\* Fault: the daemon echoes the id of the latest request.
DaemonAnswerLatest(g, kind) ==
    /\ Alive(g) /\ work[g] # None
    /\ out' = [out EXCEPT ![g] =
          Append(@, [id |-> nextId[g] - 1, call |-> work[g][2], kind |-> kind])]
    /\ work' = [work EXCEPT ![g] = None]
    /\ UNCHANGED <<tool, host, slots, callers, proc, notices, lost, inq>>

\* ... and answer it with one line that echoes its id.
DaemonAnswer(g, kind) ==
    /\ Alive(g) /\ work[g] # None
    /\ out' = [out EXCEPT ![g] =
          Append(@, [id |-> work[g][1], call |-> work[g][2], kind |-> kind])]
    /\ work' = [work EXCEPT ![g] = None]
    /\ UNCHANGED <<tool, host, slots, callers, proc, notices, lost, inq>>

\* A crash, a spawn that failed after all, the signal of killDaemon, or the
\* end of stdin; what it had not answered is lost, what it wrote is not.
DaemonDies(g) ==
    /\ Alive(g)
    /\ proc' = [proc EXCEPT ![g] = "gone"]
    /\ notices' = [notices EXCEPT ![g] = @ \cup {"exit"}]
    /\ inq' = [inq EXCEPT ![g] = <<>>]
    /\ work' = [work EXCEPT ![g] = None]
    /\ UNCHANGED <<tool, host, slots, callers, lost, out>>

Next ==
    \/ \E c \in Calls : \/ Start(c) \/ DispatchAborted(c)
                        \/ DispatchUnavailable(c) \/ DispatchStart(c)
                        \/ DispatchSend(c) \/ Abort(c)
                        \/ \E k \in {"ok", "fail", "odd"} : OneshotAnswer(c, k)
                        \/ OneshotFails(c) \/ BuiltinSettles(c)
    \/ \E g \in Gens : \/ Line(g) \/ Notice(g) \/ WriteCallback(g)
                       \/ DaemonTake(g) \/ DaemonDies(g)
                       \/ \E k \in Kinds : DaemonAnswer(g, k)
    \/ HostExit

\* The event loop serves every callback; a daemon serves its requests; a
\* piread child is bounded by ONESHOT_TIMEOUT_MS, a piedit child and the
\* built-in tools are assumed to end.  Nobody has to abort, crash or start.
Fairness ==
    /\ \A c \in Calls :
          /\ WF_vars(\/ DispatchAborted(c) \/ DispatchUnavailable(c)
                     \/ DispatchStart(c) \/ DispatchSend(c))
          /\ WF_vars(OneshotFails(c) \/ \E k \in Kinds : OneshotAnswer(c, k))
          /\ WF_vars(BuiltinSettles(c))
    /\ \A g \in Gens :
          /\ WF_vars(Line(g)) /\ WF_vars(Notice(g)) /\ WF_vars(WriteCallback(g))
          /\ WF_vars(DaemonTake(g))
          /\ WF_vars(\E k \in Kinds : DaemonAnswer(g, k))

Spec == Init /\ [][Next]_vars
FairSpec == Spec /\ Fairness

-----------------------------------------------------------------------------
\* No dangling request (piread's "can never answer this request" comment): a
\* call awaits the daemon exactly when it has one entry, that entry is in the
\* current slot, which has not been swept, and the handles of a generation hold
\* the event loop exactly while it has an entry (the refcount hygiene comment).
AwaitedInSlot ==
    /\ \A c \in Calls : pc[c] = "daemon" <=> \E g \in Gens : c \in Waiting(g)
    /\ \A g \in Gens : pending[g] # {} => g = slot /\ ~dying[g]
    /\ \A g \in Gens : \A d, e \in pending[g] : d[2] = e[2] => d = e
    /\ \A g \in Gens : ref[g] <=> pending[g] # {}

TypeOK ==
    /\ tool \in Tools /\ host \in {"up", "exited"}
    /\ pc \in [Calls -> {"idle", "queued", "daemon", "oneshot", "builtin", "done"}]
    /\ result \in [Calls -> {"value", "error", "aborted", None}]
    /\ aborted \in [Calls -> BOOLEAN]
    /\ slot \in Gens \cup {None} /\ born \in 0..MaxGens
    /\ pending \in [Gens -> SUBSET (Nat \X Calls)]
    /\ nextId \in [Gens -> Nat]
    /\ dying \in [Gens -> BOOLEAN] /\ ref \in [Gens -> BOOLEAN]
    /\ proc \in [Gens -> {"none", "up", "killed", "gone"}]
    /\ AwaitedInSlot

\* Node never exits with an awaited call unsettled (the "exit 13" hang).
NoUnsettledExit ==
    host = "exited" => \A c \in Calls : pc[c] \in {"idle", "done"}

\* Late and dropped answers never cross: an envelope settles the call whose
\* request it answers.
AnswersBelong == \A c \in Calls : answered[c] \in {None, c}

\* Same-path edits serialise: one call per file is past the queue.
QueueExcludes ==
    tool = "piedit" => \A c, d \in Calls :
        (/\ c # d /\ PathOf[c] = PathOf[d]
         /\ pc[c] \in {"daemon", "oneshot"}) =>
            pc[d] \notin {"daemon", "oneshot"} /\ ~(pc[d] = "builtin" /\ Holds(d))

Promise == INSTANCE ToolCall WITH
    started   <- [c \in Calls |-> pc[c] # "idle"],
    signalled <- aborted,
    outcome   <- result

\* What the agent is promised, whichever rung carries the call out: it settles
\* once, as aborted only when its signal fired, and in the end it settles,
\* unless the host has gone (execute of piread and piedit).
ImplementsToolCall == Promise!Spec
=============================================================================
