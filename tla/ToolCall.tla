------------------------------ MODULE ToolCall ------------------------------
(* What a tool call promises the agent, whatever carries it out: it settles *)
(* at most once, as aborted only when its signal fired, and a call that was  *)
(* started settles in the end.                                               *)
CONSTANTS Calls, None

VARIABLES started, signalled, outcome
vars == <<started, signalled, outcome>>

Outcomes == {"value", "error", "aborted"}

Init == /\ started = [c \in Calls |-> FALSE]
        /\ signalled = [c \in Calls |-> FALSE]
        /\ outcome = [c \in Calls |-> None]

Start(c) == /\ ~started[c]
            /\ started' = [started EXCEPT ![c] = TRUE]
            /\ UNCHANGED <<signalled, outcome>>

Settle(c, how) == /\ started[c] /\ outcome[c] = None
                  /\ how = "aborted" => signalled[c]
                  /\ outcome' = [outcome EXCEPT ![c] = how]
                  /\ UNCHANGED <<started, signalled>>

\* The user aborts a call that has not settled; that may settle it at once.
Signal(c) == /\ started[c] /\ ~signalled[c] /\ outcome[c] = None
             /\ signalled' = [signalled EXCEPT ![c] = TRUE]
             /\ outcome' \in {outcome, [outcome EXCEPT ![c] = "aborted"]}
             /\ UNCHANGED started

Next == \E c \in Calls : \/ Start(c)
                         \/ Signal(c)
                         \/ \E how \in Outcomes : Settle(c, how)

Spec == Init /\ [][Next]_vars
             /\ \A c \in Calls : WF_vars(\E how \in Outcomes : Settle(c, how))
=============================================================================
