-------------------------- MODULE MCViolationStore --------------------------
(* A session and a subagent of another, over a file that holds rows of the *)
(* old shape: one without a sid, one of a fallback, one without a time.    *)
EXTENDS ViolationStore
CONSTANTS p1, p2, s1, s2, rerun
OwnSid == [p \in Procs |-> IF p = p1 THEN s1 ELSE s2]
LegacyRows == {[id |-> 1, family |-> rerun, sid |-> None, legacy |-> TRUE, dated |-> TRUE],
               [id |-> 2, family |-> Fallback, sid |-> s1, legacy |-> TRUE, dated |-> TRUE],
               [id |-> 3, family |-> rerun, sid |-> s2, legacy |-> TRUE, dated |-> FALSE]}
=============================================================================
