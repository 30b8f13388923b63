-------------------------- MODULE MCSubagentStatus --------------------------
(* One child in a run or two: a question or two, a subagent of its own, a   *)
(* message from its parent.                                                 *)
EXTENDS SubagentStatus
=============================================================================
