---------------------------- MODULE MCSubagents -----------------------------
(* Three launches by a session that is a worker itself: enough for two      *)
(* sessions and a resume, or a session and two resumes of it.  Callers may  *)
(* pick the name that the next default would be.                            *)
EXTENDS Subagents
CONSTANTS scout, worker
SecondName == {<<scout, 2>>}
=============================================================================
