-------------------------- MODULE MCPibashDispatch --------------------------
(* Two commands of one turn, both of which end or neither, and a daemon     *)
(* that may be replaced once.                                               *)
EXTENDS PibashDispatch
CONSTANTS c1, c2
AllOrNone == {{}, Calls}
=============================================================================
