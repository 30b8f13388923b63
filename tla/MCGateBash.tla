----------------------------- MODULE MCGateBash -----------------------------
(* A verify command, a destructive one, one that a shape rule rejects, and a *)
(* destructive script that R10 takes for the verify command.                 *)
EXTENDS GateBash
CONSTANTS verify, push, lint, script
Keys == [m \in Cmds |-> IF m = script THEN verify ELSE m]
=============================================================================
