---------------------------- MODULE MCCompanion ----------------------------
(* Instance of Companion: our agent launches a server, and a second launch  *)
(* comes at any time, before, during or after the first one's life.         *)
EXTENDS Companion

MCRivals == {2}
=============================================================================
