-------------------------- MODULE MCNativeDispatch --------------------------
(* Two edits, or two reads, of one file.                                    *)
EXTENDS NativeDispatch
CONSTANTS c1, c2, p1
OnePath == [c \in Calls |-> p1]
BothTools == {"piread", "piedit"}
EditTool == {"piedit"}
=============================================================================
