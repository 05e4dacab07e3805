---------------------------- MODULE MCDebugKilled ----------------------------
(* DebugCapture by itself: two processes, three threads in the main one. *)
EXTENDS DebugCapture

OwnerOf == [t \in Thread |-> IF t = "launch" THEN Launcher ELSE Main]
FirstOf == [p \in Proc |-> IF p = Launcher THEN "launch" ELSE "ui"]
=============================================================================
