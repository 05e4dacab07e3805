------------------------------ MODULE MCStartup ------------------------------
(***************************************************************************)
(* Before the first query, for TLC: how `wxeasy init` comes by the keys    *)
(* and keeps them.  The modules share no state; `setting` says which       *)
(* moves:                                                                  *)
(*   capture   the capture of keys from WeChat's processes                 *)
(*   keys      all_keys.json over many runs of init                        *)
(*   memory    the search of a region of memory                            *)
(***************************************************************************)
EXTENDS DebugCapture, KeyInit, MemoryScan

VARIABLES setting

OwnerOf == [t \in Thread |-> IF t = "launch" THEN Launcher ELSE Main]
FirstOf == [p \in Proc |-> IF p = Launcher THEN "launch" ELSE "ui"]

-----------------------------------------------------------------------------
\* The modules that do not move keep one of their initial states.
CaptureIdle == mode = "attach" /\ Init
KeysIdle == InitKeys /\ key = [d \in Database |-> 0] /\ present = {}
MemoryIdle ==
  /\ platform = "none" /\ memory = <<>> /\ offset = 0 /\ found = {} /\ gap = FALSE

MCInit ==
  \/ setting = "capture" /\ Init /\ KeysIdle /\ MemoryIdle
  \/ setting = "keys" /\ CaptureIdle /\ InitKeys /\ MemoryIdle
  \/ setting = "memory" /\ CaptureIdle /\ KeysIdle /\ RegionInit

MCNext ==
  /\ UNCHANGED setting
  /\ \/ setting = "capture" /\ Next /\ UNCHANGED <<keyVars, memoryVars>>
     \/ setting = "keys" /\ KeyNext /\ UNCHANGED <<vars, memoryVars>>
     \/ setting = "memory" /\ RegionNext /\ UNCHANGED <<vars, keyVars>>

MCSpec ==
  /\ MCInit /\ [][MCNext]_<<setting, vars, keyVars, memoryVars>>
  /\ WF_vars(setting = "capture" /\ Debugger)
  /\ WF_keyVars(setting = "keys" /\ Running)
  /\ SF_keyVars(setting = "keys" /\ LiveAgain)
  /\ SF_keyVars(setting = "keys" /\ CaptureMore)

=============================================================================
