------------------------------- MODULE MCReads -------------------------------
(***************************************************************************)
(* What queries read, for TLC: the pages of a connection, and the rows     *)
(* that are picked from a database.  The modules share no state; `setting` *)
(* says which of them moves, in which bounds:                              *)
(*   view    MergedView: one connection over commit, rollback, checkpoint  *)
(*           and overwriting reset; one refill reads the whole log         *)
(*   fetch   MsgRows: text messages whose sort_seq may be missing or late  *)
(*   search  MsgRows: the keyword is stored as it is, or only shown        *)
(* Scale stands for 1000, Extra for 64, Growth for 8, MinRange for 1024.   *)
(***************************************************************************)
EXTENDS MergedView, MsgRows

CONSTANTS Text

VARIABLE setting

-----------------------------------------------------------------------------
MCInit ==
  /\ setting \in {"view", "fetch", "search"}
  /\ MVInit
  /\ TableInit
  /\ indexed => setting = "fetch"

\* A fetch looks at times and sort_seq, a search at types and the keyword.
TextArrives ==
  \E t \in Times : \E s \in {NoSeq, 0} \cup {t * Scale + o : o \in SeqOffsets} :
    Arrive(t, s, Text, "raw", TRUE)
AnyArrives ==
  \E t \in {1, 2}, y \in Types, h \in Hits : Arrive(t, t * Scale, y, h, TRUE)

MCNext ==
  /\ UNCHANGED setting
  /\ \/ setting = "view" /\ MVNext /\ UNCHANGED rowVars
     \/ setting = "fetch" /\ TextArrives /\ UNCHANGED allVars
     \/ setting = "search" /\ AnyArrives /\ UNCHANGED allVars

MCSpec == MCInit /\ [][MCNext]_<<setting, allVars, rowVars>>
=============================================================================
