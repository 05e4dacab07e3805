---------------------------- MODULE SnapshotRead ----------------------------
(***************************************************************************)
(* What a connection of the read-only VFS promises the queries that use it *)
(* (src/daemon/vfs.rs, src/daemon/wal_index.rs): the whole database as it  *)
(* was after one committed transaction, one that had not ended before the  *)
(* open began at the earliest, unchanged for as long as the connection     *)
(* lives.  The promise ends when the writer does what the read lock of a   *)
(* SQLite reader would have made it postpone (LosePromise).                *)
(***************************************************************************)
EXTENDS Naturals, Sequences

CONSTANTS Reader, Page

VARIABLES
  hist,  \* hist[v]: the committed database after transaction v
  view   \* view[r]: what reader r may rely on

Closed == [phase |-> "closed"]
Opening(k) == [phase |-> "opening", since |-> k]
Frozen(d) == [phase |-> "frozen", pages |-> d]
NoPromise == [phase |-> "none"]

Init ==
  /\ Len(hist) = 1
  /\ view = [r \in Reader |-> Closed]

EndTxn ==
  /\ Len(hist') = Len(hist) + 1
  /\ \A v \in 1..Len(hist) : hist'[v] = hist[v]
  /\ UNCHANGED view

BeginOpen(r) ==
  /\ view[r] = Closed
  /\ view' = [view EXCEPT ![r] = Opening(Len(hist))]
  /\ UNCHANGED hist

FinishOpen(r) ==
  /\ view[r].phase = "opening"
  /\ \E v \in view[r].since .. Len(hist) : view' = [view EXCEPT ![r] = Frozen(hist[v])]
  /\ UNCHANGED hist

\* The end of the daemon closes all its connections in one step.
Close(S) ==
  /\ view' = [r \in Reader |-> IF r \in S THEN Closed ELSE view[r]]
  /\ UNCHANGED hist

\* One checkpoint step may end the promise made to several readers.
LosePromise ==
  /\ \E S \in SUBSET {r \in Reader : view[r] # Closed} :
       view' = [r \in Reader |-> IF r \in S THEN NoPromise ELSE view[r]]
  /\ UNCHANGED hist

Next ==
  \/ EndTxn
  \/ LosePromise
  \/ \E r \in Reader : BeginOpen(r) \/ FinishOpen(r)
  \/ \E S \in SUBSET Reader : Close(S)

Spec == Init /\ [][Next]_<<hist, view>>
=============================================================================
