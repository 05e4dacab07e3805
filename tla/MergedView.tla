----------------------------- MODULE MergedView -----------------------------
(***************************************************************************)
(* src/daemon/vfs.rs: the file SQLite sees through one connection (struct  *)
(* MergedFile): pages of the frozen WAL index are read from the -wal file, *)
(* all others from the main file, both as they are when the page is read.  *)
(* No lock is held on either file, so the writer checkpoints, overwrites   *)
(* and cuts them under open connections.                                   *)
(*                                                                         *)
(* Reading changes no state: View(o) is what connection o would read now.  *)
(***************************************************************************)
EXTENDS WalIndex

VARIABLES
  mainLen,   \* pages of the main file when it was opened, 0 before that
  since,     \* history: transactions that had ended when o's open began
  disturbed  \* history: the writer did to o what a read lock postpones

viewVars == <<mainLen, since, disturbed>>
allVars == <<vars, viewVars>>

\* A read that finds no bytes where the index points: no transaction wrote it.
Unreadable == MaxTxn + 1

\* MergedFile::total_pages
TotalPages(o) == IF acc[o].last # 0 THEN acc[o].last ELSE mainLen[o]

\* Mutant: the log is looked at for pages the main file lacks only.
ReadPageMainFirst(o, p) ==
  LET i == acc[o].off[p] IN
  IF p <= mainLen[o] THEN main[p]
  ELSE IF i # 0 /\ i <= Len(frames) THEN frames[i].ver ELSE 0

\* MergedFile::read_page_decrypted
ReadPage(o, p) ==
  LET i == acc[o].off[p] IN
  IF i # 0 THEN IF i <= Len(frames) THEN frames[i].ver ELSE Unreadable
           ELSE IF p > mainLen[o] THEN 0 ELSE main[p]

View(o) == [p \in Page |-> IF p <= TotalPages(o) THEN ReadPage(o, p) ELSE 0]

MVInit ==
  /\ Init
  /\ mainLen = [o \in Opener |-> 0]
  /\ since = [o \in Opener |-> 0]
  /\ disturbed = [o \in Opener |-> FALSE]

\* WxVfs::open reads the length of the main file before it looks at the log.
OpenMain(o) ==
  /\ pc[o] = "idle" /\ mainLen[o] = 0
  /\ mainLen' = [mainLen EXCEPT ![o] = Size(main)]
  /\ since' = [since EXCEPT ![o] = Len(hist)]
  /\ UNCHANGED <<vars, disturbed>>

\* The writer copies p's newest commit over what the open of o may still need,
\* or drops the log o's index points into.
Disturbs(o) ==
  \/ \E p \in Page : main'[p] # main[p] /\ main'[p] # hist[since[o]][p]
  \/ salt # 0 /\ salt' # salt

\* build_wal_index_cached and the connection's life; its end, or the failure
\* of the open, ends what was promised.
OpenOn(o) ==
  /\ mainLen[o] # 0
  /\ OpenerNext(o)
  /\ IF pc'[o] = "idle"
     THEN /\ mainLen' = [mainLen EXCEPT ![o] = 0]
          /\ since' = [since EXCEPT ![o] = 0]
          /\ disturbed' = [disturbed EXCEPT ![o] = FALSE]
     ELSE UNCHANGED viewVars

MVWriter ==
  /\ WriterNext
  /\ disturbed' = [o \in Opener |-> disturbed[o] \/ (mainLen[o] # 0 /\ Disturbs(o))]
  /\ UNCHANGED <<mainLen, since>>

MVRestart ==
  /\ DaemonRestart
  /\ mainLen' = [o \in Opener |-> 0]
  /\ since' = [o \in Opener |-> 0]
  /\ disturbed' = [o \in Opener |-> FALSE]

MVNext ==
  \/ \E o \in Opener : OpenMain(o) \/ OpenOn(o)
  \/ MVWriter
  \/ MVRestart

MVSpec == MVInit /\ [][MVNext]_allVars

-----------------------------------------------------------------------------
\* The promise of SnapshotRead that o's connection stands for.
PromiseOf(o) ==
  CASE mainLen[o] = 0 -> [phase |-> "closed"]
    [] disturbed[o]   -> [phase |-> "none"]
    [] pc[o] = "open" /\ ~disturbed[o] -> [phase |-> "frozen", pages |-> View(o)]
    [] OTHER          -> [phase |-> "opening", since |-> since[o]]

Promise == INSTANCE SnapshotRead
             WITH Reader <- Opener, view <- [o \in Opener |-> PromiseOf(o)]

\* vfs.rs:14-18, wal_index.rs:141-144: through any interleaving of opens,
\* cached scans, commits, checkpoints and resets, a connection the writer has
\* not disturbed reads one committed database, no older than its open, and
\* reads the same one until it is closed.
ReadsSnapshot == Promise!Spec
=============================================================================
