------------------------------- MODULE WalLog -------------------------------
(***************************************************************************)
(* The environment of the daemon: one encrypted WeChat database, its -wal  *)
(* file, and the SQLite connection inside WeChat that writes both.  None   *)
(* of this code is in the repository; it is modelled as far as             *)
(* src/daemon/wal_index.rs and src/daemon/vfs.rs rely on it.  The daemon   *)
(* holds no SQLite lock, so every action below can happen at any moment.   *)
(*                                                                         *)
(* A page's content is the number of the transaction that wrote it; 0 is a *)
(* page the file does not have (read as zeros).  Offsets in the -wal file  *)
(* are counted in whole frames.                                            *)
(***************************************************************************)
EXTENDS Naturals, Sequences, FiniteSets

CONSTANTS
  LastPage,       \* the database never has more pages than this
  MaxTxn,         \* bound: transactions begun by the writer, the first included
  MaxFrames,      \* bound: frames in one generation of the log
  MaxGen,         \* bound: generations (salt values) of the log
  AllowRollback,  \* BOOLEAN: a transaction that spilled frames may roll back
  AllowRestart,   \* BOOLEAN: a checkpointed log is overwritten from its start
  AllowTruncate   \* BOOLEAN: a checkpointed log may be cut to length 0

ASSUME WalLogAssumption ==
  /\ LastPage \in Nat \ {0}
  /\ MaxTxn \in Nat /\ MaxFrames \in Nat /\ MaxGen \in Nat
  /\ AllowRollback \in BOOLEAN
  /\ AllowRestart \in BOOLEAN
  /\ AllowTruncate \in BOOLEAN

VARIABLES
  frames,  \* the frames of the -wal file, those left by older generations too
  salt,    \* the salt of its header; 0 when the file is missing or empty
  gen,     \* the last salt ever used
  mx,      \* the writer's mxFrame: frames 1..mx are committed
  tail,    \* frames mx+1..tail are written by the transaction in progress
  main,    \* the pages of the main database file
  hist     \* hist[v]: the committed database after transaction v ended

logVars == <<frames, salt, gen, mx, tail, main, hist>>

Page == 1..LastPage
Frame == [pgno : Page, commit : Nat, salt : Nat, ver : Nat]

db == hist[Len(hist)]

\* The number of the transaction that is next to end.
Txn == Len(hist) + 1

\* How many pages a database with the content d has.
Size(d) == Cardinality({p \in Page : d[p] # 0})

\* The pages the transaction in progress has written.
TxnPages == {frames[i].pgno : i \in mx + 1 .. tail}

FirstDb == [p \in Page |-> IF p = 1 THEN 1 ELSE 0]

LogInit ==
  /\ frames = <<>>
  /\ salt = 0
  /\ gen = 0
  /\ mx = 0
  /\ tail = 0
  /\ main = FirstDb
  /\ hist = <<FirstDb>>

\* The file after the writer puts frame f at place i.
Put(i, f) ==
  IF i <= Len(frames) THEN [frames EXCEPT ![i] = f] ELSE Append(frames, f)

\* A transaction may write a page the database has, or the one after it.
Writable(p) == p > 1 => db[p - 1] # 0 \/ (p - 1) \in TxnPages

\* A transaction that does not fit the page cache spills a frame.
SpillFrame(p) ==
  /\ salt # 0
  /\ tail + 1 < MaxFrames
  /\ Txn <= MaxTxn
  /\ Writable(p)
  /\ frames' = Put(tail + 1, [pgno |-> p, commit |-> 0, salt |-> salt, ver |-> Txn])
  /\ tail' = tail + 1
  /\ UNCHANGED <<salt, gen, mx, main, hist>>

\* The last frame of a transaction carries the size of the database.
CommitFrame(p) ==
  LET new == [q \in Page |-> IF q \in TxnPages \cup {p} THEN Txn ELSE db[q]] IN
  /\ salt # 0
  /\ tail < MaxFrames
  /\ Txn <= MaxTxn
  /\ Writable(p)
  /\ frames' = Put(tail + 1, [pgno |-> p, commit |-> Size(new), salt |-> salt, ver |-> Txn])
  /\ tail' = tail + 1
  /\ mx' = tail + 1
  /\ hist' = Append(hist, new)
  /\ UNCHANGED <<salt, gen, main>>

\* The spilled frames stay in the file; the next transaction overwrites them.
Rollback ==
  /\ AllowRollback
  /\ tail > mx
  /\ tail' = mx
  /\ hist' = Append(hist, db)
  /\ UNCHANGED <<frames, salt, gen, mx, main>>

\* A checkpoint copies one committed page into the main file.
Backfill(p) ==
  /\ main[p] # db[p]
  /\ p > 1 => main[p - 1] # 0
  /\ main' = [main EXCEPT ![p] = db[p]]
  /\ UNCHANGED <<frames, salt, gen, mx, tail, hist>>

\* The writer starts a generation with a fresh salt: in an empty file, or
\* over the frames of a log the main file already holds in full.
NewGeneration ==
  /\ salt = 0 \/ (AllowRestart /\ mx > 0)
  /\ tail = mx
  /\ main = db
  /\ gen < MaxGen
  /\ gen' = gen + 1
  /\ salt' = gen + 1
  /\ mx' = 0
  /\ tail' = 0
  /\ UNCHANGED <<frames, main, hist>>

\* A TRUNCATE checkpoint of a log the main file holds in full.
Truncate ==
  /\ AllowTruncate
  /\ salt # 0
  /\ tail = mx
  /\ main = db
  /\ salt' = 0
  /\ frames' = <<>>
  /\ mx' = 0
  /\ tail' = 0
  /\ UNCHANGED <<gen, main, hist>>

LogNext ==
  \/ \E p \in Page : SpillFrame(p) \/ CommitFrame(p) \/ Backfill(p)
  \/ Rollback
  \/ NewGeneration
  \/ Truncate

LogTypeOK ==
  /\ frames \in Seq(Frame)
  /\ salt \in Nat
  /\ gen \in Nat
  /\ mx \in Nat
  /\ tail \in Nat
  /\ main \in [Page -> Nat]
  /\ hist \in Seq([Page -> Nat])
  /\ hist # <<>>
=============================================================================
