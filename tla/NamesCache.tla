----------------------------- MODULE NamesCache -----------------------------
(***************************************************************************)
(* src/daemon/names_cache.rs and load_names of src/daemon/query.rs: the    *)
(* table of contacts a daemon loads once, from names_cache.bin when        *)
(* contact.db is what it was and has been quiet for a slack period, by a   *)
(* scan of the whole table otherwise; the file is then written by a thread *)
(* of its own.  Daemons follow each other, may overlap, and `wxeasy init`  *)
(* may have changed the account in between; the cache directory is one.    *)
(*                                                                         *)
(* Time is counted in ticks of the file system's clock, one write of a     *)
(* file in each.  Lengths of files are left out: a restarted log is        *)
(* overwritten in place.                                                   *)
(***************************************************************************)
EXTENDS Naturals

CONSTANTS
  Daemon,     \* daemons that may run, each once
  Account,    \* accounts: a db_dir with its own contact.db and key
  None,
  Slack,      \* HOT_CACHE_FRESHNESS_SLACK, in ticks
  Lag,        \* ticks until another process sees a new modification time
  MaxTime,    \* bound: ticks
  MaxVer,     \* bound: versions of a table
  Straddle,   \* BOOLEAN: the log may go away between the two stats of a snapshot
  Transient   \* BOOLEAN: the stat behind wal_path.exists() may fail

ASSUME NamesCacheAssumption ==
  /\ None \notin Daemon \cup Account
  /\ Slack \in Nat /\ Lag \in Nat /\ Lag < Slack
  /\ MaxTime \in Nat /\ MaxVer \in Nat
  /\ Straddle \in BOOLEAN /\ Transient \in BOOLEAN

VARIABLES
  now,      \* the clock
  ver,      \* version of each account's contact table
  wrote,    \* when each account's database and log were last written
  shown,    \* the modification times another process sees (0: no such file)
  told,     \* history: the version those times stand for
  account,  \* the account of the configuration
  acct,     \* the account a daemon was started with
  pc,       \* where load_names is
  snap,     \* the snapshot it captured
  names,    \* names_arc: the version it serves, None before
  since,    \* history: the version when the load began, and the one told
  inode,    \* the file a daemon's writer has created; Empty while not whole
  name,     \* what names_cache.bin and names_cache.bin.tmp are
  writer    \* where the thread of store_names_cache is, with what it stores

world == <<now, ver, wrote, shown, told>>
load == <<acct, pc, snap, names, since>>
store == <<inode, name, writer>>
vars == <<world, account, load, store>>

Stamp == [db : Nat, wal : Nat]
Empty == [acc |-> None, ver |-> 0, snap |-> [db |-> 0, wal |-> 0]]
NoSince == [ver |-> 0, told |-> 0]
NoWriter == [at |-> "none", data |-> Empty, file |-> None]

Init ==
  /\ now = 1
  /\ ver = [a \in Account |-> 1]
  /\ wrote = [a \in Account |-> [db |-> 1, wal |-> 0]]
  /\ shown = wrote
  /\ told = ver
  /\ account \in Account
  /\ acct = [d \in Daemon |-> None]
  /\ pc = [d \in Daemon |-> "off"]
  /\ snap = [d \in Daemon |-> Empty.snap]
  /\ names = [d \in Daemon |-> None]
  /\ since = [d \in Daemon |-> NoSince]
  /\ inode = [d \in Daemon |-> Empty]
  /\ name = [bin |-> None, tmp |-> None]
  /\ writer = [d \in Daemon |-> NoWriter]

-----------------------------------------------------------------------------
(* The file system and WeChat. *)

Visible(a) == shown[a] = wrote[a]

Tick ==
  /\ now < MaxTime
  /\ \A a \in Account : ~Visible(a) =>
       \A f \in {"db", "wal"} : shown[a][f] # wrote[a][f] => now < wrote[a][f] + Lag
  /\ now' = now + 1
  /\ UNCHANGED <<ver, wrote, shown, told, account, load, store>>

\* A new modification time becomes visible to other processes.
Show(a) ==
  /\ ~Visible(a)
  /\ shown' = [shown EXCEPT ![a] = wrote[a]]
  /\ told' = [told EXCEPT ![a] = ver[a]]
  /\ UNCHANGED <<now, ver, wrote, account, load, store>>

Touch(a, f) ==
  /\ wrote[a][f] < now
  /\ wrote' = [wrote EXCEPT ![a][f] = now]
  /\ \/ UNCHANGED <<shown, told>>
     \/ /\ shown' = [shown EXCEPT ![a] = wrote'[a]]
        /\ told' = [told EXCEPT ![a] = ver'[a]]

\* A contact is changed: a frame goes into the log.
WriteContact(a) ==
  /\ ver[a] < MaxVer
  /\ ver' = [ver EXCEPT ![a] = @ + 1]
  /\ Touch(a, "wal")
  /\ UNCHANGED <<now, account, load, store>>

\* The log is copied into the database.
Checkpoint(a) ==
  /\ wrote[a].wal >= wrote[a].db
  /\ wrote[a].wal < now
  /\ UNCHANGED ver
  /\ Touch(a, "db")
  /\ UNCHANGED <<now, account, load, store>>

\* The last connection of WeChat takes the checkpointed log away; a file that
\* is closed shows its time.
CloseLog(a) ==
  /\ wrote[a].wal # 0
  /\ wrote[a].db > wrote[a].wal
  /\ Straddle \/ \A d \in Daemon : pc[d] \notin {"statWal", "statWalAgain"}
  /\ wrote' = [wrote EXCEPT ![a].wal = 0]
  /\ shown' = [shown EXCEPT ![a] = wrote'[a]]
  /\ told' = [told EXCEPT ![a] = ver[a]]
  /\ UNCHANGED <<now, ver, account, load, store>>

Switch(a) ==
  /\ account # a
  /\ account' = a
  /\ UNCHANGED <<world, load, store>>

-----------------------------------------------------------------------------
(* load_names. *)

At(d, step) == pc[d] = step
Go(d, step) == pc' = [pc EXCEPT ![d] = step]

Start(d) ==
  /\ At(d, "off")
  /\ Go(d, "stat")
  /\ acct' = [acct EXCEPT ![d] = account]
  /\ since' = [since EXCEPT ![d] = [ver |-> ver[account], told |-> told[account]]]
  /\ UNCHANGED <<world, account, snap, names, store>>

\* SourceSnapshot::capture: the database, then the log.
CaptureDb(d) ==
  /\ pc[d] \in {"stat", "statAgain"}
  /\ Go(d, IF At(d, "stat") THEN "statWal" ELSE "statWalAgain")
  /\ snap' = [snap EXCEPT ![d] = [db |-> shown[acct[d]].db, wal |-> 0]]
  /\ UNCHANGED <<world, account, acct, names, since, store>>

\* exists() says no for a log it fails to stat.
CaptureWal(d) ==
  /\ pc[d] \in {"statWal", "statWalAgain"}
  /\ Go(d, IF At(d, "statWal") THEN "lookup" ELSE "scan")
  /\ \E w \in {shown[acct[d]].wal} \cup (IF Transient THEN {0} ELSE {}) :
       snap' = [snap EXCEPT ![d].wal = w]
  /\ UNCHANGED <<world, account, acct, names, since, store>>

Newest(s) == IF s.wal > s.db THEN s.wal ELSE s.db

\* trusted_as_of: nothing was written for a whole slack period.
Trusted(s) == now >= Newest(s) + Slack

\* Mutant: the identity of the account is not part of the file.
ServesAny(f, a, s) == f.snap = s

\* The MAC (the account's key) and db_dir, then the snapshot.
Serves(f, a, s) == f.acc = a /\ f.snap = s

\* The file by its name, if it is whole: anything else fails the MAC.
Stored == IF name.bin = None THEN Empty ELSE inode[name.bin]

Hit(d) == Trusted(snap[d]) /\ Stored # Empty /\ Serves(Stored, acct[d], snap[d])

LoadCached(d) ==
  /\ At(d, "lookup")
  /\ Hit(d)
  /\ names' = [names EXCEPT ![d] = [acc |-> Stored.acc, ver |-> Stored.ver]]
  /\ Go(d, "hit")
  /\ UNCHANGED <<world, account, acct, snap, since, store>>

Miss(d) ==
  /\ At(d, "lookup")
  /\ ~Hit(d)
  /\ Go(d, "statAgain")
  /\ UNCHANGED <<world, account, acct, snap, names, since, store>>

\* The scan of contact.db; its connection sees one committed version.
Scan(d) ==
  /\ At(d, "scan")
  /\ names' = [names EXCEPT ![d] = [acc |-> acct[d], ver |-> ver[acct[d]]]]
  /\ Go(d, "scanned")
  /\ UNCHANGED <<world, account, acct, snap, since, store>>

\* A table that cannot be read is an empty Names, and is not stored.
ScanFails(d) ==
  /\ At(d, "scan")
  /\ names' = [names EXCEPT ![d] = [acc |-> None, ver |-> 0]]
  /\ Go(d, "done")
  /\ UNCHANGED <<world, account, acct, snap, since, store>>

\* Mutant: the file gets the snapshot of the end of the scan.
SpawnWriterLate(d) ==
  /\ At(d, "scanned")
  /\ Go(d, "done")
  /\ writer' = [writer EXCEPT ![d] =
       [at |-> "open", file |-> None,
        data |-> [acc |-> acct[d], ver |-> names[d].ver, snap |-> shown[acct[d]]]]]
  /\ UNCHANGED <<world, account, acct, snap, names, since, inode, name>>

\* store_names_cache, on a thread nothing waits for.
SpawnWriter(d) ==
  /\ At(d, "scanned")
  /\ Go(d, "done")
  /\ writer' = [writer EXCEPT ![d] =
       [at |-> "open", file |-> None,
        data |-> [acc |-> acct[d], ver |-> names[d].ver, snap |-> snap[d]]]]
  /\ UNCHANGED <<world, account, acct, snap, names, since, inode, name>>

\* fs::write creates the temporary file, or truncates another writer's.
OpenTmp(d) ==
  LET f == IF name.tmp = None THEN d ELSE name.tmp IN
  /\ writer[d].at = "open"
  /\ name' = [name EXCEPT !.tmp = f]
  /\ inode' = [inode EXCEPT ![f] = Empty]
  /\ writer' = [writer EXCEPT ![d].at = "write", ![d].file = f]
  /\ UNCHANGED <<world, account, load>>

\* Two writers in one file may leave the end of the longer one.
WriteTmp(d) ==
  LET f == writer[d].file IN
  /\ writer[d].at = "write"
  /\ \E c \in {writer[d].data} \cup (IF inode[f] = Empty THEN {} ELSE {Empty}) :
       inode' = [inode EXCEPT ![f] = c]
  /\ writer' = [writer EXCEPT ![d].at = "rename"]
  /\ UNCHANGED <<world, account, load, name>>

\* The rename fails when another writer has taken the temporary file.
RenameTmp(d) ==
  /\ writer[d].at = "rename"
  /\ name' = IF name.tmp = None THEN name ELSE [bin |-> name.tmp, tmp |-> None]
  /\ writer' = [writer EXCEPT ![d] = NoWriter]
  /\ UNCHANGED <<world, account, load, inode>>

\* The daemon ends, its writer wherever it is.
Exit(d) ==
  /\ pc[d] \notin {"off", "gone"}
  /\ Go(d, "gone")
  /\ acct' = [acct EXCEPT ![d] = None]
  /\ snap' = [snap EXCEPT ![d] = Empty.snap]
  /\ names' = [names EXCEPT ![d] = None]
  /\ since' = [since EXCEPT ![d] = NoSince]
  /\ writer' = [writer EXCEPT ![d] = NoWriter]
  /\ UNCHANGED <<world, account, inode, name>>

Next ==
  \/ Tick
  \/ \E a \in Account : Show(a) \/ WriteContact(a) \/ Checkpoint(a) \/ CloseLog(a) \/ Switch(a)
  \/ \E d \in Daemon :
       \/ Start(d) \/ CaptureDb(d) \/ CaptureWal(d) \/ LoadCached(d) \/ Miss(d)
       \/ Scan(d) \/ ScanFails(d) \/ SpawnWriter(d)
       \/ OpenTmp(d) \/ WriteTmp(d) \/ RenameTmp(d) \/ Exit(d)

Spec == Init /\ [][Next]_vars

-----------------------------------------------------------------------------
\* Contacts that come from the file are those of the daemon's own account, and
\* no older than the modification times told when the load began, whoever wrote
\* the file, in whatever order and however far (names_cache.rs:19-26, 57-63).
CachedIsShown ==
  \A d \in Daemon :
    At(d, "hit") => names[d].acc = acct[d] /\ names[d].ver >= since[d].told

\* The slack, as cache.rs:1025-1028 states it, covers the times that come late
\* as well: contacts from the file are those of the moment the load began.
CachedIsCurrent ==
  \A d \in Daemon : At(d, "hit") => names[d].ver >= since[d].ver
=============================================================================
