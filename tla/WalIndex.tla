------------------------------ MODULE WalIndex ------------------------------
(***************************************************************************)
(* src/daemon/wal_index.rs: the frame index of a -wal file, built by every *)
(* WxVfs::open, its in-memory cache shared by all opens of one database    *)
(* file (WalIndexCache), and the .wix file that outlives the daemon.       *)
(*                                                                         *)
(* Several threads open the same database at once: an Opener is one call   *)
(* of WxVfs::open and then the connection it produced.  The cache's lock   *)
(* covers only the take, the persist decision and the write-back, each of  *)
(* them an action; everything else interleaves.                            *)
(***************************************************************************)
EXTENDS WalLog

CONSTANTS
  Opener,      \* the threads that may open the database
  BufFrames,   \* frames that one refill of the scan's BufReader reads
  MinDelta,    \* WAL_PERSIST_MIN_DELTA, in frames
  SaveMayFail, \* BOOLEAN: writing the .wix file may fail (silently)
  MayRestart   \* BOOLEAN: the daemon may be restarted

ASSUME WalIndexAssumption ==
  /\ BufFrames \in Nat \ {0}
  /\ MinDelta \in Nat \ {0}
  /\ SaveMayFail \in BOOLEAN
  /\ MayRestart \in BOOLEAN

VARIABLES
  pc,         \* where each open is, build_wal_index_cached and after it
  fileLen,    \* frames of the -wal file when its length was read
  acc,        \* the index: the seed first, the scan's committed result at the end
  pos,        \* frames scanned so far
  pend,       \* frames of the transaction whose commit frame is not scanned yet
  buf,        \* frame headers the BufReader holds and the scan has not parsed
  didFull,    \* did_full_scan
  loadedEnd,  \* loaded_from_disk_end, 0 for None
  cache,      \* WalIndexCache.entry
  persisted,  \* WalIndexCache.persisted_scan_end
  disk        \* the .wix file

scanVars == <<fileLen, acc, pos, pend, buf, didFull, loadedEnd>>
cacheVars == <<cache, persisted, disk>>
vars == <<logVars, pc, scanVars, cacheVars>>

PCs == {"idle", "header", "take", "load", "scan",
        "store", "storeSave", "save", "open"}

\* An index, with the salt it was built under and the place the scan ended:
\* off[p] is the frame that holds page p (0: none), last the page count of the
\* last commit frame (0: none).  Also CachedWalScan and the .wix file.
Scan == [salt : Nat, end : Nat, off : [Page -> Nat], last : Nat]

\* Mutant: pages counted from 0.
NoFramesFromZero == [p \in 0..LastPage - 1 |-> 0]

NoFrames == [p \in Page |-> 0]
EmptyScan(s) == [salt |-> s, end |-> 0, off |-> NoFrames, last |-> 0]
NoScan == EmptyScan(0)

Init ==
  /\ LogInit
  /\ pc = [o \in Opener |-> "idle"]
  /\ fileLen = [o \in Opener |-> 0]
  /\ acc = [o \in Opener |-> NoScan]
  /\ pos = [o \in Opener |-> 0]
  /\ pend = [o \in Opener |-> NoFrames]
  /\ buf = [o \in Opener |-> <<>>]
  /\ didFull = [o \in Opener |-> FALSE]
  /\ loadedEnd = [o \in Opener |-> 0]
  /\ cache = NoScan
  /\ persisted = 0
  /\ disk = NoScan

\* The open fails, or the connection is closed: its locals are gone.
Forget(o) ==
  /\ pc' = [pc EXCEPT ![o] = "idle"]
  /\ fileLen' = [fileLen EXCEPT ![o] = 0]
  /\ acc' = [acc EXCEPT ![o] = NoScan]
  /\ pos' = [pos EXCEPT ![o] = 0]
  /\ pend' = [pend EXCEPT ![o] = NoFrames]
  /\ buf' = [buf EXCEPT ![o] = <<>>]
  /\ didFull' = [didFull EXCEPT ![o] = FALSE]
  /\ loadedEnd' = [loadedEnd EXCEPT ![o] = 0]

\* A missing log, or one with no room for a frame, means a view of main alone.
OpenWal(o) ==
  /\ pc[o] = "idle"
  /\ fileLen' = [fileLen EXCEPT ![o] = Len(frames)]
  /\ pc' = [pc EXCEPT ![o] = IF frames = <<>> THEN "open" ELSE "header"]
  /\ UNCHANGED <<logVars, acc, pos, pend, buf, didFull, loadedEnd, cacheVars>>

ReadHeader(o) ==
  /\ pc[o] = "header"
  /\ salt # 0
  /\ acc' = [acc EXCEPT ![o] = EmptyScan(salt)]
  /\ pc' = [pc EXCEPT ![o] = "take"]
  /\ UNCHANGED <<logVars, fileLen, pos, pend, buf, didFull, loadedEnd, cacheVars>>

\* The file was cut between its length and its header.
HeaderFails(o) ==
  /\ pc[o] = "header"
  /\ salt = 0
  /\ Forget(o)
  /\ UNCHANGED <<logVars, cacheVars>>

\* A cached or saved scan may seed this one: same salt, file not shorter.
Usable(e, o) == e.salt = acc[o].salt /\ fileLen[o] >= e.end

\* Under the cache's lock: take the shared snapshot.
TakeCached(o) ==
  /\ pc[o] = "take"
  /\ \/ /\ Usable(cache, o)
        /\ acc' = [acc EXCEPT ![o] = cache]
        /\ pos' = [pos EXCEPT ![o] = cache.end]
        /\ pc' = [pc EXCEPT ![o] = "scan"]
     \/ /\ ~Usable(cache, o)
        /\ pc' = [pc EXCEPT ![o] = "load"]
        /\ UNCHANGED <<acc, pos>>
  /\ UNCHANGED <<logVars, fileLen, pend, buf, didFull, loadedEnd, cacheVars>>

\* load_persisted_index, outside the lock; with no seed the scan is a full one.
LoadPersisted(o) ==
  /\ pc[o] = "load"
  /\ pc' = [pc EXCEPT ![o] = "scan"]
  /\ \/ /\ Usable(disk, o)
        /\ acc' = [acc EXCEPT ![o] = disk]
        /\ pos' = [pos EXCEPT ![o] = disk.end]
        /\ loadedEnd' = [loadedEnd EXCEPT ![o] = disk.end]
        /\ UNCHANGED didFull
     \/ /\ ~Usable(disk, o)
        /\ didFull' = [didFull EXCEPT ![o] = TRUE]
        /\ UNCHANGED <<acc, pos, loadedEnd>>
  /\ UNCHANGED <<logVars, fileLen, pend, buf, cacheVars>>

\* What the BufReader holds when frame pos+1 is wanted: what is left of the
\* last refill or, when nothing is, the file's content at this moment.
Buffered(o) ==
  IF buf[o] # <<>> THEN buf[o]
  ELSE SubSeq(frames, pos[o] + 1,
              IF pos[o] + BufFrames <= Len(frames) THEN pos[o] + BufFrames
                                                   ELSE Len(frames))

\* Mutant: the salt of a frame is not looked at.
AdoptedAll(o, f) == f.ver # 0

\* A frame of another salt is skipped, whatever follows it.
Adopted(o, f) == f.salt = acc[o].salt

\* Mutant: the pages spilled before the commit frame are forgotten.
CommittedLast(a, pending, f, n) ==
  [a EXCEPT !.off = [a.off EXCEPT ![f.pgno] = n], !.last = f.commit, !.end = n]

\* The transaction a commit frame f ends enters the index as a whole.
Committed(a, pending, f, n) ==
  [a EXCEPT !.off = [p \in Page |-> IF pending[p] # 0 THEN pending[p] ELSE a.off[p]],
            !.last = f.commit,
            !.end = n]

\* One turn of the loop of scan_wal_frames.
ScanFrame(o) ==
  LET n == pos[o] + 1
      b == Buffered(o)
      f == b[1]
      pending == [pend[o] EXCEPT ![f.pgno] = n]
  IN
  /\ pc[o] = "scan"
  /\ n <= fileLen[o]
  /\ b # <<>>
  /\ pos' = [pos EXCEPT ![o] = n]
  /\ buf' = [buf EXCEPT ![o] = Tail(b)]
  /\ \/ /\ Adopted(o, f) /\ f.commit # 0
        /\ acc' = [acc EXCEPT ![o] = Committed(acc[o], pending, f, n)]
        /\ pend' = [pend EXCEPT ![o] = NoFrames]
     \/ /\ Adopted(o, f) /\ f.commit = 0
        /\ pend' = [pend EXCEPT ![o] = pending]
        /\ UNCHANGED acc
     \/ /\ ~Adopted(o, f)
        /\ UNCHANGED <<acc, pend>>
  /\ UNCHANGED <<logVars, pc, fileLen, didFull, loadedEnd, cacheVars>>

\* Bytes inside the length snapshot are gone: UnexpectedEof, the open fails.
ScanFails(o) ==
  /\ pc[o] = "scan"
  /\ pos[o] < fileLen[o]
  /\ Buffered(o) = <<>>
  /\ Forget(o)
  /\ UNCHANGED <<logVars, cacheVars>>

\* Mutant: a full scan is no reason to save.
ShouldPersistGrown(o, known) == acc[o].end >= known + MinDelta

\* Is the scan saved?  Always after a full scan, else only when the log grew
\* by MinDelta frames since the last save.
ShouldPersist(o, known) == didFull[o] \/ acc[o].end >= known + MinDelta

\* The decision, under the cache's lock; the scan's other locals are done with.
DecidePersist(o) ==
  LET known  == IF loadedEnd[o] > persisted THEN loadedEnd[o] ELSE persisted
      should == ShouldPersist(o, known)
  IN
  /\ pc[o] = "scan"
  /\ pos[o] >= fileLen[o]
  /\ persisted' = IF should THEN acc[o].end ELSE known
  /\ pc' = [pc EXCEPT ![o] = IF should THEN "storeSave" ELSE "store"]
  /\ pend' = [pend EXCEPT ![o] = NoFrames]
  /\ buf' = [buf EXCEPT ![o] = <<>>]
  /\ didFull' = [didFull EXCEPT ![o] = FALSE]
  /\ loadedEnd' = [loadedEnd EXCEPT ![o] = 0]
  /\ fileLen' = [fileLen EXCEPT ![o] = 0]
  /\ UNCHANGED <<logVars, acc, pos, cache, disk>>

\* Under the lock, taken again: the last writer wins.
WriteBack(o) ==
  /\ pc[o] \in {"store", "storeSave"}
  /\ cache' = acc[o]
  /\ pc' = [pc EXCEPT ![o] = IF pc[o] = "store" THEN "open" ELSE "save"]
  /\ UNCHANGED <<logVars, scanVars, persisted, disk>>

\* save_persisted_index, outside the lock: written beside and renamed, or lost.
\* Two saves at once share the file beside: what is renamed may not load.
SavePersisted(o) ==
  /\ pc[o] = "save"
  /\ \/ disk' = acc[o]
     \/ SaveMayFail /\ UNCHANGED disk
     \/ disk' = NoScan /\ \E q \in Opener \ {o} : pc[q] = "save"
  /\ pc' = [pc EXCEPT ![o] = "open"]
  /\ UNCHANGED <<logVars, scanVars, cache, persisted>>

CloseConn(o) ==
  /\ pc[o] = "open"
  /\ Forget(o)
  /\ UNCHANGED <<logVars, cacheVars>>

\* The daemon dies at any moment and starts again: only the .wix file is left.
DaemonRestart ==
  /\ MayRestart
  /\ pc' = [o \in Opener |-> "idle"]
  /\ fileLen' = [o \in Opener |-> 0]
  /\ acc' = [o \in Opener |-> NoScan]
  /\ pos' = [o \in Opener |-> 0]
  /\ pend' = [o \in Opener |-> NoFrames]
  /\ buf' = [o \in Opener |-> <<>>]
  /\ didFull' = [o \in Opener |-> FALSE]
  /\ loadedEnd' = [o \in Opener |-> 0]
  /\ cache' = NoScan
  /\ persisted' = 0
  /\ UNCHANGED <<logVars, disk>>

OpenerNext(o) ==
  \/ OpenWal(o) \/ ReadHeader(o) \/ HeaderFails(o)
  \/ TakeCached(o) \/ LoadPersisted(o) \/ ScanFrame(o) \/ ScanFails(o)
  \/ DecidePersist(o) \/ WriteBack(o) \/ SavePersisted(o) \/ CloseConn(o)

WriterNext == LogNext /\ UNCHANGED <<pc, scanVars, cacheVars>>

Next ==
  \/ \E o \in Opener : OpenerNext(o)
  \/ WriterNext
  \/ DaemonRestart

Spec == Init /\ [][Next]_vars

-----------------------------------------------------------------------------
\* Type invariant of the openers, the cache and the saved file.
TypeOK ==
  /\ LogTypeOK
  /\ pc \in [Opener -> PCs]
  /\ fileLen \in [Opener -> Nat]
  /\ acc \in [Opener -> Scan]
  /\ pos \in [Opener -> Nat]
  /\ pend \in [Opener -> [Page -> Nat]]
  /\ buf \in [Opener -> Seq(Frame)]
  /\ didFull \in [Opener -> BOOLEAN]
  /\ loadedEnd \in [Opener -> Nat]
  /\ cache \in Scan
  /\ persisted \in Nat
  /\ disk \in Scan

\* Frame i holds the newest content of page p among frames 1..n; 0: none does.
IsLatest(p, i, n) ==
  /\ i \in 0..n
  /\ i # 0 => frames[i].pgno = p /\ frames[i].salt = salt
  /\ \A j \in i + 1 .. n : frames[j].pgno = p => frames[j].salt # salt

\* A scan labelled with the log's current salt is what a full rescan of the
\* same stretch of the file would give now, and ends at a commit frame.
Coherent(e) ==
  (e.salt = salt /\ salt # 0) =>
    /\ e.end <= mx
    /\ e.last = IF e.end = 0 THEN 0 ELSE frames[e.end].commit
    /\ e.end # 0 => e.last # 0
    /\ \A p \in Page : IsLatest(p, e.off[p], e.end)

\* wal_index.rs:325-330: resuming from the cached end is equivalent to a full
\* rescan.  Holds of the shared entry and of the saved file at every moment,
\* whichever openers raced to write them and whatever the writer did since.
CacheCoherent == Coherent(cache) /\ Coherent(disk)

\* wal_index.rs:385-390: less than WAL_PERSIST_MIN_DELTA of scanned log is
\* missing from the saved file when no open is under way, so that a restarted
\* daemon rescans less than that.
PersistTailBounded ==
  (\A o \in Opener : pc[o] \in {"idle", "open"}) /\ cache # NoScan =>
    /\ disk.salt = cache.salt
    /\ cache.end < disk.end + MinDelta
=============================================================================
