--------------------------- MODULE MergedViewProofs ---------------------------
(***************************************************************************)
(* Theorems of WalIndex and of MergedView, for every number of openers,    *)
(* pages, frames and transactions and every size of the scan buffer.       *)
(*                                                                         *)
(* First the types, the coherence of the cached index and the saves that   *)
(* lag behind by a bounded tail; then that MergedView implements           *)
(* SnapshotRead: through any number of connections at once, over the two   *)
(* kinds of log for which the cached index is coherent, an undisturbed     *)
(* connection reads one committed database and keeps reading it.           *)
(*                                                                         *)
(* No ghost variable is needed to say which: a frame carries the number of *)
(* the transaction that wrote it, so the snapshot a connection reads is    *)
(* the one of the last commit frame its index covers (Snap below).         *)
(***************************************************************************)
EXTENDS MergedView, WalLogProofs

-----------------------------------------------------------------------------
(* Type correctness of the openers *)

LEMMA InitType == Init => TypeOK
<1> SUFFICES ASSUME Init PROVE TypeOK
  OBVIOUS
<1>1. LogTypeOK
  BY LogInitType DEF Init
<1>2. NoScan \in Scan /\ NoFrames \in [Page -> Nat]
  BY DEF NoScan, EmptyScan, NoFrames, Scan
<1> QED
  BY <1>1, <1>2 DEF Init, TypeOK, PCs

LEMMA BufferedType ==
  ASSUME TypeOK, NEW o \in Opener
  PROVE  Buffered(o) \in Seq(Frame)
<1>1. CASE buf[o] # <<>>
  BY <1>1 DEF Buffered, TypeOK
<1>2. CASE buf[o] = <<>>
  <2> DEFINE n == IF pos[o] + BufFrames <= Len(frames) THEN pos[o] + BufFrames ELSE Len(frames)
  <2>1. n \in Nat /\ n <= Len(frames) /\ pos[o] + 1 \in Nat \ {0}
    BY WalIndexAssumption DEF TypeOK, LogTypeOK
  <2>2. \A i \in pos[o] + 1 .. n : i \in 1..Len(frames)
    BY <2>1 DEF TypeOK
  <2>3. SubSeq(frames, pos[o] + 1, n) \in Seq(Frame)
    BY <2>1, <2>2, SubSeqProperties DEF TypeOK, LogTypeOK
  <2> QED
    BY <2>3, <1>2 DEF Buffered
<1> QED
  BY <1>1, <1>2

LEMMA StepType ==
  ASSUME TypeOK, [Next]_vars
  PROVE  TypeOK'
<1>1. NoScan \in Scan /\ NoFrames \in [Page -> Nat]
  BY DEF NoScan, EmptyScan, NoFrames, Scan
<1>2. ASSUME NEW o \in Opener, OpenerNext(o) PROVE TypeOK'
  <2>0. UNCHANGED logVars => LogTypeOK'
    BY DEF TypeOK, LogTypeOK, logVars
  <2>2. CASE OpenWal(o)
    <3>1. Len(frames) \in Nat
      BY LenProperties DEF TypeOK, LogTypeOK
    <3>2. pc' \in [Opener -> PCs]
      BY <2>2 DEF OpenWal, TypeOK, PCs
    <3> QED
      BY <3>1, <3>2, <2>0, <2>2 DEF OpenWal, TypeOK, cacheVars
  <2>3. CASE ReadHeader(o)
    <3>1. EmptyScan(salt) \in Scan
      BY <1>1 DEF EmptyScan, Scan, TypeOK, LogTypeOK
    <3> QED
      BY <3>1, <2>0, <2>3 DEF ReadHeader, TypeOK, PCs, cacheVars
  <2>4. CASE HeaderFails(o)
    BY <1>1, <2>0, <2>4 DEF HeaderFails, Forget, TypeOK, PCs, cacheVars
  <2>5. CASE TakeCached(o)
    <3>1. cache.end \in Nat
      BY DEF TypeOK, Scan
    <3>2. acc' \in [Opener -> Scan] /\ pos' \in [Opener -> Nat]
      BY <3>1, <2>5 DEF TakeCached, TypeOK
    <3>3. pc' \in [Opener -> PCs]
      BY <2>5 DEF TakeCached, TypeOK, PCs
    <3> QED
      BY <3>2, <3>3, <2>0, <2>5 DEF TakeCached, TypeOK, cacheVars
  <2>6. CASE LoadPersisted(o)
    <3>1. disk.end \in Nat
      BY DEF TypeOK, Scan
    <3> QED
      BY <3>1, <2>0, <2>6 DEF LoadPersisted, TypeOK, PCs, cacheVars
  <2>7. CASE ScanFrame(o)
    <3> DEFINE n == pos[o] + 1
               b == Buffered(o)
               f == b[1]
               pending == [pend[o] EXCEPT ![f.pgno] = n]
    <3>1. b \in Seq(Frame) /\ b # <<>>
      BY <2>7, BufferedType DEF ScanFrame
    <3>2. f \in Frame /\ Tail(b) \in Seq(Frame) /\ n \in Nat
      BY <3>1 DEF TypeOK
    <3>3. pending \in [Page -> Nat]
      BY <3>2 DEF TypeOK
    <3>4. Committed(acc[o], pending, f, n) \in Scan
      <4>1. acc[o] \in Scan
        BY DEF TypeOK
      <4>2. f.commit \in Nat
        BY <3>2 DEF Frame
      <4> QED
        BY <4>1, <4>2, <3>2, <3>3 DEF Committed, Scan
    <3>5. acc' \in [Opener -> Scan] /\ pend' \in [Opener -> [Page -> Nat]]
      BY <1>1, <2>7, <3>3, <3>4 DEF ScanFrame, TypeOK
    <3>6. pos' \in [Opener -> Nat] /\ buf' \in [Opener -> Seq(Frame)]
      BY <2>7, <3>2 DEF ScanFrame, TypeOK
    <3> QED
      BY <3>5, <3>6, <2>0, <2>7 DEF ScanFrame, TypeOK, cacheVars
  <2>8. CASE ScanFails(o)
    BY <1>1, <2>0, <2>8 DEF ScanFails, Forget, TypeOK, PCs, cacheVars
  <2>9. CASE DecidePersist(o)
    <3>1. acc[o].end \in Nat
      BY DEF TypeOK, Scan
    <3> QED
      BY <1>1, <3>1, <2>0, <2>9 DEF DecidePersist, TypeOK, PCs
  <2>10. CASE WriteBack(o)
    BY <2>0, <2>10 DEF WriteBack, TypeOK, PCs, scanVars
  <2>11. CASE SavePersisted(o)
    BY <1>1, <2>0, <2>11 DEF SavePersisted, TypeOK, PCs, scanVars
  <2>12. CASE CloseConn(o)
    BY <1>1, <2>0, <2>12 DEF CloseConn, Forget, TypeOK, PCs, cacheVars
  <2> QED
    BY <1>2, <2>2, <2>3, <2>4, <2>5, <2>6, <2>7, <2>8, <2>9, <2>10, <2>11,
       <2>12 DEF OpenerNext
<1>3. CASE WriterNext
  BY <1>3, LogStepType DEF WriterNext, TypeOK, scanVars, cacheVars
<1>4. CASE DaemonRestart
  BY <1>1, <1>4 DEF DaemonRestart, TypeOK, LogTypeOK, logVars, PCs
<1>5. CASE UNCHANGED vars
  BY <1>5 DEF vars, logVars, scanVars, cacheVars, TypeOK, LogTypeOK
<1> QED
  BY <1>2, <1>3, <1>4, <1>5 DEF Next

\* The openers, the cache and the saved file keep their types.
THEOREM TypeCorrect == Spec => []TypeOK
  BY InitType, StepType, PTL DEF Spec

-----------------------------------------------------------------------------
(***************************************************************************)
(* Coherence of the cache.                                                 *)
(*                                                                         *)
(* wal_index.rs argues that, because one generation of the log is strictly *)
(* append-only, resuming from a cached end gives what a full rescan gives. *)
(* AppendOnly is that premise: no frame of a generation is ever written    *)
(* twice, and none is left behind by an older one; truncation remains.     *)
(* OneRefill is another: frames are rolled back and overwritten, but every *)
(* scan reads the rest of the log by one refill of its buffer, from a file *)
(* that is never cut.  Either is enough, for restarts of the daemon, lost  *)
(* saves and any number of racing opens; without both CacheCoherent fails. *)
(***************************************************************************)
OneRefill == BufFrames >= MaxFrames /\ ~AllowTruncate

\* pend holds the newest frame of every page between the last commit frame the
\* scan of o has read and its cursor.
PendInv(o) ==
  \A p \in Page :
    /\ pend[o][p] \in 0..pos[o]
    /\ pend[o][p] # 0 => frames[pend[o][p]].pgno = p /\ pend[o][p] > acc[o].end
    /\ \A j \in acc[o].end + 1 .. pos[o] : j > pend[o][p] => frames[j].pgno # p

\* No frame up to m will change while the generation lasts.
Settled(m) == IF AppendOnly THEN m = Len(frames) ELSE m <= mx

\* The scan of o with b in its buffer has read and holds, up to frame m, what
\* is in the file; what it holds of later frames ends no transaction.
Window(o, b, m) ==
  /\ pos[o] <= m => PendInv(o)
  /\ b = <<>> => pos[o] <= m
  /\ \A i \in 1..Len(b) :
       IF pos[o] + i <= m THEN b[i] = frames[pos[o] + i]
                          ELSE b[i].salt = salt => b[i].commit = 0
  /\ IF AppendOnly THEN pos[o] + Len(b) <= m
     ELSE IF b = <<>> THEN pos[o] = acc[o].end ELSE fileLen[o] <= pos[o] + Len(b)

ScanInv(o) ==
  /\ acc[o].end <= pos[o]
  /\ pos[o] < fileLen[o] =>
       \E m \in acc[o].end .. Len(frames) : Settled(m) /\ Window(o, buf[o], m)

OpenerInv(o) ==
  /\ acc[o].salt <= gen
  /\ OneRefill => fileLen[o] <= Len(frames)
  /\ pc[o] \in {"take", "load"} => acc[o] = EmptyScan(acc[o].salt)
  /\ pc[o] \in {"idle", "header", "take", "load"} => pos[o] = 0
  /\ pc[o] # "scan" => buf[o] = <<>> /\ pend[o] = NoFrames
  /\ (acc[o].salt = salt /\ salt # 0) => Coherent(acc[o]) /\ (pc[o] = "scan" => ScanInv(o))

CacheInv ==
  /\ cache.salt <= gen
  /\ disk.salt <= gen
  /\ CacheCoherent

CoherenceInv ==
  /\ LogInv
  /\ CacheInv
  /\ \A o \in Opener : OpenerInv(o)

LEMMA InitCoherence == Init => CoherenceInv
<1> SUFFICES ASSUME Init PROVE CoherenceInv
  OBVIOUS
<1>1. LogInv
  BY InitLog DEF Init
<1>2. CacheInv
  BY DEF Init, LogInit, CacheInv, CacheCoherent, Coherent, NoScan, EmptyScan
<1>3. \A o \in Opener : OpenerInv(o)
  BY DEF Init, LogInit, OpenerInv, NoScan, EmptyScan
<1> QED
  BY <1>1, <1>2, <1>3 DEF CoherenceInv

\* The committed frames of a generation do not change: what an index relies on.
LEMMA GrowKeepsCoherent ==
  ASSUME NEW e \in Scan, Coherent(e),
         LogTypeOK, LogTypeOK', salt' = salt, mx <= mx',
         \A i \in 1..mx : frames'[i] = frames[i]
  PROVE  Coherent(e)'
<1>1. e.end \in Nat /\ mx \in Nat /\ mx' \in Nat
  BY DEF Scan, LogTypeOK
<1>2. \A p \in Page : e.off[p] \in Nat
  BY DEF Scan
<1> SUFFICES ASSUME e.salt = salt', salt' # 0
             PROVE  /\ e.end <= mx'
                    /\ e.last = IF e.end = 0 THEN 0 ELSE frames'[e.end].commit
                    /\ e.end # 0 => e.last # 0
                    /\ \A p \in Page : IsLatest(p, e.off[p], e.end)'
  BY DEF Coherent
<1>3. /\ e.end <= mx
      /\ e.last = IF e.end = 0 THEN 0 ELSE frames[e.end].commit
      /\ e.end # 0 => e.last # 0
      /\ \A p \in Page : IsLatest(p, e.off[p], e.end)
  BY DEF Coherent
<1>4. \A i \in 1..e.end : frames'[i] = frames[i]
  BY <1>1, <1>3
<1>5. e.last = IF e.end = 0 THEN 0 ELSE frames'[e.end].commit
  BY <1>1, <1>3, <1>4
<1>6. ASSUME NEW p \in Page PROVE IsLatest(p, e.off[p], e.end)'
  BY <1>1, <1>2, <1>3, <1>4 DEF IsLatest
<1> QED
  BY <1>1, <1>3, <1>5, <1>6

\* A scan under way is not disturbed either.
LEMMA GrowKeepsScan ==
  ASSUME TypeOK, TypeOK', NEW o \in Opener, ScanInv(o), LogInv, LogInv',
         UNCHANGED scanVars, salt' = salt, mx <= mx', Len(frames) <= Len(frames'),
         \A i \in 1..mx : frames'[i] = frames[i],
         AppendOnly => \A i \in 1..Len(frames) : frames'[i] = frames[i]
  PROVE  ScanInv(o)'
<1>1. /\ acc[o] \in Scan /\ pos[o] \in Nat /\ buf[o] \in Seq(Frame) /\ fileLen[o] \in Nat
      /\ pend[o] \in [Page -> Nat] /\ acc[o].end \in Nat
      /\ mx \in Nat /\ mx' \in Nat /\ tail \in Nat
      /\ Len(frames) \in Nat /\ Len(frames') \in Nat /\ Len(buf[o]) \in Nat
  BY LenProperties DEF TypeOK, LogTypeOK, Scan
<1>2. /\ acc' = acc /\ pos' = pos /\ buf' = buf /\ pend' = pend /\ fileLen' = fileLen
  BY DEF scanVars
<1> SUFFICES ASSUME pos[o] < fileLen[o]
             PROVE  \E m \in acc[o].end .. Len(frames') : Settled(m)' /\ Window(o, buf[o], m)'
  BY <1>2 DEF ScanInv, Window, PendInv, Settled
<1>3. PICK m \in acc[o].end .. Len(frames) : Settled(m) /\ Window(o, buf[o], m)
  BY DEF ScanInv
\* The settled frames are still there, and the old place m is still settled.
<1>4. m \in Nat /\ \A i \in 1..m : frames'[i] = frames[i]
  <2>1. CASE AppendOnly
    BY <2>1, <1>1, <1>3
  <2>2. CASE ~AppendOnly
    BY <2>2, <1>1, <1>3 DEF Settled
  <2> QED
    BY <2>1, <2>2
<1>5. ASSUME pos[o] <= m PROVE PendInv(o)'
  <2> SUFFICES ASSUME NEW p \in Page
               PROVE  /\ pend[o][p] \in 0..pos[o]
                      /\ pend[o][p] # 0 => frames'[pend[o][p]].pgno = p /\ pend[o][p] > acc[o].end
                      /\ \A j \in acc[o].end + 1 .. pos[o] : j > pend[o][p] => frames'[j].pgno # p
    BY <1>2 DEF PendInv
  <2>1. /\ pend[o][p] \in 0..pos[o]
        /\ pend[o][p] # 0 => frames[pend[o][p]].pgno = p /\ pend[o][p] > acc[o].end
        /\ \A j \in acc[o].end + 1 .. pos[o] : j > pend[o][p] => frames[j].pgno # p
    BY <1>3, <1>5 DEF Window, PendInv
  <2>2. \A j \in 1..pos[o] : frames'[j] = frames[j]
    BY <1>1, <1>4, <1>5
  <2> QED
    BY <2>1, <2>2, <1>1
<1>6. CASE AppendOnly
  <2>1. m = Len(frames) /\ pos[o] + Len(buf[o]) <= m
    BY <1>3, <1>6 DEF Settled, Window
  <2>2. \A i \in 1..Len(buf[o]) : pos[o] + i \in 1..m /\ buf[o][i] = frames'[pos[o] + i]
    <3> SUFFICES ASSUME NEW i \in 1..Len(buf[o])
                 PROVE  pos[o] + i \in 1..m /\ buf[o][i] = frames'[pos[o] + i]
      OBVIOUS
    <3>1. pos[o] + i \in 1..m
      BY <2>1, <1>1
    <3>2. buf[o][i] = frames[pos[o] + i]
      BY <3>1, <1>3 DEF Window
    <3> QED
      BY <3>1, <3>2, <1>4
  <2>3. PendInv(o)'
    BY <2>1, <1>1, <1>5
  <2>0. PICK k \in Nat : k = Len(frames')
    BY <1>1
  <2>4. k \in acc[o].end .. Len(frames') /\ Settled(k)'
    BY <2>0, <2>1, <1>1, <1>3, <1>6 DEF Settled
  <2>5. pos[o] + Len(buf[o]) <= k /\ \A i \in 1..Len(buf[o]) : pos[o] + i <= k
    BY <2>0, <2>1, <2>2, <1>1
  <2>6. Window(o, buf[o], k)'
    <3>1. pos[o] <= k
      BY <2>0, <2>5, <1>1
    <3> QED
      BY <2>2, <2>3, <2>5, <3>1, <1>2, <1>6 DEF Window
  <2> QED
    BY <2>4, <2>6
<1>7. CASE ~AppendOnly
  <2>1. m <= mx /\ m \in acc[o].end .. Len(frames')
    BY <1>1, <1>3, <1>7 DEF Settled
  <2>2. Settled(m)'
    BY <2>1, <1>1, <1>4, <1>7 DEF Settled
  <2>3. \A i \in 1..Len(buf[o]) :
          IF pos[o] + i <= m THEN buf[o][i] = frames'[pos[o] + i]
                             ELSE buf[o][i].salt = salt => buf[o][i].commit = 0
    <3> SUFFICES ASSUME NEW i \in 1..Len(buf[o])
                 PROVE  IF pos[o] + i <= m THEN buf[o][i] = frames'[pos[o] + i]
                                 ELSE buf[o][i].salt = salt => buf[o][i].commit = 0
      OBVIOUS
    <3>1. IF pos[o] + i <= m THEN buf[o][i] = frames[pos[o] + i]
                             ELSE buf[o][i].salt = salt => buf[o][i].commit = 0
      BY <1>3 DEF Window
    <3>2. pos[o] + i <= m => pos[o] + i \in 1..m
      BY <1>1, <1>4
    <3> QED
      BY <3>1, <3>2, <1>4
  <2>4. /\ buf[o] = <<>> => pos[o] <= m
        /\ IF buf[o] = <<>> THEN pos[o] = acc[o].end ELSE fileLen[o] <= pos[o] + Len(buf[o])
    BY <1>3, <1>7 DEF Window
  <2>5. Window(o, buf[o], m)'
    BY <2>3, <2>4, <1>2, <1>5, <1>7 DEF Window
  <2> QED
    BY <2>1, <2>2, <2>5
<1> QED
  BY <1>6, <1>7

\* A writer's step within the current generation.
LEMMA GrowStep ==
  ASSUME TypeOK, TypeOK', CoherenceInv, LogInv',
         UNCHANGED <<pc, scanVars, cacheVars>>, salt' = salt, gen' = gen,
         mx <= mx', Len(frames) <= Len(frames'),
         \A i \in 1..mx : frames'[i] = frames[i],
         AppendOnly => \A i \in 1..Len(frames) : frames'[i] = frames[i]
  PROVE  CoherenceInv'
<1>1. LogTypeOK /\ LogTypeOK' /\ LogInv
  BY DEF TypeOK, CoherenceInv
<1>2. cache \in Scan /\ disk \in Scan /\ cache' = cache /\ disk' = disk
  BY DEF TypeOK, cacheVars
<1>3. \A e \in Scan : Coherent(e) => Coherent(e)'
  BY <1>1, GrowKeepsCoherent
<1>4. CacheInv'
  <2>1. Coherent(cache) /\ Coherent(disk)
    BY DEF CoherenceInv, CacheInv, CacheCoherent
  <2>2. Coherent(cache)' /\ Coherent(disk)'
    BY <1>2, <1>3, <2>1 DEF Coherent, IsLatest
  <2> QED
    BY <1>2, <2>2 DEF CoherenceInv, CacheInv, CacheCoherent
<1>5. ASSUME NEW o \in Opener PROVE OpenerInv(o)'
  <2>1. acc[o] \in Scan
    BY DEF TypeOK
  <2>2. /\ pc' = pc /\ acc' = acc /\ pos' = pos /\ buf' = buf /\ pend' = pend
        /\ fileLen' = fileLen
    BY DEF scanVars
  <2>3. OpenerInv(o)
    BY DEF CoherenceInv
  <2>4. Coherent(acc[o]) => Coherent(acc[o])'
    BY <1>3, <2>1, <2>2 DEF Coherent, IsLatest
  <2>5. ScanInv(o) => ScanInv(o)'
    BY <1>1, GrowKeepsScan
  <2>6. OneRefill => fileLen'[o] <= Len(frames')
    <3>1. fileLen[o] \in Nat /\ Len(frames) \in Nat /\ Len(frames') \in Nat
      BY <1>1, LenProperties DEF TypeOK, LogTypeOK
    <3>2. OneRefill => fileLen[o] <= Len(frames)
      BY <2>3 DEF OpenerInv
    <3> QED
      BY <2>2, <3>1, <3>2
  <2> QED
    BY <2>2, <2>3, <2>4, <2>5, <2>6 DEF OpenerInv
<1> QED
  BY <1>4, <1>5 DEF CoherenceInv

\* A writer's step to a salt no index carries: nothing is claimed any more.
LEMMA NewSaltStep ==
  ASSUME TypeOK, TypeOK', CoherenceInv, LogInv',
         UNCHANGED <<pc, scanVars, cacheVars>>, gen <= gen', salt' = 0 \/ salt' > gen,
         OneRefill => frames' = frames
  PROVE  CoherenceInv'
<1>1. gen \in Nat /\ gen' \in Nat /\ salt' \in Nat
  BY DEF TypeOK, LogTypeOK
<1>2. CacheInv'
  <2>1. cache' = cache /\ disk' = disk /\ cache.salt <= gen /\ disk.salt <= gen
    BY DEF cacheVars, CoherenceInv, CacheInv
  <2>2. cache.salt \in Nat /\ disk.salt \in Nat
    BY DEF TypeOK, Scan
  <2> QED
    BY <1>1, <2>1, <2>2 DEF CacheInv, CacheCoherent, Coherent
<1>3. ASSUME NEW o \in Opener PROVE OpenerInv(o)'
  <2>1. /\ pc' = pc /\ acc' = acc /\ pos' = pos /\ buf' = buf /\ pend' = pend
        /\ fileLen' = fileLen
    BY DEF scanVars
  <2>2. OpenerInv(o) /\ acc[o].salt \in Nat
    BY DEF CoherenceInv, TypeOK, Scan
  <2> QED
    BY <1>1, <2>1, <2>2 DEF OpenerInv
<1> QED
  BY <1>2, <1>3 DEF CoherenceInv

LEMMA WriterCoherence ==
  ASSUME TypeOK, TypeOK', CoherenceInv, WriterNext
  PROVE  CoherenceInv'
<1>1. LogTypeOK /\ LogTypeOK' /\ LogInv
  BY DEF TypeOK, CoherenceInv
<1>2. UNCHANGED <<pc, scanVars, cacheVars>> /\ LogNext
  BY DEF WriterNext
<1>3. LogInv' /\ Grows => CoherenceInv'
  BY <1>2, GrowStep DEF Grows
<1>4. LogInv' /\ gen <= gen' /\ (salt' = 0 \/ salt' > gen) /\ (OneRefill => frames' = frames)
      => CoherenceInv'
  BY <1>2, NewSaltStep
<1>5. ASSUME NEW p \in Page, SpillFrame(p) \/ CommitFrame(p) PROVE CoherenceInv'
  BY <1>1, <1>3, <1>5, WriteGrows
<1>6. ASSUME NEW p \in Page, Backfill(p) PROVE CoherenceInv'
  BY <1>1, <1>3, <1>6, StayGrows
<1>7. CASE Rollback
  <2>1. 1 \in Page
    BY WalLogAssumption DEF Page
  <2> QED
    BY <2>1, <1>1, <1>3, <1>7, StayGrows
<1>8. CASE NewGeneration \/ Truncate
  BY <1>1, <1>4, <1>8, ResetLog DEF OneRefill
<1> QED
  BY <1>2, <1>5, <1>6, <1>7, <1>8 DEF LogNext

\* An opener that does not step keeps its part of the invariant.
LEMMA OtherOpener ==
  ASSUME NEW q \in Opener, OpenerInv(q), UNCHANGED logVars,
         pc'[q] = pc[q], acc'[q] = acc[q], pos'[q] = pos[q], buf'[q] = buf[q],
         pend'[q] = pend[q], fileLen'[q] = fileLen[q]
  PROVE  OpenerInv(q)'
<1>1. PendInv(q) <=> PendInv(q)'
  BY DEF PendInv, logVars
<1>2. \A m : Settled(m) /\ Window(q, buf[q], m) <=> Settled(m)' /\ Window(q, buf[q], m)'
  BY <1>1 DEF Settled, Window, logVars
<1>3. ScanInv(q) => ScanInv(q)'
  BY <1>2 DEF ScanInv, logVars
<1>4. Coherent(acc[q]) => Coherent(acc[q])'
  BY DEF Coherent, IsLatest, logVars
<1> QED
  BY <1>3, <1>4 DEF OpenerInv, logVars

\* So does one that forgets everything.
LEMMA ForgotOpener ==
  ASSUME TypeOK', NEW o \in Opener, pc'[o] = "idle", acc'[o] = NoScan, pos'[o] = 0,
         buf'[o] = <<>>, pend'[o] = NoFrames, fileLen'[o] = 0
  PROVE  OpenerInv(o)'
<1>1. Len(frames') \in Nat /\ salt' \in Nat /\ gen' \in Nat
  BY LenProperties DEF TypeOK, LogTypeOK
<1> QED
  BY <1>1 DEF OpenerInv, NoScan, EmptyScan

\* What a refill of the buffer puts there.
LEMMA RefillBytes ==
  ASSUME TypeOK, NEW o \in Opener, buf[o] = <<>>, Buffered(o) # <<>>
  PROVE  /\ \A i \in 1..Len(Buffered(o)) :
              pos[o] + i \in 1..Len(frames) /\ Buffered(o)[i] = frames[pos[o] + i]
         /\ pos[o] + Len(Buffered(o)) <= Len(frames)
         /\ Len(frames) <= BufFrames => pos[o] + Len(Buffered(o)) = Len(frames)
<1> DEFINE k == IF pos[o] + BufFrames <= Len(frames) THEN pos[o] + BufFrames ELSE Len(frames)
           b == Buffered(o)
<1>1. /\ pos[o] \in Nat /\ frames \in Seq(Frame) /\ Len(frames) \in Nat
      /\ BufFrames \in Nat \ {0}
  BY LenProperties, WalIndexAssumption DEF TypeOK, LogTypeOK
<1>2. k \in Nat /\ k <= Len(frames) /\ (Len(frames) <= BufFrames => k = Len(frames))
  BY <1>1
<1>3. b = SubSeq(frames, pos[o] + 1, k)
  BY DEF Buffered
<1>4. b \in Seq(Frame) /\ b # <<>>
  BY BufferedType
<1> HIDE DEF k, b
<1>5. \A i \in pos[o] + 1 .. k : i \in 1..Len(frames)
  BY <1>1, <1>2
<1>6. /\ Len(b) = IF pos[o] + 1 <= k THEN k - (pos[o] + 1) + 1 ELSE 0
      /\ \A i \in 1..k - (pos[o] + 1) + 1 : b[i] = frames[pos[o] + 1 + i - 1]
  <2>1. \A i \in pos[o] + 1 .. k : frames[i] \in Frame
    BY <1>1, <1>5, ElementOfSeq
  <2>2. pos[o] + 1 \in Int /\ k \in Int
    BY <1>1, <1>2
  <2> QED
    BY <2>1, <2>2, <1>3, SubSeqProperties
<1>7. Len(b) # 0
  BY <1>4, EmptySeq
<1>8. Len(b) = k - pos[o] /\ pos[o] + 1 <= k
  BY <1>1, <1>2, <1>6, <1>7
<1>9. ASSUME NEW i \in 1..Len(b)
      PROVE  pos[o] + i \in 1..Len(frames) /\ b[i] = frames[pos[o] + i]
  <2>1. i \in Nat /\ 1 <= i /\ i <= k - pos[o]
    BY <1>1, <1>2, <1>8
  <2>2. i \in 1..k - (pos[o] + 1) + 1 /\ pos[o] + 1 + i - 1 = pos[o] + i
    BY <2>1, <1>1, <1>2
  <2>3. pos[o] + i \in 1..Len(frames)
    BY <2>1, <1>1, <1>2
  <2> QED
    BY <2>2, <2>3, <1>6
<1>10. pos[o] + Len(b) = k
  BY <1>1, <1>2, <1>8
<1> QED
  BY <1>2, <1>9, <1>10 DEF b

\* A refill of the buffer, or what is left of the last one, is a window again.
LEMMA RefillWindow ==
  ASSUME TypeOK, AppendOnly \/ OneRefill, LogInv, NEW o \in Opener, OpenerInv(o),
         pc[o] = "scan", pos[o] < fileLen[o], acc[o].salt = salt, salt # 0, Buffered(o) # <<>>
  PROVE  \E m \in acc[o].end .. Len(frames) : Settled(m) /\ Window(o, Buffered(o), m)
<1> DEFINE b == Buffered(o)
<1>1. /\ pos[o] \in Nat /\ Len(frames) \in Nat /\ acc[o].end \in Nat
      /\ mx \in Nat /\ mx <= Len(frames) /\ fileLen[o] \in Nat
      /\ BufFrames \in Nat /\ MaxFrames \in Nat
  <2>1. acc[o] \in Scan /\ pos[o] \in Nat /\ fileLen[o] \in Nat
    BY DEF TypeOK
  <2>2. mx \in Nat /\ tail \in Nat /\ Len(frames) \in Nat
    BY LenProperties DEF TypeOK, LogTypeOK
  <2> QED
    BY <2>1, <2>2, WalIndexAssumption, WalLogAssumption DEF Scan, LogInv
<1>2. ScanInv(o) /\ Coherent(acc[o])
  BY DEF OpenerInv
<1>3. PICK m0 \in acc[o].end .. Len(frames) : Settled(m0) /\ Window(o, buf[o], m0)
  BY <1>2 DEF ScanInv
<1>4. CASE buf[o] # <<>>
  BY <1>3, <1>4 DEF Buffered
<1>5. CASE buf[o] = <<>>
  <2>1. /\ \A i \in 1..Len(b) : pos[o] + i \in 1..Len(frames) /\ b[i] = frames[pos[o] + i]
        /\ pos[o] + Len(b) <= Len(frames)
        /\ Len(frames) <= BufFrames => pos[o] + Len(b) = Len(frames)
    BY <1>5, RefillBytes
  <2>2. b # <<>>
    OBVIOUS
  <2> HIDE DEF b
  <2>3. pos[o] <= m0 /\ PendInv(o)
    BY <1>3, <1>5 DEF Window
  <2>4. CASE AppendOnly
    <3>1. Settled(Len(frames)) /\ acc[o].end <= Len(frames)
      BY <2>4, <1>1, <1>3 DEF Settled
    <3>2. \A i \in 1..Len(b) : pos[o] + i <= Len(frames)
      BY <2>1, <1>1
    <3>3. Window(o, b, Len(frames))
      BY <2>1, <2>2, <2>3, <2>4, <3>2 DEF Window
    <3> QED
      BY <3>1, <3>3, <1>1 DEF b
  <2>5. CASE ~AppendOnly
    <3>1. fileLen[o] <= Len(frames) /\ Len(frames) <= BufFrames
      BY <2>5, <1>1 DEF OpenerInv, OneRefill, LogInv
    <3>2. fileLen[o] <= pos[o] + Len(b)
      BY <3>1, <2>1
    <3>3. acc[o].end <= mx /\ Settled(mx)
      BY <2>5, <1>1, <1>2 DEF Coherent, Settled
    <3>4. ASSUME NEW i \in 1..Len(b)
          PROVE  IF pos[o] + i <= mx THEN b[i] = frames[pos[o] + i]
                                     ELSE b[i].salt = salt => b[i].commit = 0
      BY <2>1, <1>1 DEF LogInv
    <3>5. Window(o, b, mx)
      BY <3>2, <3>4, <2>2, <2>3, <2>5 DEF Window
    <3> QED
      BY <3>3, <3>5, <1>1 DEF b
  <2> QED
    BY <2>4, <2>5
<1> QED
  BY <1>4, <1>5

\* Frame n of the log, read after the n - 1 before it, is pending too.
LEMMA PendStep ==
  ASSUME TypeOK, NEW o \in Opener, PendInv(o), acc[o].end <= pos[o],
         NEW f \in Frame, f = frames[pos[o] + 1], NEW p \in Page
  PROVE  LET n       == pos[o] + 1
             pending == [pend[o] EXCEPT ![f.pgno] = n]
         IN  /\ pending[p] \in 0..n
             /\ pending[p] # 0 => frames[pending[p]].pgno = p /\ pending[p] > acc[o].end
             /\ \A j \in acc[o].end + 1 .. n : j > pending[p] => frames[j].pgno # p
<1> DEFINE n == pos[o] + 1
           pending == [pend[o] EXCEPT ![f.pgno] = n]
<1>1. pos[o] \in Nat /\ pend[o] \in [Page -> Nat] /\ acc[o].end \in Nat /\ f.pgno \in Page
  BY DEF TypeOK, Scan, Frame
<1>2. /\ pend[o][p] \in 0..pos[o]
      /\ pend[o][p] # 0 => frames[pend[o][p]].pgno = p /\ pend[o][p] > acc[o].end
      /\ \A j \in acc[o].end + 1 .. pos[o] : j > pend[o][p] => frames[j].pgno # p
  BY DEF PendInv
<1>3. CASE f.pgno = p
  BY <1>1, <1>2, <1>3
<1>4. CASE f.pgno # p
  <2>1. pending[p] = pend[o][p]
    BY <1>4, <1>1
  <2>2. ASSUME NEW j \in acc[o].end + 1 .. n, j > pend[o][p] PROVE frames[j].pgno # p
    <3>1. j = n \/ j \in acc[o].end + 1 .. pos[o]
      BY <1>1
    <3> QED
      BY <3>1, <2>2, <1>2, <1>4
  <2> QED
    BY <2>1, <2>2, <1>1, <1>2
<1> QED
  BY <1>3, <1>4

\* With the commit frame n read, the index is what a rescan up to n gives.
LEMMA CommittedCoherent ==
  ASSUME TypeOK, LogInv, NEW o \in Opener, Coherent(acc[o]), acc[o].salt = salt, salt # 0,
         PendInv(o), acc[o].end <= pos[o], pos[o] + 1 <= mx,
         NEW f \in Frame, f = frames[pos[o] + 1], f.commit # 0
  PROVE  LET n       == pos[o] + 1
             pending == [pend[o] EXCEPT ![f.pgno] = n]
             e       == Committed(acc[o], pending, f, n)
         IN  Coherent(e) /\ e.salt = salt /\ e.end = n
<1> DEFINE n == pos[o] + 1
           pending == [pend[o] EXCEPT ![f.pgno] = n]
           e == Committed(acc[o], pending, f, n)
<1>1. /\ acc[o] \in Scan /\ pos[o] \in Nat /\ pend[o] \in [Page -> Nat]
      /\ mx \in Nat /\ tail \in Nat /\ Len(frames) \in Nat /\ acc[o].end \in Nat
      /\ mx <= tail /\ tail <= Len(frames) /\ n \in 1..mx
  <2>1. /\ acc[o] \in Scan /\ pos[o] \in Nat /\ pend[o] \in [Page -> Nat]
        /\ mx \in Nat /\ tail \in Nat /\ Len(frames) \in Nat
    BY LenProperties DEF TypeOK, LogTypeOK
  <2> QED
    BY <2>1 DEF LogInv, Scan
<1>2. \A j \in 1..mx : frames[j].salt = salt
  <2>1. \A j \in 1..mx : j \in 1..Len(frames) /\ j <= tail
    BY <1>1
  <2> QED
    BY <2>1 DEF LogInv
<1>3. \A p \in Page :
        /\ pending[p] \in 0..n
        /\ pending[p] # 0 => frames[pending[p]].pgno = p /\ pending[p] > acc[o].end
        /\ \A j \in acc[o].end + 1 .. n : j > pending[p] => frames[j].pgno # p
  BY PendStep
<1>4. /\ e.end = n /\ e.last = f.commit /\ e.salt = salt
      /\ \A p \in Page : e.off[p] = IF pending[p] # 0 THEN pending[p] ELSE acc[o].off[p]
  BY <1>1 DEF Committed, Scan
<1> HIDE DEF e, pending
<1>5. ASSUME NEW p \in Page PROVE IsLatest(p, e.off[p], n)
  <2>1. IsLatest(p, acc[o].off[p], acc[o].end)
    BY DEF Coherent
  <2>2. acc[o].off[p] \in Nat /\ pending[p] \in Nat
    BY <1>1, <1>3 DEF Scan
  <2>3. CASE pending[p] # 0
    <3>1. e.off[p] = pending[p] /\ pending[p] \in 1..n /\ frames[pending[p]].pgno = p
      BY <2>2, <2>3, <1>1, <1>3, <1>4
    <3>2. frames[pending[p]].salt = salt
      BY <3>1, <1>1, <1>2
    <3>3. ASSUME NEW j \in pending[p] + 1 .. n PROVE frames[j].pgno # p
      <4>1. pending[p] > acc[o].end
        BY <2>3, <1>3
      <4>2. j \in acc[o].end + 1 .. n /\ j > pending[p]
        BY <4>1, <2>2, <1>1
      <4> QED
        BY <4>2, <1>3
    <3> QED
      BY <3>1, <3>2, <3>3, <1>1 DEF IsLatest
  <2>4. CASE pending[p] = 0
    <3>1. e.off[p] = acc[o].off[p]
      BY <2>4, <1>4
    <3>2. \A j \in acc[o].end + 1 .. n : frames[j].pgno # p
      BY <2>4, <1>1, <1>3
    <3>3. /\ acc[o].off[p] \in 0..n
          /\ acc[o].off[p] # 0 => frames[acc[o].off[p]].pgno = p /\ frames[acc[o].off[p]].salt = salt
      BY <2>1, <1>1 DEF IsLatest
    <3>4. ASSUME NEW j \in acc[o].off[p] + 1 .. n, frames[j].pgno = p
          PROVE  frames[j].salt # salt
      <4>1. j <= acc[o].end
        BY <3>2, <3>4, <2>2, <1>1
      <4> QED
        BY <4>1, <3>4, <2>1, <2>2, <1>1 DEF IsLatest
    <3> QED
      BY <3>1, <3>3, <3>4 DEF IsLatest
  <2> QED
    BY <2>3, <2>4
<1>6. Coherent(e)
  BY <1>1, <1>4, <1>5 DEF Coherent
<1> QED
  BY <1>4, <1>6 DEF e, pending

\* One turn of the scan loop of o keeps o's part of the invariant.
LEMMA ScanFrameInv ==
  ASSUME TypeOK, TypeOK', AppendOnly \/ OneRefill, LogInv, NEW o \in Opener,
         OpenerInv(o), ScanFrame(o)
  PROVE  OpenerInv(o)'
<1> DEFINE n == pos[o] + 1
           b == Buffered(o)
           f == b[1]
           pending == [pend[o] EXCEPT ![f.pgno] = n]
<1>1. /\ acc[o] \in Scan /\ pos[o] \in Nat /\ pend[o] \in [Page -> Nat]
      /\ mx \in Nat /\ tail \in Nat /\ Len(frames) \in Nat
      /\ acc[o].end \in Nat /\ acc[o].salt \in Nat /\ fileLen[o] \in Nat
  BY LenProperties DEF TypeOK, LogTypeOK, Scan
<1>2. /\ b \in Seq(Frame) /\ b # <<>> /\ f \in Frame /\ Len(b) \in Nat \ {0}
  BY BufferedType, EmptySeq DEF ScanFrame
<1>3. /\ Tail(b) \in Seq(Frame) /\ Len(Tail(b)) = Len(b) - 1
      /\ \A i \in 1..Len(Tail(b)) : Tail(b)[i] = b[i + 1]
  BY <1>2, HeadTailProperties
<1>4. /\ pc'[o] = "scan" /\ pc[o] = "scan" /\ pos'[o] = n /\ buf'[o] = Tail(b)
      /\ UNCHANGED logVars /\ fileLen' = fileLen /\ n <= fileLen[o]
  BY DEF ScanFrame, TypeOK
<1>5. acc'[o].salt = acc[o].salt /\ acc[o].salt <= gen
  <2>1. acc'[o] = acc[o] \/ acc'[o] = Committed(acc[o], pending, f, n)
    BY DEF ScanFrame, TypeOK
  <2> QED
    BY <2>1, <1>1 DEF Committed, Scan, OpenerInv
<1> SUFFICES ASSUME acc[o].salt = salt, salt # 0
             PROVE  Coherent(acc[o])' /\ ScanInv(o)'
  BY <1>4, <1>5, <1>1 DEF OpenerInv, logVars
<1>6. Coherent(acc[o]) /\ ScanInv(o) /\ acc[o].end <= pos[o] /\ pos[o] < fileLen[o]
  <2>1. Coherent(acc[o]) /\ ScanInv(o)
    BY <1>4 DEF OpenerInv
  <2> QED
    BY <2>1, <1>1, <1>4 DEF ScanInv
<1>7. PICK m \in acc[o].end .. Len(frames) : Settled(m) /\ Window(o, b, m)
  BY <1>2, <1>4, <1>6, RefillWindow
<1>8. \A i \in 1..Len(b) :
        IF pos[o] + i <= m THEN b[i] = frames[pos[o] + i]
                           ELSE b[i].salt = salt => b[i].commit = 0
  BY <1>7 DEF Window
<1> HIDE DEF b, f, n, pending
<1>n. n = pos[o] + 1 /\ n \in Nat /\ m \in Nat /\ m <= Len(frames)
  BY <1>1 DEF n
\* The rest of the buffer is a window onto the rest of the file, if what is
\* pending and the index are right for the frames read.
<1>9. ASSUME acc'[o].end \in Nat, acc'[o].end <= n, n <= m => PendInv(o)' /\ acc'[o].end <= m,
             acc'[o].end = acc[o].end \/ n <= m
      PROVE  ScanInv(o)'
  <2>s. SUFFICES ASSUME n < fileLen[o]
                 PROVE  \E k \in acc'[o].end .. Len(frames') : Settled(k)' /\ Window(o, buf[o], k)'
    BY <1>4, <1>9 DEF ScanInv
  <2>1. m \in acc'[o].end .. Len(frames') /\ Settled(m)'
    BY <1>1, <1>4, <1>7, <1>9, <1>n DEF Settled, logVars
  <2>2. ASSUME NEW i \in 1..Len(Tail(b))
        PROVE  IF n + i <= m THEN Tail(b)[i] = frames[n + i]
                             ELSE Tail(b)[i].salt = salt => Tail(b)[i].commit = 0
    <3>1. Len(Tail(b)) \in Nat /\ i \in Nat /\ i + 1 \in 1..Len(b)
      BY <1>2, <1>3
    <3>2. Tail(b)[i] = b[i + 1]
      BY <1>3
    <3>0. n + i = pos[o] + (i + 1)
      BY <3>1, <1>1, <1>n
    <3>3. IF pos[o] + (i + 1) <= m THEN b[i + 1] = frames[pos[o] + (i + 1)]
                             ELSE b[i + 1].salt = salt => b[i + 1].commit = 0
      BY <3>1, <1>8
    <3> QED
      BY <3>0, <3>2, <3>3
  <2>3. CASE AppendOnly
    <3>1. pos[o] + Len(b) <= m
      BY <2>3, <1>7 DEF Window
    <3>2. n + Len(Tail(b)) <= m /\ n <= m
      BY <3>1, <1>1, <1>2, <1>3, <1>n
    <3>3. Window(o, buf[o], m)'
      BY <2>2, <2>3, <3>2, <1>4, <1>9 DEF Window, logVars
    <3> QED
      BY <2>1, <3>3
  <2>4. CASE ~AppendOnly
    <3>1. fileLen[o] <= pos[o] + Len(b)
      BY <2>4, <1>2, <1>7 DEF Window
    <3>2. fileLen[o] <= n + Len(Tail(b)) /\ Len(Tail(b)) > 0
      <4>0. Len(b) \in Nat /\ fileLen[o] \in Nat /\ pos[o] \in Nat
        BY <1>1, <1>2
      <4>1. fileLen[o] <= n + (Len(b) - 1)
        BY <4>0, <3>1, <1>n
      <4>2. Len(b) > 1
        BY <4>0, <3>1, <2>s, <1>n
      <4>3. Len(Tail(b)) = Len(b) - 1
        BY <1>3
      <4>4. Len(b) - 1 > 0
        BY <4>0, <4>2
      <4> QED
        BY <4>1, <4>3, <4>4
    <3>3. Tail(b) # <<>>
      <4>1. Len(<<>>) = 0 /\ ~(0 > 0)
        OBVIOUS
      <4> QED
        BY <4>1, <3>2
    <3>4. Window(o, buf[o], m)'
      BY <2>2, <2>4, <3>2, <3>3, <1>4, <1>9 DEF Window, logVars
    <3> QED
      BY <2>1, <3>4
  <2> QED
    BY <2>3, <2>4
<1>10. CASE n <= m
  <2>1. f = frames[n] /\ PendInv(o) /\ n \in 1..Len(frames)
    <3>1. f = frames[pos[o] + 1]
      BY <1>8, <1>10, <1>2, <1>n DEF f
    <3>2. pos[o] <= m
      BY <1>10, <1>1, <1>n
    <3> QED
      BY <3>1, <3>2, <1>10, <1>1, <1>7, <1>n DEF Window
  <2>2. f.salt = salt
    <3>1. n <= tail
      BY <1>10, <1>1, <1>7, <1>n DEF Settled, LogInv
    <3> QED
      BY <3>1, <2>1 DEF LogInv
  <2>3. \A p \in Page :
          /\ pending[p] \in 0..n
          /\ pending[p] # 0 => frames[pending[p]].pgno = p /\ pending[p] > acc[o].end
          /\ \A j \in acc[o].end + 1 .. n : j > pending[p] => frames[j].pgno # p
    BY <2>1, <1>2, <1>6, PendStep DEF n, pending
  <2>4. CASE f.commit # 0
    <3> DEFINE e == Committed(acc[o], pending, f, n)
    <3>1. acc'[o] = e /\ pend'[o] = NoFrames
      BY <2>2, <2>4 DEF ScanFrame, Adopted, TypeOK, f, b, n, pending
    <3>2. n <= mx
      BY <2>1, <2>2, <2>4, <1>1 DEF LogInv
    <3>3. Coherent(e) /\ e.end = n
      BY <2>1, <2>4, <3>2, <1>2, <1>6, CommittedCoherent DEF n, pending
    <3> HIDE DEF e
    <3>4. Coherent(acc[o])'
      BY <3>1, <3>3, <1>4 DEF Coherent, IsLatest, logVars
    <3>5. PendInv(o)'
      BY <3>1, <3>3, <1>4, <1>n DEF PendInv, NoFrames
    <3>6. ScanInv(o)'
      BY <3>1, <3>3, <3>5, <1>9, <1>10, <1>n
    <3> QED
      BY <3>4, <3>6
  <2>5. CASE f.commit = 0
    <3>1. acc'[o] = acc[o] /\ pend'[o] = pending
      BY <2>2, <2>5 DEF ScanFrame, Adopted, TypeOK, f, b, n, pending
    <3>2. Coherent(acc[o])'
      BY <3>1, <1>4, <1>6 DEF Coherent, IsLatest, logVars
    <3>3. PendInv(o)'
      BY <2>3, <3>1, <1>4 DEF PendInv, logVars
    <3>4. ScanInv(o)'
      BY <3>1, <3>3, <1>1, <1>6, <1>7, <1>9, <1>n
    <3> QED
      BY <3>2, <3>4
  <2> QED
    BY <2>4, <2>5
<1>11. CASE ~(n <= m)
  <2>1. f.salt = salt => f.commit = 0
    BY <1>8, <1>11, <1>2, <1>n DEF f
  <2>2. acc'[o] = acc[o]
    BY <2>1 DEF ScanFrame, Adopted, TypeOK, f, b
  <2>3. Coherent(acc[o])'
    BY <2>2, <1>4, <1>6 DEF Coherent, IsLatest, logVars
  <2>4. ScanInv(o)'
    BY <2>2, <1>1, <1>6, <1>9, <1>11, <1>n
  <2> QED
    BY <2>3, <2>4
<1> QED
  BY <1>10, <1>11

\* A scan that begins at the end of a coherent index has nothing pending.
LEMMA SeededScan ==
  ASSUME TypeOK, TypeOK', LogInv, NEW o \in Opener, UNCHANGED logVars,
         pos'[o] = acc'[o].end, buf'[o] = <<>>, pend'[o] = NoFrames,
         Coherent(acc'[o]), acc'[o].salt = salt, salt # 0
  PROVE  ScanInv(o)'
<1>1. /\ mx \in Nat /\ tail \in Nat /\ Len(frames) \in Nat /\ acc'[o].end \in Nat
      /\ fileLen'[o] \in Nat /\ Len(frames') = Len(frames) /\ mx' = mx
  BY LenProperties DEF TypeOK, LogTypeOK, Scan, logVars
<1>2. acc'[o].end <= mx /\ mx <= Len(frames)
  BY <1>1 DEF Coherent, LogInv
<1>3. PICK m \in Nat : m = IF AppendOnly THEN Len(frames) ELSE mx
  BY <1>1
<1>4. Settled(m)' /\ m \in acc'[o].end .. Len(frames')
  BY <1>1, <1>2, <1>3 DEF Settled
<1>5. PendInv(o)'
  BY <1>1 DEF PendInv, NoFrames
<1>6. Window(o, buf[o], m)'
  <2>1. Len(<<>>) = 0
    OBVIOUS
  <2> QED
    BY <2>1, <1>1, <1>2, <1>3, <1>5 DEF Window
<1> QED
  BY <1>1, <1>4, <1>6 DEF ScanInv

LEMMA OpenerCoherence ==
  ASSUME AppendOnly \/ OneRefill, TypeOK, TypeOK', CoherenceInv,
         NEW o \in Opener, OpenerNext(o)
  PROVE  CoherenceInv'
<1>1. /\ acc[o] \in Scan /\ cache \in Scan /\ disk \in Scan
      /\ salt \in Nat /\ gen \in Nat
  BY DEF TypeOK, LogTypeOK
<1>2. LogInv /\ OpenerInv(o) /\ Coherent(cache) /\ Coherent(disk)
      /\ cache.salt <= gen /\ disk.salt <= gen
  BY DEF CoherenceInv, CacheInv, CacheCoherent
<1>3. ASSUME UNCHANGED logVars,
             \A q \in Opener : q # o =>
                /\ pc'[q] = pc[q] /\ acc'[q] = acc[q] /\ pos'[q] = pos[q]
                /\ buf'[q] = buf[q] /\ pend'[q] = pend[q] /\ fileLen'[q] = fileLen[q],
             OpenerInv(o)',
             cache' \in {cache, acc[o]}, disk' \in {disk, acc[o], NoScan},
             cache' # cache \/ disk' # disk => pc[o] \in {"store", "storeSave", "save"}
      PROVE  CoherenceInv'
  <2>1. LogInv'
    BY <1>2, <1>3 DEF LogInv, logVars
  <2>2. \A q \in Opener : OpenerInv(q)'
    BY <1>3, OtherOpener DEF CoherenceInv
  <2>3. Coherent(acc[o]) /\ acc[o].salt <= gen /\ Coherent(NoScan) /\ NoScan.salt <= gen
    BY <1>2 DEF OpenerInv, Coherent, NoScan, EmptyScan, TypeOK, LogTypeOK
  <2>4. CacheInv'
    <3>1. (cache'.salt <= gen) /\ (disk'.salt <= gen) /\ gen' = gen
      BY <1>2, <1>3, <2>3 DEF logVars
    <3>2. Coherent(cache') /\ Coherent(disk')
      BY <1>2, <1>3, <2>3
    <3>3. Coherent(cache)' /\ Coherent(disk)'
      BY <3>2, <1>3 DEF Coherent, IsLatest, logVars
    <3> QED
      BY <3>1, <3>3 DEF CacheInv, CacheCoherent
  <2> QED
    BY <2>1, <2>2, <2>4 DEF CoherenceInv
<1>4. Coherent(acc[o]) /\ acc'[o] = acc[o] /\ UNCHANGED logVars => Coherent(acc[o])'
  BY DEF Coherent, IsLatest, logVars
<1>5. CASE OpenWal(o)
  <2>1. /\ pc[o] = "idle" /\ pc'[o] \in {"open", "header"} /\ fileLen'[o] = Len(frames)
        /\ UNCHANGED <<logVars, acc, pos, pend, buf>>
    BY <1>5 DEF OpenWal, TypeOK
  <2>2. Len(frames') \in Nat /\ Len(frames') = Len(frames)
    BY <2>1, LenProperties DEF TypeOK, LogTypeOK, logVars
  <2>3. OpenerInv(o)'
    BY <1>2, <1>4, <2>1, <2>2 DEF OpenerInv, logVars
  <2> QED
    BY <2>3, <1>3, <1>5 DEF OpenWal, TypeOK, cacheVars
<1>6. CASE ReadHeader(o)
  <2>1. /\ acc'[o] = EmptyScan(salt) /\ pc'[o] = "take" /\ pc[o] = "header"
        /\ UNCHANGED <<logVars, pos, buf, pend, fileLen>>
    BY <1>6 DEF ReadHeader, TypeOK
  <2>2. Coherent(EmptyScan(salt)) /\ EmptyScan(salt).salt = salt
    BY <1>1 DEF Coherent, EmptyScan, NoFrames, IsLatest, TypeOK, LogTypeOK
  <2>3. Coherent(acc[o])'
    BY <2>1, <2>2 DEF Coherent, IsLatest, logVars
  <2>4. OpenerInv(o)'
    BY <1>2, <2>1, <2>2, <2>3 DEF OpenerInv, LogInv, logVars
  <2> QED
    BY <2>4, <1>3, <1>6 DEF ReadHeader, TypeOK, cacheVars
<1>7. CASE HeaderFails(o)
  <2>1. OpenerInv(o)'
    BY <1>7, ForgotOpener DEF HeaderFails, Forget, TypeOK
  <2> QED
    BY <2>1, <1>3, <1>7 DEF HeaderFails, Forget, TypeOK, cacheVars
<1>8. CASE TakeCached(o)
  <2>1. OpenerInv(o)'
    <3>1. CASE Usable(cache, o)
      <4>1. /\ acc'[o] = cache /\ pos'[o] = cache.end /\ pc'[o] = "scan"
            /\ UNCHANGED <<logVars, buf, pend, fileLen>> /\ buf[o] = <<>> /\ pend[o] = NoFrames
        BY <3>1, <1>2, <1>8 DEF TakeCached, TypeOK, OpenerInv
      <4>2. Coherent(acc[o])'
        BY <4>1, <1>2 DEF Coherent, IsLatest, logVars
      <4>3. (cache.salt = salt /\ salt # 0) => ScanInv(o)'
        BY <4>1, <1>2, SeededScan
      <4> QED
        BY <4>1, <4>2, <4>3, <1>2 DEF OpenerInv, logVars
    <3>2. CASE ~Usable(cache, o)
      <4>1. /\ acc'[o] = acc[o] /\ pos'[o] = pos[o] /\ pc'[o] = "load" /\ pc[o] = "take"
            /\ UNCHANGED <<logVars, buf, pend, fileLen>>
        BY <3>2, <1>8 DEF TakeCached, TypeOK
      <4> QED
        BY <4>1, <1>2, <1>4 DEF OpenerInv, logVars
    <3> QED
      BY <3>1, <3>2
  <2> QED
    BY <2>1, <1>3, <1>8 DEF TakeCached, TypeOK, cacheVars
<1>9. CASE LoadPersisted(o)
  <2>0. /\ pc'[o] = "scan" /\ pc[o] = "load" /\ UNCHANGED <<logVars, buf, pend, fileLen>>
        /\ buf[o] = <<>> /\ pend[o] = NoFrames
    BY <1>2, <1>9 DEF LoadPersisted, TypeOK, OpenerInv
  <2>1. OpenerInv(o)'
    <3> DEFINE e == IF Usable(disk, o) THEN disk ELSE acc[o]
    <3>1. acc'[o] = e /\ pos'[o] = e.end
      <4>1. CASE Usable(disk, o)
        BY <4>1, <1>9 DEF LoadPersisted, TypeOK
      <4>2. CASE ~Usable(disk, o)
        <5>1. acc[o].end = 0 /\ pos[o] = 0
          BY <1>2, <2>0 DEF OpenerInv, EmptyScan
        <5> QED
          BY <4>2, <5>1, <1>9 DEF LoadPersisted
      <4> QED
        BY <4>1, <4>2
    <3>2. e \in Scan /\ Coherent(e) /\ e.salt <= gen
      BY <1>1, <1>2 DEF OpenerInv, Coherent
    <3> HIDE DEF e
    <3>3. Coherent(acc[o])'
      BY <2>0, <3>1, <3>2 DEF Coherent, IsLatest, logVars
    <3>4. (e.salt = salt /\ salt # 0) => ScanInv(o)'
      BY <2>0, <3>1, <3>2, <1>2, SeededScan
    <3> QED
      BY <1>2, <2>0, <3>1, <3>2, <3>3, <3>4 DEF OpenerInv, logVars
  <2> QED
    BY <2>1, <1>3, <1>9 DEF LoadPersisted, TypeOK, cacheVars
<1>10. CASE ScanFrame(o)
  <2>1. OpenerInv(o)'
    BY <1>2, <1>10, ScanFrameInv
  <2>2. /\ acc' = [acc EXCEPT ![o] = acc'[o]] /\ pend' = [pend EXCEPT ![o] = pend'[o]]
    BY <1>10 DEF ScanFrame, TypeOK
  <2> QED
    BY <2>1, <2>2, <1>3, <1>10 DEF ScanFrame, TypeOK, cacheVars
<1>11. CASE ScanFails(o)
  <2>1. OpenerInv(o)'
    BY <1>11, ForgotOpener DEF ScanFails, Forget, TypeOK
  <2> QED
    BY <2>1, <1>3, <1>11 DEF ScanFails, Forget, TypeOK, cacheVars
<1>12. CASE DecidePersist(o)
  <2>1. /\ acc' = acc /\ pos' = pos /\ UNCHANGED logVars /\ buf'[o] = <<>> /\ pend'[o] = NoFrames
        /\ pc[o] = "scan" /\ pc'[o] \in {"store", "storeSave"} /\ fileLen'[o] = 0
    BY <1>12 DEF DecidePersist, TypeOK
  <2>2. Len(frames') \in Nat
    BY LenProperties DEF TypeOK, LogTypeOK
  <2>3. OpenerInv(o)'
    BY <2>1, <2>2, <1>2, <1>4 DEF OpenerInv, logVars
  <2> QED
    BY <2>3, <1>3, <1>12 DEF DecidePersist, TypeOK
<1>13. CASE WriteBack(o)
  <2>1. /\ acc' = acc /\ pos' = pos /\ buf' = buf /\ pend' = pend /\ fileLen' = fileLen
        /\ UNCHANGED logVars /\ pc[o] \in {"store", "storeSave"} /\ pc'[o] \in {"open", "save"}
    BY <1>13 DEF WriteBack, TypeOK, scanVars
  <2>2. OpenerInv(o)'
    BY <2>1, <1>2, <1>4 DEF OpenerInv, logVars
  <2> QED
    BY <2>1, <2>2, <1>3, <1>13 DEF WriteBack, TypeOK
<1>14. CASE SavePersisted(o)
  <2>1. /\ acc' = acc /\ pos' = pos /\ buf' = buf /\ pend' = pend /\ fileLen' = fileLen
        /\ UNCHANGED logVars /\ pc[o] = "save" /\ pc'[o] = "open"
    BY <1>14 DEF SavePersisted, TypeOK, scanVars
  <2>2. OpenerInv(o)'
    BY <2>1, <1>2, <1>4 DEF OpenerInv, logVars
  <2> QED
    BY <2>1, <2>2, <1>3, <1>14 DEF SavePersisted, TypeOK
<1>15. CASE CloseConn(o)
  <2>1. OpenerInv(o)'
    BY <1>15, ForgotOpener DEF CloseConn, Forget, TypeOK
  <2> QED
    BY <2>1, <1>3, <1>15 DEF CloseConn, Forget, TypeOK, cacheVars
<1> QED
  BY <1>5, <1>6, <1>7, <1>8, <1>9, <1>10, <1>11, <1>12, <1>13, <1>14, <1>15
     DEF OpenerNext

LEMMA StepCoherence ==
  ASSUME AppendOnly \/ OneRefill, TypeOK, TypeOK', CoherenceInv, [Next]_vars
  PROVE  CoherenceInv'
<1>1. CASE WriterNext
  BY <1>1, WriterCoherence
<1>2. ASSUME NEW o \in Opener, OpenerNext(o) PROVE CoherenceInv'
  BY <1>2, OpenerCoherence
<1>3. CASE DaemonRestart
  <2>1. LogInv'
    BY <1>3 DEF DaemonRestart, CoherenceInv, LogInv, logVars
  <2>2. \A o \in Opener : OpenerInv(o)'
    BY <1>3, ForgotOpener DEF DaemonRestart
  <2>3. CacheInv'
    BY <1>3 DEF DaemonRestart, CoherenceInv, CacheInv, CacheCoherent, Coherent, IsLatest,
       NoScan, EmptyScan, logVars, TypeOK, LogTypeOK
  <2> QED
    BY <2>1, <2>2, <2>3 DEF CoherenceInv
<1>4. CASE UNCHANGED vars
  <2>1. LogInv'
    BY <1>4 DEF vars, CoherenceInv, LogInv, logVars
  <2>2. \A o \in Opener : OpenerInv(o)'
    BY <1>4, OtherOpener DEF vars, CoherenceInv, scanVars
  <2>3. CacheInv'
    BY <1>4 DEF vars, CoherenceInv, CacheInv, CacheCoherent, Coherent, IsLatest,
       logVars, cacheVars
  <2> QED
    BY <2>1, <2>2, <2>3 DEF CoherenceInv
<1> QED
  BY <1>1, <1>2, <1>3, <1>4 DEF Next

LEMMA CoherenceAlways ==
  ASSUME AppendOnly \/ OneRefill
  PROVE  Spec => [](TypeOK /\ CoherenceInv)
<1>1. Init => CoherenceInv
  BY InitCoherence
<1>2. TypeOK /\ TypeOK' /\ CoherenceInv /\ [Next]_vars => CoherenceInv'
  BY StepCoherence
<1> QED
  BY <1>1, <1>2, TypeCorrect, PTL DEF Spec

\* wal_index.rs:325-330, the claim under its own premise: over a log that only
\* grows within a generation, the shared entry and the saved file always equal
\* a full rescan of the stretch they cover, for any number of racing opens and
\* with the scan reading any number of frames at a time.
THEOREM AppendOnlyCoherent ==
  ASSUME AppendOnly
  PROVE  Spec => []CacheCoherent
<1>1. CoherenceInv => CacheCoherent
  BY DEF CoherenceInv, CacheInv
<1> QED
  BY <1>1, CoherenceAlways, PTL

\* The same without the premise: transactions roll back, frames are overwritten
\* and generations follow each other over the frames of older ones, and still
\* the shared entry and the saved file equal a full rescan, for any number of
\* racing opens, as long as one refill of the buffer reads all of a log that is
\* never cut.
THEOREM OneRefillCoherent ==
  ASSUME OneRefill
  PROVE  Spec => []CacheCoherent
<1>1. CoherenceInv => CacheCoherent
  BY DEF CoherenceInv, CacheInv
<1> QED
  BY <1>1, CoherenceAlways, PTL

-----------------------------------------------------------------------------
(* What a restarted daemon has to rescan *)

\* What memory knows of the saved file between two saves, and what the one open
\* o under way will make of it.
SavedInv(o) ==
  /\ pc[o] \notin {"storeSave", "save"} =>
       /\ persisted <= disk.end /\ loadedEnd[o] <= disk.end
       /\ cache # NoScan => disk.salt = cache.salt /\ cache.end < disk.end + MinDelta
  /\ pc[o] \in {"take", "load", "scan"} => acc[o].salt # 0
  /\ pc[o] = "scan" /\ ~didFull[o] => acc[o].salt = disk.salt
  /\ pc[o] = "store" => acc[o].salt = disk.salt /\ acc[o].end < disk.end + MinDelta
  /\ pc[o] \in {"storeSave", "save"} => persisted = acc[o].end /\ loadedEnd[o] = 0
  /\ pc[o] = "save" => cache = acc[o]

LEMMA SavedNext ==
  ASSUME NEW o, Opener = {o}, SaveMayFail = FALSE, TypeOK, TypeOK', SavedInv(o), [Next]_vars
  PROVE  SavedInv(o)'
<1>1. /\ o \in Opener /\ acc[o] \in Scan /\ cache \in Scan /\ disk \in Scan
      /\ persisted \in Nat /\ loadedEnd[o] \in Nat /\ MinDelta \in Nat \ {0}
      /\ acc[o].end \in Nat /\ cache.end \in Nat /\ disk.end \in Nat
      /\ acc[o].salt \in Nat /\ NoScan.salt = 0
  BY WalIndexAssumption DEF TypeOK, Scan, NoScan, EmptyScan
<1>2. CASE UNCHANGED vars \/ WriterNext
  BY <1>2 DEF vars, WriterNext, scanVars, cacheVars, SavedInv
<1>3. CASE DaemonRestart
  <2>1. /\ pc'[o] = "idle" /\ loadedEnd'[o] = 0 /\ persisted' = 0 /\ disk' = disk
        /\ cache' = NoScan
    BY <1>1, <1>3 DEF DaemonRestart
  <2> QED BY <1>1, <2>1 DEF SavedInv
<1>4. CASE OpenWal(o) \/ ReadHeader(o) \/ HeaderFails(o) \/ ScanFails(o) \/ CloseConn(o)
  <2>1. CASE OpenWal(o)
    <3>1. pc[o] = "idle" /\ pc'[o] \in {"open", "header"} /\ UNCHANGED <<loadedEnd, cacheVars>>
      BY <1>1, <2>1 DEF OpenWal, TypeOK
    <3> QED BY <3>1 DEF cacheVars, SavedInv
  <2>2. CASE ReadHeader(o)
    <3>1. /\ pc[o] = "header" /\ pc'[o] = "take" /\ acc'[o].salt # 0
          /\ UNCHANGED <<loadedEnd, cacheVars>>
      BY <1>1, <2>2 DEF ReadHeader, EmptyScan, TypeOK
    <3> QED BY <3>1 DEF cacheVars, SavedInv
  <2>3. CASE HeaderFails(o) \/ ScanFails(o) \/ CloseConn(o)
    <3>1. Forget(o) /\ UNCHANGED cacheVars /\ pc[o] \in {"header", "scan", "open"}
      BY <2>3 DEF HeaderFails, ScanFails, CloseConn
    <3>2. pc'[o] = "idle" /\ loadedEnd'[o] = 0
      BY <1>1, <3>1 DEF Forget, TypeOK
    <3> QED BY <1>1, <3>1, <3>2 DEF cacheVars, SavedInv
  <2> QED BY <1>4, <2>1, <2>2, <2>3
<1>5. CASE TakeCached(o) \/ LoadPersisted(o)
  <2>1. CASE TakeCached(o)
    <3>1. /\ pc[o] = "take" /\ pc'[o] \in {"scan", "load"}
          /\ UNCHANGED <<didFull, loadedEnd, cacheVars>>
          /\ pc'[o] = "scan" => acc'[o] = cache /\ cache.salt = acc[o].salt
          /\ pc'[o] = "load" => acc' = acc
      BY <1>1, <2>1 DEF TakeCached, Usable, TypeOK
    <3>2. pc'[o] = "scan" => disk.salt = cache.salt
      BY <1>1, <3>1 DEF SavedInv
    <3> QED BY <3>1, <3>2 DEF cacheVars, SavedInv
  <2>2. CASE LoadPersisted(o)
    <3>1. /\ pc[o] = "load" /\ pc'[o] = "scan" /\ UNCHANGED cacheVars
          /\ \/ acc'[o] = disk /\ loadedEnd'[o] = disk.end /\ disk.salt = acc[o].salt
             \/ didFull'[o] /\ UNCHANGED <<acc, loadedEnd>>
      BY <1>1, <2>2 DEF LoadPersisted, Usable, TypeOK
    <3> QED BY <1>1, <3>1 DEF cacheVars, SavedInv
  <2> QED BY <1>5, <2>1, <2>2
<1>6. CASE ScanFrame(o)
  <2>1. acc'[o].salt = acc[o].salt
    <3>1. acc \in [Opener -> Scan]
      BY DEF TypeOK
    <3>2. \A pending, f, n : Committed(acc[o], pending, f, n).salt = acc[o].salt
      BY <1>1 DEF Committed, Scan
    <3>3. acc' = acc \/ \E pending, f, n :
                          acc' = [acc EXCEPT ![o] = Committed(acc[o], pending, f, n)]
      BY <1>6, Zenon DEF ScanFrame
    <3> HIDE DEF Committed
    <3> QED BY <1>1, <3>1, <3>2, <3>3
  <2>2. pc[o] = "scan" /\ UNCHANGED <<pc, didFull, loadedEnd, cacheVars>>
    BY <1>6 DEF ScanFrame
  <2> QED BY <2>1, <2>2 DEF cacheVars, SavedInv
<1>7. CASE DecidePersist(o)
  <2> DEFINE known == IF loadedEnd[o] > persisted THEN loadedEnd[o] ELSE persisted
  <2>1. known \in Nat /\ known <= disk.end
    BY <1>1, <1>7 DEF DecidePersist, SavedInv
  <2>2. /\ pc[o] = "scan" /\ UNCHANGED <<acc, cache, disk>> /\ loadedEnd'[o] = 0
        /\ \/ /\ ~(didFull[o] \/ acc[o].end >= known + MinDelta)
              /\ pc'[o] = "store" /\ persisted' = known
           \/ pc'[o] = "storeSave" /\ persisted' = acc[o].end
    BY <1>1, <1>7 DEF DecidePersist, ShouldPersist, TypeOK
  <2> HIDE DEF known
  <2> QED BY <1>1, <2>1, <2>2 DEF SavedInv
<1>8. CASE WriteBack(o)
  BY <1>1, <1>8 DEF WriteBack, scanVars, SavedInv, TypeOK
<1>9. CASE SavePersisted(o)
  <2>1. /\ pc[o] = "save" /\ pc'[o] = "open" /\ disk' = acc[o]
        /\ UNCHANGED <<scanVars, cache, persisted>>
    BY <1>1, <1>9 DEF SavePersisted, TypeOK
  <2> QED BY <1>1, <2>1 DEF scanVars, SavedInv
<1> QED BY <1>2, <1>3, <1>4, <1>5, <1>6, <1>7, <1>8, <1>9 DEF Next, OpenerNext

\* wal_index.rs:385-390, as far as it goes: of a daemon that opens the database
\* once at a time and whose saves succeed, whatever the writer does to the log
\* and whenever the daemon dies.  With two opens at once or a failing save it
\* does not hold.
THEOREM TailBounded ==
  ASSUME NEW o, Opener = {o}, SaveMayFail = FALSE
  PROVE  Spec => []PersistTailBounded
<1>1. Init => SavedInv(o)
  BY DEF Init, SavedInv, NoScan, EmptyScan
<1>2. TypeOK /\ TypeOK' /\ SavedInv(o) /\ [Next]_vars => SavedInv(o)'
  BY SavedNext
<1>3. SavedInv(o) => PersistTailBounded
  BY DEF SavedInv, PersistTailBounded
<1> QED
  BY <1>1, <1>2, <1>3, TypeCorrect, PTL DEF Spec
\* file as it was, or in a frame committed by then; what came later is logged.
SinceInv(o) ==
  /\ since[o] \in 1..Len(hist)
  /\ \A p \in Page :
       \/ main[p] = hist[since[o]][p] /\ (p <= mainLen[o] <=> hist[since[o]][p] # 0)
       \/ \E j \in 1..mx : frames[j].pgno = p /\ frames[j].ver <= since[o]
  /\ \A p \in Page, w \in since[o] + 1 .. Len(hist) : hist[w][p] = w => Logged(p, w)

\* The steps of an open that find the frames of the log: those committed when
\* the open began are in the length it reads, none of their commit frames is
\* passed over, and in the end the index covers them all.
Finding == {"header", "take", "load", "scan"}
Found == {"store", "storeSave", "save", "open"}

PlaceInv(o) ==
  /\ pc[o] \in Finding =>
       \A j \in 1..mx : frames[j].ver <= since[o] => j <= fileLen[o]
  /\ pc[o] = "scan" =>
       /\ \A n \in 1..mx : n > acc[o].end /\ frames[n].commit # 0 /\ frames[n].ver <= since[o]
                             => n > pos[o]
       /\ \A i \in 1..Len(buf[o]) :
            pos[o] + i <= mx /\ frames[pos[o] + i].ver <= since[o]
              => buf[o][i] = frames[pos[o] + i]
  /\ pc[o] \in Found =>
       \A j \in 1..mx : frames[j].ver <= since[o] => j <= acc[o].end

\* The index is of the generation the log is in, or of an empty log.
LabelInv(o) ==
  /\ pc[o] \in {"idle", "header"} => acc[o] = NoScan
  /\ pc[o] = "header" => frames # <<>>
  /\ pc[o] \notin {"idle", "header"} =>
       (pc[o] = "open" /\ acc[o] = NoScan) \/ (acc[o].salt = salt /\ salt # 0)

PromiseInv(o) ==
  /\ mainLen[o] = 0 => pc[o] = "idle" /\ acc[o] = NoScan /\ ~disturbed[o]
  /\ mainLen[o] # 0 /\ ~disturbed[o] => SinceInv(o) /\ PlaceInv(o) /\ LabelInv(o)

MVType ==
  /\ mainLen \in [Opener -> Nat]
  /\ since \in [Opener -> Nat]
  /\ disturbed \in [Opener -> BOOLEAN]

MVInv ==
  /\ TypeOK /\ MVType
  /\ CoherenceInv /\ HistoryInv
  /\ \A o \in Opener : PromiseInv(o)

\* A writer's step that does not disturb o leaves what o was promised: it adds
\* nothing o is bound to see, and takes nothing o needs.
LEMMA GrowPromise ==
  ASSUME TypeOK, TypeOK', LogInv, NEW o \in Opener,
         UNCHANGED <<pc, scanVars, mainLen, since>>,
         SinceInv(o), PlaceInv(o), LabelInv(o), ~Disturbs(o), Grows,
         hist' = hist \/ (/\ Len(hist') = Len(hist) + 1
                          /\ \A v \in 1..Len(hist) : hist'[v] = hist[v]),
         \A i \in 1..mx' : i > mx => frames'[i].ver = Len(hist) + 1,
         \A p \in Page, w \in Nat : w = Len(hist) + 1 /\ hist' # hist /\ hist'[w][p] = w
                                      => Logged(p, w)'
  PROVE  SinceInv(o)' /\ PlaceInv(o)' /\ LabelInv(o)'
<1> DEFINE s == since[o]
<1>1. /\ mx \in Nat /\ Len(hist) \in Nat \ {0} /\ Len(frames) \in Nat /\ mx' \in Nat
      /\ Len(frames') \in Nat /\ mx <= mx' /\ salt' = salt
      /\ \A i \in 1..mx : i \in 1..mx' /\ frames'[i] = frames[i]
  <2>1. LogTypeOK /\ LogTypeOK'
    BY DEF TypeOK
  <2>2. /\ mx \in Nat /\ Len(hist) \in Nat \ {0} /\ Len(frames) \in Nat /\ mx' \in Nat
        /\ Len(frames') \in Nat
    BY <2>1, FrameTypes, LenProperties DEF LogTypeOK
  <2> QED
    BY <2>2 DEF Grows
<1>2. /\ s \in 1..Len(hist) /\ since' = since /\ mainLen' = mainLen /\ pc' = pc
      /\ acc' = acc /\ pos' = pos /\ buf' = buf /\ fileLen' = fileLen
  BY DEF SinceInv, scanVars
<1>p. pos[o] \in Nat /\ Len(buf[o]) \in Nat /\ frames \in Seq(Frame)
  BY LenProperties DEF TypeOK, LogTypeOK
<1>3. hist'[s] = hist[s] /\ Len(hist) <= Len(hist') /\ Len(hist') \in Nat
  BY <1>1, <1>2
<1>4. \A j \in 1..mx' : frames'[j].ver <= s => j \in 1..mx /\ frames'[j] = frames[j]
  BY <1>1, <1>2
<1>5. SinceInv(o)'
  <2>1. ASSUME NEW p \in Page
        PROVE  \/ main'[p] = hist[s][p] /\ (p <= mainLen[o] <=> hist[s][p] # 0)
               \/ \E j \in 1..mx' : frames'[j].pgno = p /\ frames'[j].ver <= s
    <3>1. CASE \E j \in 1..mx : frames[j].pgno = p /\ frames[j].ver <= s
      BY <3>1, <1>1
    <3>2. CASE main[p] = hist[s][p] /\ (p <= mainLen[o] <=> hist[s][p] # 0)
      BY <3>2 DEF Disturbs
    <3> QED
      BY <3>1, <3>2 DEF SinceInv
  <2>2. ASSUME NEW p, NEW w, Logged(p, w) PROVE Logged(p, w)'
    BY <2>2, <1>1 DEF Logged
  <2>3. ASSUME NEW p \in Page, NEW w \in s + 1 .. Len(hist'), hist'[w][p] = w
        PROVE  Logged(p, w)'
    <3>1. CASE w \in 1..Len(hist)
      <4>1. hist'[w] = hist[w] /\ w \in s + 1 .. Len(hist)
        BY <3>1, <1>1, <1>2
      <4> QED
        BY <4>1, <2>2, <2>3 DEF SinceInv
    <3>2. CASE w \notin 1..Len(hist)
      <4>1. w = Len(hist) + 1 /\ w \in Nat /\ hist' # hist
        BY <3>2, <1>1, <1>2
      <4> QED
        BY <4>1, <2>3
    <3> QED
      BY <3>1, <3>2
  <2>4. s \in 1..Len(hist')
    BY <1>1, <1>2, <1>3
  <2> QED
    BY <2>1, <2>3, <2>4, <1>2, <1>3 DEF SinceInv
<1>6. PlaceInv(o)'
  <2>1. pc[o] \in Finding => \A j \in 1..mx' : frames'[j].ver <= s => j <= fileLen[o]
    BY <1>4 DEF PlaceInv
  <2>2. pc[o] = "scan" =>
          \A n \in 1..mx' : n > acc[o].end /\ frames'[n].commit # 0 /\ frames'[n].ver <= s
                              => n > pos[o]
    BY <1>4 DEF PlaceInv
  <2>3. ASSUME pc[o] = "scan", NEW i \in 1..Len(buf[o]),
               pos[o] + i <= mx', frames'[pos[o] + i].ver <= s
        PROVE  buf[o][i] = frames'[pos[o] + i]
    <3>1. pos[o] + i \in 1..mx /\ frames'[pos[o] + i] = frames[pos[o] + i]
      <4>1. pos[o] + i \in 1..mx'
        BY <2>3, <1>1, <1>p
      <4> QED
        BY <4>1, <2>3, <1>4
    <3>2. pos[o] + i <= mx
      BY <3>1, <1>1
    <3> QED
      BY <3>1, <3>2, <2>3 DEF PlaceInv
  <2>4. pc[o] \in Found => \A j \in 1..mx' : frames'[j].ver <= s => j <= acc[o].end
    BY <1>4 DEF PlaceInv
  <2> QED
    BY <2>1, <2>2, <2>3, <2>4, <1>2 DEF PlaceInv
<1>7. LabelInv(o)'
  <2>1. frames # <<>> => frames' # <<>>
    <3>1. frames # <<>> => Len(frames) # 0
      BY <1>p, EmptySeq
    <3>2. Len(frames') # 0 => frames' # <<>>
      OBVIOUS
    <3> QED
      BY <3>1, <3>2, <1>1 DEF Grows
  <2> QED
    BY <2>1, <1>1, <1>2 DEF LabelInv
<1> QED
  BY <1>5, <1>6, <1>7

LEMMA WriterPromise ==
  ASSUME MVInv, TypeOK', LogNext, UNCHANGED <<pc, scanVars, mainLen, since>>,
         NEW o \in Opener, mainLen[o] # 0, ~disturbed[o], ~Disturbs(o)
  PROVE  SinceInv(o)' /\ PlaceInv(o)' /\ LabelInv(o)'
<1>1. /\ TypeOK /\ LogTypeOK /\ LogTypeOK' /\ LogInv /\ HistoryInv
      /\ SinceInv(o) /\ PlaceInv(o) /\ LabelInv(o)
  BY DEF MVInv, PromiseInv, CoherenceInv, TypeOK
<1>2. /\ mx \in Nat /\ Len(hist) \in Nat \ {0} /\ salt \in Nat /\ gen \in Nat
      /\ (mx' = mx => \A i \in 1..mx' : ~(i > mx))
  BY <1>1, FrameTypes
<1>3. ASSUME NEW p \in Page, SpillFrame(p) PROVE SinceInv(o)' /\ PlaceInv(o)' /\ LabelInv(o)'
  <2>1. Grows /\ mx' = mx /\ hist' = hist
    BY <1>1, <1>3, WriteGrows DEF SpillFrame
  <2> QED
    BY <2>1, <1>1, <1>2, GrowPromise
<1>4. ASSUME NEW p \in Page, CommitFrame(p) PROVE SinceInv(o)' /\ PlaceInv(o)' /\ LabelInv(o)'
  <2>1. Grows
    BY <1>1, <1>4, WriteGrows
  <2>2. /\ Len(hist') = Len(hist) + 1 /\ \A v \in 1..Len(hist) : hist'[v] = hist[v]
        /\ \A i \in 1..mx' : i > mx => frames'[i].ver = Len(hist) + 1
        /\ \A q \in Page, w \in Nat : w = Len(hist) + 1 /\ hist'[w][q] = w => Logged(q, w)'
    BY <1>1, <1>4, CommitHistory
  <2> QED
    BY <2>1, <2>2, <1>1, GrowPromise
<1>5. ASSUME NEW p \in Page, Backfill(p) PROVE SinceInv(o)' /\ PlaceInv(o)' /\ LabelInv(o)'
  <2>1. Grows /\ mx' = mx /\ hist' = hist
    BY <1>1, <1>5, StayGrows DEF Backfill
  <2> QED
    BY <2>1, <1>1, <1>2, GrowPromise
<1>6. CASE Rollback
  <2>1. 1 \in Page
    BY WalLogAssumption DEF Page
  <2>2. Grows /\ mx' = mx
    BY <2>1, <1>1, <1>6, StayGrows
  <2>3. /\ Len(hist') = Len(hist) + 1 /\ \A v \in 1..Len(hist) : hist'[v] = hist[v]
        /\ \A q \in Page : hist'[Len(hist) + 1][q] # Len(hist) + 1
    BY <1>1, <1>6, RollbackHistory
  <2> QED
    BY <2>2, <2>3, <1>1, <1>2, GrowPromise
<1>7. CASE NewGeneration
  <2>1. salt <= gen /\ salt' = gen + 1 /\ mx' = 0 /\ UNCHANGED <<frames, main, hist>>
    BY <1>1, <1>7 DEF NewGeneration, LogInv
  <2>2. salt = 0
    BY <2>1, <1>2 DEF Disturbs
  <2>3. frames = <<>> /\ mx = 0
    <3>1. Len(frames) = 0 /\ mx <= tail /\ tail <= Len(frames) /\ tail \in Nat
      BY <2>2, <1>1, FrameTypes DEF LogInv
    <3> QED
      BY <3>1, <1>1, <1>2, EmptySeq DEF LogTypeOK
  <2>4. pc[o] = "idle" \/ (pc[o] = "open" /\ acc[o] = NoScan)
    BY <2>2, <2>3, <1>1 DEF LabelInv
  <2>5. \A p, w : Logged(p, w) <=> Logged(p, w)'
    BY <2>1, <2>3 DEF Logged
  <2>6. SinceInv(o)'
    BY <2>1, <2>3, <2>5, <1>1 DEF SinceInv
  <2>7. PlaceInv(o)' /\ LabelInv(o)'
    BY <2>1, <2>4, <1>1 DEF PlaceInv, LabelInv, Finding, Found, scanVars
  <2> QED
    BY <2>6, <2>7
<1>8. CASE Truncate
  BY <1>8, <1>2 DEF Truncate, Disturbs
<1> QED
  BY <1>3, <1>4, <1>5, <1>6, <1>7, <1>8 DEF LogNext

\* One turn of the scan loop passes no commit frame o is bound to find.
LEMMA ScanPlace ==
  ASSUME MVInv, NEW o \in Opener, SinceInv(o), PlaceInv(o), LabelInv(o), ScanFrame(o),
         UNCHANGED since
  PROVE  PlaceInv(o)' /\ LabelInv(o)'
<1> DEFINE n == pos[o] + 1
           b == Buffered(o)
           f == b[1]
           s == since[o]
<1>1. /\ acc[o] \in Scan /\ pos[o] \in Nat /\ acc[o].end \in Nat /\ acc[o].salt \in Nat
      /\ mx \in Nat /\ tail \in Nat /\ mx <= tail /\ tail <= Len(frames) /\ Len(frames) \in Nat
      /\ TypeOK /\ LogTypeOK /\ LogInv /\ buf[o] \in Seq(Frame)
  <2>1. TypeOK /\ LogTypeOK /\ LogInv
    BY DEF MVInv, CoherenceInv, TypeOK
  <2> QED
    BY <2>1, FrameTypes DEF TypeOK, Scan
<1>2. b \in Seq(Frame) /\ b # <<>> /\ Len(b) \in Nat \ {0}
  BY <1>1, BufferedType, EmptySeq DEF ScanFrame
<1>3. Len(Tail(b)) = Len(b) - 1 /\ \A i \in 1..Len(Tail(b)) : Tail(b)[i] = b[i + 1]
  BY <1>2, HeadTailProperties
<1>4. /\ pc'[o] = "scan" /\ pc[o] = "scan" /\ pos'[o] = n /\ buf'[o] = Tail(b)
      /\ UNCHANGED logVars /\ fileLen' = fileLen /\ since' = since
  BY <1>1 DEF ScanFrame, TypeOK
<1>5. acc[o].salt = salt /\ salt # 0
  BY <1>4 DEF LabelInv
<1>6. acc[o].end <= pos[o]
  <2>1. OpenerInv(o)
    BY DEF MVInv, CoherenceInv
  <2> QED
    BY <2>1, <1>4, <1>5 DEF OpenerInv, ScanInv
<1>7. \/ acc'[o] = acc[o]
      \/ acc'[o].end = n /\ acc'[o].salt = acc[o].salt
  <2>1. \/ acc'[o] = acc[o]
        \/ acc'[o] = Committed(acc[o], [pend[o] EXCEPT ![f.pgno] = n], f, n)
    BY <1>1 DEF ScanFrame, TypeOK
  <2> QED
    BY <2>1, <1>1 DEF Committed, Scan
\* The buffer holds what the file held when o's open began.
<1>8. \A i \in 1..Len(b) :
        pos[o] + i <= mx /\ frames[pos[o] + i].ver <= s => b[i] = frames[pos[o] + i]
  <2>1. CASE buf[o] # <<>>
    BY <2>1, <1>4 DEF PlaceInv, Buffered
  <2>2. CASE buf[o] = <<>>
    BY <2>2, <1>1, <1>2, RefillBytes
  <2> QED
    BY <2>1, <2>2
<1>9. \A m \in 1..mx : m > acc[o].end /\ frames[m].commit # 0 /\ frames[m].ver <= s => m > pos[o]
  BY <1>4 DEF PlaceInv
<1>10. ASSUME n \in 1..mx, frames[n].commit # 0, frames[n].ver <= s
       PROVE  acc'[o].end = n
  <2>1. f = frames[n]
    <3>1. 1 \in 1..Len(b) /\ pos[o] + 1 <= mx
      BY <1>2, <1>10
    <3> QED
      BY <3>1, <1>8, <1>10
  <2>2. frames[n].salt = salt
    BY <1>1, <1>10, FrameTypes
  <2>3. Adopted(o, f) /\ f.commit # 0
    BY <2>1, <2>2, <1>5, <1>10 DEF Adopted
  <2>4. acc'[o] = Committed(acc[o], [pend[o] EXCEPT ![f.pgno] = n], f, n)
    BY <2>3, <1>1 DEF ScanFrame, TypeOK
  <2> QED
    BY <2>4, <1>1 DEF Committed, Scan
<1>11. ASSUME NEW m \in 1..mx, m > acc'[o].end, frames[m].commit # 0, frames[m].ver <= s
       PROVE  m > n
  <2>1. m > acc[o].end
    BY <1>1, <1>6, <1>7, <1>11
  <2>2. m > pos[o]
    BY <2>1, <1>9, <1>11
  <2>3. m # n
    BY <1>10, <1>11, <1>1
  <2> QED
    BY <2>2, <2>3, <1>1
<1>12. ASSUME NEW i \in 1..Len(Tail(b)), n + i <= mx, frames[n + i].ver <= s
       PROVE  Tail(b)[i] = frames[n + i]
  <2>1. i \in Nat /\ i + 1 \in 1..Len(b)
    BY <1>2, <1>3
  <2>2. n + i = pos[o] + (i + 1)
    BY <2>1, <1>1
  <2>3. b[i + 1] = frames[pos[o] + (i + 1)]
    BY <2>1, <2>2, <1>8, <1>12
  <2>4. Tail(b)[i] = b[i + 1]
    BY <1>3
  <2> QED
    BY <2>2, <2>3, <2>4
<1>13. \A j \in 1..mx : frames[j].ver <= s => j <= fileLen[o]
  BY <1>4 DEF PlaceInv, Finding
<1> HIDE DEF n, b
<1>14. PlaceInv(o)'
  BY <1>4, <1>11, <1>12, <1>13 DEF PlaceInv, Finding, Found, logVars
<1>15. LabelInv(o)'
  BY <1>4, <1>5, <1>7 DEF LabelInv, logVars
<1> QED
  BY <1>14, <1>15

\* Every step of an open finds what it is bound to find.
LEMMA OpenerPromise ==
  ASSUME MVInv, NEW o \in Opener, OpenerNext(o), UNCHANGED viewVars,
         SinceInv(o), PlaceInv(o), LabelInv(o), pc'[o] # "idle"
  PROVE  SinceInv(o)' /\ PlaceInv(o)' /\ LabelInv(o)'
<1>1. /\ TypeOK /\ LogTypeOK /\ LogInv /\ OpenerInv(o) /\ HistoryInv
  BY DEF MVInv, CoherenceInv, TypeOK
<1>2. /\ mx \in Nat /\ tail \in Nat /\ mx <= tail /\ tail <= Len(frames) /\ Len(frames) \in Nat
      /\ frames \in Seq(Frame)
  BY <1>1, FrameTypes DEF LogTypeOK
<1>3. UNCHANGED logVars
  BY DEF OpenerNext, OpenWal, ReadHeader, HeaderFails, TakeCached, LoadPersisted, ScanFrame,
     ScanFails, DecidePersist, WriteBack, SavePersisted, CloseConn
<1>4. SinceInv(o)'
  <2>1. \A p, w : Logged(p, w) <=> Logged(p, w)'
    BY <1>3 DEF Logged, logVars
  <2> QED
    BY <2>1, <1>3 DEF SinceInv, logVars, viewVars
<1>5. CASE OpenWal(o)
  <2>1. /\ pc[o] = "idle" /\ acc' = acc /\ fileLen'[o] = Len(frames)
        /\ pc'[o] = IF frames = <<>> THEN "open" ELSE "header"
    BY <1>1, <1>5 DEF OpenWal, TypeOK
  <2>2. frames = <<>> => mx = 0
    <3>1. Len(<<>>) = 0
      OBVIOUS
    <3> QED
      BY <3>1, <1>2
  <2>3. \A j \in 1..mx : j <= Len(frames)
    BY <1>2
  <2>4. PlaceInv(o)' /\ LabelInv(o)'
    BY <2>1, <2>2, <2>3, <1>3 DEF PlaceInv, LabelInv, Finding, Found, logVars
  <2> QED
    BY <2>4, <1>4
<1>6. CASE ReadHeader(o)
  <2>1. /\ pc[o] = "header" /\ acc'[o].salt = salt /\ salt # 0 /\ fileLen' = fileLen
        /\ pc'[o] = "take"
    BY <1>1, <1>6 DEF ReadHeader, EmptyScan, TypeOK
  <2>2. PlaceInv(o)' /\ LabelInv(o)'
    BY <2>1, <1>3 DEF PlaceInv, LabelInv, Finding, Found, logVars, viewVars
  <2> QED
    BY <2>2, <1>4
<1>7. CASE TakeCached(o) \/ LoadPersisted(o)
  <2>1. /\ pc[o] \in {"take", "load"} /\ pc'[o] \in {"load", "scan"}
        /\ fileLen' = fileLen /\ buf' = buf /\ buf[o] = <<>> /\ acc'[o].salt = acc[o].salt
        /\ pc'[o] = "scan" => pos'[o] = acc'[o].end
    <3>1. pc[o] \in {"take", "load"}
      BY <1>7 DEF TakeCached, LoadPersisted
    <3>2. pos[o] = 0 /\ acc[o].end = 0 /\ buf[o] = <<>>
      BY <3>1, <1>1 DEF OpenerInv, EmptyScan
    <3>3. CASE TakeCached(o)
      BY <3>2, <3>3, <1>1 DEF TakeCached, Usable, TypeOK
    <3>4. CASE LoadPersisted(o)
      BY <3>2, <3>4, <1>1 DEF LoadPersisted, Usable, TypeOK
    <3> QED
      BY <3>3, <3>4, <1>7
  <2>2. Len(buf'[o]) = 0
    BY <2>1
  <2>3. PlaceInv(o)'
    BY <2>1, <2>2, <1>3 DEF PlaceInv, Finding, Found, logVars, viewVars
  <2>4. LabelInv(o)'
    BY <2>1, <1>3 DEF LabelInv, logVars
  <2> QED
    BY <2>3, <2>4, <1>4
<1>8. CASE ScanFrame(o)
  BY <1>4, <1>8, ScanPlace DEF viewVars
<1>9. CASE DecidePersist(o)
  <2>1. /\ pc[o] = "scan" /\ pc'[o] \in {"store", "storeSave"} /\ acc' = acc
        /\ pos[o] >= fileLen[o] /\ pos[o] \in Nat /\ fileLen[o] \in Nat /\ acc[o].end \in Nat
    BY <1>1, <1>9 DEF DecidePersist, TypeOK, Scan
  <2>2. ASSUME NEW j \in 1..mx, frames[j].ver <= since[o] PROVE j <= acc[o].end
    <3>1. PICK n \in j..mx : frames[n].commit # 0 /\ frames[n].ver = frames[j].ver
      BY <1>1 DEF HistoryInv, CommitInv
    <3>2. n \in 1..mx /\ j <= n /\ frames[n].ver <= since[o]
      BY <3>1, <2>2, <1>2
    <3>3. n <= fileLen[o]
      BY <3>2, <2>1 DEF PlaceInv, Finding
    <3>4. n > acc[o].end => n > pos[o]
      BY <3>1, <3>2, <2>1 DEF PlaceInv
    <3> QED
      BY <3>2, <3>3, <3>4, <2>1
  <2>3. PlaceInv(o)'
    BY <2>1, <2>2, <1>3 DEF PlaceInv, Finding, Found, logVars, viewVars
  <2>4. LabelInv(o)'
    BY <2>1, <1>3 DEF LabelInv, logVars
  <2> QED
    BY <2>3, <2>4, <1>4
<1>10. CASE WriteBack(o) \/ SavePersisted(o)
  <2>1. pc[o] \in {"store", "storeSave", "save"} /\ pc'[o] \in {"open", "save"} /\ acc' = acc
    BY <1>1, <1>10 DEF WriteBack, SavePersisted, scanVars, TypeOK
  <2>2. PlaceInv(o)' /\ LabelInv(o)'
    BY <2>1, <1>3 DEF PlaceInv, LabelInv, Finding, Found, logVars, viewVars
  <2> QED
    BY <2>2, <1>4
<1>11. CASE HeaderFails(o) \/ ScanFails(o) \/ CloseConn(o)
  BY <1>1, <1>11 DEF HeaderFails, ScanFails, CloseConn, Forget, TypeOK
<1> QED
  BY <1>5, <1>6, <1>7, <1>8, <1>9, <1>10, <1>11 DEF OpenerNext

-----------------------------------------------------------------------------
(* What an open connection reads *)

\* The transaction after which the database was as o reads it: that of the
\* last commit frame in o's index, or the last to end before o's open began.
Snap(o) ==
  IF acc[o].end # 0 /\ frames[acc[o].end].ver > since[o] THEN frames[acc[o].end].ver
                                                         ELSE since[o]

\* What a page holds says which transaction put it there.
LEMMA Written ==
  ASSUME LogTypeOK, HistInv, NEW v \in 1..Len(hist), NEW p \in Page, hist[v][p] # 0
  PROVE  hist[v][p] \in 1..v /\ hist[hist[v][p]][p] = hist[v][p]
<1>1. hist[v][p] \in Nat /\ hist[v][p] <= v /\ Len(hist) \in Nat
  BY HistTypes, LenProperties DEF HistInv, LogTypeOK
<1>2. hist[v][p] \in 1..Len(hist) /\ hist[v][p] <= v
  BY <1>1
<1> QED
  BY <1>1, <1>2 DEF HistInv

\* The index of an open connection, in terms of the log alone.
LEMMA IndexFacts ==
  ASSUME MVInv, NEW o \in Opener, LabelInv(o), pc[o] = "open"
  PROVE  /\ acc[o].end \in 0..mx
         /\ acc[o].last = IF acc[o].end = 0 THEN 0 ELSE frames[acc[o].end].commit
         /\ acc[o].end # 0 => acc[o].last # 0
         /\ \A p \in Page :
              /\ acc[o].off[p] \in 0..acc[o].end
              /\ acc[o].off[p] # 0 => frames[acc[o].off[p]].pgno = p
              /\ \A j \in acc[o].off[p] + 1 .. acc[o].end : frames[j].pgno # p
<1>1. TypeOK /\ LogTypeOK /\ LogInv /\ OpenerInv(o) /\ mx \in Nat
  BY DEF MVInv, CoherenceInv, TypeOK, LogTypeOK
<1>2. CASE acc[o] = NoScan
  BY <1>1, <1>2 DEF NoScan, EmptyScan, NoFrames
<1>3. CASE acc[o] # NoScan
  <2>1. acc[o].salt = salt /\ salt # 0
    BY <1>3 DEF LabelInv
  <2>2. Coherent(acc[o])
    BY <2>1, <1>1 DEF OpenerInv
  <2>3. acc[o].end \in Nat /\ acc[o].end <= mx
    BY <2>1, <2>2, <1>1 DEF Coherent, TypeOK, Scan
  <2>4. \A j \in 1..acc[o].end : frames[j].salt = salt
    BY <2>3, <1>1, FrameTypes
  <2>5. ASSUME NEW p \in Page
        PROVE  /\ acc[o].off[p] \in 0..acc[o].end
               /\ acc[o].off[p] # 0 => frames[acc[o].off[p]].pgno = p
               /\ \A j \in acc[o].off[p] + 1 .. acc[o].end : frames[j].pgno # p
    <3>1. IsLatest(p, acc[o].off[p], acc[o].end)
      BY <2>1, <2>2 DEF Coherent
    <3>2. \A j \in acc[o].off[p] + 1 .. acc[o].end : j \in 1..acc[o].end
      BY <3>1, <2>3 DEF IsLatest
    <3> QED
      BY <3>1, <3>2, <2>4 DEF IsLatest
  <2> QED
    BY <2>1, <2>2, <2>3, <2>5 DEF Coherent
<1> QED
  BY <1>2, <1>3

LEMMA FrameOrder ==
  ASSUME LogTypeOK, LogInv, CommitInv, NEW i \in 1..mx, NEW j \in 1..mx, i <= j
  PROVE  frames[i].ver <= frames[j].ver
<1>1. mx \in Nat /\ frames[i].ver \in Nat
  BY FrameTypes
<1>2. CASE i = j
  BY <1>1, <1>2
<1>3. CASE i # j
  <2>1. j \in i + 1 .. mx
    BY <1>1, <1>3
  <2> QED
    BY <2>1 DEF CommitInv
<1> QED
  BY <1>2, <1>3

\* An undisturbed connection reads one database, no older than its open.
LEMMA SnapView ==
  ASSUME MVInv, NEW o \in Opener, pc[o] = "open", SinceInv(o), PlaceInv(o), LabelInv(o)
  PROVE  Snap(o) \in since[o] .. Len(hist) /\ View(o) = hist[Snap(o)]
<1> DEFINE s == since[o]
           e == acc[o].end
           v == frames[e].ver
           n == Snap(o)
<1>1. /\ TypeOK /\ LogTypeOK /\ LogInv /\ HistInv /\ CommitInv
      /\ mx \in Nat /\ Len(hist) \in Nat \ {0} /\ Len(frames) \in Nat /\ mx <= Len(frames)
      /\ \A i \in 1..mx : i \in 1..Len(frames) /\ frames[i].pgno \in Page /\ frames[i].ver \in Nat
  <2>1. TypeOK /\ LogTypeOK /\ LogInv /\ HistInv /\ CommitInv
    BY DEF MVInv, CoherenceInv, TypeOK, HistoryInv
  <2> QED
    BY <2>1, FrameTypes
<1>2. /\ e \in 0..mx
      /\ acc[o].last = IF e = 0 THEN 0 ELSE frames[e].commit
      /\ e # 0 => acc[o].last # 0
      /\ \A p \in Page :
           /\ acc[o].off[p] \in 0..e
           /\ acc[o].off[p] # 0 => frames[acc[o].off[p]].pgno = p
           /\ \A j \in acc[o].off[p] + 1 .. e : frames[j].pgno # p
  BY IndexFacts
<1>3. \A j \in 1..mx : frames[j].ver <= s => j <= e
  BY DEF PlaceInv, Found
<1>4. s \in 1..Len(hist) /\ hist[s] \in [Page -> Nat] /\ Page \subseteq Nat
  BY <1>1, HistTypes DEF SinceInv
<1>5. CASE e = 0
  <2>1. n = s
    BY <1>5 DEF Snap
  <2>2. ASSUME NEW p \in Page PROVE View(o)[p] = hist[s][p]
    <3>1. \A j \in 1..mx : ~(frames[j].ver <= s)
      BY <1>3, <1>5
    <3>2. main[p] = hist[s][p] /\ (p <= mainLen[o] <=> hist[s][p] # 0)
      BY <3>1 DEF SinceInv
    <3>3. acc[o].off[p] = 0 /\ acc[o].last = 0
      BY <1>2, <1>5
    <3>4. mainLen[o] \in Nat /\ p \in Nat
      BY <1>4 DEF MVInv, MVType
    <3> QED
      BY <3>2, <3>3, <3>4 DEF View, TotalPages, ReadPage
  <2>3. View(o) = hist[s]
    BY <2>2, <1>4 DEF View
  <2> QED
    BY <2>1, <2>3, <1>1, <1>4
<1>6. CASE e # 0
  <2>1. /\ e \in 1..mx /\ v \in 2..Len(hist) /\ v \in 1..Len(hist)
        /\ frames[e].commit = Size(hist[v]) /\ frames[e].commit # 0
        /\ TotalPages(o) = Size(hist[v])
    <3>1. e \in 1..mx /\ frames[e].commit # 0 /\ acc[o].last = frames[e].commit
      BY <1>2, <1>6
    <3>2. v \in 2..Len(hist) /\ frames[e].commit = Size(hist[v])
      BY <3>1 DEF CommitInv, HistoryInv, MVInv
    <3> QED
      BY <3>1, <3>2, <1>1 DEF TotalPages
  <2>2. n = IF v > s THEN v ELSE s
    BY <1>6 DEF Snap
  <2>3. n \in s .. Len(hist) /\ n \in 1..Len(hist) /\ v <= n /\ (n = v \/ n = s)
    BY <2>1, <2>2, <1>1, <1>4
  <2> HIDE DEF n
  \* Frames of transactions no later than the last commit frame are before it.
  <2>4. ASSUME NEW j \in 1..mx, frames[j].ver <= v PROVE j <= e
    <3> SUFFICES ASSUME j > e PROVE FALSE
      BY <2>1, <1>1
    <3>1. j \in e + 1 .. mx
      BY <1>1, <2>1
    <3>2. v < frames[j].ver
      BY <3>1, <2>1, <1>1 DEF CommitInv
    <3> QED
      BY <3>2, <2>1, <2>4, <1>1
  <2>5. \A j \in 1..mx : frames[j].ver <= n => j <= e
    BY <2>3, <2>4, <1>3
  <2>6. \A p \in Page : hist[v][p] = hist[n][p]
    <3> SUFFICES ASSUME NEW p \in Page, hist[v][p] # hist[n][p] PROVE FALSE
      OBVIOUS
    <3> DEFINE w == hist[n][p]
    <3>1. w \in Nat /\ w > v
      <4>1. hist[n] \in [Page -> Nat]
        BY <2>3, <1>1, HistTypes
      <4>2. w <= v => hist[v][p] = w
        BY <2>1, <2>3, <1>1 DEF HistInv
      <4> QED
        BY <4>1, <4>2, <2>1
    <3>2. w \in 1..n /\ hist[w][p] = w
      BY <3>1, <2>1, <2>3, <1>1, Written
    <3>3. Logged(p, w)
      <4>1. w \in v .. Len(hist)
        BY <3>1, <3>2, <2>1, <2>3, <1>1
      <4> QED
        BY <4>1, <3>2, <2>1, <1>1 DEF CommitInv
    <3>4. PICK j \in 1..mx : frames[j].ver = w
      BY <3>3 DEF Logged
    <3>5. j <= e
      BY <3>2, <3>4, <2>3, <2>5
    <3>6. w <= v
      BY <3>4, <3>5, <2>1, <1>1, FrameOrder
    <3> QED
      BY <3>1, <3>6, <2>1
  <2>7. ASSUME NEW p \in Page, hist[n][p] # 0 PROVE ReadPage(o, p) = hist[n][p]
    <3> DEFINE w == hist[n][p]
               i == acc[o].off[p]
    <3>1. /\ w \in 1..n /\ hist[w][p] = w /\ w \in 1..Len(hist) /\ w = hist[v][p]
      BY <2>3, <2>6, <2>7, <1>1, Written
    <3>2. w <= v
      <4>1. hist[v][p] <= v
        BY <2>1, <1>1 DEF HistInv
      <4> QED
        BY <4>1, <3>1
    <3>3. i \in 0..e
      BY <1>2
    <3>4. CASE i # 0
      <4>1. i \in 1..mx /\ i <= e /\ frames[i].pgno = p /\ i <= Len(frames)
        BY <3>3, <3>4, <2>1, <1>1, <1>2
      <4> DEFINE x == frames[i].ver
      <4>2. x \in 2..Len(hist) /\ hist[x][p] = x /\ x <= v
        BY <4>1, <2>1, <1>1, FrameOrder DEF CommitInv
      <4>3. x <= w
        <5>1. x \in 1..Len(hist)
          BY <4>2
        <5>2. hist[x][p] <= hist[v][p]
          <6>1. \A a, b \in 1..Len(hist) : a <= b => hist[a][p] <= hist[b][p]
            BY <1>1 DEF HistInv
          <6> HIDE DEF x, v
          <6> QED
            BY <6>1, <5>1, <4>2, <2>1
        <5> QED
          BY <5>2, <4>2, <3>1
      <4>4. Logged(p, w)
        <5>1. w \in x .. Len(hist)
          BY <4>2, <4>3, <3>1
        <5> QED
          BY <5>1, <4>1, <3>1, <1>1 DEF CommitInv
      <4>5. PICK j \in 1..mx : frames[j].pgno = p /\ frames[j].ver = w
        BY <4>4 DEF Logged
      <4>6. j <= e
        BY <4>5, <3>2, <2>4
      <4>7. ~(j \in i + 1 .. e)
        BY <4>5, <1>2
      <4>8. j <= i
        BY <4>1, <4>6, <4>7, <2>1, <1>1
      <4>9. w <= x
        BY <4>1, <4>5, <4>8, <1>1, FrameOrder
      <4>10. w = x
        BY <4>3, <4>9, <4>2, <3>1
      <4> QED
        BY <4>1, <4>10, <3>4 DEF ReadPage
    <3>5. CASE i = 0
      <4>1. \A j \in 1..e : frames[j].pgno # p
        BY <3>5, <1>2
      <4>2. \A j \in 1..mx : frames[j].pgno = p => ~(j <= e)
        BY <4>1, <2>1
      <4>3. main[p] = hist[s][p] /\ (p <= mainLen[o] <=> hist[s][p] # 0)
        BY <4>2, <1>3 DEF SinceInv
      <4>4. hist[s][p] = w
        <5>1. CASE w <= s /\ s <= n
          BY <5>1, <2>3, <1>1, <1>4 DEF HistInv
        <5>2. CASE ~(w <= s)
          <6>1. w \in s + 1 .. Len(hist)
            BY <5>2, <3>1, <1>4
          <6>2. Logged(p, w)
            BY <6>1, <3>1 DEF SinceInv
          <6>3. PICK j \in 1..mx : frames[j].pgno = p /\ frames[j].ver = w
            BY <6>2 DEF Logged
          <6> QED
            BY <6>3, <4>2, <3>2, <2>4
        <5> QED
          BY <5>1, <5>2, <2>3
      <4>5. p <= mainLen[o] /\ main[p] = w
        BY <4>3, <4>4, <2>7
      <4>6. mainLen[o] \in Nat /\ p \in Nat
        BY <1>4 DEF MVInv, MVType
      <4> QED
        BY <4>5, <4>6, <3>5 DEF ReadPage
    <3> QED
      BY <3>4, <3>5
  <2>8. \A p \in Page : p <= TotalPages(o) <=> hist[n][p] # 0
    <3>1. Whole(hist[v])
      BY <2>1, <1>1 DEF HistInv
    <3>2. \A p \in Page : p <= Size(hist[v]) <=> hist[v][p] # 0
      BY <3>1, WholeSize
    <3> QED
      BY <3>2, <2>1, <2>6
  <2>9. \A p \in Page : View(o)[p] = hist[n][p]
    BY <2>7, <2>8 DEF View
  <2>10. hist[n] \in [Page -> Nat]
    BY <2>3, <1>1, HistTypes
  <2>11. View(o) = hist[n]
    BY <2>9, <2>10 DEF View
  <2> QED
    BY <2>3, <2>11 DEF n
<1> QED
  BY <1>5, <1>6

-----------------------------------------------------------------------------
(* The invariant *)

LEMMA InitMVInv == MVInit => MVInv
<1> SUFFICES ASSUME MVInit PROVE MVInv
  OBVIOUS
<1>1. TypeOK /\ CoherenceInv /\ HistoryInv
  BY InitType, InitCoherence, InitHistory DEF MVInit, Init
<1>2. MVType
  BY DEF MVInit, MVType
<1>3. \A o \in Opener : PromiseInv(o)
  BY DEF MVInit, Init, PromiseInv
<1> QED
  BY <1>1, <1>2, <1>3 DEF MVInv

\* The steps of MergedView are steps of WalIndex.
LEMMA ViewStep == [MVNext]_allVars => [Next]_vars
  BY DEF MVNext, OpenMain, OpenOn, MVWriter, MVRestart, Next, allVars

\* A step of one opener leaves the log and the other openers alone.
LEMMA OpenerLeaves ==
  ASSUME TypeOK, NEW o \in Opener, OpenerNext(o)
  PROVE  /\ UNCHANGED logVars
         /\ \A q \in Opener : q # o =>
              /\ pc'[q] = pc[q] /\ acc'[q] = acc[q] /\ pos'[q] = pos[q]
              /\ buf'[q] = buf[q] /\ fileLen'[q] = fileLen[q]
<1>1. CASE OpenWal(o) \/ ReadHeader(o) \/ TakeCached(o) \/ LoadPersisted(o)
  BY <1>1 DEF OpenWal, ReadHeader, TakeCached, LoadPersisted, TypeOK
<1>2. CASE HeaderFails(o) \/ ScanFails(o) \/ CloseConn(o)
  BY <1>2 DEF HeaderFails, ScanFails, CloseConn, Forget, TypeOK
<1>3. CASE ScanFrame(o)
  BY <1>3 DEF ScanFrame, TypeOK
<1>4. CASE DecidePersist(o) \/ WriteBack(o) \/ SavePersisted(o)
  BY <1>4 DEF DecidePersist, WriteBack, SavePersisted, scanVars, TypeOK
<1> QED
  BY <1>1, <1>2, <1>3, <1>4 DEF OpenerNext

\* What o's open has reached, when a step of others leaves the log alone.
LEMMA KeptPromise ==
  ASSUME NEW o \in Opener, UNCHANGED logVars,
         pc'[o] = pc[o], acc'[o] = acc[o], pos'[o] = pos[o],
         buf'[o] = buf[o], fileLen'[o] = fileLen[o],
         mainLen'[o] = mainLen[o], since'[o] = since[o], disturbed'[o] = disturbed[o],
         PromiseInv(o)
  PROVE  PromiseInv(o)'
<1>1. \A p, w : Logged(p, w) <=> Logged(p, w)'
  BY DEF Logged, logVars
<1>2. SinceInv(o) => SinceInv(o)'
  BY <1>1 DEF SinceInv, logVars
<1>3. PlaceInv(o) => PlaceInv(o)'
  BY DEF PlaceInv, Finding, Found, logVars
<1>4. LabelInv(o) => LabelInv(o)'
  BY DEF LabelInv, logVars
<1> QED
  BY <1>2, <1>3, <1>4 DEF PromiseInv

\* When an open begins, the newest database is what the two files hold.
LEMMA BegunPromise ==
  ASSUME MVInv, NEW o \in Opener, OpenMain(o)
  PROVE  PromiseInv(o)'
<1> DEFINE L == Len(hist)
<1>1. /\ TypeOK /\ LogTypeOK /\ LogInv /\ HistInv /\ CommitInv /\ MainInv /\ PromiseInv(o)
      /\ UNCHANGED <<vars, disturbed>> /\ UNCHANGED logVars
      /\ mainLen'[o] = Size(main) /\ since'[o] = L /\ pc[o] = "idle"
  BY DEF OpenMain, MVInv, MVType, CoherenceInv, HistoryInv, TypeOK, vars
<1>2. L \in Nat \ {0} /\ mx \in Nat
  BY <1>1, FrameTypes
<1>3. pc'[o] = "idle" /\ acc'[o] = NoScan
  BY <1>1 DEF OpenMain, PromiseInv, vars, scanVars
<1>4. \A p \in Page : main[p] = db[p] \/ \E j \in 1..mx : frames[j].pgno = p
  BY <1>1 DEF MainInv
<1>5. \A j \in 1..mx : frames[j].ver <= L
  BY <1>1, <1>2 DEF CommitInv
<1>6. \A p \in Page : p <= Size(main) <=> main[p] # 0
  BY <1>1, WholeSize DEF MainInv
<1>7. \A p \in Page :
        \/ main[p] = hist[L][p] /\ (p <= Size(main) <=> hist[L][p] # 0)
        \/ \E j \in 1..mx : frames[j].pgno = p /\ frames[j].ver <= L
  BY <1>4, <1>5, <1>6 DEF db
<1>8. SinceInv(o)'
  <2>1. \A w : w \notin L + 1 .. L
    BY <1>2
  <2> QED
    BY <2>1, <1>1, <1>2, <1>7 DEF SinceInv, logVars
<1>9. PlaceInv(o)' /\ LabelInv(o)'
  BY <1>3 DEF PlaceInv, LabelInv, Finding, Found
<1>10. mainLen'[o] # 0
  <2>1. 1 \in Page /\ main[1] # 0 /\ Size(main) \in Nat
    BY <1>1, HistTypes, SizeType DEF MainInv, Whole
  <2> QED
    BY <2>1, <1>1, <1>6
<1> QED
  BY <1>8, <1>9, <1>10 DEF PromiseInv

LEMMA MVInvStep ==
  ASSUME AppendOnly \/ OneRefill, MVInv, [MVNext]_allVars
  PROVE  MVInv'
<1>1. TypeOK /\ LogTypeOK /\ MVType /\ CoherenceInv /\ LogInv /\ HistoryInv /\ mx \in Nat
  BY DEF MVInv, CoherenceInv, TypeOK, LogTypeOK
<1>2. TypeOK' /\ CoherenceInv'
  BY <1>1, ViewStep, StepType, StepCoherence
<1>3. LogTypeOK' /\ \A o \in Opener : PromiseInv(o)
  BY <1>2 DEF TypeOK, MVInv
<1>4. ASSUME NEW o \in Opener, OpenMain(o) PROVE MVInv'
  <2>1. UNCHANGED <<vars, disturbed>> /\ UNCHANGED logVars
    BY <1>4 DEF OpenMain, vars
  <2>2. MVType'
    <3>1. Size(main) \in Nat /\ Len(hist) \in Nat
      BY <1>1, SizeType, LenProperties DEF LogTypeOK
    <3> QED
      BY <3>1, <1>1, <1>4 DEF OpenMain, MVType
  <2>3. \A q \in Opener : PromiseInv(q)'
    <3>1. PromiseInv(o)'
      BY <1>4, BegunPromise
    <3>2. ASSUME NEW q \in Opener, q # o PROVE PromiseInv(q)'
      <4>1. mainLen'[q] = mainLen[q] /\ since'[q] = since[q]
        BY <1>1, <1>4, <3>2 DEF OpenMain, MVType
      <4> QED
        BY <4>1, <2>1, <1>3, KeptPromise DEF vars, scanVars
    <3> QED
      BY <3>1, <3>2
  <2>4. HistoryInv'
    BY <2>1, <1>1, KeptHistory
  <2> QED
    BY <2>2, <2>3, <2>4, <1>2 DEF MVInv
<1>5. ASSUME NEW o \in Opener, OpenOn(o) PROVE MVInv'
  <2>1. /\ UNCHANGED logVars /\ OpenerNext(o)
        /\ \A q \in Opener : q # o =>
              /\ pc'[q] = pc[q] /\ acc'[q] = acc[q] /\ pos'[q] = pos[q]
              /\ buf'[q] = buf[q] /\ fileLen'[q] = fileLen[q]
    BY <1>1, <1>5, OpenerLeaves DEF OpenOn
  <2>2. MVType'
    <3>1. CASE pc'[o] = "idle"
      <4>1. /\ mainLen' = [mainLen EXCEPT ![o] = 0]
            /\ since' = [since EXCEPT ![o] = 0]
            /\ disturbed' = [disturbed EXCEPT ![o] = FALSE]
        BY <3>1, <1>5 DEF OpenOn
      <4> QED
        BY <4>1, <1>1 DEF MVType
    <3>2. CASE pc'[o] # "idle"
      BY <3>2, <1>1, <1>5 DEF OpenOn, MVType, viewVars
    <3> QED
      BY <3>1, <3>2
  <2>3. ASSUME NEW q \in Opener, q # o PROVE PromiseInv(q)'
    <3>1. mainLen'[q] = mainLen[q] /\ since'[q] = since[q] /\ disturbed'[q] = disturbed[q]
      BY <1>1, <1>5, <2>3 DEF OpenOn, MVType, viewVars
    <3> QED
      BY <3>1, <2>1, <2>3, <1>3, KeptPromise
  <2>4. PromiseInv(o)'
    <3>1. CASE pc'[o] = "idle"
      <4>1. mainLen'[o] = 0 /\ ~disturbed'[o]
        BY <3>1, <1>1, <1>5 DEF OpenOn, MVType
      <4>2. acc'[o] = NoScan
        BY <3>1, <2>1, <1>1 DEF OpenerNext, OpenWal, ReadHeader, HeaderFails, TakeCached,
           LoadPersisted, ScanFrame, ScanFails, DecidePersist, WriteBack, SavePersisted,
           CloseConn, Forget, TypeOK
      <4> QED
        BY <3>1, <4>1, <4>2 DEF PromiseInv
    <3>2. CASE pc'[o] # "idle"
      <4>1. UNCHANGED viewVars /\ mainLen[o] # 0
        BY <3>2, <1>5 DEF OpenOn
      <4>2. CASE disturbed[o]
        BY <4>1, <4>2 DEF PromiseInv, viewVars
      <4>3. CASE ~disturbed[o]
        <5>1. SinceInv(o) /\ PlaceInv(o) /\ LabelInv(o)
          BY <4>1, <4>3, <1>3 DEF PromiseInv
        <5> QED
          BY <5>1, <4>1, <3>2, <2>1, OpenerPromise DEF PromiseInv, viewVars
      <4> QED
        BY <4>2, <4>3
    <3> QED
      BY <3>1, <3>2
  <2>5. HistoryInv'
    BY <2>1, <1>1, KeptHistory
  <2> QED
    BY <2>2, <2>3, <2>4, <2>5, <1>2 DEF MVInv
<1>6. CASE MVWriter
  <2>1. /\ LogNext /\ UNCHANGED <<pc, scanVars, mainLen, since>> /\ acc' = acc
        /\ \A q \in Opener :
             disturbed'[q] = (disturbed[q] \/ (mainLen[q] # 0 /\ Disturbs(q)))
    BY <1>6 DEF MVWriter, WriterNext, scanVars
  <2>2. MVType'
    <3>1. disturbed' = [q \in Opener |-> disturbed[q] \/ (mainLen[q] # 0 /\ Disturbs(q))]
      BY <1>6 DEF MVWriter
    <3> QED
      BY <3>1, <2>1, <1>1 DEF MVType
  <2>3. ASSUME NEW q \in Opener PROVE PromiseInv(q)'
    <3>1. CASE mainLen[q] = 0
      BY <3>1, <2>1, <1>3 DEF PromiseInv
    <3>2. CASE mainLen[q] # 0 /\ ~disturbed'[q]
      <4>1. SinceInv(q)' /\ PlaceInv(q)' /\ LabelInv(q)'
        BY <3>2, <2>1, <1>2, WriterPromise
      <4> QED
        BY <4>1, <3>2, <2>1 DEF PromiseInv
    <3>3. CASE mainLen[q] # 0 /\ disturbed'[q]
      BY <3>3, <2>1 DEF PromiseInv
    <3> QED
      BY <3>1, <3>2, <3>3
  <2>4. HistoryInv'
    BY <2>1, <1>1, <1>3, WriterHistory
  <2> QED
    BY <2>2, <2>3, <2>4, <1>2 DEF MVInv
<1>7. CASE MVRestart
  <2>1. MVType'
    BY <1>7 DEF MVRestart, MVType
  <2>2. \A q \in Opener : PromiseInv(q)'
    BY <1>7 DEF MVRestart, DaemonRestart, PromiseInv
  <2>3. HistoryInv'
    BY <1>1, <1>7, KeptHistory DEF MVRestart, DaemonRestart
  <2> QED
    BY <2>1, <2>2, <2>3, <1>2 DEF MVInv
<1>8. CASE UNCHANGED allVars
  <2>1. UNCHANGED logVars /\ UNCHANGED viewVars /\ UNCHANGED <<pc, scanVars>>
    BY <1>8 DEF allVars, vars
  <2>2. MVType'
    BY <2>1, <1>1 DEF viewVars, MVType
  <2>3. \A q \in Opener : PromiseInv(q)'
    BY <2>1, <1>3, KeptPromise DEF viewVars, scanVars
  <2>4. HistoryInv'
    BY <2>1, <1>1, KeptHistory
  <2> QED
    BY <2>2, <2>3, <2>4, <1>2 DEF MVInv
<1> QED
  BY <1>4, <1>5, <1>6, <1>7, <1>8 DEF MVNext

-----------------------------------------------------------------------------
(* The refinement *)

\* What an undisturbed open connection reads.
ViewInv ==
  \A o \in Opener : mainLen[o] # 0 /\ ~disturbed[o] /\ pc[o] = "open" =>
    Snap(o) \in since[o] .. Len(hist) /\ since[o] \in 1..Len(hist) /\ View(o) = hist[Snap(o)]

LEMMA ViewHolds == MVInv => ViewInv
<1> SUFFICES ASSUME MVInv, NEW o \in Opener,
                    mainLen[o] # 0, ~disturbed[o], pc[o] = "open"
             PROVE  Snap(o) \in since[o] .. Len(hist) /\ since[o] \in 1..Len(hist)
                    /\ View(o) = hist[Snap(o)]
  BY DEF ViewInv
<1>1. SinceInv(o) /\ PlaceInv(o) /\ LabelInv(o)
  BY DEF MVInv, PromiseInv
<1> QED
  BY <1>1, SnapView DEF SinceInv

\* The promise, in terms of the committed databases alone.
ShownTo(o) ==
  IF mainLen[o] = 0 THEN [phase |-> "closed"]
  ELSE IF disturbed[o] THEN [phase |-> "none"]
  ELSE IF pc[o] = "open" THEN [phase |-> "frozen", pages |-> hist[Snap(o)]]
  ELSE [phase |-> "opening", since |-> since[o]]

Shown == [o \in Opener |-> ShownTo(o)]
Promised == [o \in Opener |-> PromiseOf(o)]

LEMMA PromisedShown == MVInv => Promised = Shown
<1> SUFFICES ASSUME MVInv, NEW o \in Opener PROVE PromiseOf(o) = ShownTo(o)
  BY DEF Promised, Shown
<1>1. mainLen[o] = 0 => pc[o] = "idle" /\ ~disturbed[o]
  BY DEF MVInv, PromiseInv
<1>2. CASE mainLen[o] = 0
  BY <1>1, <1>2 DEF PromiseOf, ShownTo
<1>3. CASE mainLen[o] # 0 /\ disturbed[o]
  BY <1>3 DEF PromiseOf, ShownTo
<1>4. CASE mainLen[o] # 0 /\ ~disturbed[o] /\ pc[o] = "open"
  <2>1. View(o) = hist[Snap(o)]
    BY <1>4, ViewHolds DEF ViewInv
  <2> QED
    BY <2>1, <1>4 DEF PromiseOf, ShownTo
<1>5. CASE mainLen[o] # 0 /\ ~disturbed[o] /\ pc[o] # "open"
  BY <1>5 DEF PromiseOf, ShownTo
<1> QED
  BY <1>2, <1>3, <1>4, <1>5

\* A step that leaves o's index and the frame it ends at leaves what o reads.
LEMMA ShownKept ==
  ASSUME MVInv, NEW o \in Opener,
         mainLen'[o] = mainLen[o], since'[o] = since[o], disturbed'[o] = disturbed[o],
         pc'[o] = pc[o], acc'[o] = acc[o],
         \A v \in 1..Len(hist) : hist'[v] = hist[v],
         mainLen[o] # 0 /\ ~disturbed[o] => \A i \in 1..mx : frames'[i] = frames[i]
  PROVE  ShownTo(o)' = ShownTo(o)
<1>1. CASE mainLen[o] = 0 \/ disturbed[o] \/ pc[o] # "open"
  BY <1>1 DEF ShownTo
<1>2. CASE mainLen[o] # 0 /\ ~disturbed[o] /\ pc[o] = "open"
  <2>1. Snap(o) \in since[o] .. Len(hist) /\ since[o] \in 1..Len(hist)
    BY <1>2, ViewHolds DEF ViewInv
  <2>2. LabelInv(o) /\ mx \in Nat
    BY <1>2 DEF MVInv, PromiseInv, TypeOK, LogTypeOK
  <2>3. acc[o].end \in 0..mx
    BY <2>2, <1>2, IndexFacts
  <2>4. acc[o].end # 0 => frames'[acc[o].end] = frames[acc[o].end]
    BY <2>2, <2>3, <1>2
  <2>5. Snap(o)' = Snap(o)
    BY <2>4 DEF Snap
  <2>6. Snap(o) \in 1..Len(hist)
    BY <2>1
  <2>7. hist'[Snap(o)'] = hist[Snap(o)]
    BY <2>5, <2>6
  <2> QED
    BY <2>7, <1>2 DEF ShownTo
<1> QED
  BY <1>1, <1>2

\* What one step of the writer does to what the connections are promised.
LEMMA WriterShown ==
  ASSUME MVInv, MVWriter
  PROVE  /\ \A o \in Opener :
              ShownTo(o)' = IF disturbed'[o] /\ ~disturbed[o] THEN [phase |-> "none"]
                                                              ELSE ShownTo(o)
         /\ \A o \in Opener : disturbed'[o] /\ ~disturbed[o] => mainLen[o] # 0
         /\ \/ hist' = hist
            \/ /\ Len(hist') = Len(hist) + 1
               /\ \A v \in 1..Len(hist) : hist'[v] = hist[v]
               /\ \A o \in Opener : ~(disturbed'[o] /\ ~disturbed[o])
<1>1. /\ TypeOK /\ LogTypeOK /\ LogInv /\ HistoryInv
      /\ LogNext /\ UNCHANGED <<pc, scanVars, mainLen, since>> /\ acc' = acc
      /\ \A o \in Opener :
           disturbed'[o] = (disturbed[o] \/ (mainLen[o] # 0 /\ Disturbs(o)))
  BY DEF MVInv, CoherenceInv, TypeOK, MVWriter, WriterNext, scanVars
<1>2. mx \in Nat /\ tail \in Nat /\ mx <= tail /\ tail <= Len(frames) /\ Len(frames) \in Nat
  BY <1>1, FrameTypes
\* The log changes as far as the step allows.
<1>3. /\ hist' = hist \/ (main' = main /\ salt' = salt)
      /\ hist' = hist \/ (/\ Len(hist') = Len(hist) + 1
                          /\ \A v \in 1..Len(hist) : hist'[v] = hist[v])
      /\ \/ \A i \in 1..mx : frames'[i] = frames[i]
         \/ salt # 0 /\ salt' # salt
  <2>1. ASSUME NEW p \in Page, SpillFrame(p) \/ CommitFrame(p)
        PROVE  main' = main /\ salt' = salt /\ \A i \in 1..mx : frames'[i] = frames[i]
    <3>1. TypeOK' => Grows
      BY <2>1, <1>1, WriteGrows DEF TypeOK
    <3>2. UNCHANGED <<main, salt>>
      BY <2>1 DEF SpillFrame, CommitFrame
    <3>3. TypeOK'
      BY <1>1, ViewStep, StepType DEF MVNext
    <3> QED
      BY <3>1, <3>2, <3>3 DEF Grows
  <2>2. ASSUME NEW p \in Page, SpillFrame(p) PROVE hist' = hist
    BY <2>2 DEF SpillFrame
  <2>3. ASSUME NEW p \in Page, CommitFrame(p)
        PROVE  /\ Len(hist') = Len(hist) + 1
               /\ \A v \in 1..Len(hist) : hist'[v] = hist[v]
    <3>1. LogTypeOK'
      BY <1>1, ViewStep, StepType DEF MVNext, TypeOK
    <3> QED
      BY <3>1, <2>3, <1>1, CommitHistory
  <2>4. ASSUME NEW p \in Page, Backfill(p)
        PROVE  hist' = hist /\ frames' = frames
    BY <2>4 DEF Backfill
  <2>5. CASE Rollback
    <3>1. /\ Len(hist') = Len(hist) + 1 /\ \A v \in 1..Len(hist) : hist'[v] = hist[v]
      BY <2>5, <1>1, RollbackHistory
    <3> QED
      BY <3>1, <2>5 DEF Rollback
  <2>6. CASE NewGeneration
    BY <2>6 DEF NewGeneration
  <2>7. CASE Truncate
    BY <2>7 DEF Truncate
  <2> QED
    BY <2>1, <2>2, <2>3, <2>4, <2>5, <2>6, <2>7, <1>1 DEF LogNext
<1>4. hist' # hist => \A o \in Opener : ~Disturbs(o)
  BY <1>3 DEF Disturbs
<1>5. ASSUME NEW o \in Opener
      PROVE  ShownTo(o)' = IF disturbed'[o] /\ ~disturbed[o] THEN [phase |-> "none"]
                                                             ELSE ShownTo(o)
  <2>1. mainLen'[o] = mainLen[o] /\ since'[o] = since[o] /\ pc'[o] = pc[o] /\ acc'[o] = acc[o]
    BY <1>1
  <2>2. CASE disturbed'[o] /\ ~disturbed[o]
    <3>1. mainLen'[o] # 0
      BY <2>1, <2>2, <1>1
    <3> QED
      BY <3>1, <2>2 DEF ShownTo
  <2>3. CASE ~(disturbed'[o] /\ ~disturbed[o])
    <3>1. disturbed'[o] = disturbed[o]
      <4>1. disturbed[o] \in BOOLEAN
        BY DEF MVInv, MVType
      <4>2. disturbed'[o] \in BOOLEAN /\ (disturbed[o] => disturbed'[o])
        BY <1>1
      <4> QED
        BY <4>1, <4>2, <2>3
    <3>2. \A v \in 1..Len(hist) : hist'[v] = hist[v]
      BY <1>3
    <3>3. mainLen[o] # 0 /\ ~disturbed[o] => \A i \in 1..mx : frames'[i] = frames[i]
      BY <3>1, <1>1, <1>3 DEF Disturbs
    <3> QED
      BY <2>1, <2>3, <3>1, <3>2, <3>3, ShownKept
  <2> QED
    BY <2>2, <2>3
<1> QED
  BY <1>1, <1>3, <1>4, <1>5

LEMMA RefineStep ==
  ASSUME MVInv, MVInv', Promised = Shown, Promised' = Shown', ViewInv', [MVNext]_allVars
  PROVE  Promise!Next \/ UNCHANGED <<hist, Promised>>
<1>1. TypeOK /\ MVType /\ \A o \in Opener : PromiseInv(o)
  BY DEF MVInv
<1>2. ASSUME NEW o \in Opener, OpenMain(o) PROVE Promise!BeginOpen(o)
  <2>1. /\ UNCHANGED <<vars, disturbed>> /\ mainLen[o] = 0 /\ pc[o] = "idle" /\ hist' = hist
        /\ since'[o] = Len(hist) /\ ~disturbed[o] /\ frames' = frames /\ pc' = pc /\ acc' = acc
    BY <1>1, <1>2 DEF OpenMain, MVType, PromiseInv, vars, logVars, scanVars
  <2>2. mainLen'[o] # 0
    <3>1. Whole(main) /\ 1 \in Page
      BY HistTypes DEF MVInv, HistoryInv, MainInv, TypeOK
    <3>2. 1 <= Size(main) /\ Size(main) \in Nat
      BY <3>1, WholeSize, SizeType DEF Whole
    <3>3. mainLen'[o] = Size(main)
      BY <1>1, <1>2 DEF OpenMain, MVType
    <3> QED
      BY <3>2, <3>3
  <2>3. ShownTo(o) = [phase |-> "closed"]
    BY <2>1 DEF ShownTo
  <2>4. ShownTo(o)' = [phase |-> "opening", since |-> Len(hist)]
    BY <2>1, <2>2 DEF ShownTo
  <2>5. ASSUME NEW q \in Opener, q # o PROVE ShownTo(q)' = ShownTo(q)
    <3>1. mainLen'[q] = mainLen[q] /\ since'[q] = since[q]
      BY <1>1, <1>2, <2>5 DEF OpenMain, MVType
    <3> QED
      BY <3>1, <2>1, ShownKept
  <2>6. Shown' = [Shown EXCEPT ![o] = [phase |-> "opening", since |-> Len(hist)]]
    BY <2>4, <2>5 DEF Shown
  <2>7. Shown[o] = [phase |-> "closed"]
    BY <2>3 DEF Shown
  <2> QED
    BY <2>1, <2>6, <2>7 DEF Promise!BeginOpen, Promise!Closed, Promise!Opening, Promised
<1>3. ASSUME NEW o \in Opener, OpenOn(o)
      PROVE  Promise!Close({o}) \/ Promise!FinishOpen(o) \/ UNCHANGED <<hist, Promised>>
  <2>1. /\ UNCHANGED logVars /\ OpenerNext(o) /\ mainLen[o] # 0 /\ hist' = hist /\ frames' = frames
        /\ \A q \in Opener : q # o => pc'[q] = pc[q] /\ acc'[q] = acc[q]
    BY <1>1, <1>3, OpenerLeaves DEF OpenOn, logVars
  <2>2. ASSUME NEW q \in Opener, q # o PROVE ShownTo(q)' = ShownTo(q)
    <3>1. mainLen'[q] = mainLen[q] /\ since'[q] = since[q] /\ disturbed'[q] = disturbed[q]
      BY <1>1, <1>3, <2>2 DEF OpenOn, MVType, viewVars
    <3> QED
      BY <3>1, <2>1, <2>2, ShownKept
  <2>3. CASE pc'[o] = "idle"
    <3>1. mainLen'[o] = 0
      BY <2>3, <1>1, <1>3 DEF OpenOn, MVType
    <3>2. ShownTo(o)' = [phase |-> "closed"]
      BY <3>1 DEF ShownTo
    <3>3. Shown' = [q \in Opener |-> IF q \in {o} THEN [phase |-> "closed"] ELSE Shown[q]]
      BY <3>2, <2>2 DEF Shown
    <3> QED
      BY <3>3, <2>1 DEF Promise!Close, Promise!Closed, Promised
  <2>4. CASE pc'[o] # "idle"
    <3>1. mainLen' = mainLen /\ since' = since /\ disturbed' = disturbed
      BY <2>4, <1>3 DEF OpenOn, viewVars
    <3>2. pc[o] # "open"
      BY <2>1, <2>4, <1>1 DEF OpenerNext, OpenWal, ReadHeader, HeaderFails, TakeCached,
         LoadPersisted, ScanFrame, ScanFails, DecidePersist, WriteBack, SavePersisted,
         CloseConn, Forget, TypeOK
    <3>3. CASE ~disturbed[o] /\ pc'[o] = "open"
      <4>1. ShownTo(o) = [phase |-> "opening", since |-> since[o]]
        BY <2>1, <3>2, <3>3 DEF ShownTo
      <4>2. PICK v : v = Snap(o)'
        OBVIOUS
      <4>3. v \in since[o] .. Len(hist)
        BY <4>2, <2>1, <3>1, <3>3 DEF ViewInv
      <4>4. ShownTo(o)' = [phase |-> "frozen", pages |-> hist[v]]
        BY <4>2, <2>1, <3>1, <3>3 DEF ShownTo
      <4>5. Shown' = [Shown EXCEPT ![o] = [phase |-> "frozen", pages |-> hist[v]]]
        BY <4>4, <2>2 DEF Shown
      <4>6. Shown[o].phase = "opening" /\ Shown[o].since = since[o]
        BY <4>1 DEF Shown
      <4> QED
        BY <4>3, <4>5, <4>6, <2>1 DEF Promise!FinishOpen, Promise!Frozen, Promised
    <3>4. CASE disturbed[o] \/ pc'[o] # "open"
      <4>1. ShownTo(o)' = ShownTo(o)
        BY <2>1, <3>1, <3>2, <3>4 DEF ShownTo
      <4>2. Shown' = Shown
        BY <4>1, <2>2 DEF Shown
      <4> QED
        BY <4>2, <2>1
    <3> QED
      BY <3>3, <3>4
  <2> QED
    BY <2>3, <2>4
<1>4. CASE MVWriter
  <2> DEFINE S == {o \in Opener : disturbed'[o] /\ ~disturbed[o]}
  <2>1. /\ \A o \in Opener :
             ShownTo(o)' = IF o \in S THEN [phase |-> "none"] ELSE ShownTo(o)
        /\ \A o \in S : mainLen[o] # 0 /\ ~disturbed[o]
        /\ \/ hist' = hist
           \/ /\ Len(hist') = Len(hist) + 1
              /\ \A v \in 1..Len(hist) : hist'[v] = hist[v]
              /\ S = {}
    BY <1>4, WriterShown
  <2>2. PICK T : T = S
    OBVIOUS
  <2> HIDE DEF S
  <2>3. Shown' = [o \in Opener |-> IF o \in T THEN [phase |-> "none"] ELSE Shown[o]]
    BY <2>1, <2>2 DEF Shown
  <2>4. CASE hist' = hist
    <3>1. \A o \in T : Shown[o] # [phase |-> "closed"] /\ o \in Opener
      <4>1. ASSUME NEW o \in T PROVE ShownTo(o) # [phase |-> "closed"] /\ o \in Opener
        <5>1. o \in Opener /\ mainLen[o] # 0 /\ ~disturbed[o]
          BY <2>1, <2>2 DEF S
        <5>2. ShownTo(o).phase # "closed"
          BY <5>1 DEF ShownTo
        <5> QED
          BY <5>1, <5>2
      <4> QED
        BY <4>1 DEF Shown
    <3>2. T \in SUBSET {o \in Opener : Shown[o] # [phase |-> "closed"]}
      BY <3>1
    <3>3. Promise!LosePromise
      BY <3>2, <2>3, <2>4 DEF Promise!LosePromise, Promise!Closed, Promise!NoPromise, Promised
    <3> QED
      BY <3>3 DEF Promise!Next
  <2>5. CASE hist' # hist
    <3>1. Shown' = Shown
      BY <2>1, <2>2, <2>3, <2>5 DEF Shown
    <3>2. Promise!EndTxn
      BY <3>1, <2>1, <2>5 DEF Promise!EndTxn, Promised
    <3> QED
      BY <3>2 DEF Promise!Next
  <2> QED
    BY <2>4, <2>5
<1>5. CASE MVRestart
  <2>1. hist' = hist /\ \A o \in Opener : ShownTo(o)' = [phase |-> "closed"]
    BY <1>5 DEF MVRestart, DaemonRestart, logVars, ShownTo
  <2>2. Shown' = [o \in Opener |-> IF o \in Opener THEN [phase |-> "closed"] ELSE Shown[o]]
    BY <2>1 DEF Shown
  <2>3. Promise!Close(Opener)
    BY <2>1, <2>2 DEF Promise!Close, Promise!Closed, Promised
  <2> QED
    BY <2>3 DEF Promise!Next
<1>6. CASE UNCHANGED allVars
  <2>1. /\ hist' = hist
        /\ frames' = frames /\ pc' = pc /\ acc' = acc
        /\ mainLen' = mainLen /\ since' = since /\ disturbed' = disturbed
    BY <1>6 DEF allVars, vars, logVars, scanVars, viewVars
  <2>2. Shown' = Shown
    BY <2>1, ShownKept DEF Shown
  <2> QED
    BY <2>1, <2>2
<1>7. \A o \in Opener : Promise!Close({o}) => Promise!Next
  BY DEF Promise!Next
<1>8. \A o \in Opener : Promise!BeginOpen(o) \/ Promise!FinishOpen(o) => Promise!Next
  BY DEF Promise!Next
<1> QED
  BY <1>2, <1>3, <1>4, <1>5, <1>6, <1>7, <1>8 DEF MVNext

\* vfs.rs:14-18, wal_index.rs:141-144, for any number of connections, pages and
\* transactions: through every interleaving of opens, scans seeded from memory
\* or disk, commits, checkpoints, generations and restarts of the daemon, a
\* connection the writer has not disturbed reads one committed database, no
\* older than its open, and reads the same one until it is closed.  It rests on
\* the coherence of the index, so it has the hypotheses of that.
THEOREM ViewRefinement ==
  ASSUME AppendOnly \/ OneRefill
  PROVE  MVSpec => ReadsSnapshot
<1>1. MVInit => MVInv
  BY InitMVInv
<1>2. MVInv /\ [MVNext]_allVars => MVInv'
  BY MVInvStep
<1> DEFINE Known == MVInv /\ ViewInv /\ Promised = Shown
<1>3. MVInv => Known
  BY ViewHolds, PromisedShown
<1>4. MVInit => Promise!Init
  <2> SUFFICES ASSUME MVInit PROVE Promise!Init
    OBVIOUS
  <2>1. \A o \in Opener : PromiseOf(o) = [phase |-> "closed"]
    <3>1. \A o \in Opener : mainLen[o] = 0 /\ ~disturbed[o] /\ pc[o] = "idle"
      BY DEF MVInit, Init
    <3> QED
      BY <3>1 DEF PromiseOf
  <2>2. Len(hist) = 1
    BY DEF MVInit, Init, LogInit
  <2> QED
    BY <2>1, <2>2 DEF Promise!Init, Promise!Closed
<1>5. Known /\ Known' /\ [MVNext]_allVars
        => [Promise!Next]_<<hist, [o \in Opener |-> PromiseOf(o)]>>
  BY RefineStep DEF Promised
<1> HIDE DEF Known
<1>6. MVSpec => []Known
  BY <1>1, <1>2, <1>3, PTL DEF MVSpec
<1> QED
  BY <1>4, <1>5, <1>6, PTL DEF MVSpec, ReadsSnapshot, Promise!Spec
=============================================================================

