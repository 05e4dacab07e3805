----------------------------- MODULE WalLogProofs -----------------------------
(***************************************************************************)
(* What holds of the log, the main file and the history of one database    *)
(* whatever the writer inside WeChat does, for every number of pages,      *)
(* frames, transactions and generations.  MergedViewProofs and             *)
(* CopiesProofs rest on it.                                                *)
(***************************************************************************)
EXTENDS WalLog, FiniteSetTheorems, SequenceTheorems, TLAPS

-----------------------------------------------------------------------------
(* Types *)

LEMMA SizeType == \A d : Size(d) \in Nat
<1> SUFFICES ASSUME NEW d PROVE Size(d) \in Nat
  OBVIOUS
<1>1. IsFiniteSet(Page)
  BY FS_Interval, WalLogAssumption DEF Page
<1>2. IsFiniteSet({p \in Page : d[p] # 0})
  BY <1>1, FS_Subset
<1> QED
  BY <1>2, FS_CardinalityType DEF Size

LEMMA PutType ==
  ASSUME NEW fs \in Seq(Frame), NEW i \in Nat, NEW f \in Frame, i # 0, fs = frames
  PROVE  Put(i, f) \in Seq(Frame)
<1>1. CASE i <= Len(fs)
  BY <1>1, ExceptSeq DEF Put
<1>2. CASE ~(i <= Len(fs))
  BY <1>2 DEF Put
<1> QED
  BY <1>1, <1>2

LEMMA LogInitType == LogInit => LogTypeOK
<1>1. FirstDb \in [Page -> Nat]
  BY DEF FirstDb
<1> QED
  BY <1>1 DEF LogInit, LogTypeOK

LEMMA LogStepType ==
  ASSUME LogTypeOK, LogNext
  PROVE  LogTypeOK'
<1> USE WalLogAssumption
<1>1. db \in [Page -> Nat]
  BY DEF LogTypeOK, db
<1>2. Txn \in Nat
  BY DEF Txn, LogTypeOK
<1>3. ASSUME NEW p \in Page, SpillFrame(p) PROVE LogTypeOK'
  <2>1. [pgno |-> p, commit |-> 0, salt |-> salt, ver |-> Txn] \in Frame
    BY <1>2 DEF Frame, LogTypeOK
  <2>2. frames' \in Seq(Frame)
    BY <2>1, <1>3, PutType DEF SpillFrame, LogTypeOK
  <2> QED
    BY <2>2, <1>3 DEF SpillFrame, LogTypeOK
<1>4. ASSUME NEW p \in Page, CommitFrame(p) PROVE LogTypeOK'
  <2> DEFINE new == [q \in Page |-> IF q \in TxnPages \cup {p} THEN Txn ELSE db[q]]
  <2>1. new \in [Page -> Nat]
    BY <1>1, <1>2
  <2>2. [pgno |-> p, commit |-> Size(new), salt |-> salt, ver |-> Txn] \in Frame
    BY <1>2, SizeType DEF Frame, LogTypeOK
  <2>3. frames' \in Seq(Frame)
    BY <2>2, <1>4, PutType DEF CommitFrame, LogTypeOK
  <2>4. hist' \in Seq([Page -> Nat]) /\ hist' # <<>>
    <3>1. hist' = Append(hist, new) /\ hist \in Seq([Page -> Nat])
      BY <1>4 DEF CommitFrame, LogTypeOK
    <3>2. hist' \in Seq([Page -> Nat]) /\ Len(hist') = Len(hist) + 1 /\ Len(hist) \in Nat
      BY <2>1, <3>1, AppendProperties, LenProperties
    <3> QED
      BY <3>2, EmptySeq
  <2> QED
    BY <2>3, <2>4, <1>4 DEF CommitFrame, LogTypeOK
<1>5. ASSUME NEW p \in Page, Backfill(p) PROVE LogTypeOK'
  BY <1>1, <1>5 DEF Backfill, LogTypeOK
<1>6. CASE Rollback
  <2>1. hist' = Append(hist, db) /\ hist \in Seq([Page -> Nat])
    BY <1>6 DEF Rollback, LogTypeOK
  <2>2. hist' \in Seq([Page -> Nat]) /\ Len(hist') = Len(hist) + 1 /\ Len(hist) \in Nat
    BY <1>1, <2>1, AppendProperties, LenProperties
  <2>3. hist' # <<>>
    BY <2>2, EmptySeq
  <2> QED
    BY <2>2, <2>3, <1>6 DEF Rollback, LogTypeOK
<1>7. CASE NewGeneration
  BY <1>7 DEF NewGeneration, LogTypeOK
<1>8. CASE Truncate
  BY <1>8 DEF Truncate, LogTypeOK
<1> QED
  BY <1>3, <1>4, <1>5, <1>6, <1>7, <1>8 DEF LogNext

-----------------------------------------------------------------------------
(* The frames of a generation *)

\* No frame of a generation is ever written twice, and none is left behind by
\* an older one; truncation remains.
AppendOnly == ~AllowRollback /\ ~AllowRestart

\* Frames 1..tail belong to the current generation; those after mxFrame that
\* do, written or left by a rollback, are no commit frames.
LogInv ==
  /\ mx <= tail
  /\ tail <= Len(frames)
  /\ salt <= gen
  /\ \A i \in 1..Len(frames) :
       /\ frames[i].salt <= gen
       /\ i <= tail => frames[i].salt = salt
       /\ i > mx /\ frames[i].salt = salt => frames[i].commit = 0
  /\ salt = 0 => Len(frames) = 0
  /\ AppendOnly => tail = Len(frames)
  /\ Len(frames) <= MaxFrames

LEMMA InitLog == LogInit => LogInv
  BY WalLogAssumption DEF LogInit, LogInv

\* What one writer's action does to the log, as far as an index can tell.  The
\* three lemmas after it hold in every state of the log alone.
Grows ==
  /\ salt' = salt /\ gen' = gen /\ mx <= mx' /\ Len(frames) <= Len(frames')
  /\ \A i \in 1..mx : frames'[i] = frames[i]
  /\ AppendOnly => \A i \in 1..Len(frames) : frames'[i] = frames[i]

LEMMA PutGrows ==
  ASSUME LogTypeOK, LogTypeOK', LogInv, NEW f \in Frame,
         salt # 0, tail < MaxFrames, f.salt = salt,
         frames' = Put(tail + 1, f), tail' = tail + 1,
         (mx' = mx /\ f.commit = 0) \/ mx' = tail + 1, salt' = salt, gen' = gen
  PROVE  /\ LogInv' /\ Grows /\ frames'[tail + 1] = f
         /\ \A i \in 1..tail : frames'[i] = frames[i]
<1>1. /\ frames \in Seq(Frame) /\ Len(frames) \in Nat /\ mx \in Nat /\ tail \in Nat
      /\ salt \in Nat /\ gen \in Nat /\ mx <= tail /\ tail <= Len(frames)
      /\ MaxFrames \in Nat
  BY LenProperties, WalLogAssumption DEF LogTypeOK, LogInv
<1>2. /\ Len(frames') = (IF tail + 1 <= Len(frames) THEN Len(frames) ELSE Len(frames) + 1)
      /\ frames'[tail + 1] = f
      /\ \A i \in 1..Len(frames) : i # tail + 1 => frames'[i] = frames[i]
  <2>1. CASE tail + 1 <= Len(frames)
    <3>1. frames' = [frames EXCEPT ![tail + 1] = f] /\ tail + 1 \in 1..Len(frames)
      BY <2>1, <1>1 DEF Put
    <3>2. Len(frames') = Len(frames) /\ DOMAIN frames = 1..Len(frames)
      BY <3>1, <1>1, ExceptSeq, LenProperties
    <3> QED
      BY <3>1, <3>2, <2>1
  <2>2. CASE ~(tail + 1 <= Len(frames))
    <3>1. frames' = Append(frames, f) /\ tail = Len(frames)
      BY <2>2, <1>1 DEF Put
    <3> QED
      BY <3>1, <2>2, <1>1, AppendProperties
  <2> QED
    BY <2>1, <2>2
<1>3. \A i \in 1..tail : frames'[i] = frames[i]
  BY <1>1, <1>2
<1>4. ASSUME NEW i \in 1..Len(frames')
      PROVE  /\ frames'[i].salt <= gen'
             /\ i <= tail' => frames'[i].salt = salt'
             /\ i > mx' /\ frames'[i].salt = salt' => frames'[i].commit = 0
  <2>1. CASE i = tail + 1
    BY <2>1, <1>1, <1>2 DEF LogInv
  <2>2. CASE i # tail + 1
    <3>1. i \in 1..Len(frames) /\ frames'[i] = frames[i]
      BY <2>2, <1>1, <1>2
    <3> QED
      BY <3>1, <2>2, <1>1 DEF LogInv
  <2> QED
    BY <2>1, <2>2
<1>5. LogInv'
  BY <1>1, <1>2, <1>4 DEF LogInv
<1>6. Grows
  <2>1. AppendOnly => \A i \in 1..Len(frames) : frames'[i] = frames[i]
    BY <1>1, <1>2 DEF LogInv
  <2> QED
    BY <2>1, <1>1, <1>2, <1>3 DEF Grows
<1> QED
  BY <1>2, <1>3, <1>5, <1>6

LEMMA WriteGrows ==
  ASSUME LogTypeOK, LogTypeOK', LogInv, NEW p \in Page, SpillFrame(p) \/ CommitFrame(p)
  PROVE  LogInv' /\ Grows /\ \A i \in 1..tail : frames'[i] = frames[i]
<1>1. tail \in Nat /\ salt \in Nat /\ MaxFrames \in Nat /\ Txn \in Nat
  BY LenProperties, WalLogAssumption DEF LogTypeOK, Txn
<1>2. CASE SpillFrame(p)
  <2> DEFINE f == [pgno |-> p, commit |-> 0, salt |-> salt, ver |-> Txn]
  <2>1. f \in Frame
    BY <1>1 DEF Frame
  <2> QED
    BY <2>1, <1>1, <1>2, PutGrows DEF SpillFrame
<1>3. CASE CommitFrame(p)
  <2> DEFINE new == [q \in Page |-> IF q \in TxnPages \cup {p} THEN Txn ELSE db[q]]
             f == [pgno |-> p, commit |-> Size(new), salt |-> salt, ver |-> Txn]
  <2>1. f \in Frame
    BY <1>1, SizeType DEF Frame
  <2>2. f.salt = salt
    OBVIOUS
  <2>3. /\ salt # 0 /\ tail < MaxFrames /\ frames' = Put(tail + 1, f) /\ tail' = tail + 1
        /\ mx' = tail + 1 /\ salt' = salt /\ gen' = gen
    BY <1>3 DEF CommitFrame
  <2> HIDE DEF f
  <2> QED
    BY <2>1, <2>2, <2>3, PutGrows
<1> QED
  BY <1>2, <1>3

LEMMA StayGrows ==
  ASSUME LogTypeOK, LogInv, NEW p \in Page, Backfill(p) \/ Rollback
  PROVE  LogInv' /\ Grows /\ UNCHANGED <<frames, salt, gen, mx>>
<1>1. mx \in Nat /\ tail \in Nat /\ Len(frames) \in Nat
  BY LenProperties DEF LogTypeOK
<1>2. UNCHANGED <<frames, salt, gen, mx>> /\ (tail' = tail \/ (~AppendOnly /\ tail > mx /\ tail' = mx))
  BY DEF Backfill, Rollback, AppendOnly
<1>3. LogInv'
  BY <1>1, <1>2 DEF LogInv
<1> QED
  BY <1>1, <1>2, <1>3 DEF Grows

LEMMA ResetLog ==
  ASSUME LogTypeOK, LogInv, NewGeneration \/ Truncate
  PROVE  /\ LogInv' /\ gen <= gen' /\ (salt' = 0 \/ salt' > gen)
         /\ ~AllowTruncate => frames' = frames
<1>1. /\ mx \in Nat /\ tail \in Nat /\ Len(frames) \in Nat /\ gen \in Nat /\ salt \in Nat
      /\ MaxFrames \in Nat
  BY LenProperties, WalLogAssumption DEF LogTypeOK
<1>2. CASE NewGeneration
  <2>1. AppendOnly => Len(frames) = 0
    BY <1>2 DEF NewGeneration, AppendOnly, LogInv
  <2>2. \A i \in 1..Len(frames) : frames[i].salt \in Nat /\ frames[i].salt < gen'
    <3> SUFFICES ASSUME NEW i \in 1..Len(frames)
                 PROVE  frames[i].salt \in Nat /\ frames[i].salt < gen'
      OBVIOUS
    <3>1. frames[i] \in Frame
      BY ElementOfSeq DEF LogTypeOK
    <3>2. frames[i].salt \in Nat /\ frames[i].salt <= gen
      BY <3>1 DEF LogInv, Frame
    <3> QED
      BY <3>2, <1>1, <1>2 DEF NewGeneration
  <2>3. /\ frames' = frames /\ mx' = 0 /\ tail' = 0 /\ salt' = gen + 1 /\ gen' = gen + 1
    BY <1>2 DEF NewGeneration
  <2>4. \A i \in 1..Len(frames) : frames[i].salt <= gen' /\ frames[i].salt # salt' /\ ~(i <= 0)
    BY <2>2, <2>3, <1>1
  <2>5. LogInv'
    BY <1>1, <2>1, <2>3, <2>4 DEF LogInv
  <2> QED
    BY <2>3, <2>5, <1>1
<1>3. CASE Truncate
  <2>1. frames' = <<>> /\ Len(<<>>) = 0
    BY <1>3 DEF Truncate
  <2>2. LogInv'
    BY <1>1, <1>3, <2>1 DEF Truncate, LogInv
  <2> QED
    BY <2>2, <1>1, <1>3 DEF Truncate
<1> QED
  BY <1>2, <1>3

LEMMA WriterLog ==
  ASSUME LogTypeOK, LogTypeOK', LogInv, LogNext
  PROVE  LogInv'
<1>1. 1 \in Page
  BY WalLogAssumption DEF Page
<1> QED
  BY <1>1, WriteGrows, StayGrows, ResetLog DEF LogNext

-----------------------------------------------------------------------------
(* The log and the history of the database *)

\* A database has its pages from the first on, without a hole.
Whole(d) ==
  /\ d[1] # 0
  /\ \A p, q \in Page : q <= p /\ d[p] # 0 => d[q] # 0

\* Each transaction leaves a page alone or puts its own number there.
HistInv ==
  /\ \A v \in 1..Len(hist) : Whole(hist[v])
  /\ \A v \in 1..Len(hist), p \in Page : hist[v][p] <= v
  /\ \A u, v \in 1..Len(hist), p \in Page : u <= v =>
       /\ hist[u][p] <= hist[v][p]
       /\ hist[v][p] <= u => hist[u][p] = hist[v][p]

\* The frames of the transaction in progress, and the pages it adds.
SpillInv ==
  \A i \in mx + 1 .. tail :
    /\ frames[i].ver = Txn
    /\ \A q \in Page : q <= frames[i].pgno => db[q] # 0 \/ q \in TxnPages

\* Page p as transaction w left it is in the log.
Logged(p, w) == \E j \in 1..mx : frames[j].pgno = p /\ frames[j].ver = w

\* The committed frames are those of transactions one after the other, each
\* ended by its only commit frame, and nothing is missing between them.
CommitInv ==
  \A i \in 1..mx :
    /\ frames[i].ver \in 2..Len(hist)
    /\ hist[frames[i].ver][frames[i].pgno] = frames[i].ver
    /\ frames[i].commit # 0 => frames[i].commit = Size(hist[frames[i].ver])
    /\ \E n \in i..mx : frames[n].commit # 0 /\ frames[n].ver = frames[i].ver
    /\ \A j \in i + 1 .. mx :
         /\ frames[i].ver <= frames[j].ver
         /\ frames[i].commit # 0 => frames[i].ver < frames[j].ver
    /\ \A p \in Page, w \in frames[i].ver .. Len(hist) : hist[w][p] = w => Logged(p, w)

\* The main file is behind by pages the log has.
MainInv ==
  /\ Whole(main)
  /\ \A p \in Page :
       /\ main[p] <= db[p]
       /\ main[p] = db[p] \/ \E i \in 1..mx : frames[i].pgno = p

HistoryInv == HistInv /\ SpillInv /\ CommitInv /\ MainInv

\* A database without a hole has the pages 1 to its size.
LEMMA WholeSize ==
  ASSUME NEW d, Whole(d), NEW p \in Page
  PROVE  p <= Size(d) <=> d[p] # 0
<1> DEFINE S == {q \in Page : d[q] # 0}
<1>1. Page = 1..LastPage /\ LastPage \in Nat /\ p \in Nat /\ 1 <= p
  BY WalLogAssumption DEF Page
<1>2. IsFiniteSet(S) /\ Cardinality(S) \in Nat /\ Size(d) = Cardinality(S)
  <2>1. IsFiniteSet(Page)
    BY <1>1, FS_Interval
  <2>2. IsFiniteSet(S)
    BY <2>1, FS_Subset
  <2> QED
    BY <2>2, FS_CardinalityType DEF Size
<1>3. CASE d[p] # 0
  <2>1. 1..p \subseteq S
    <3> SUFFICES ASSUME NEW q \in 1..p PROVE q \in S
      OBVIOUS
    <3>1. q \in Page /\ q <= p
      BY <1>1
    <3> QED
      BY <3>1, <1>3 DEF Whole
  <2>2. Cardinality(1..p) = p
    BY <1>1, FS_Interval
  <2>3. Cardinality(1..p) <= Cardinality(S)
    BY <2>1, <1>2, FS_Subset
  <2> QED
    BY <2>2, <2>3, <1>2, <1>3
<1>4. CASE d[p] = 0
  <2>1. S \subseteq 1..p - 1
    <3> SUFFICES ASSUME NEW q \in S PROVE q \in 1..p - 1
      OBVIOUS
    <3>1. q \in Nat /\ 1 <= q /\ ~(p <= q)
      BY <1>1, <1>4 DEF Whole
    <3> QED
      BY <3>1, <1>1
  <2>2. IsFiniteSet(1..p - 1) /\ Cardinality(1..p - 1) = p - 1
    BY <1>1, FS_Interval
  <2>3. Cardinality(S) <= p - 1
    BY <2>1, <2>2, FS_Subset
  <2> QED
    BY <2>3, <1>1, <1>2, <1>4
<1> QED
  BY <1>3, <1>4

LEMMA InitHistory == LogInit => HistoryInv
<1> SUFFICES ASSUME LogInit PROVE HistoryInv
  OBVIOUS
<1>1. /\ hist = <<FirstDb>> /\ main = FirstDb /\ mx = 0 /\ tail = 0 /\ Len(hist) = 1
      /\ hist[1] = FirstDb
  BY DEF LogInit
<1>2. 1 \in Page /\ Page \subseteq Nat /\ \A p \in Page : 1 <= p
  BY WalLogAssumption DEF Page
<1>3. Whole(FirstDb) /\ \A p \in Page : FirstDb[p] \in Nat /\ FirstDb[p] <= 1
  BY <1>2 DEF Whole, FirstDb
<1>4. \A v \in 1..Len(hist) : v = 1
  BY <1>1
<1>5. HistInv
  BY <1>1, <1>3, <1>4 DEF HistInv
<1>6. SpillInv /\ CommitInv
  BY <1>1 DEF SpillInv, CommitInv
<1>7. MainInv
  BY <1>1, <1>3 DEF MainInv, db
<1> QED
  BY <1>5, <1>6, <1>7 DEF HistoryInv

\* A transaction that ends, by commit or rollback, adds one database.
LEMMA HistoryGrows ==
  ASSUME LogTypeOK, HistInv, NEW d \in [Page -> Nat], hist' = Append(hist, d), Whole(d),
         \A q \in Page : d[q] = db[q] \/ d[q] = Txn
  PROVE  /\ HistInv'
         /\ Len(hist') = Txn /\ hist'[Txn] = d
         /\ \A v \in 1..Len(hist) : hist'[v] = hist[v]
<1>1. Len(hist) \in Nat \ {0} /\ hist \in Seq([Page -> Nat])
  BY LenProperties, EmptySeq DEF LogTypeOK
<1>2. /\ Len(hist') = Len(hist) + 1 /\ hist'[Len(hist) + 1] = d
      /\ \A v \in 1..Len(hist) : hist'[v] = hist[v]
  BY <1>1, AppendProperties
<1>3. \A v \in 1..Len(hist) : hist[v] \in [Page -> Nat]
  BY <1>1, ElementOfSeq
<1>4. ASSUME NEW q \in Page, NEW u \in 1..Len(hist)
      PROVE  /\ hist[u][q] \in Nat /\ d[q] \in Nat /\ d[q] <= Len(hist) + 1
             /\ hist[u][q] <= d[q] /\ (d[q] <= u => hist[u][q] = d[q])
  <2>1. /\ hist[u][q] \in Nat /\ db[q] \in Nat /\ db[q] <= Len(hist) /\ hist[u][q] <= db[q]
        /\ (db[q] <= u => hist[u][q] = db[q]) /\ hist[u][q] <= u
    <3>1. Len(hist) \in 1..Len(hist) /\ u <= Len(hist)
      BY <1>1
    <3> QED
      BY <3>1, <1>3 DEF HistInv, db
  <2>2. d[q] = db[q] \/ d[q] = Len(hist) + 1
    BY DEF Txn
  <2>3. u \in Nat /\ u <= Len(hist) /\ Len(hist) \in Nat
    BY <1>1
  <2> QED
    BY <2>1, <2>2, <2>3
<1>5. ASSUME NEW v \in 1..Len(hist')
      PROVE  Whole(hist'[v]) /\ \A p \in Page : hist'[v][p] <= v
  <2>1. CASE v = Len(hist) + 1
    <3>1. 1 \in 1..Len(hist)
      BY <1>1
    <3> QED
      BY <2>1, <3>1, <1>2, <1>4
  <2>2. CASE v # Len(hist) + 1
    <3>1. v \in 1..Len(hist)
      BY <2>2, <1>1, <1>2
    <3> QED
      BY <3>1, <1>2 DEF HistInv
  <2> QED
    BY <2>1, <2>2
<1>6. ASSUME NEW u \in 1..Len(hist'), NEW v \in 1..Len(hist'), NEW p \in Page, u <= v
      PROVE  /\ hist'[u][p] <= hist'[v][p]
             /\ hist'[v][p] <= u => hist'[u][p] = hist'[v][p]
  <2>1. CASE v \in 1..Len(hist)
    <3>1. u \in 1..Len(hist)
      BY <2>1, <1>1, <1>2, <1>6
    <3> QED
      BY <2>1, <3>1, <1>2, <1>6 DEF HistInv
  <2>2. CASE v = Len(hist) + 1 /\ u \in 1..Len(hist)
    BY <2>2, <1>2, <1>4
  <2>3. CASE v = Len(hist) + 1 /\ u = Len(hist) + 1
    <3>1. 1 \in 1..Len(hist)
      BY <1>1
    <3> QED
      BY <2>3, <3>1, <1>2, <1>4
  <2> QED
    BY <2>1, <2>2, <2>3, <1>1, <1>2
<1>7. HistInv'
  BY <1>5, <1>6 DEF HistInv, Whole
<1> QED
  BY <1>1, <1>2, <1>7 DEF Txn

\* What the frames of the log are, spelled out for the provers.
LEMMA FrameTypes ==
  ASSUME LogTypeOK, LogInv
  PROVE  /\ mx \in Nat /\ tail \in Nat /\ mx <= tail /\ tail <= Len(frames)
         /\ Len(frames) \in Nat /\ salt \in Nat /\ gen \in Nat
         /\ Len(hist) \in Nat \ {0} /\ Txn = Len(hist) + 1
         /\ \A i \in 1..tail :
              /\ i \in 1..Len(frames)
              /\ frames[i].pgno \in Page /\ frames[i].ver \in Nat /\ frames[i].commit \in Nat
              /\ frames[i].salt = salt
              /\ i > mx => frames[i].commit = 0
<1>1. /\ mx \in Nat /\ tail \in Nat /\ mx <= tail /\ tail <= Len(frames)
      /\ Len(frames) \in Nat /\ salt \in Nat /\ gen \in Nat
      /\ Len(hist) \in Nat \ {0} /\ Txn = Len(hist) + 1
  BY LenProperties, EmptySeq DEF LogTypeOK, LogInv, Txn
<1>2. ASSUME NEW i \in 1..tail
      PROVE  /\ i \in 1..Len(frames)
             /\ frames[i].pgno \in Page /\ frames[i].ver \in Nat /\ frames[i].commit \in Nat
             /\ frames[i].salt = salt
             /\ i > mx => frames[i].commit = 0
  <2>1. i \in 1..Len(frames) /\ i <= tail
    BY <1>1
  <2>2. frames[i] \in Frame
    BY <2>1, ElementOfSeq DEF LogTypeOK
  <2> QED
    BY <2>1, <2>2 DEF Frame, LogInv
<1> QED
  BY <1>1, <1>2

LEMMA HistTypes ==
  ASSUME LogTypeOK, HistInv
  PROVE  /\ \A v \in 1..Len(hist) : hist[v] \in [Page -> Nat]
         /\ db \in [Page -> Nat] /\ main \in [Page -> Nat] /\ Whole(db)
         /\ \A q \in Page : db[q] <= Len(hist)
         /\ 1 \in Page /\ Page \subseteq Nat
<1>1. Len(hist) \in Nat \ {0} /\ hist \in Seq([Page -> Nat])
  BY LenProperties, EmptySeq DEF LogTypeOK
<1>2. \A v \in 1..Len(hist) : hist[v] \in [Page -> Nat]
  BY <1>1, ElementOfSeq
<1>3. Len(hist) \in 1..Len(hist)
  BY <1>1
<1>4. 1 \in Page /\ Page \subseteq Nat
  BY WalLogAssumption DEF Page
<1> QED
  BY <1>2, <1>3, <1>4 DEF HistInv, db, LogTypeOK

\* The pages of the transaction in progress, with p added, leave no hole.
LEMMA WritableWhole ==
  ASSUME LogTypeOK, LogInv, HistInv, SpillInv, NEW p \in Page, Writable(p)
  PROVE  \A q \in Page, r \in TxnPages \cup {p} : q <= r => db[q] # 0 \/ q \in TxnPages \cup {p}
<1> SUFFICES ASSUME NEW q \in Page, NEW r \in TxnPages \cup {p}, q <= r, q # p
             PROVE  db[q] # 0 \/ q \in TxnPages
  OBVIOUS
<1>1. Page = 1..LastPage /\ LastPage \in Nat /\ Whole(db)
  BY WalLogAssumption, HistTypes DEF Page
<1>2. ASSUME NEW x \in TxnPages, NEW y \in Page, y <= x PROVE db[y] # 0 \/ y \in TxnPages
  BY <1>2 DEF TxnPages, SpillInv
<1>3. CASE r \in TxnPages
  BY <1>2, <1>3
<1>4. CASE r = p
  <2>1. p - 1 \in Page /\ q <= p - 1 /\ p > 1
    BY <1>1, <1>4
  <2>2. CASE db[p - 1] # 0
    BY <2>1, <2>2, <1>1 DEF Whole
  <2>3. CASE p - 1 \in TxnPages
    BY <2>1, <2>3, <1>2
  <2> QED
    BY <2>1, <2>2, <2>3 DEF Writable
<1> QED
  BY <1>3, <1>4

LEMMA CommitKept ==
  ASSUME mx \in Nat, CommitInv, UNCHANGED <<mx, hist>>, \A i \in 1..mx : frames'[i] = frames[i]
  PROVE  CommitInv'
<1>1. \A q, w : Logged(q, w) => Logged(q, w)'
  BY DEF Logged
<1> SUFFICES ASSUME NEW i \in 1..mx
             PROVE  /\ frames'[i].ver \in 2..Len(hist)
                    /\ hist[frames'[i].ver][frames'[i].pgno] = frames'[i].ver
                    /\ frames'[i].commit # 0 => frames'[i].commit = Size(hist[frames'[i].ver])
                    /\ \E n \in i..mx : frames'[n].commit # 0 /\ frames'[n].ver = frames'[i].ver
                    /\ \A j \in i + 1 .. mx :
                         /\ frames'[i].ver <= frames'[j].ver
                         /\ frames'[i].commit # 0 => frames'[i].ver < frames'[j].ver
                    /\ \A q \in Page, w \in frames'[i].ver .. Len(hist) :
                         hist[w][q] = w => Logged(q, w)'
  BY DEF CommitInv, Size
<1>2. /\ \A n \in i..mx : n \in 1..mx
      /\ \A j \in i + 1 .. mx : j \in 1..mx
  OBVIOUS
<1> QED
  BY <1>1, <1>2 DEF CommitInv

LEMMA SpillHistory ==
  ASSUME LogTypeOK, LogTypeOK', LogInv, HistoryInv, NEW p \in Page, SpillFrame(p)
  PROVE  HistoryInv'
<1> DEFINE f == [pgno |-> p, commit |-> 0, salt |-> salt, ver |-> Txn]
<1>1. /\ mx \in Nat /\ tail \in Nat /\ mx <= tail /\ tail <= Len(frames) /\ salt \in Nat
      /\ Txn \in Nat
  BY FrameTypes
<1>2. frames'[tail + 1] = f /\ \A i \in 1..tail : frames'[i] = frames[i]
  <2>1. f \in Frame
    BY <1>1 DEF Frame
  <2>2. tail < MaxFrames
    BY <1>1, WalLogAssumption DEF SpillFrame
  <2> QED
    BY <2>1, <2>2, PutGrows DEF SpillFrame
<1>3. UNCHANGED <<salt, gen, mx, main, hist>> /\ tail' = tail + 1
  BY DEF SpillFrame
<1>4. HistInv'
  BY <1>3 DEF HistoryInv, HistInv
<1>5. \A i \in 1..mx : frames'[i] = frames[i]
  BY <1>1, <1>2
<1>6. CommitInv' /\ MainInv'
  <2>2. CommitInv'
    BY <1>1, <1>3, <1>5, CommitKept DEF HistoryInv
  <2>3. MainInv'
    BY <1>3, <1>5 DEF HistoryInv, MainInv, db
  <2> QED
    BY <2>2, <2>3
<1>7. SpillInv'
  <2>1. TxnPages' = TxnPages \cup {p}
    <3>1. \A i \in mx + 1 .. tail : frames'[i] = frames[i]
      BY <1>1, <1>2
    <3>2. mx + 1 .. tail + 1 = (mx + 1 .. tail) \cup {tail + 1}
      BY <1>1
    <3>3. frames'[tail + 1].pgno = p
      BY <1>2
    <3> QED
      BY <3>1, <3>2, <3>3, <1>3 DEF TxnPages
  <2>2. ASSUME NEW i \in mx + 1 .. tail + 1
        PROVE  frames'[i].ver = Txn /\ frames'[i].pgno \in TxnPages \cup {p}
    <3>1. CASE i = tail + 1
      BY <3>1, <1>2
    <3>2. CASE i # tail + 1
      <4>1. i \in mx + 1 .. tail /\ frames'[i] = frames[i]
        BY <3>2, <1>1, <1>2
      <4> QED
        BY <4>1 DEF HistoryInv, SpillInv, TxnPages
    <3> QED
      BY <3>1, <3>2
  <2>3. \A q \in Page, r \in TxnPages \cup {p} : q <= r => db[q] # 0 \/ q \in TxnPages \cup {p}
    BY WritableWhole DEF SpillFrame, HistoryInv
  <2>4. db' = db /\ Txn' = Txn
    BY <1>3 DEF db, Txn
  <2> QED
    BY <2>1, <2>2, <2>3, <2>4, <1>3 DEF SpillInv
<1> QED
  BY <1>4, <1>6, <1>7 DEF HistoryInv

LEMMA CommitHistory ==
  ASSUME LogTypeOK, LogTypeOK', LogInv, HistoryInv, NEW p \in Page, CommitFrame(p)
  PROVE  /\ HistoryInv'
         /\ Len(hist') = Len(hist) + 1 /\ \A v \in 1..Len(hist) : hist'[v] = hist[v]
         /\ \A i \in 1..mx' : i > mx => frames'[i].ver = Len(hist) + 1
         /\ \A q \in Page, w \in Nat : w = Len(hist) + 1 /\ hist'[w][q] = w => Logged(q, w)'
<1> DEFINE P == TxnPages \cup {p}
           new == [q \in Page |-> IF q \in P THEN Txn ELSE db[q]]
           f == [pgno |-> p, commit |-> Size(new), salt |-> salt, ver |-> Txn]
           L == Len(hist)
<1>1. /\ mx \in Nat /\ tail \in Nat /\ mx <= tail /\ tail <= Len(frames) /\ salt \in Nat
      /\ L \in Nat \ {0} /\ Txn = L + 1
      /\ \A i \in 1..tail : /\ frames[i].pgno \in Page /\ frames[i].ver \in Nat
                            /\ i > mx => frames[i].commit = 0
  BY FrameTypes
<1>2. /\ \A v \in 1..L : hist[v] \in [Page -> Nat]
      /\ db \in [Page -> Nat] /\ main \in [Page -> Nat] /\ Whole(db) /\ HistInv
      /\ \A q \in Page : db[q] <= L
      /\ 1 \in Page /\ Page \subseteq Nat
  BY HistTypes DEF HistoryInv
<1>3. frames'[tail + 1] = f /\ \A i \in 1..tail : frames'[i] = frames[i]
  <2>1. f \in Frame
    BY <1>1, SizeType DEF Frame
  <2>2. tail < MaxFrames /\ f.salt = salt
    BY <1>1, WalLogAssumption DEF CommitFrame
  <2>3. /\ salt # 0 /\ frames' = Put(tail + 1, f) /\ tail' = tail + 1 /\ mx' = tail + 1
        /\ salt' = salt /\ gen' = gen
    BY DEF CommitFrame
  <2> HIDE DEF f
  <2> QED
    BY <2>1, <2>2, <2>3, PutGrows
<1>4. /\ UNCHANGED <<salt, gen, main>> /\ tail' = tail + 1 /\ mx' = tail + 1
      /\ hist' = Append(hist, new)
  BY DEF CommitFrame
\* The new database.
<1>5. /\ new \in [Page -> Nat] /\ Whole(new)
      /\ \A q \in Page : new[q] = IF q \in P THEN L + 1 ELSE db[q]
      /\ \A q \in Page : new[q] = db[q] \/ new[q] = Txn
      /\ \A q \in Page : db[q] <= new[q]
  <2>1. new \in [Page -> Nat]
    BY <1>1, <1>2
  <2>2. \A q \in Page : new[q] = IF q \in P THEN L + 1 ELSE db[q]
    BY <1>1
  <2>3. \A q \in Page : db[q] <= new[q] /\ db[q] \in Nat
    BY <1>1, <1>2, <2>2
  <2>4. \A q \in Page, r \in P : q <= r => db[q] # 0 \/ q \in P
    BY WritableWhole DEF CommitFrame, HistoryInv
  <2> HIDE DEF new, P
  <2>5. new[1] # 0
    BY <1>1, <1>2, <2>2 DEF Whole
  <2>6. ASSUME NEW r \in Page, NEW q \in Page, q <= r, new[r] # 0 PROVE new[q] # 0
    <3>1. db[q] # 0 \/ q \in P
      <4>1. CASE r \in P
        BY <4>1, <2>4, <2>6
      <4>2. CASE r \notin P
        BY <4>2, <1>2, <2>2, <2>6 DEF Whole
      <4> QED
        BY <4>1, <4>2
    <3> QED
      BY <3>1, <1>1, <2>2
  <2>7. \A q \in Page : new[q] = db[q] \/ new[q] = Txn
    BY <2>2, <1>1
  <2> QED
    BY <2>1, <2>2, <2>3, <2>5, <2>6, <2>7 DEF Whole
<1> HIDE DEF new
<1>6. /\ HistInv' /\ Len(hist') = L + 1 /\ hist'[L + 1] = new
      /\ \A v \in 1..L : hist'[v] = hist[v]
  BY <1>1, <1>2, <1>4, <1>5, HistoryGrows
<1>7. \A v \in 1..L : Size(hist'[v]) = Size(hist[v])
  BY <1>6
\* The frames of the transaction.
<1>8. ASSUME NEW i \in mx + 1 .. tail + 1
      PROVE  /\ frames'[i].ver = L + 1 /\ frames'[i].pgno \in P /\ frames'[i].pgno \in Page
             /\ i # tail + 1 => frames'[i].commit = 0
  <2>1. CASE i = tail + 1
    BY <2>1, <1>1, <1>3
  <2>2. CASE i # tail + 1
    <3>1. i \in mx + 1 .. tail /\ i \in 1..tail /\ i > mx /\ frames'[i] = frames[i]
      BY <2>2, <1>1, <1>3
    <3> QED
      BY <3>1, <1>1 DEF HistoryInv, SpillInv, TxnPages
  <2> QED
    BY <2>1, <2>2
<1>9. /\ frames'[tail + 1].commit = Size(new) /\ Size(new) # 0 /\ tail + 1 \in mx + 1 .. tail + 1
  <2>1. 1 <= Size(new)
    BY <1>2, <1>5, WholeSize DEF Whole
  <2> QED
    BY <2>1, <1>1, <1>3, SizeType
<1>10. \A i \in 1..mx : frames'[i] = frames[i]
  BY <1>1, <1>3
<1>11. \A q \in P : \E j \in mx + 1 .. tail + 1 : frames'[j].pgno = q /\ frames'[j].ver = L + 1
  <2>1. ASSUME NEW q \in TxnPages
        PROVE  \E j \in mx + 1 .. tail + 1 : frames'[j].pgno = q /\ frames'[j].ver = L + 1
    <3>1. PICK j \in mx + 1 .. tail : frames[j].pgno = q
      BY DEF TxnPages
    <3>2. j \in mx + 1 .. tail + 1 /\ j \in 1..tail
      BY <1>1
    <3> QED
      BY <3>1, <3>2, <1>3, <1>8
  <2>2. frames'[tail + 1].pgno = p
    BY <1>3
  <2> QED
    BY <2>1, <2>2, <1>8, <1>9
<1>12. \A q \in Page, w \in Nat :
         /\ Logged(q, w) => Logged(q, w)'
         /\ w = L + 1 /\ new[q] = w => Logged(q, w)'
  <2>1. \A j \in 1..mx : j \in 1..tail + 1
    BY <1>1
  <2>2. \A j \in mx + 1 .. tail + 1 : j \in 1..tail + 1
    BY <1>1
  <2>3. \A q \in Page : new[q] = L + 1 => q \in P
    BY <1>1, <1>2, <1>5
  <2>4. ASSUME NEW q, NEW w, Logged(q, w) PROVE Logged(q, w)'
    <3>1. PICK j \in 1..mx : frames[j].pgno = q /\ frames[j].ver = w
      BY <2>4 DEF Logged
    <3> QED
      BY <3>1, <2>1, <1>4, <1>10 DEF Logged
  <2>5. ASSUME NEW q \in P, NEW w, w = L + 1 PROVE Logged(q, w)'
    <3>1. PICK j \in mx + 1 .. tail + 1 : frames'[j].pgno = q /\ frames'[j].ver = L + 1
      BY <1>11
    <3> QED
      BY <3>1, <2>2, <2>5, <1>4 DEF Logged
  <2> QED
    BY <2>3, <2>4, <2>5
<1>13. ASSUME NEW i \in 1..tail + 1
       PROVE  /\ frames'[i].ver \in 2..L + 1
              /\ hist'[frames'[i].ver][frames'[i].pgno] = frames'[i].ver
              /\ frames'[i].commit # 0 => frames'[i].commit = Size(hist'[frames'[i].ver])
              /\ \E n \in i..tail + 1 : frames'[n].commit # 0 /\ frames'[n].ver = frames'[i].ver
              /\ \A j \in i + 1 .. tail + 1 :
                   /\ frames'[i].ver <= frames'[j].ver
                   /\ frames'[i].commit # 0 => frames'[i].ver < frames'[j].ver
              /\ \A q \in Page, w \in frames'[i].ver .. L + 1 : hist'[w][q] = w => Logged(q, w)'
  <2>1. CASE i <= mx
    <3>1. i \in 1..mx /\ frames'[i] = frames[i]
      BY <2>1, <1>1, <1>10
    <3>2. /\ frames[i].ver \in 2..L
          /\ hist[frames[i].ver][frames[i].pgno] = frames[i].ver
          /\ frames[i].commit # 0 => frames[i].commit = Size(hist[frames[i].ver])
      BY <3>1 DEF HistoryInv, CommitInv
    <3>3. frames[i].ver \in 1..L /\ frames[i].ver \in 2..L + 1
      BY <3>2, <1>1
    <3>4. \E n \in i..tail + 1 : frames'[n].commit # 0 /\ frames'[n].ver = frames[i].ver
      <4>1. PICK n \in i..mx : frames[n].commit # 0 /\ frames[n].ver = frames[i].ver
        BY <3>1 DEF HistoryInv, CommitInv
      <4>2. n \in i..tail + 1 /\ n \in 1..mx
        BY <3>1, <1>1
      <4> QED
        BY <4>1, <4>2, <1>10
    <3>5. ASSUME NEW j \in i + 1 .. tail + 1
          PROVE  /\ frames[i].ver <= frames'[j].ver
                 /\ frames[i].commit # 0 => frames[i].ver < frames'[j].ver
      <4>1. CASE j <= mx
        <5>1. j \in i + 1 .. mx /\ frames'[j] = frames[j]
          BY <4>1, <1>1, <1>10
        <5> QED
          BY <5>1, <3>1 DEF HistoryInv, CommitInv
      <4>2. CASE ~(j <= mx)
        <5>1. frames'[j].ver = L + 1
          BY <4>2, <1>1, <1>8
        <5> QED
          BY <5>1, <3>2, <1>1
      <4> QED
        BY <4>1, <4>2
    <3>6. ASSUME NEW q \in Page, NEW w \in frames[i].ver .. L + 1, hist'[w][q] = w
          PROVE  Logged(q, w)'
      <4>1. CASE w = L + 1
        BY <4>1, <3>6, <1>1, <1>6, <1>12
      <4>2. CASE w # L + 1
        <5>1. w \in frames[i].ver .. L /\ w \in 1..L /\ w \in Nat
          BY <4>2, <3>2, <1>1
        <5>2. hist[w][q] = w
          BY <5>1, <3>6, <1>6
        <5>3. Logged(q, w)
          BY <5>1, <5>2, <3>1 DEF HistoryInv, CommitInv
        <5> QED
          BY <5>1, <5>3, <1>12
      <4> QED
        BY <4>1, <4>2
    <3> QED
      BY <3>1, <3>2, <3>3, <3>4, <3>5, <3>6, <1>6, <1>7
  <2>2. CASE ~(i <= mx)
    <3>1. i \in mx + 1 .. tail + 1
      BY <2>2, <1>1
    <3>2. frames'[i].ver = L + 1 /\ frames'[i].pgno \in P /\ frames'[i].pgno \in Page
      BY <3>1, <1>8
    <3>3. new[frames'[i].pgno] = L + 1
      BY <3>2, <1>5
    <3>4. frames'[i].commit # 0 => i = tail + 1
      BY <3>1, <1>8
    <3>5. \A j \in i + 1 .. tail + 1 : frames'[j].ver = L + 1
      <4>1. \A j \in i + 1 .. tail + 1 : j \in mx + 1 .. tail + 1
        BY <3>1, <1>1
      <4> QED
        BY <4>1, <1>8
    <3>6. \A j \in i + 1 .. tail + 1 : i # tail + 1
      BY <3>1, <1>1
    <3>7. \E n \in i..tail + 1 : frames'[n].commit # 0 /\ frames'[n].ver = L + 1
      BY <3>1, <1>1, <1>8, <1>9
    <3>8. \A q \in Page, w \in L + 1 .. L + 1 : hist'[w][q] = w => Logged(q, w)'
      <4>1. \A w \in L + 1 .. L + 1 : w = L + 1 /\ w \in Nat
        BY <1>1
      <4> QED
        BY <4>1, <1>6, <1>12
    <3> QED
      BY <3>2, <3>3, <3>4, <3>5, <3>6, <3>7, <3>8, <1>1, <1>6, <1>9
  <2> QED
    BY <2>1, <2>2
<1>14. CommitInv'
  BY <1>4, <1>6, <1>13 DEF CommitInv
<1>15. SpillInv'
  BY <1>1, <1>4 DEF SpillInv
<1>16. MainInv'
  <2>1. db' = new
    BY <1>6 DEF db
  <2>2. ASSUME NEW q \in Page
        PROVE  /\ main[q] <= new[q]
               /\ main[q] = new[q] \/ \E i \in 1..tail + 1 : frames'[i].pgno = q
    <3>1. main[q] <= new[q]
      <4>1. main[q] <= db[q] /\ db[q] <= new[q]
        BY <1>5 DEF HistoryInv, MainInv
      <4> QED
        BY <4>1, <1>2, <1>5
    <3>2. CASE q \in P
      <4>1. PICK j \in mx + 1 .. tail + 1 : frames'[j].pgno = q
        BY <3>2, <1>11
      <4> QED
        BY <3>1, <4>1, <1>1
    <3>3. CASE q \notin P
      <4>1. main[q] = new[q] \/ \E i \in 1..mx : frames[i].pgno = q
        BY <3>3, <1>5 DEF HistoryInv, MainInv
      <4>2. \A i \in 1..mx : i \in 1..tail + 1
        BY <1>1
      <4> QED
        BY <3>1, <4>1, <4>2, <1>10
    <3> QED
      BY <3>2, <3>3
  <2> QED
    BY <2>1, <2>2, <1>4 DEF HistoryInv, MainInv, Whole
<1>17. HistoryInv'
  BY <1>6, <1>14, <1>15, <1>16 DEF HistoryInv
<1>18. ASSUME NEW i \in 1..mx', i > mx PROVE frames'[i].ver = L + 1
  <2>1. i \in mx + 1 .. tail + 1
    BY <1>1, <1>4, <1>18
  <2> QED
    BY <2>1, <1>8
<1> QED
  BY <1>6, <1>12, <1>17, <1>18

LEMMA RollbackHistory ==
  ASSUME LogTypeOK, LogInv, HistoryInv, Rollback
  PROVE  /\ HistoryInv'
         /\ Len(hist') = Len(hist) + 1 /\ \A v \in 1..Len(hist) : hist'[v] = hist[v]
         /\ \A q \in Page : hist'[Len(hist) + 1][q] # Len(hist) + 1
<1> DEFINE L == Len(hist)
<1>1. mx \in Nat /\ tail \in Nat /\ mx <= tail /\ L \in Nat \ {0} /\ Txn = L + 1
  BY FrameTypes
<1>2. /\ db \in [Page -> Nat] /\ Whole(db) /\ HistInv /\ \A q \in Page : db[q] <= L
  BY HistTypes DEF HistoryInv
<1>3. UNCHANGED <<frames, salt, gen, mx, main>> /\ tail' = mx /\ hist' = Append(hist, db)
  BY DEF Rollback
<1>4. /\ HistInv' /\ Len(hist') = L + 1 /\ hist'[L + 1] = db
      /\ \A v \in 1..L : hist'[v] = hist[v]
  BY <1>1, <1>2, <1>3, HistoryGrows
<1>5. SpillInv'
  BY <1>1, <1>3 DEF SpillInv
<1>6. db' = db
  BY <1>4 DEF db
<1>7. MainInv'
  BY <1>3, <1>6 DEF HistoryInv, MainInv
<1>8. \A q, w : Logged(q, w) => Logged(q, w)'
  BY <1>3 DEF Logged
<1>9. ASSUME NEW i \in 1..mx
      PROVE  /\ frames[i].ver \in 2..L + 1
             /\ hist'[frames[i].ver][frames[i].pgno] = frames[i].ver
             /\ frames[i].commit # 0 => frames[i].commit = Size(hist'[frames[i].ver])
             /\ \A q \in Page, w \in frames[i].ver .. L + 1 : hist'[w][q] = w => Logged(q, w)'
  <2>1. /\ frames[i].ver \in 2..L
        /\ hist[frames[i].ver][frames[i].pgno] = frames[i].ver
        /\ frames[i].commit # 0 => frames[i].commit = Size(hist[frames[i].ver])
        /\ \A q \in Page, w \in frames[i].ver .. L : hist[w][q] = w => Logged(q, w)
    BY DEF HistoryInv, CommitInv
  <2>2. frames[i].ver \in 2..L + 1 /\ frames[i].ver \in 1..L
    BY <2>1, <1>1
  <2>3. hist'[frames[i].ver] = hist[frames[i].ver]
    BY <2>2, <1>4
  <2>4. ASSUME NEW q \in Page, NEW w \in frames[i].ver .. L + 1, hist'[w][q] = w
        PROVE  Logged(q, w)'
    <3>1. w # L + 1
      BY <2>4, <1>1, <1>2, <1>4
    <3>2. w \in frames[i].ver .. L /\ w \in 1..L
      BY <3>1, <2>2, <1>1
    <3> QED
      BY <3>2, <2>1, <2>4, <1>4, <1>8
  <2> QED
    BY <2>1, <2>2, <2>3, <2>4
<1>10. CommitInv'
  BY <1>3, <1>4, <1>9 DEF HistoryInv, CommitInv
<1>11. \A q \in Page : hist'[L + 1][q] # L + 1
  BY <1>1, <1>2, <1>4
<1> QED
  BY <1>4, <1>5, <1>7, <1>10, <1>11 DEF HistoryInv

LEMMA BackfillHistory ==
  ASSUME LogTypeOK, LogInv, HistoryInv, NEW p \in Page, Backfill(p)
  PROVE  HistoryInv'
<1>1. /\ UNCHANGED <<frames, salt, gen, mx, tail, hist>> /\ main[p] # db[p]
      /\ main' = [main EXCEPT ![p] = db[p]] /\ (p > 1 => main[p - 1] # 0)
  BY DEF Backfill
<1>2. /\ db \in [Page -> Nat] /\ main \in [Page -> Nat] /\ Whole(db) /\ Page \subseteq Nat
      /\ 1 \in Page /\ Whole(main) /\ Page = 1..LastPage /\ LastPage \in Nat
  BY HistTypes, WalLogAssumption DEF HistoryInv, MainInv, Page
<1>3. db' = db /\ Txn' = Txn /\ TxnPages' = TxnPages
  BY <1>1 DEF db, Txn, TxnPages
<1>4. HistInv' /\ SpillInv' /\ CommitInv'
  <2>1. HistInv'
    BY <1>1 DEF HistoryInv, HistInv
  <2>2. SpillInv'
    BY <1>1, <1>3 DEF HistoryInv, SpillInv
  <2>3. mx \in Nat
    BY FrameTypes
  <2>4. CommitInv'
    BY <1>1, <2>3, CommitKept DEF HistoryInv
  <2> QED
    BY <2>1, <2>2, <2>4
<1>5. db[p] # 0
  <2>1. main[p] <= db[p]
    BY DEF HistoryInv, MainInv
  <2> QED
    BY <2>1, <1>1, <1>2
<1>6. Whole(main')
  <2>1. main'[1] # 0
    BY <1>1, <1>2, <1>5 DEF Whole
  <2>2. ASSUME NEW r \in Page, NEW q \in Page, q <= r, main'[r] # 0 PROVE main'[q] # 0
    <3>1. CASE q = p
      BY <3>1, <1>1, <1>2, <1>5
    <3>2. CASE q # p /\ r # p
      BY <3>2, <2>2, <1>1, <1>2 DEF Whole
    <3>3. CASE q # p /\ r = p
      <4>1. p - 1 \in Page /\ q <= p - 1 /\ p > 1
        BY <3>3, <2>2, <1>2
      <4>2. main[q] # 0
        BY <4>1, <1>1, <1>2 DEF Whole
      <4> QED
        BY <3>3, <4>2, <1>1, <1>2
    <3> QED
      BY <3>1, <3>2, <3>3
  <2> QED
    BY <2>1, <2>2 DEF Whole
<1>7. MainInv'
  <2>1. ASSUME NEW q \in Page
        PROVE  main'[q] <= db[q] /\ (main'[q] = db[q] \/ \E i \in 1..mx : frames[i].pgno = q)
    <3>1. /\ main[q] <= db[q]
          /\ main[q] = db[q] \/ \E i \in 1..mx : frames[i].pgno = q
      BY DEF HistoryInv, MainInv
    <3>2. CASE q = p
      BY <3>2, <1>1, <1>2
    <3>3. CASE q # p
      BY <3>1, <3>3, <1>1, <1>2
    <3> QED
      BY <3>2, <3>3
  <2> QED
    BY <2>1, <1>1, <1>3, <1>6 DEF MainInv, Whole
<1> QED
  BY <1>4, <1>7 DEF HistoryInv

LEMMA ResetHistory ==
  ASSUME LogTypeOK, LogInv, HistoryInv, NewGeneration \/ Truncate
  PROVE  HistoryInv'
<1>1. UNCHANGED <<main, hist>> /\ mx' = 0 /\ tail' = 0 /\ main = db
  BY DEF NewGeneration, Truncate
<1>2. db' = db /\ HistInv'
  BY <1>1 DEF db, HistoryInv, HistInv
<1>3. SpillInv' /\ CommitInv'
  BY <1>1 DEF SpillInv, CommitInv
<1>4. db \in [Page -> Nat]
  BY HistTypes DEF HistoryInv
<1>5. MainInv'
  BY <1>1, <1>2, <1>4 DEF HistoryInv, MainInv
<1> QED
  BY <1>2, <1>3, <1>5 DEF HistoryInv

LEMMA KeptHistory ==
  ASSUME HistoryInv, mx \in Nat, UNCHANGED logVars
  PROVE  HistoryInv'
<1>1. db' = db /\ Txn' = Txn /\ TxnPages' = TxnPages
  BY DEF db, Txn, TxnPages, logVars
<1>2. HistInv'
  BY DEF HistoryInv, HistInv, logVars
<1>3. SpillInv'
  BY <1>1 DEF HistoryInv, SpillInv, logVars
<1>4. CommitInv'
  BY CommitKept DEF HistoryInv, logVars
<1>5. MainInv'
  BY <1>1 DEF HistoryInv, MainInv, logVars
<1> QED
  BY <1>2, <1>3, <1>4, <1>5 DEF HistoryInv

LEMMA WriterHistory ==
  ASSUME LogTypeOK, LogTypeOK', LogInv, HistoryInv, LogNext
  PROVE  HistoryInv'
  BY SpillHistory, CommitHistory, BackfillHistory, RollbackHistory, ResetHistory DEF LogNext

-----------------------------------------------------------------------------
(* What is kept of the promise made to a connection *)

\* What the log still has of the time o's open began: each page is in the main
=============================================================================
