---------------------------- MODULE QueryProofs ----------------------------
(***************************************************************************)
(* Two results on queries for messages, one over the shards and one within *)
(* a shard; the modules share no state.                                    *)
(*                                                                         *)
(* ShardQuery: a reply without a warning to a request that passed over no  *)
(* error has the whole page, for any number of shards, permits, messages   *)
(* and attempts, whatever WeChat stores meanwhile, in whatever order the   *)
(* scans end; and no more than Permits scans run at a time.                *)
(*                                                                         *)
(* MsgRows: every path by the index on sort_seq has the rows of the scan   *)
(* of the whole table, for any table WeChat can have stored, any bounds,   *)
(* page, Scale, Extra and Growth.                                          *)
(***************************************************************************)
EXTENDS ShardQuery, MsgRows, FiniteSetTheorems, SequenceTheorems, WellFoundedInduction, TLAPS

-----------------------------------------------------------------------------
(* The scans.                                                              *)
Scans == /\ task \in [Shard -> {"none", "listed", "queued", "running", "again", "done",
                                "failed", "joined"}]
         /\ ScansBounded

LEMMA ShardsFinite == IsFiniteSet(Shard)
BY FS_Interval, ShardQueryAssumption DEF Shard

LEMMA BusyFinite == IsFiniteSet(Busy) /\ Cardinality(Busy) \in Nat
BY ShardsFinite, FS_Subset, FS_CardinalityType DEF Busy

LEMMA FewerBusy ==
  ASSUME Scans, Busy' \subseteq Busy
  PROVE  ScansBounded'
<1>1. Cardinality(Busy') <= Cardinality(Busy) /\ Cardinality(Busy') \in Nat
  BY BusyFinite, FS_Subset, FS_CardinalityType
<1> QED BY <1>1, BusyFinite, ShardQueryAssumption DEF Scans, ScansBounded

LEMMA ScansInit == Init => Scans
<1> SUFFICES ASSUME Init PROVE Scans
  OBVIOUS
<1>1. Busy = {}
  BY DEF Init, Busy
<1> QED BY <1>1, FS_EmptySet, ShardQueryAssumption DEF Init, Scans, ScansBounded

LEMMA ScansNext == Scans /\ [Next]_vars => Scans'
<1> SUFFICES ASSUME Scans, [Next]_vars PROVE Scans'
  OBVIOUS
<1> USE DEF KeepRequest, request, wechat
<1>1. CASE UNCHANGED vars \/ UNCHANGED task
  BY <1>1 DEF vars, Scans, ScansBounded, Busy
<1>2. CASE \E s \in Shard : Acquire(s)
  <2>1. PICK s \in Shard : Acquire(s)
    BY <1>2
  <2>2. Busy' = Busy \cup {s} /\ s \notin Busy
    BY <2>1 DEF Acquire, Busy, Scans
  <2>3. Cardinality(Busy') = Cardinality(Busy) + 1
    BY <2>2, BusyFinite, FS_AddElement
  <2> QED BY <2>1, <2>3, BusyFinite, ShardQueryAssumption
          DEF Acquire, Scans, ScansBounded
<1>3. CASE \E s \in Shard : ScanDone(s) \/ ScanFails(s) \/ MaxTimeFails(s)
  <2>1. PICK s \in Shard : ScanDone(s) \/ ScanFails(s) \/ MaxTimeFails(s)
    BY <1>3
  <2>2. /\ task' \in [Shard -> {"none", "listed", "queued", "running", "again", "done",
                                "failed", "joined"}]
        /\ Busy' \subseteq Busy
    BY <2>1 DEF ScanDone, ScanFails, MaxTimeFails, Attempts, Busy, Scans
  <2> QED BY <2>2, FewerBusy DEF Scans
<1>4. CASE \E s \in Shard : JudgeScan(s) \/ ListTables(s) \/ JoinDone(s) \/ JoinFailed(s)
  <2>1. PICK s \in Shard : JudgeScan(s) \/ ListTables(s) \/ JoinDone(s) \/ JoinFailed(s)
    BY <1>4
  <2>2. /\ task' \in [Shard -> {"none", "listed", "queued", "running", "again", "done",
                                "failed", "joined"}]
        /\ Busy' \subseteq Busy
    BY <2>1 DEF JudgeScan, ListTables, JoinDone, JoinFailed, Busy, Scans
  <2> QED BY <2>2, FewerBusy DEF Scans
<1>5. CASE Judged
  <2>1. /\ task' \in [Shard -> {"none", "listed", "queued", "running", "again", "done",
                                "failed", "joined"}]
        /\ Busy' \subseteq Busy
    BY <1>5 DEF Judged, Busy, Scans
  <2> QED BY <2>1, FewerBusy DEF Scans
<1>6. CASE WeChat \/ \E f \in {NoBound} \cup (1..(MaxClock + MaxSkew)) : Begin(f)
  BY <1>1, <1>6 DEF WeChat, Tick, Deliver, Roll, Begin
<1>7. CASE \E s \in Shard : JudgeSkip(s) \/ JudgeAbsent(s) \/ JudgeNoHandle(s) \/ ListFails(s)
  BY <1>1, <1>7 DEF JudgeSkip, JudgeAbsent, JudgeNoHandle, ListFails
<1>8. CASE NoneFound \/ SomeFound \/ ReadShard \/ ReadFails \/ ReadAll \/ Reply
  BY <1>1, <1>8 DEF NoneFound, SomeFound, ReadShard, ReadFails, ReadAll, Reply
<1> QED BY <1>1, <1>2, <1>3, <1>4, <1>5, <1>6, <1>7, <1>8 DEF Next, Judge, Scan, Collect

(* ScansBounded for any number of shards and permits: every way a scan can *)
(* end gives its permit back, and an aborted request's scans still count   *)
(* (query.rs:1207-1237).                                                   *)
THEOREM PermitsHold == Spec => []ScansBounded
<1>1. Scans => ScansBounded
  BY DEF Scans
<1> QED BY <1>1, ScansInit, ScansNext, PTL DEF Spec

-----------------------------------------------------------------------------
(* The types, and what they need.                                          *)

\* Messages are numbered in the order they are stored.
Numbered == /\ \A s \in Shard : IsFiniteSet(store[s])
            /\ \A m \in Stored : m.id <= Cardinality(Stored)

\* What scans bring was stored; the hits have brought something and are joined.
Brought == /\ \A s \in Shard : found[s] \subseteq store[s]
           /\ \A i \in DOMAIN hits : task[hits[i]] = "joined" /\ found[hits[i]] # {}
           /\ pc = "idle" => /\ todo = 1 /\ task = [s \in Shard |-> "none"]
                             /\ rows = {}
           /\ pc \in {"idle", "judge"} => hits = <<>>

ShardTypes == TypeOK /\ Numbered /\ Brought

\* Before is a strict order, and a finite set has a message nothing is before.
LEMMA SomeFirst ==
  ASSUME NEW M \in SUBSET Message, IsFiniteSet(M), M # {}
  PROVE  \E m \in M : \A x \in M : ~Before(x, m)
<1> DEFINE Ahead(m) == {x \in M : Before(x, m)}
           A == {Ahead(m) : m \in M}
           R == StrictSubsetOrdering(M)
<1>1. A # {} /\ A \subseteq FiniteSubsetsOf(M)
  <2>1. \A m \in M : Ahead(m) \in SUBSET M /\ IsFiniteSet(Ahead(m))
    BY FS_Subset
  <2> QED BY <2>1 DEF FiniteSubsetsOf
<1>2. PICK U \in A : \A V \in A : <<V, U>> \notin R
  <2> HIDE DEF A, R
  <2>1. IsWellFoundedOn(StrictSubsetOrdering(M), FiniteSubsetsOf(M))
    BY FS_StrictSubsetOrderingWellFounded
  <2> QED BY <1>1, <2>1, WFMin DEF R
<1>3. PICK m \in M : U = Ahead(m)
  OBVIOUS
<1>4. ASSUME NEW x \in M, Before(x, m)
      PROVE  FALSE
  <2>1. x \in U /\ x \notin Ahead(x)
    <3>1. ~Before(x, x)
      BY DEF Before, Message
    <3> QED BY <1>3, <1>4, <3>1
  <2>2. \A z \in Ahead(x) : z \in Ahead(m)
    BY <1>4 DEF Before, Message
  <2>3. <<Ahead(x), U>> \in R
    BY <1>3, <2>1, <2>2 DEF StrictSubsetOrdering
  <2> QED BY <1>2, <2>3
<1> QED BY <1>4

LEMMA HasTop ==
  ASSUME NEW M \in SUBSET Message, IsFiniteSet(M), M # {}
  PROVE  Top(M, 1) # {}
<1>1. PICK m \in M : \A x \in M : ~Before(x, m)
  BY SomeFirst
<1>2. {x \in M : Before(x, m)} = {}
  BY <1>1
<1>3. m \in Top(M, 1)
  BY <1>2, FS_EmptySet DEF Top
<1> QED BY <1>3

LEMMA MaxTimeType ==
  ASSUME NEW s \in Shard, found[s] \in SUBSET Message, IsFiniteSet(found[s]), found[s] # {}
  PROVE  MaxTime(s) \in Int
<1>1. PICK m \in found[s] : \A x \in found[s] : ~Before(x, m)
  BY SomeFirst
<1>2. m.time \in TimesIn(found[s]) /\ \A u \in TimesIn(found[s]) : u <= m.time
  BY <1>1 DEF TimesIn, Before, Message
<1>3. MaxTime(s) \in TimesIn(found[s])
  BY <1>2 DEF MaxTime
<1> QED BY <1>3 DEF TimesIn, Message

LEMMA StoredFinite ==
  ASSUME store \in [Shard -> SUBSET Message], \A s \in Shard : IsFiniteSet(store[s])
  PROVE  IsFiniteSet(Stored) /\ Cardinality(Stored) \in Nat
<1> DEFINE T == {store[s] : s \in Shard}
<1>1. store \in Surjection(Shard, T)
  BY DEF Surjection
<1>2. IsFiniteSet(T)
  BY <1>1, ShardsFinite, FS_Surjection
<1>3. IsFiniteSet(UNION T)
  <2>1. \A t \in T : IsFiniteSet(t)
    OBVIOUS
  <2> HIDE DEF T
  <2> QED BY <1>2, <2>1, FS_UNION
<1> QED BY <1>3, FS_CardinalityType DEF Stored

-----------------------------------------------------------------------------
\* The stable sort is a permutation: the Rank of the positions is one-to-one.
LEMMA Permuted ==
  ASSUME NEW h \in Seq(Shard), \A i \in DOMAIN h : MaxTime(h[i]) \in Int
  PROVE  \E p \in [DOMAIN h -> DOMAIN h] :
           /\ NewestFirst(h) = [k \in DOMAIN h |-> h[p[k]]]
           /\ \A i \in DOMAIN h : \E k \in DOMAIN h : p[k] = i
<1> DEFINE D == DOMAIN h
           n == Len(h)
           Wins(j, i) == \/ MaxTime(h[j]) > MaxTime(h[i])
                         \/ MaxTime(h[j]) = MaxTime(h[i]) /\ j < i
           W(i) == {j \in D : Wins(j, i)}
           Rank(i) == Cardinality(W(i))
           p == [k \in D |-> CHOOSE i \in D : Rank(i) = k - 1]
<1>1. n \in Nat /\ D = 1..n
  OBVIOUS
<1>2. IsFiniteSet(D) /\ Cardinality(D) = n
  BY <1>1, FS_Interval
<1>3. \A i \in D : IsFiniteSet(W(i)) /\ Rank(i) \in Nat
  <2> TAKE i \in D
  <2>1. W(i) \in SUBSET D
    OBVIOUS
  <2> QED BY <1>2, <2>1, FS_Subset, FS_CardinalityType
<1>4. \A i \in D : Rank(i) \in 0..(n - 1)
  <2> TAKE i \in D
  <2>1. W(i) \in SUBSET (D \ {i})
    BY <1>1
  <2>2. Cardinality(D \ {i}) = n - 1 /\ IsFiniteSet(D \ {i})
    BY <1>2, FS_RemoveElement
  <2>3. Rank(i) <= n - 1 /\ Rank(i) \in Nat
    BY <1>3, <2>1, <2>2, FS_Subset
  <2> HIDE DEF Rank
  <2> QED BY <1>1, <2>3
<1>5. ASSUME NEW i \in D, NEW j \in D, Wins(i, j)
      PROVE  Rank(i) # Rank(j)
  <2>1. W(i) \subseteq W(j)
    BY <1>1, <1>5
  <2>2. i \in W(j) /\ i \notin W(i)
    BY <1>1, <1>5
  <2>3. IsFiniteSet(W(j)) /\ W(i) \in SUBSET W(j) /\ W(i) # W(j)
    BY <1>3, <2>1, <2>2
  <2> HIDE DEF W
  <2> QED BY <2>3, FS_Subset
<1>6. \A i, j \in D : Rank(i) = Rank(j) => i = j
  <2> SUFFICES ASSUME NEW i \in D, NEW j \in D, i # j
               PROVE  Rank(i) # Rank(j)
    OBVIOUS
  <2>1. Wins(i, j) \/ Wins(j, i)
    BY <1>1
  <2> HIDE DEF Rank, Wins
  <2> QED BY <1>5, <2>1
<1>7. \A r \in 0..(n - 1) : \E i \in D : Rank(i) = r
  <2> DEFINE f == [i \in D |-> Rank(i)]
             Z == 0..(n - 1)
  <2>1. f \in Injection(D, Z)
    <3>1. f \in [D -> Z]
      BY <1>4
    <3>2. \A a, b \in D : f[a] = f[b] => a = b
      <4> HIDE DEF Rank
      <4> QED BY <1>6
    <3> HIDE DEF f, Z
    <3> QED BY <3>1, <3>2 DEF Injection, IsInjective
  <2>2. IsFiniteSet(Z) /\ Cardinality(Z) = n
    BY <1>1, FS_Interval
  <2>3. f \in Surjection(D, Z)
    <3> HIDE DEF f, Z
    <3> QED BY <1>2, <2>1, <2>2, FS_Injection
  <2> HIDE DEF Rank, D
  <2> QED BY <2>3 DEF Surjection
<1>8. p \in [D -> D] /\ \A k \in D : Rank(p[k]) = k - 1
  <2> HIDE DEF Rank
  <2>1. \A k \in D : k - 1 \in 0..(n - 1)
    BY <1>1
  <2> QED BY <1>7, <2>1
<1>9. \A i \in D : \E k \in D : p[k] = i
  <2> TAKE i \in D
  <2>1. PICK k \in D : Rank(i) = k - 1
    <3>1. Rank(i) + 1 \in D /\ Rank(i) \in Nat
      <4> HIDE DEF Rank
      <4> QED BY <1>1, <1>4
    <3> HIDE DEF Rank
    <3> QED BY <1>1, <3>1
  <2>2. Rank(p[k]) = k - 1 /\ p[k] \in D
    <3> HIDE DEF Rank, p
    <3> QED BY <1>8
  <2> HIDE DEF Rank, p
  <2> QED BY <1>6, <2>1, <2>2
<1>10. NewestFirst(h) = [k \in D |-> h[p[k]]]
  BY DEF NewestFirst
<1> HIDE DEF p
<1> QED BY <1>8, <1>9, <1>10

-----------------------------------------------------------------------------
LEMMA TypesInit == Init => ShardTypes
<1> SUFFICES ASSUME Init PROVE ShardTypes
  OBVIOUS
<1>1. Stored = {} /\ hits = <<>> /\ hits \in Seq(Shard)
  BY DEF Init, Stored, Nothing
<1>2. TypeOK
  <2>1. 1 \in Shard /\ 1 \in 1..MaxClock /\ 1 \in 1..(NShards + 1)
    BY ShardQueryAssumption DEF Shard
  <2>2. NoReply \in [messages : SUBSET Message, unknown : BOOLEAN]
    BY DEF NoReply
  <2>3. /\ store \in [Shard -> SUBSET Message] /\ found \in [Shard -> SUBSET Message]
        /\ mtime \in [Shard -> 1..MaxClock]
    BY <2>1 DEF Init, Nothing
  <2>4. \A i, j \in DOMAIN hits : hits[i] = hits[j] => i = j
    BY <1>1
  <2> HIDE DEF NoReply
  <2> QED BY <1>1, <2>1, <2>2, <2>3, <2>4 DEF Init, TypeOK
<1>3. Numbered /\ Brought
  BY <1>1, FS_EmptySet DEF Init, Numbered, Brought, Nothing
<1> QED BY <1>2, <1>3 DEF ShardTypes

\* What a scan or a read brings.
LEMMA TopIsPart == \A M, n : Top(M, n) \subseteq M
BY DEF Top

LEMMA StoredHas == \A s \in Shard : store[s] \subseteq Stored
BY DEF Stored

LEMMA SameStore ==
  ASSUME ShardTypes, UNCHANGED store
  PROVE  Stored' = Stored /\ Numbered'
<1>1. Stored' = Stored
  BY DEF Stored
<1> QED BY <1>1 DEF ShardTypes, Numbered

LEMMA TypesWeChat ==
  ASSUME ShardTypes, WeChat
  PROVE  ShardTypes'
<1> USE DEF ShardTypes, WeChat
<1>1. CASE Tick
  <2>1. clock' \in 1..MaxClock
    BY <1>1, ShardQueryAssumption DEF Tick, TypeOK
  <2> QED BY <1>1, <2>1, SameStore DEF Tick, TypeOK, Brought, request
<1>2. CASE Roll
  <2>1. cur' \in Shard
    BY <1>2, ShardQueryAssumption DEF Roll, TypeOK, Shard
  <2> QED BY <1>2, <2>1, SameStore DEF Roll, TypeOK, Brought, request
<1>3. CASE \E d \in 0..MaxSkew : Deliver(d)
  <2>1. PICK d \in 0..MaxSkew : Deliver(d)
    BY <1>3
  <2> DEFINE m == [id |-> Cardinality(Stored) + 1, time |-> clock + d]
  <2>2. IsFiniteSet(Stored) /\ Cardinality(Stored) \in Nat
    BY StoredFinite DEF TypeOK, Numbered
  <2>3. m \in Message /\ cur \in Shard
    BY <2>1, <2>2, ShardQueryAssumption DEF Deliver, Message, TypeOK
  <2>4. store' = [store EXCEPT ![cur] = store[cur] \cup {m}]
    BY <2>1 DEF Deliver
  <2>5. store' \in [Shard -> SUBSET Message] /\ \A s \in Shard : store[s] \subseteq store'[s]
    <3> HIDE DEF m
    <3> QED BY <2>3, <2>4 DEF TypeOK
  <2>6. Stored' = Stored \cup {m}
    <3> HIDE DEF m
    <3> QED BY <2>3, <2>4 DEF Stored, TypeOK
  <2>7. m \notin Stored
    BY <2>2 DEF Numbered
  <2>8. Cardinality(Stored') = Cardinality(Stored) + 1
    <3> HIDE DEF m
    <3> QED BY <2>2, <2>6, <2>7, FS_AddElement
  <2>9. TypeOK'
    <3> HIDE DEF m
    <3> QED BY <2>1, <2>3, <2>5, <2>6 DEF Deliver, TypeOK, request
  <2>10. \A s \in Shard : IsFiniteSet(store'[s])
    <3> HIDE DEF m
    <3> QED BY <2>3, <2>4, FS_AddElement DEF TypeOK, Numbered
  <2>11. \A x \in Stored' : x.id <= Cardinality(Stored')
    <3> SUFFICES ASSUME NEW x \in Stored'
                 PROVE  x.id <= Cardinality(Stored')
      OBVIOUS
    <3>1. CASE x = m
      BY <2>2, <2>8, <3>1
    <3>2. CASE x \in Stored
      <4>1. x \in Message
        BY <3>2 DEF Stored, TypeOK
      <4>2. x.id <= Cardinality(Stored) /\ x.id \in Nat
        BY <3>2, <4>1 DEF Numbered, Message
      <4> QED BY <2>2, <2>8, <4>2
    <3> HIDE DEF m
    <3> QED BY <2>6, <3>1, <3>2
  <2>12. Brought'
    BY <2>1, <2>5 DEF Deliver, Brought, request
  <2> QED BY <2>9, <2>10, <2>11, <2>12 DEF Numbered
<1> QED BY <1>1, <1>2, <1>3

LEMMA TypesBegin ==
  ASSUME ShardTypes, NEW f \in {NoBound} \cup (1..(MaxClock + MaxSkew)), Begin(f)
  PROVE  ShardTypes'
<1> QED BY DEF Begin, ShardTypes, TypeOK, Numbered, Brought, Stored, wechat

LEMMA TypesJudge ==
  ASSUME ShardTypes, NEW s \in Shard, Judge(s)
  PROVE  ShardTypes'
<1> USE DEF KeepRequest, wechat, request, Judging
<1>1. /\ todo' \in 1..(NShards + 1) /\ lost' \in BOOLEAN /\ skipped' \in BOOLEAN
      /\ UNCHANGED <<clock, cur, store, mtime, kind, since, limit, offset, start, reply,
                     pc, found, hits, rows>>
      /\ pc = "judge"
  <2>1. Judging(s) /\ s + 1 \in 1..(NShards + 1)
    BY ShardQueryAssumption DEF Judge, JudgeSkip, JudgeAbsent, JudgeScan, JudgeNoHandle,
         ListTables, ListFails, Shard
  <2> HIDE DEF Judging
  <2>2. todo' = s + 1 /\ pc = "judge"
    BY <2>1 DEF Judging
  <2>3. lost \in BOOLEAN /\ skipped \in BOOLEAN
    BY DEF ShardTypes, TypeOK
  <2> QED BY <2>1, <2>2, <2>3 DEF Judge, JudgeSkip, JudgeAbsent, JudgeScan,
       JudgeNoHandle, ListTables, ListFails
<1>2. task' = task \/ task' = [task EXCEPT ![s] = "queued"]
                   \/ task' = [task EXCEPT ![s] = "listed"]
  BY DEF Judge, JudgeSkip, JudgeAbsent, JudgeScan, JudgeNoHandle, ListTables, ListFails
<1>3. task' \in [Shard -> {"none", "listed", "queued", "running", "again", "done",
                           "failed", "joined"}]
  BY <1>2 DEF ShardTypes, TypeOK
<1> QED BY <1>1, <1>3, SameStore DEF ShardTypes, TypeOK, Brought

LEMMA TypesScan ==
  ASSUME ShardTypes, NEW s \in Shard, Scan(s)
  PROVE  ShardTypes'
<1> USE DEF KeepRequest, wechat, request
<1>1. /\ UNCHANGED <<clock, cur, store, mtime, kind, since, limit, offset, start, reply,
                     pc, todo, hits, rows, skipped>>
      /\ lost' \in BOOLEAN
      /\ task[s] \in {"queued", "running", "again"}
  BY DEF ShardTypes, TypeOK, Scan, Acquire, ScanDone, ScanFails, MaxTimeFails, Busy
<1>2. \E t \in {"running", "again", "done", "failed"} : task' = [task EXCEPT ![s] = t]
  BY DEF Scan, Acquire, ScanDone, ScanFails, MaxTimeFails, Attempts
<1>3. \E F \in SUBSET store[s] : found' = found \/ found' = [found EXCEPT ![s] = F]
  BY TopIsPart DEF Scan, Acquire, ScanDone, ScanFails, MaxTimeFails
<1>4. /\ found' \in [Shard -> SUBSET Message]
      /\ \A r \in Shard : found'[r] \subseteq store[r] /\ (r # s => found'[r] = found[r])
  BY <1>3 DEF ShardTypes, TypeOK, Brought
<1>5. /\ task' \in [Shard -> {"none", "listed", "queued", "running", "again", "done",
                              "failed", "joined"}]
      /\ \A r \in Shard \ {s} : task'[r] = task[r]
  BY <1>2 DEF ShardTypes, TypeOK
<1>6. TypeOK' /\ Numbered'
  BY <1>1, <1>4, <1>5, SameStore DEF ShardTypes, TypeOK
<1>7. \A i \in DOMAIN hits : hits[i] # s /\ hits[i] \in Shard
  BY <1>1 DEF ShardTypes, TypeOK, Brought
<1>8. pc # "idle"
  BY <1>1 DEF ShardTypes, Brought
<1> QED BY <1>1, <1>4, <1>5, <1>6, <1>7, <1>8 DEF ShardTypes, Brought

LEMMA TypesJudged ==
  ASSUME ShardTypes, Judged
  PROVE  ShardTypes'
<1> USE DEF Judged, KeepRequest, wechat, request
<1>1. task' \in [Shard -> {"none", "listed", "queued", "running", "again", "done",
                           "failed", "joined"}]
  BY DEF ShardTypes, TypeOK
<1>2. hits' = <<>>
  BY DEF ShardTypes, Brought
<1> QED BY <1>1, <1>2, SameStore DEF ShardTypes, TypeOK, Brought

LEMMA TypesJoin ==
  ASSUME ShardTypes, NEW s \in Shard, JoinDone(s) \/ JoinFailed(s)
  PROVE  ShardTypes'
<1> USE DEF KeepRequest, wechat, request
<1>1. /\ UNCHANGED <<clock, cur, store, mtime, kind, since, limit, offset, start, reply,
                     todo, found, skipped>>
      /\ pc = "join" /\ pc' \in {"join", "error"} /\ lost' \in BOOLEAN
      /\ task[s] \in {"done", "failed"}
  BY DEF ShardTypes, TypeOK, JoinDone, JoinFailed
<1>2. /\ task' \in [Shard -> {"none", "listed", "queued", "running", "again", "done",
                              "failed", "joined"}]
      /\ \A r \in Shard : task[r] = "joined" => task'[r] = "joined"
      /\ JoinDone(s) => task'[s] = "joined"
  BY DEF ShardTypes, TypeOK, JoinDone, JoinFailed
<1>3. rows' \subseteq Stored'
  <2>1. rows' = rows \/ rows' = rows \cup found[s]
    BY DEF JoinDone, JoinFailed
  <2>2. found[s] \subseteq Stored
    BY StoredHas DEF ShardTypes, Brought
  <2>3. Stored' = Stored
    BY <1>1 DEF Stored
  <2> QED BY <2>1, <2>2, <2>3 DEF ShardTypes, TypeOK
<1>4. \A i \in DOMAIN hits : hits[i] # s
  BY <1>1 DEF ShardTypes, Brought
<1>5. hits' = hits \/ (hits' = Append(hits, s) /\ found[s] # {} /\ JoinDone(s))
  BY DEF JoinDone, JoinFailed
<1>6. /\ hits' \in Seq(Shard)
      /\ \A i, j \in DOMAIN hits' : hits'[i] = hits'[j] => i = j
      /\ \A i \in DOMAIN hits' : task'[hits'[i]] = "joined" /\ found'[hits'[i]] # {}
  <2>1. CASE hits' = hits
    BY <1>1, <1>2, <2>1 DEF ShardTypes, TypeOK, Brought
  <2>2. CASE hits' = Append(hits, s) /\ found[s] # {} /\ JoinDone(s)
    <3>1. hits \in Seq(Shard)
      BY DEF ShardTypes, TypeOK
    <3>2. /\ hits' \in Seq(Shard) /\ DOMAIN hits' = 1..(Len(hits) + 1)
          /\ Len(hits) \in Nat /\ DOMAIN hits = 1..Len(hits)
          /\ \A i \in DOMAIN hits : hits'[i] = hits[i]
          /\ hits'[Len(hits) + 1] = s
      BY <2>2, <3>1
    <3>3. \A i \in DOMAIN hits' : i \in DOMAIN hits \/ i = Len(hits) + 1
      BY <3>2
    <3>4. \A i, j \in DOMAIN hits : hits[i] = hits[j] => i = j
      BY DEF ShardTypes, TypeOK
    <3>5. \A i \in DOMAIN hits : task[hits[i]] = "joined" /\ found[hits[i]] # {}
                                 /\ hits[i] \in Shard
      BY <3>1 DEF ShardTypes, Brought
    <3>6. \A i \in DOMAIN hits' : task'[hits'[i]] = "joined" /\ found'[hits'[i]] # {}
      BY <1>1, <1>2, <2>2, <3>2, <3>3, <3>5
    <3>7. \A i, j \in DOMAIN hits' : hits'[i] = hits'[j] => i = j
      BY <1>4, <3>2, <3>3, <3>4
    <3> QED BY <3>2, <3>6, <3>7
  <2> QED BY <1>5, <2>1, <2>2
<1>7. TypeOK' /\ Numbered'
  BY <1>1, <1>2, <1>3, <1>6, SameStore DEF ShardTypes, TypeOK
<1>8. Brought'
  BY <1>1, <1>6 DEF ShardTypes, Brought
<1> QED BY <1>7, <1>8 DEF ShardTypes

\* hits names each shard once.
LEMMA FewHits ==
  ASSUME TypeOK
  PROVE  Len(hits) <= NShards /\ Len(hits) \in Nat /\ DOMAIN hits = 1..Len(hits)
<1>1. hits \in Seq(Shard) /\ Len(hits) \in Nat /\ DOMAIN hits = 1..Len(hits)
  BY DEF TypeOK
<1>2. hits \in Injection(1..Len(hits), Shard)
  <2>1. hits \in [1..Len(hits) -> Shard]
    BY <1>1
  <2>2. \A i, j \in 1..Len(hits) : hits[i] = hits[j] => i = j
    BY <1>1 DEF TypeOK
  <2> QED BY <2>1, <2>2 DEF Injection, IsInjective
<1>3. Cardinality(1..Len(hits)) <= Cardinality(Shard)
  BY <1>2, ShardsFinite, FS_Injection
<1>4. Cardinality(1..Len(hits)) = Len(hits)
  BY <1>1, FS_Interval
<1>5. Cardinality(Shard) = NShards /\ NShards \in Nat
  BY FS_Interval, ShardQueryAssumption DEF Shard
<1> QED BY <1>1, <1>3, <1>4, <1>5

LEMMA SortedHits ==
  ASSUME ShardTypes
  PROVE  /\ NewestFirst(hits) \in Seq(Shard)
         /\ \A i, j \in DOMAIN NewestFirst(hits) :
              NewestFirst(hits)[i] = NewestFirst(hits)[j] => i = j
         /\ \A k \in DOMAIN NewestFirst(hits) :
              \E i \in DOMAIN hits : NewestFirst(hits)[k] = hits[i]
         /\ \A i \in DOMAIN hits :
              \E k \in DOMAIN NewestFirst(hits) : NewestFirst(hits)[k] = hits[i]
<1>1. hits \in Seq(Shard) /\ Len(hits) \in Nat /\ DOMAIN hits = 1..Len(hits)
  BY DEF ShardTypes, TypeOK
<1>2. \A i \in DOMAIN hits : MaxTime(hits[i]) \in Int
  <2> TAKE i \in DOMAIN hits
  <2>1. hits[i] \in Shard
    BY <1>1
  <2>2. found[hits[i]] \in SUBSET store[hits[i]] /\ IsFiniteSet(store[hits[i]])
    BY <2>1 DEF ShardTypes, Brought, Numbered
  <2>3. /\ found[hits[i]] \in SUBSET Message /\ IsFiniteSet(found[hits[i]])
        /\ found[hits[i]] # {}
    BY <2>1, <2>2, FS_Subset DEF ShardTypes, TypeOK, Brought
  <2> QED BY <2>1, <2>3, MaxTimeType
<1>3. PICK p \in [DOMAIN hits -> DOMAIN hits] :
           /\ NewestFirst(hits) = [k \in DOMAIN hits |-> hits[p[k]]]
           /\ \A i \in DOMAIN hits : \E k \in DOMAIN hits : p[k] = i
  BY <1>1, <1>2, Permuted
<1>4. p \in Surjection(DOMAIN hits, DOMAIN hits)
  BY <1>3 DEF Surjection
<1>5. IsFiniteSet(DOMAIN hits)
  BY <1>1, FS_Interval
<1>6. p \in Injection(DOMAIN hits, DOMAIN hits)
  BY <1>4, <1>5, FS_Surjection
<1>7. \A i, j \in DOMAIN hits : p[i] = p[j] => i = j
  BY <1>6 DEF Injection, IsInjective
<1>8. NewestFirst(hits) \in [1..Len(hits) -> Shard]
  BY <1>1, <1>3
<1>9. NewestFirst(hits) \in Seq(Shard)
  BY <1>1, <1>8
<1>10. \A i, j \in DOMAIN NewestFirst(hits) :
              NewestFirst(hits)[i] = NewestFirst(hits)[j] => i = j
  <2>1. \A i, j \in DOMAIN hits : hits[i] = hits[j] => i = j
    BY DEF ShardTypes, TypeOK
  <2> QED BY <1>3, <1>7, <2>1
<1> QED BY <1>3, <1>9, <1>10

LEMMA TypesCollect ==
  ASSUME ShardTypes, NoneFound \/ SomeFound \/ ReadShard \/ ReadFails \/ ReadAll \/ Reply
  PROVE  ShardTypes'
<1> USE DEF KeepRequest, wechat, request
<1>1. CASE NoneFound \/ ReadFails \/ ReadAll
  BY <1>1, SameStore DEF NoneFound, ReadFails, ReadAll, AllJoined, ShardTypes, TypeOK, Brought
<1>2. CASE SomeFound
  <2>1. /\ hits' = NewestFirst(hits) /\ todo' = 1 /\ pc' \in {"read", "page"}
        /\ UNCHANGED <<clock, cur, store, mtime, kind, since, limit, offset, start, reply,
                       task, found, skipped, rows, lost>>
    BY <1>2 DEF SomeFound
  <2>2. /\ hits' \in Seq(Shard) /\ \A i, j \in DOMAIN hits' : hits'[i] = hits'[j] => i = j
        /\ \A k \in DOMAIN hits' : \E i \in DOMAIN hits : hits'[k] = hits[i]
    BY <2>1, SortedHits
  <2>3. TypeOK' /\ Numbered'
    <3>1. todo' \in 1..(NShards + 1)
      BY <2>1, ShardQueryAssumption
    <3> QED BY <2>1, <2>2, <3>1, SameStore DEF ShardTypes, TypeOK
  <2>4. Brought'
    BY <2>1, <2>2 DEF ShardTypes, Brought
  <2> QED BY <2>3, <2>4 DEF ShardTypes
<1>3. CASE ReadShard
  <2>1. Len(hits) <= NShards /\ Len(hits) \in Nat /\ DOMAIN hits = 1..Len(hits)
    BY FewHits DEF ShardTypes
  <2>2. todo' \in 1..(NShards + 1)
    BY <1>3, <2>1, ShardQueryAssumption DEF ReadShard, ShardTypes, TypeOK
  <2>3. hits[todo] \in Shard
    BY <1>3, <2>1 DEF ReadShard, ShardTypes, TypeOK
  <2>4. rows' \subseteq Stored
    <3>1. Matching(store[hits[todo]]) \subseteq Stored
      BY <2>3, StoredHas DEF Matching
    <3> QED BY <1>3, <3>1, TopIsPart DEF ReadShard, ShardTypes, TypeOK
  <2> QED BY <1>3, <2>2, <2>4, SameStore DEF ReadShard, ShardTypes, TypeOK, Brought
<1>4. CASE Reply
  <2>1. UnknownShards \in BOOLEAN
    BY DEF UnknownShards
  <2>2. Stored \subseteq Message
    BY DEF Stored, ShardTypes, TypeOK
  <2>3. Page(Matching(rows)) \in SUBSET Message
    BY <2>2, TopIsPart DEF Page, Matching, ShardTypes, TypeOK
  <2>4. reply' \in [messages : SUBSET Message, unknown : BOOLEAN]
    BY <1>4, <2>1, <2>3 DEF Reply
  <2> QED BY <1>4, <2>4, SameStore DEF Reply, ShardTypes, TypeOK, Brought
<1> QED BY <1>1, <1>2, <1>3, <1>4

LEMMA TypesNext == ShardTypes /\ [Next]_vars => ShardTypes'
<1> SUFFICES ASSUME ShardTypes, [Next]_vars PROVE ShardTypes'
  OBVIOUS
<1>1. CASE UNCHANGED vars
  BY <1>1 DEF vars, wechat, request, ShardTypes, TypeOK, Numbered, Brought, Stored
<1> QED BY <1>1, TypesWeChat, TypesBegin, TypesJudge, TypesScan, TypesJudged, TypesJoin,
        TypesCollect DEF Next, Collect

(* The types of the files, the request, its scans and its answer, for any   *)
(* number of shards (query.rs:1156-1500); with a bound on todo and each     *)
(* shard among the hits once.                                               *)
THEOREM TypeCorrect == Spec => []TypeOK
<1>1. ShardTypes => TypeOK
  BY DEF ShardTypes
<1> QED BY <1>1, TypesInit, TypesNext, PTL DEF Spec

-----------------------------------------------------------------------------
(* The page.                                                               *)

\* The messages of start that the request asks for and that are in shard s.
Wanted(s) == {m \in Matching(start) : m \in store[s]}

\* How many messages come before m by now, and where the page begins.
Behind(m) == Cardinality({x \in Matching(Stored) : Before(x, m)})
First == IF kind = "history" THEN offset ELSE 0

\* m is in hand, or too many others have come before it for the page.
Collected(m) == m \in rows \/ First + limit <= Behind(m)

\* A message is at most MaxSkew ahead of the last write of its shard.
Stamped ==
  \A s \in Shard : /\ mtime[s] <= clock
                   /\ \A m \in store[s] : m.time <= mtime[s] + MaxSkew

\* What a scan that is over has brought: something, or what a search may need.
Scanned ==
  ~lost => \A s \in Shard : task[s] \in {"done", "joined"} /\ Wanted(s) # {} =>
    /\ kind = "history" => found[s] # {}
    /\ kind = "search" => \A m \in Wanted(s) : m \in found[s] \/ First + limit <= Behind(m)

\* What the join has made of it.
Joined ==
  ~lost /\ pc \in {"judge", "join"} => \A s \in Shard : task[s] = "joined" =>
    /\ kind = "history" /\ found[s] # {} => \E i \in DOMAIN hits : hits[i] = s
    /\ kind = "search" => found[s] \subseteq rows

\* No shard with something wanted is left out, at any stage.
NoneLeftOut ==
  ~lost =>
    /\ pc = "judge" => \A s \in 1..Known : s < todo /\ Wanted(s) # {} => task[s] # "none"
    /\ pc = "join" => \A s \in 1..Known : Wanted(s) # {} => task[s] # "none"
    /\ pc = "read" => /\ kind = "history"
                      /\ \A s \in 1..Known :
                           Wanted(s) # {} => \E i \in DOMAIN hits : hits[i] = s
                      /\ \A i \in DOMAIN hits :
                           i < todo => \A m \in Wanted(hits[i]) : Collected(m)
    /\ pc = "page" => \A s \in 1..Known : \A m \in Wanted(s) : Collected(m)

WholePage == Stamped /\ Scanned /\ Joined /\ NoneLeftOut

LEMMA Parameters ==
  ASSUME ShardTypes
  PROVE  /\ kind \in {"history", "search"} /\ limit \in Nat \ {0} /\ offset \in Nat
         /\ First \in Nat /\ Known \in Nat /\ \A s \in 1..Known : s \in Shard
<1>1. kind \in {"history", "search"} /\ limit \in Nat \ {0} /\ offset \in Nat
  BY ShardQueryAssumption DEF ShardTypes, TypeOK
<1>2. Known \in Nat /\ \A s \in 1..Known : s \in Shard
  BY ShardQueryAssumption DEF Shard
<1> QED BY <1>1, <1>2 DEF First

LEMMA StoredMessages ==
  ASSUME ShardTypes
  PROVE  /\ Stored \subseteq Message /\ IsFiniteSet(Stored)
         /\ Matching(Stored) \subseteq Stored /\ IsFiniteSet(Matching(Stored))
         /\ \A m : Behind(m) \in Nat
         /\ \A m : \A B \in SUBSET {x \in Matching(Stored) : Before(x, m)} :
              IsFiniteSet(B) /\ Cardinality(B) \in Nat /\ Cardinality(B) <= Behind(m)
<1>1. Stored \subseteq Message /\ IsFiniteSet(Stored)
  BY StoredFinite DEF ShardTypes, TypeOK, Numbered, Stored
<1>2. Matching(Stored) \in SUBSET Stored
  BY DEF Matching
<1>3. IsFiniteSet(Matching(Stored))
  BY <1>1, <1>2, FS_Subset
<1>4. ASSUME NEW m
      PROVE  /\ IsFiniteSet({x \in Matching(Stored) : Before(x, m)})
             /\ Behind(m) \in Nat
  <2>1. {x \in Matching(Stored) : Before(x, m)} \in SUBSET Matching(Stored)
    OBVIOUS
  <2> QED BY <1>3, <2>1, FS_Subset, FS_CardinalityType DEF Behind
<1>5. ASSUME NEW m, NEW B \in SUBSET {x \in Matching(Stored) : Before(x, m)}
      PROVE  IsFiniteSet(B) /\ Cardinality(B) \in Nat /\ Cardinality(B) <= Behind(m)
  BY <1>4, FS_Subset, FS_CardinalityType DEF Behind
<1> QED BY <1>1, <1>2, <1>3, <1>4, <1>5

\* Whatever comes before a message that is asked for is asked for.
LEMMA BeforeMatching ==
  ASSUME ShardTypes, NEW m \in Message, since = NoBound \/ m.time >= since,
         NEW S \in SUBSET Stored
  PROVE  {x \in S : Before(x, m)} \in SUBSET {x \in Matching(Stored) : Before(x, m)}
<1> SUFFICES ASSUME NEW x \in S, Before(x, m), since # NoBound
             PROVE  x.time >= since
  BY DEF Matching
<1>1. x \in Message /\ since \in Int
  BY StoredMessages DEF ShardTypes, TypeOK
<1> QED BY <1>1 DEF Before, Message

LEMMA WantedMessage ==
  ASSUME ShardTypes, NEW s \in Shard, NEW m \in Wanted(s)
  PROVE  /\ m \in Message /\ (since = NoBound \/ m.time >= since)
         /\ m \in store[s] /\ m \in Matching(store[s]) /\ store[s] \in SUBSET Stored
BY DEF Wanted, Matching, ShardTypes, TypeOK, Stored

\* While the files rest, so do what is wanted and what comes before it.
LEMMA SameFiles ==
  ASSUME UNCHANGED <<store, start, since, kind, offset, limit>>
  PROVE  /\ First' = First /\ \A m : Behind(m)' = Behind(m)
         /\ \A s \in Shard : Wanted(s)' = Wanted(s)
BY DEF First, Behind, Wanted, Stored, Matching

LEMMA CompleteInit == Init => WholePage
BY ShardQueryAssumption
   DEF Init, WholePage, Stamped, Scanned, Joined, NoneLeftOut, Nothing, Shard

-----------------------------------------------------------------------------
LEMMA CompleteWeChat ==
  ASSUME ShardTypes, ShardTypes', WholePage, WeChat
  PROVE  WholePage'
<1> USE DEF WeChat
<1>1. CASE Tick \/ Roll
  <2>1. /\ UNCHANGED <<store, mtime, start, since, kind, offset, limit, pc, todo, task,
                       found, hits, rows, lost>>
        /\ clock <= clock'
    BY <1>1 DEF Tick, Roll, request, ShardTypes, TypeOK
  <2>2. /\ First' = First /\ \A m : Behind(m)' = Behind(m)
        /\ \A s \in Shard : Wanted(s)' = Wanted(s)
    BY <2>1, SameFiles
  <2>3. Stamped'
    BY <2>1 DEF WholePage, Stamped, ShardTypes, TypeOK
  <2>4. Scanned' /\ Joined'
    BY <2>1, <2>2 DEF WholePage, Scanned, Joined
  <2>5. NoneLeftOut'
    <3>1. \A x : Collected(x)' = Collected(x)
      BY <2>1, <2>2 DEF Collected
    <3>2. \A i \in DOMAIN hits : hits[i] \in Shard
      BY DEF ShardTypes, TypeOK
    <3> QED BY <2>1, <2>2, <3>1, <3>2, Parameters DEF WholePage, NoneLeftOut
  <2> QED BY <2>3, <2>4, <2>5 DEF WholePage
<1>2. CASE \E d \in 0..MaxSkew : Deliver(d)
  <2>1. PICK d \in 0..MaxSkew : Deliver(d)
    BY <1>2
  <2> DEFINE m == [id |-> Cardinality(Stored) + 1, time |-> clock + d]
  <2>2. cur \in Shard /\ Cardinality(Stored) \in Nat /\ clock \in Nat
    BY StoredMessages, FS_CardinalityType DEF ShardTypes, TypeOK
  <2>3. m \notin Stored /\ m \notin start
    BY <2>2 DEF ShardTypes, TypeOK, Numbered
  <2>4. /\ UNCHANGED <<clock, start, since, kind, offset, limit, pc, todo, task, found,
                       hits, rows, lost>>
        /\ mtime' = [mtime EXCEPT ![cur] = clock]
        /\ store' = [store EXCEPT ![cur] = store[cur] \cup {m}]
    BY <2>1 DEF Deliver, request
  <2>5. \A s \in Shard : /\ store[s] \subseteq store'[s]
                         /\ \A x \in store'[s] : x \in store[s] \/ (x = m /\ s = cur)
    <3> HIDE DEF m
    <3> QED BY <2>2, <2>4 DEF ShardTypes, TypeOK
  <2>6. \A s \in Shard : Wanted(s)' = Wanted(s)
    <3> HIDE DEF m
    <3> QED BY <2>3, <2>4, <2>5 DEF Wanted, Matching
  <2>7. \A x : Behind(x) \in Nat /\ Behind(x)' \in Nat /\ Behind(x) <= Behind(x)'
    <3> TAKE x
    <3>1. Stored \subseteq Stored'
      BY <2>5 DEF Stored
    <3>2. {y \in Matching(Stored) : Before(y, x)}
            \in SUBSET {y \in Matching(Stored)' : Before(y, x)}
      BY <2>4, <3>1 DEF Matching
    <3>3. /\ IsFiniteSet({y \in Matching(Stored)' : Before(y, x)})
          /\ Behind(x)' = Cardinality({y \in Matching(Stored)' : Before(y, x)})
      <4>1. IsFiniteSet(Stored')
        <5>1. Stored' = Stored \cup {m}
          <6> HIDE DEF m
          <6> QED BY <2>2, <2>4 DEF Stored, ShardTypes, TypeOK
        <5> HIDE DEF m
        <5> QED BY <5>1, StoredMessages, FS_AddElement
      <4>2. IsFiniteSet(Matching(Stored)')
        BY <4>1, FS_Subset DEF Matching
      <4> QED BY <4>2, FS_Subset DEF Behind
    <3> QED BY <3>2, <3>3, FS_Subset, FS_CardinalityType DEF Behind
  <2>8. Stamped'
    <3> SUFFICES ASSUME NEW s \in Shard
                 PROVE  /\ mtime'[s] <= clock'
                        /\ \A x \in store'[s] : x.time <= mtime'[s] + MaxSkew
      BY DEF Stamped
    <3>1. /\ mtime[s] \in Nat /\ mtime[s] <= clock /\ MaxSkew \in Nat
          /\ \A x \in store[s] : x.time \in Nat /\ x.time <= mtime[s] + MaxSkew
      <4>1. \A x \in store[s] : x \in Message
        BY DEF ShardTypes, TypeOK
      <4>2. \A x \in store[s] : x.time \in Nat
        BY <4>1, ShardQueryAssumption DEF Message
      <4>3. mtime[s] \in Nat /\ MaxSkew \in Nat
        BY ShardQueryAssumption DEF ShardTypes, TypeOK
      <4> QED BY <4>2, <4>3 DEF WholePage, Stamped
    <3>2. mtime'[s] \in Nat /\ mtime[s] <= mtime'[s] /\ mtime'[s] <= clock
          /\ (s = cur => mtime'[s] = clock)
      BY <2>2, <2>4, <3>1 DEF ShardTypes, TypeOK
    <3>3. m.time <= clock + MaxSkew
      BY <2>2, <3>1
    <3> HIDE DEF m
    <3>4. ASSUME NEW x \in store'[s]
          PROVE  x.time <= mtime'[s] + MaxSkew
      <4>1. CASE x \in store[s]
        BY <3>1, <3>2, <4>1
      <4>2. CASE x = m /\ s = cur
        BY <3>2, <3>3, <4>2
      <4> QED BY <2>5, <4>1, <4>2
    <3> QED BY <2>4, <3>2, <3>4
  <2>9. First' = First /\ First + limit \in Nat
    BY <2>4, Parameters DEF First
  <2> HIDE DEF m
  <2>10. \A x : First + limit <= Behind(x) => (First + limit <= Behind(x))'
    BY <2>4, <2>7, <2>9
  <2>11. Scanned' /\ Joined'
    BY <2>4, <2>6, <2>10 DEF WholePage, Scanned, Joined
  <2>12. NoneLeftOut'
    <3>1. \A x : Collected(x) => Collected(x)'
      BY <2>4, <2>10 DEF Collected
    <3>2. \A i \in DOMAIN hits : hits[i] \in Shard
      BY DEF ShardTypes, TypeOK
    <3> QED BY <2>4, <2>6, <3>1, <3>2, Parameters DEF WholePage, NoneLeftOut
  <2> QED BY <2>8, <2>11, <2>12 DEF WholePage
<1> QED BY <1>1, <1>2

LEMMA CompleteBegin ==
  ASSUME ShardTypes, WholePage, NEW f \in {NoBound} \cup (1..(MaxClock + MaxSkew)), Begin(f)
  PROVE  WholePage'
<1>1. /\ UNCHANGED <<store, mtime, clock, todo, task, found, hits, rows, lost>>
      /\ pc = "idle" /\ pc' = "judge" /\ todo = 1 /\ task = [s \in Shard |-> "none"]
  BY DEF Begin, wechat, ShardTypes, Brought
<1>2. Stamped' /\ Scanned' /\ Joined'
  BY <1>1 DEF WholePage, Stamped, Scanned, Joined
<1>3. NoneLeftOut'
  BY <1>1, Parameters DEF NoneLeftOut
<1> QED BY <1>2, <1>3 DEF WholePage

\* The steps of the request leave files and request alone.
LEMMA StampedKept ==
  ASSUME WholePage, UNCHANGED <<store, mtime, clock>>
  PROVE  Stamped'
BY DEF WholePage, Stamped

LEMMA CompleteJudge ==
  ASSUME ShardTypes, WholePage, NEW s \in Shard, Judge(s)
  PROVE  WholePage'
<1>1. /\ UNCHANGED <<store, mtime, clock, start, since, kind, offset, limit, pc, found,
                     hits, rows>>
      /\ pc = "judge" /\ todo = s /\ s <= Known /\ todo' = s + 1
  BY DEF Judge, JudgeSkip, JudgeAbsent, JudgeScan, JudgeNoHandle, ListTables, ListFails,
         Judging, KeepRequest, wechat, request
<1>2. task' = task \/ task' = [task EXCEPT ![s] = "queued"]
                   \/ task' = [task EXCEPT ![s] = "listed"]
  BY DEF Judge, JudgeSkip, JudgeAbsent, JudgeScan, JudgeNoHandle, ListTables, ListFails
<1>3. \A r \in Shard : /\ task'[r] \in {"done", "joined"} => task'[r] = task[r]
                       /\ r # s => task'[r] = task[r]
                       /\ task[r] # "none" => task'[r] # "none"
  BY <1>2 DEF ShardTypes, TypeOK
<1>4. lost' = lost \/ lost' = TRUE
  BY DEF Judge, JudgeSkip, JudgeAbsent, JudgeScan, JudgeNoHandle, ListTables, ListFails
<1>5. First' = First /\ (\A m : Behind(m)' = Behind(m)) /\ \A r \in Shard : Wanted(r)' = Wanted(r)
  BY <1>1, SameFiles
<1>6. Stamped' /\ Scanned' /\ Joined'
  BY <1>1, <1>3, <1>4, <1>5, StampedKept DEF WholePage, Scanned, Joined
<1>7. ASSUME ~lost', Wanted(s) # {}
      PROVE  task'[s] # "none"
  <2>1. PICK m \in Wanted(s) : TRUE
    BY <1>7
  <2>2. /\ m \in Message /\ (since = NoBound \/ m.time >= since) /\ m \in store[s]
    BY <2>1, WantedMessage
  <2>3. ~(kind = "history" /\ Skippable(s))
    <3> SUFFICES ASSUME Skippable(s) PROVE FALSE
      OBVIOUS
    <3>1. since # NoBound /\ mtime[s] + Slack < since
      BY DEF Skippable
    <3>2. m.time <= mtime[s] + MaxSkew
      BY <2>2 DEF WholePage, Stamped
    <3>3. mtime[s] \in Nat /\ since \in Nat /\ MaxSkew \in Nat /\ Slack \in Nat /\ MaxSkew <= Slack
      BY <3>1, ShardQueryAssumption DEF ShardTypes, TypeOK
    <3>4. m.time \in Nat
      BY <2>2, ShardQueryAssumption DEF Message
    <3> QED BY <2>2, <3>1, <3>2, <3>3, <3>4
  <2>4. JudgeScan(s) \/ ListTables(s)
    BY <1>7, <2>2, <2>3 DEF Judge, JudgeSkip, JudgeAbsent, JudgeNoHandle, ListFails
  <2> QED BY <2>2, <2>4 DEF JudgeScan, ListTables, ShardTypes, TypeOK
<1>8. NoneLeftOut'
  <2> SUFFICES ASSUME ~lost', NEW r \in 1..Known, r < s + 1, Wanted(r) # {}
               PROVE  task'[r] # "none"
    BY <1>1, <1>5, Parameters DEF NoneLeftOut
  <2>1. CASE r = s
    BY <1>7, <2>1
  <2>2. CASE r < s
    BY <1>1, <1>3, <1>4, <2>2, Parameters DEF WholePage, NoneLeftOut
  <2> QED BY <2>1, <2>2, ShardQueryAssumption DEF Shard
<1> QED BY <1>6, <1>8 DEF WholePage

LEMMA CompleteJudged ==
  ASSUME ShardTypes, WholePage, Judged
  PROVE  WholePage'
<1>1. /\ UNCHANGED <<store, mtime, clock, start, since, kind, offset, limit, found,
                     hits, rows, lost>>
      /\ pc = "judge" /\ pc' = "join" /\ todo > Known
  BY DEF Judged, KeepRequest, wechat, request
<1>2. \A r \in Shard : /\ task'[r] \in {"done", "joined"} => task'[r] = task[r]
                       /\ task[r] # "none" => task'[r] # "none"
  BY DEF Judged, ShardTypes, TypeOK
<1>3. First' = First /\ (\A m : Behind(m)' = Behind(m)) /\ \A r \in Shard : Wanted(r)' = Wanted(r)
  BY <1>1, SameFiles
<1>4. Stamped' /\ Scanned' /\ Joined'
  BY <1>1, <1>2, <1>3, StampedKept DEF WholePage, Scanned, Joined
<1>5. \A r \in 1..Known : r < todo
  BY <1>1, Parameters DEF ShardTypes, TypeOK
<1>6. NoneLeftOut'
  BY <1>1, <1>2, <1>3, <1>5, Parameters DEF WholePage, NoneLeftOut
<1> QED BY <1>4, <1>6 DEF WholePage

LEMMA CompleteScan ==
  ASSUME ShardTypes, WholePage, NEW s \in Shard, Scan(s)
  PROVE  WholePage'
<1>1. /\ UNCHANGED <<store, mtime, clock, start, since, kind, offset, limit, pc, todo,
                     hits, rows>>
      /\ task[s] \in {"queued", "running", "again"}
      /\ lost' = lost \/ lost' = TRUE
  BY DEF Scan, Acquire, ScanDone, ScanFails, MaxTimeFails, Busy, KeepRequest, wechat, request
<1>2. \E t \in {"running", "again", "done", "failed"} : task' = [task EXCEPT ![s] = t]
  BY DEF Scan, Acquire, ScanDone, ScanFails, MaxTimeFails, Attempts
<1>3. \A r \in Shard : r # s => task'[r] = task[r] /\ found'[r] = found[r]
  BY <1>2 DEF Scan, Acquire, ScanDone, ScanFails, MaxTimeFails, ShardTypes, TypeOK
<1>4. task'[s] \notin {"none", "joined"}
  BY <1>2 DEF ShardTypes, TypeOK
<1>5. First' = First /\ (\A m : Behind(m)' = Behind(m)) /\ \A r \in Shard : Wanted(r)' = Wanted(r)
  BY <1>1, SameFiles
<1>6. ASSUME ~lost', task'[s] = "done", Wanted(s) # {}
      PROVE  /\ kind = "history" => found'[s] # {}
             /\ kind = "search" => \A m \in Wanted(s) : m \in found'[s] \/ First + limit <= Behind(m)
  <2>1. found' = [found EXCEPT ![s] = IF kind = "history" THEN Top(store[s], 1)
                                      ELSE Top(store[s], limit * 3)]
    BY <1>6 DEF Scan, Acquire, ScanDone, ScanFails, MaxTimeFails, Attempts, ShardTypes, TypeOK
  <2>2. store[s] \in SUBSET Message /\ IsFiniteSet(store[s]) /\ found \in [Shard -> SUBSET Message]
    BY DEF ShardTypes, TypeOK, Numbered
  <2>3. CASE kind = "history"
    <3>1. store[s] # {}
      BY <1>6 DEF Wanted
    <3> QED BY <2>1, <2>2, <2>3, <3>1, HasTop
  <2>4. CASE kind = "search"
    <3> SUFFICES ASSUME NEW m \in Wanted(s), m \notin Top(store[s], limit * 3)
                 PROVE  First + limit <= Behind(m)
      BY <2>1, <2>2, <2>4
    <3> DEFINE B == {x \in store[s] : Before(x, m)}
    <3>1. m \in store[s] /\ ~(Cardinality(B) < limit * 3)
      BY WantedMessage DEF Top
    <3>2. B \in SUBSET {x \in Matching(Stored) : Before(x, m)}
      BY WantedMessage, BeforeMatching
    <3> HIDE DEF B
    <3>3. Cardinality(B) \in Nat /\ Cardinality(B) <= Behind(m) /\ Behind(m) \in Nat
      BY <3>2, StoredMessages
    <3>4. First = 0 /\ limit \in Nat \ {0}
      BY <2>4, Parameters DEF First
    <3> QED BY <3>1, <3>3, <3>4
  <2> QED BY <2>3, <2>4, Parameters
<1>7. Stamped' /\ Scanned'
  BY <1>1, <1>3, <1>4, <1>5, <1>6, StampedKept DEF WholePage, Scanned
<1>8. Joined'
  BY <1>1, <1>3, <1>4 DEF WholePage, Joined
<1>9. NoneLeftOut'
  <2>1. \A x : Collected(x)' = Collected(x)
    BY <1>1, <1>5 DEF Collected
  <2>2. \A i \in DOMAIN hits : hits[i] \in Shard
    BY DEF ShardTypes, TypeOK
  <2> QED BY <1>1, <1>3, <1>4, <1>5, <2>1, <2>2, Parameters DEF WholePage, NoneLeftOut
<1> QED BY <1>7, <1>8, <1>9 DEF WholePage

LEMMA CompleteJoin ==
  ASSUME ShardTypes, WholePage, NEW s \in Shard, JoinDone(s) \/ JoinFailed(s)
  PROVE  WholePage'
<1>1. /\ UNCHANGED <<store, mtime, clock, start, since, kind, offset, limit, todo, found>>
      /\ pc = "join" /\ pc' \in {"join", "error"}
  BY DEF JoinDone, JoinFailed, KeepRequest, wechat, request
<1>2. First' = First /\ (\A m : Behind(m)' = Behind(m)) /\ \A r \in Shard : Wanted(r)' = Wanted(r)
  BY <1>1, SameFiles
<1>3. Stamped'
  BY <1>1, StampedKept
<1>4. CASE JoinDone(s)
  <2>1. /\ task[s] = "done" /\ task' = [task EXCEPT ![s] = "joined"]
        /\ UNCHANGED <<pc, lost>>
    BY <1>4 DEF JoinDone
  <2>2. \A r \in Shard : /\ task'[r] \in {"done", "joined"} => task[r] \in {"done", "joined"}
                         /\ r # s => task'[r] = task[r]
                         /\ task'[r] = "none" => task[r] = "none"
    BY <2>1 DEF ShardTypes, TypeOK
  <2>3. /\ rows \subseteq rows'
        /\ kind = "search" => found[s] \subseteq rows' /\ hits' = hits
        /\ kind = "history" => hits' = IF found[s] = {} THEN hits ELSE Append(hits, s)
    BY <1>4, Parameters DEF JoinDone
  <2>4. /\ \A i \in DOMAIN hits : i \in DOMAIN hits' /\ hits'[i] = hits[i]
        /\ kind = "history" /\ found[s] # {} => \E i \in DOMAIN hits' : hits'[i] = s
    <3>1. hits \in Seq(Shard)
      BY DEF ShardTypes, TypeOK
    <3>2. \A h \in Seq(Shard) : /\ \A i \in DOMAIN h : i \in DOMAIN Append(h, s) /\ Append(h, s)[i] = h[i]
                                /\ Len(h) + 1 \in DOMAIN Append(h, s) /\ Append(h, s)[Len(h) + 1] = s
      OBVIOUS
    <3>3. hits' = hits \/ hits' = Append(hits, s)
      BY <2>3, Parameters
    <3> QED BY <2>3, <3>1, <3>2, <3>3
  <2>5. Scanned'
    BY <1>1, <1>2, <2>1, <2>2 DEF WholePage, Scanned
  <2>6. Joined'
    <3> SUFFICES ASSUME ~lost, NEW r \in Shard, task'[r] = "joined"
                 PROVE  /\ kind = "history" /\ found[r] # {} => \E i \in DOMAIN hits' : hits'[i] = r
                        /\ kind = "search" => found[r] \subseteq rows'
      BY <1>1, <2>1 DEF Joined
    <3>1. CASE r = s
      BY <2>3, <2>4, <3>1
    <3>2. CASE r # s
      BY <1>1, <2>2, <2>3, <2>4, <3>2 DEF WholePage, Joined
    <3> QED BY <3>1, <3>2
  <2>7. NoneLeftOut'
    BY <1>1, <1>2, <2>1, <2>2, Parameters DEF WholePage, NoneLeftOut
  <2> QED BY <1>3, <2>5, <2>6, <2>7 DEF WholePage
<1>5. CASE JoinFailed(s)
  <2>1. CASE kind = "history"
    <3>1. /\ pc' = "error" /\ UNCHANGED lost
          /\ \A r \in Shard : task'[r] \in {"done", "joined"} => task'[r] = task[r]
      BY <1>5, <2>1 DEF JoinFailed, ShardTypes, TypeOK
    <3>2. Scanned'
      BY <1>1, <1>2, <3>1 DEF WholePage, Scanned
    <3>3. Joined' /\ NoneLeftOut'
      BY <3>1 DEF Joined, NoneLeftOut
    <3> QED BY <1>3, <3>2, <3>3 DEF WholePage
  <2>2. CASE kind # "history"
    <3>1. lost'
      BY <1>5, <2>2 DEF JoinFailed
    <3> QED BY <1>3, <3>1 DEF WholePage, Scanned, Joined, NoneLeftOut
  <2> QED BY <2>1, <2>2
<1> QED BY <1>4, <1>5

\* Once all scans are joined, nothing wanted is missing.
LEMMA AllIn ==
  ASSUME ShardTypes, WholePage, AllJoined, ~lost, NEW s \in 1..Known, Wanted(s) # {}
  PROVE  /\ kind = "history" => \E i \in DOMAIN hits : hits[i] = s
         /\ kind = "search" => \A m \in Wanted(s) : Collected(m)
<1>1. s \in Shard
  BY Parameters
<1>2. task[s] = "joined"
  BY <1>1 DEF AllJoined, WholePage, NoneLeftOut
<1>3. /\ kind = "history" => found[s] # {}
      /\ kind = "search" => \A m \in Wanted(s) : m \in found[s] \/ First + limit <= Behind(m)
  BY <1>1, <1>2 DEF WholePage, Scanned
<1>4. /\ kind = "history" /\ found[s] # {} => \E i \in DOMAIN hits : hits[i] = s
      /\ kind = "search" => found[s] \subseteq rows
  BY <1>1, <1>2 DEF WholePage, Joined, AllJoined
<1> QED BY <1>3, <1>4 DEF Collected

LEMMA CompleteCollect ==
  ASSUME ShardTypes, WholePage, NoneFound \/ SomeFound \/ ReadShard \/ ReadFails \/ ReadAll \/ Reply
  PROVE  WholePage'
<1>1. UNCHANGED <<store, mtime, clock, start, since, kind, offset, limit, task, found, lost>>
  BY DEF NoneFound, SomeFound, ReadShard, ReadFails, ReadAll, Reply, KeepRequest, wechat, request
<1>2. First' = First /\ (\A m : Behind(m)' = Behind(m)) /\ \A r \in Shard : Wanted(r)' = Wanted(r)
  BY <1>1, SameFiles
<1>3. Stamped' /\ Scanned'
  BY <1>1, <1>2, StampedKept DEF WholePage, Scanned
<1>4. pc' \notin {"judge", "join"}
  BY DEF NoneFound, SomeFound, ReadShard, ReadFails, ReadAll, Reply
<1>5. Joined'
  BY <1>4 DEF Joined
<1>6. CASE ReadFails \/ Reply
  <2>1. pc' \in {"error", "replied"}
    BY <1>6 DEF ReadFails, Reply
  <2> QED BY <1>3, <1>5, <2>1 DEF WholePage, NoneLeftOut
<1>7. CASE NoneFound
  <2>1. /\ AllJoined /\ kind = "history" /\ hits = <<>> /\ pc' \in {"page", "error"}
    BY <1>7 DEF NoneFound
  <2>2. ~lost => \A s \in 1..Known : Wanted(s) = {}
    BY <2>1, AllIn
  <2>3. NoneLeftOut'
    BY <1>1, <1>2, <2>1, <2>2, Parameters DEF NoneLeftOut
  <2> QED BY <1>3, <1>5, <2>3 DEF WholePage
<1>8. CASE SomeFound
  <2>1. /\ AllJoined /\ hits' = NewestFirst(hits) /\ todo' = 1 /\ rows' = rows
        /\ pc' = IF kind = "history" THEN "read" ELSE "page"
    BY <1>8 DEF SomeFound
  <2>2. CASE kind = "history"
    <3>1. ~lost => \A s \in 1..Known : Wanted(s) # {} => \E i \in DOMAIN hits' : hits'[i] = s
      BY <2>1, <2>2, AllIn, SortedHits
    <3>2. \A i \in DOMAIN hits' : ~(i < 1)
      BY <2>1, SortedHits
    <3>3. NoneLeftOut'
      BY <1>1, <1>2, <2>1, <2>2, <3>1, <3>2, Parameters DEF NoneLeftOut
    <3> QED BY <1>3, <1>5, <3>3 DEF WholePage
  <2>3. CASE kind = "search"
    <3>1. ~lost => \A s \in 1..Known : \A m \in Wanted(s) : Collected(m)
      BY <2>1, <2>3, AllIn
    <3>2. \A m : Collected(m)' = Collected(m)
      BY <1>1, <1>2, <2>1 DEF Collected
    <3>3. NoneLeftOut'
      BY <1>1, <1>2, <2>1, <2>3, <3>1, <3>2, Parameters DEF NoneLeftOut
    <3> QED BY <1>3, <1>5, <3>3 DEF WholePage
  <2> QED BY <2>2, <2>3, Parameters
<1>9. CASE ReadShard
  <2>1. /\ pc = "read" /\ pc' = "read" /\ todo <= Len(hits) /\ todo' = todo + 1
        /\ hits' = hits /\ rows' = rows \cup Top(Matching(store[hits[todo]]), PerDbCap)
    BY <1>9 DEF ReadShard
  <2>2. todo \in DOMAIN hits /\ hits[todo] \in Shard /\ \A i \in DOMAIN hits : i \in Nat /\ hits[i] \in Shard
    BY <2>1, FewHits DEF ShardTypes, TypeOK
  <2>3. \A m : Collected(m) => Collected(m)'
    BY <1>1, <1>2, <2>1 DEF Collected
  <2>4. ASSUME ~lost, NEW m \in Wanted(hits[todo])
        PROVE  Collected(m)'
    <3> DEFINE M == Matching(store[hits[todo]])
               B == {x \in M : Before(x, m)}
    <3> SUFFICES ASSUME m \notin Top(M, PerDbCap)
                 PROVE  First + limit <= Behind(m)
      BY <1>1, <1>2, <2>1 DEF Collected
    <3>1. m \in M /\ ~(Cardinality(B) < PerDbCap)
      BY <2>2, WantedMessage DEF Top
    <3>2. M \in SUBSET Stored
      BY <2>2, StoredHas DEF Matching
    <3>3. B \in SUBSET {x \in Matching(Stored) : Before(x, m)}
      <4> HIDE DEF M
      <4> QED BY <2>2, <2>4, <3>2, WantedMessage, BeforeMatching
    <3> HIDE DEF B
    <3>4. Cardinality(B) \in Nat /\ Cardinality(B) <= Behind(m) /\ Behind(m) \in Nat
      BY <3>3, StoredMessages
    <3>5. PerDbCap = First + limit /\ PerDbCap \in Nat
      BY <2>1, <2>4, Parameters DEF WholePage, NoneLeftOut, First, PerDbCap
    <3> QED BY <3>1, <3>4, <3>5
  <2>5. NoneLeftOut'
    <3> SUFFICES ASSUME ~lost
                 PROVE  /\ kind = "history"
                        /\ \A s \in 1..Known :
                             Wanted(s) # {} => \E i \in DOMAIN hits : hits[i] = s
                        /\ \A i \in DOMAIN hits :
                             i < todo + 1 => \A m \in Wanted(hits[i]) : Collected(m)'
      BY <1>1, <1>2, <2>1, <2>2, Parameters DEF NoneLeftOut
    <3>1. \A i \in DOMAIN hits : i < todo + 1 => i < todo \/ i = todo
      BY <2>2
    <3> QED BY <2>1, <2>2, <2>3, <2>4, <3>1 DEF WholePage, NoneLeftOut
  <2> QED BY <1>3, <1>5, <2>5 DEF WholePage
<1>10. CASE ReadAll
  <2>1. pc = "read" /\ pc' = "page" /\ todo > Len(hits) /\ UNCHANGED <<hits, rows>>
    BY <1>10 DEF ReadAll
  <2>2. \A i \in DOMAIN hits : i < todo
    BY <2>1, FewHits DEF ShardTypes, TypeOK
  <2>3. ~lost => \A s \in 1..Known : \A m \in Wanted(s) : Collected(m)
    BY <2>1, <2>2 DEF WholePage, NoneLeftOut
  <2>4. \A m : Collected(m)' = Collected(m)
    BY <1>1, <1>2, <2>1 DEF Collected
  <2>5. NoneLeftOut'
    BY <1>1, <1>2, <2>1, <2>3, <2>4, Parameters DEF NoneLeftOut
  <2> QED BY <1>3, <1>5, <2>5 DEF WholePage
<1> QED BY <1>6, <1>7, <1>8, <1>9, <1>10

LEMMA CompleteNext == ShardTypes /\ ShardTypes' /\ WholePage /\ [Next]_vars => WholePage'
<1> SUFFICES ASSUME ShardTypes, ShardTypes', WholePage, [Next]_vars PROVE WholePage'
  OBVIOUS
<1>1. CASE UNCHANGED vars
  <2>1. UNCHANGED <<store, mtime, clock, start, since, kind, offset, limit, pc, todo, task,
                    found, hits, rows, lost>>
    BY <1>1 DEF vars, wechat, request
  <2>2. First' = First /\ (\A m : Behind(m)' = Behind(m)) /\ \A r \in Shard : Wanted(r)' = Wanted(r)
    BY <2>1, SameFiles
  <2>3. Stamped' /\ Scanned' /\ Joined'
    BY <2>1, <2>2, StampedKept DEF WholePage, Scanned, Joined
  <2>4. \A m : Collected(m)' = Collected(m)
    BY <2>1, <2>2 DEF Collected
  <2>5. \A i \in DOMAIN hits : hits[i] \in Shard
    BY DEF ShardTypes, TypeOK
  <2>6. NoneLeftOut'
    BY <2>1, <2>2, <2>4, <2>5, Parameters DEF WholePage, NoneLeftOut
  <2> QED BY <2>3, <2>6 DEF WholePage
<1> QED BY <1>1, CompleteWeChat, CompleteBegin, CompleteJudge, CompleteScan, CompleteJudged,
        CompleteJoin, CompleteCollect DEF Next, Collect

\* A complete page: what belongs on it is in hand, and so is all that is newer.
LEMMA PageIsComplete ==
  ASSUME ShardTypes, WholePage, pc = "page", Reply, ~reply'.unknown, ~lost
  PROVE  PageComplete
<1> SUFFICES ASSUME NEW m \in Matching(start), OnPage(m)
             PROVE  m \in reply'.messages
  BY DEF PageComplete
<1>1. reply'.messages = Page(Matching(rows)) /\ ~UnknownShards
  BY DEF Reply
<1>2. \A z \in Matching(start) : Collected(z) /\ z \in Stored /\ z \in Message
                                 /\ (since = NoBound \/ z.time >= since)
  <2> TAKE z \in Matching(start)
  <2>1. z \in Stored
    BY DEF Matching, ShardTypes, TypeOK
  <2>2. PICK s \in Shard : z \in store[s]
    BY <2>1 DEF Stored
  <2>3. s \in 1..Known
    BY <1>1, <2>2, ShardQueryAssumption DEF UnknownShards, Shard
  <2>4. z \in Wanted(s)
    BY <2>2 DEF Wanted
  <2> QED BY <2>1, <2>3, <2>4, WantedMessage, Parameters DEF WholePage, NoneLeftOut
<1>3. First <= NewerAtStart(m) /\ NotOlderNow(m) < First + limit
  BY DEF OnPage, First
<1>4. Behind(m) < First + limit
  <2> DEFINE N == {x \in Matching(Stored) \ {m} : x.time >= m.time}
             A == {x \in Matching(Stored) : Before(x, m)}
  <2>1. A \in SUBSET N
    <3> SUFFICES ASSUME NEW x \in A PROVE x \in N
      OBVIOUS
    <3>1. x \in Message /\ x \in Matching(Stored)
      BY StoredMessages
    <3> QED BY <1>2, <3>1 DEF Before, Message
  <2>2. IsFiniteSet(N)
    <3>1. N \in SUBSET Matching(Stored)
      OBVIOUS
    <3> HIDE DEF N
    <3> QED BY <3>1, StoredMessages, FS_Subset
  <2>3. Cardinality(A) <= Cardinality(N) /\ Cardinality(N) \in Nat /\ Cardinality(A) \in Nat
    <3> HIDE DEF A, N
    <3> QED BY <2>1, <2>2, FS_Subset, FS_CardinalityType
  <2>4. Behind(m) = Cardinality(A) /\ NotOlderNow(m) = Cardinality(N)
    BY DEF Behind, NotOlderNow
  <2> HIDE DEF A, N
  <2> QED BY <1>3, <2>3, <2>4, Parameters
<1>5. \A z \in Matching(start) : Before(z, m) \/ z = m => z \in rows
  <2> SUFFICES ASSUME NEW z \in Matching(start), Before(z, m) \/ z = m
               PROVE  ~(First + limit <= Behind(z))
    BY <1>2 DEF Collected
  <2>1. {x \in Matching(Stored) : Before(x, z)} \in SUBSET {x \in Matching(Stored) : Before(x, m)}
    <3> SUFFICES ASSUME NEW x \in Matching(Stored), Before(x, z) PROVE Before(x, m)
      OBVIOUS
    <3>1. x \in Message /\ z \in Message /\ m \in Message
      BY <1>2, StoredMessages
    <3> QED BY <3>1 DEF Before, Message
  <2>2. Behind(z) <= Behind(m) /\ Behind(z) \in Nat /\ Behind(m) \in Nat
    BY <2>1, StoredMessages DEF Behind
  <2> QED BY <1>4, <2>2, Parameters
<1> DEFINE B == {x \in Matching(rows) : Before(x, m)}
<1>6. m \in Matching(rows)
  BY <1>5 DEF Matching
<1>7. Cardinality(B) \in Nat /\ Cardinality(B) < First + limit
  <2>1. B \in SUBSET {x \in Matching(Stored) : Before(x, m)}
    BY DEF Matching, ShardTypes, TypeOK
  <2> HIDE DEF B
  <2>2. Cardinality(B) \in Nat /\ Cardinality(B) <= Behind(m) /\ Behind(m) \in Nat
    BY <2>1, StoredMessages
  <2> QED BY <1>4, <2>2, Parameters
<1>8. First <= Cardinality(B)
  <2> DEFINE C == {x \in Matching(start) : x.time > m.time}
  <2>1. C \in SUBSET B
    <3> SUFFICES ASSUME NEW x \in C PROVE x \in B
      OBVIOUS
    <3>1. x \in Matching(start) /\ Before(x, m)
      BY DEF Before
    <3> QED BY <1>5, <3>1 DEF Matching
  <2>2. B \in SUBSET {x \in Matching(Stored) : Before(x, m)}
    BY DEF Matching, ShardTypes, TypeOK
  <2>3. IsFiniteSet(B)
    <3> HIDE DEF B
    <3> QED BY <2>2, StoredMessages
  <2>4. Cardinality(C) <= Cardinality(B) /\ Cardinality(C) \in Nat
    <3> HIDE DEF B, C
    <3> QED BY <2>1, <2>3, FS_Subset, FS_CardinalityType
  <2>5. NewerAtStart(m) = Cardinality(C)
    BY DEF NewerAtStart
  <2> HIDE DEF B, C
  <2> QED BY <1>3, <1>7, <2>4, <2>5, Parameters
<1>9. CASE kind = "history"
  <2>1. First = offset /\ offset \in Nat /\ limit \in Nat
    BY <1>9, Parameters DEF First
  <2>2. m \in Top(Matching(rows), offset + limit)
    BY <1>6, <1>7, <2>1 DEF Top
  <2>3. m \notin Top(Matching(rows), offset)
    <3>1. ~(Cardinality(B) < offset)
      <4> HIDE DEF B
      <4> QED BY <1>7, <1>8, <2>1
    <3> QED BY <3>1 DEF Top
  <2> QED BY <1>1, <1>9, <2>2, <2>3 DEF Page
<1>10. CASE kind = "search"
  <2>1. First = 0 /\ limit \in Nat
    BY <1>10, Parameters DEF First
  <2>2. m \in Top(Matching(rows), limit)
    <3>1. Cardinality(B) < limit
      <4> HIDE DEF B
      <4> QED BY <1>7, <2>1
    <3> QED BY <1>6, <3>1 DEF Top
  <2> QED BY <1>1, <1>10, <2>2 DEF Page
<1> QED BY <1>9, <1>10, Parameters

LEMMA AnswersComplete ==
  ASSUME ShardTypes, WholePage, [Next]_vars
  PROVE  [Replies /\ ~lost => PageComplete]_vars
<1> SUFFICES ASSUME Replies, ~lost
             PROVE  PageComplete
  OBVIOUS
<1>1. Reply
  <2>1. pc = "page" /\ pc' = "replied"
    BY DEF Replies
  <2>2. ~UNCHANGED vars
    BY <2>1 DEF vars
  <2>3. ~WeChat /\ \A f \in {NoBound} \cup (1..(MaxClock + MaxSkew)) : ~Begin(f)
    BY <2>1 DEF WeChat, Tick, Deliver, Roll, Begin
  <2>4. \A s \in Shard : ~Judge(s) /\ ~Scan(s)
    BY <2>1 DEF Judge, JudgeSkip, JudgeAbsent, JudgeScan, JudgeNoHandle, ListTables,
         ListFails, Judging, Scan, Acquire, ScanDone, ScanFails, MaxTimeFails, Busy
  <2>5. /\ ~Judged /\ ~NoneFound /\ ~SomeFound /\ ~ReadShard /\ ~ReadFails /\ ~ReadAll
        /\ \A s \in Shard : ~JoinDone(s) /\ ~JoinFailed(s)
    BY <2>1 DEF Judged, NoneFound, SomeFound, ReadShard, ReadFails, ReadAll, AllJoined,
         JoinDone, JoinFailed
  <2> QED BY <2>2, <2>3, <2>4, <2>5 DEF Next, Collect
<1> QED BY <1>1, PageIsComplete DEF Replies

(* NothingMissing for any number of shards, messages, permits and slack:    *)
(* skipping by mtime, believed routes, the order of the joins, the cap on   *)
(* each shard and a new shard lose no message of the page                   *)
(* (query.rs:1184-1192, 1541-1545, 551-552).                                *)
THEOREM NoMessageMissing == Spec => NothingMissing
<1>1. Spec => []ShardTypes
  BY TypesInit, TypesNext, PTL DEF Spec
<1>2. Spec => []WholePage
  BY <1>1, CompleteInit, CompleteNext, PTL DEF Spec
<1>3. ShardTypes /\ WholePage /\ [Next]_vars => [Replies /\ ~lost => PageComplete]_vars
  BY AnswersComplete
<1> QED BY <1>1, <1>2, <1>3, PTL DEF Spec, NothingMissing


-----------------------------------------------------------------------------
(* MsgRows.  Rows in an order: R is a strict order of all of S, as a set of *)
(* pairs; a listing has every element of S once, in the order of R.  There *)
(* is one, and Sorted is it: so two statements that are about the same     *)
(* rows in the same order have the same answer, however they found them.   *)
Orders(R, S) ==
  \A x, y \in S :
    /\ x # y => <<x, y>> \in R \/ <<y, x>> \in R
    /\ <<x, x>> \notin R
    /\ \A z \in S : <<x, y>> \in R /\ <<y, z>> \in R => <<x, z>> \in R

Listing(s, S, R) ==
  /\ s \in [1..Cardinality(S) -> S]
  /\ \A x \in S : \E i \in 1..Cardinality(S) : s[i] = x
  /\ \A i, j \in 1..Cardinality(S) : i < j => <<s[i], s[j]>> \in R

RankIn(x, S, R) == Cardinality({y \in S : <<y, x>> \in R})

LEMMA RankType ==
  ASSUME NEW S, IsFiniteSet(S), NEW R, Orders(R, S), NEW x \in S
  PROVE  RankIn(x, S, R) \in 0..Cardinality(S) - 1
<1> DEFINE B == {y \in S : <<y, x>> \in R}
<1>1. B \in SUBSET (S \ {x})
  BY DEF Orders
<1>2. IsFiniteSet(S \ {x}) /\ Cardinality(S \ {x}) = Cardinality(S) - 1
  BY FS_RemoveElement
<1>3. Cardinality(B) \in Nat /\ Cardinality(B) <= Cardinality(S) - 1 /\ Cardinality(S) \in Nat
  <2> HIDE DEF B
  <2>1. IsFiniteSet(B) /\ Cardinality(B) <= Cardinality(S \ {x})
    BY <1>1, <1>2, FS_Subset
  <2> QED
    BY <2>1, <1>2, FS_CardinalityType
<1> QED
  BY <1>3 DEF RankIn

LEMMA RankGrows ==
  ASSUME NEW S, IsFiniteSet(S), NEW R, Orders(R, S), NEW x \in S, NEW y \in S, <<x, y>> \in R
  PROVE  RankIn(x, S, R) # RankIn(y, S, R)
<1> DEFINE B(z) == {w \in S : <<w, z>> \in R}
<1>1. B(x) \subseteq B(y) /\ x \in B(y) /\ x \notin B(x)
  BY DEF Orders
<1>2. B(x) \in SUBSET B(y) /\ B(x) # B(y) /\ B(y) \in SUBSET S
  BY <1>1
<1> HIDE DEF B
<1>3. IsFiniteSet(B(y))
  BY <1>2, FS_Subset
<1>4. Cardinality(B(x)) # Cardinality(B(y))
  BY <1>2, <1>3, FS_Subset
<1> QED
  BY <1>4 DEF RankIn, B

LEMMA RankOnce ==
  ASSUME NEW S, IsFiniteSet(S), NEW R, Orders(R, S), NEW x \in S, NEW y \in S,
         RankIn(x, S, R) = RankIn(y, S, R)
  PROVE  x = y
BY RankGrows DEF Orders

LEMMA RankReached ==
  ASSUME NEW S, IsFiniteSet(S), NEW R, Orders(R, S), NEW k \in 0..Cardinality(S) - 1
  PROVE  \E x \in S : RankIn(x, S, R) = k
<1> DEFINE Z == 0..Cardinality(S) - 1
           f == [x \in S |-> RankIn(x, S, R)]
<1>1. Cardinality(S) \in Nat
  BY FS_CardinalityType
<1>2. IsFiniteSet(Z) /\ Cardinality(Z) = Cardinality(S)
  BY <1>1, FS_Interval
<1>3. f \in Injection(S, Z)
  <2>1. f \in [S -> Z]
    BY RankType
  <2>2. \A x, y \in S : f[x] = f[y] => x = y
    BY RankOnce
  <2> HIDE DEF f, Z
  <2> QED
    BY <2>1, <2>2 DEF Injection, IsInjective
<1>4. f \in Surjection(S, Z)
  <2> HIDE DEF f, Z
  <2> QED
    BY <1>2, <1>3, FS_Injection
<1>5. \A z \in Z : \E x \in S : f[x] = z
  <2> HIDE DEF f, Z
  <2> QED
    BY <1>4 DEF Surjection
<1> QED
  BY <1>5

\* At i stands what i - 1 others are before.
LEMMA RanksList ==
  ASSUME NEW S, IsFiniteSet(S), NEW R, Orders(R, S),
         NEW s, s = [i \in 1..Cardinality(S) |-> s[i]],
         \A i \in 1..Cardinality(S) : s[i] \in S /\ RankIn(s[i], S, R) = i - 1
  PROVE  Listing(s, S, R)
<1> DEFINE n == Cardinality(S)
<1>0. n \in Nat
  BY FS_CardinalityType
<1>1. \A i \in 1..n : s[i] \in S /\ RankIn(s[i], S, R) = i - 1
  OBVIOUS
<1>2. s \in [1..n -> S]
  BY <1>1
<1>3. ASSUME NEW x \in S
      PROVE  \E i \in 1..n : s[i] = x
  <2>1. RankIn(x, S, R) + 1 \in 1..n /\ (RankIn(x, S, R) + 1) - 1 = RankIn(x, S, R)
    BY <1>0, RankType
  <2>2. RankIn(s[RankIn(x, S, R) + 1], S, R) = RankIn(x, S, R) /\ s[RankIn(x, S, R) + 1] \in S
    BY <1>1, <2>1
  <2>3. s[RankIn(x, S, R) + 1] = x
    BY <2>2, RankOnce
  <2> QED
    BY <2>1, <2>3
<1>4. ASSUME NEW i \in 1..n, NEW j \in 1..n, i < j
      PROVE  <<s[i], s[j]>> \in R
  <2>1. RankIn(s[i], S, R) = i - 1 /\ RankIn(s[j], S, R) = j - 1 /\ s[i] \in S /\ s[j] \in S
    BY <1>1
  <2>2. s[i] # s[j]
    BY <2>1, <1>4
  <2>3. CASE <<s[j], s[i]>> \in R
    <3> DEFINE B(z) == {w \in S : <<w, z>> \in R}
    <3>1. B(s[j]) \in SUBSET B(s[i]) /\ B(s[i]) \in SUBSET S
      BY <2>1, <2>3 DEF Orders
    <3>2. IsFiniteSet(B(s[i])) /\ Cardinality(B(s[j])) <= Cardinality(B(s[i]))
      <4> HIDE DEF B
      <4> QED
        BY <3>1, FS_Subset
    <3> QED
      BY <3>2, <2>1, <1>4 DEF RankIn
  <2> QED
    BY <2>1, <2>2, <2>3 DEF Orders
<1> QED
  BY <1>2, <1>3, <1>4 DEF Listing

LEMMA ListingOnce ==
  ASSUME NEW S, IsFiniteSet(S), NEW R, Orders(R, S), NEW s, Listing(s, S, R),
         NEW i \in 1..Cardinality(S), NEW j \in 1..Cardinality(S), s[i] = s[j]
  PROVE  i = j
<1>1. Cardinality(S) \in Nat
  BY FS_CardinalityType
<1>2. s[i] \in S /\ s[j] \in S /\ <<s[i], s[i]>> \notin R
  BY DEF Listing, Orders
<1> QED
  BY <1>1, <1>2 DEF Listing

\* The first k of a listing are k.
LEMMA FirstOnes ==
  ASSUME NEW S, IsFiniteSet(S), NEW R, Orders(R, S), NEW s, Listing(s, S, R),
         NEW k \in 0..Cardinality(S)
  PROVE  IsFiniteSet({s[i] : i \in 1..k}) /\ Cardinality({s[i] : i \in 1..k}) = k
<1> DEFINE T == {s[i] : i \in 1..k}
           f == [i \in 1..k |-> s[i]]
<1>0. Cardinality(S) \in Nat /\ k \in Nat /\ 1..k \subseteq 1..Cardinality(S)
  <2>1. Cardinality(S) \in Nat
    BY FS_CardinalityType
  <2> QED
    BY <2>1
<1>1. f \in Bijection(1..k, T)
  <2>1. f \in [1..k -> T] /\ \A t \in T : \E i \in 1..k : f[i] = t
    OBVIOUS
  <2>2. \A i, j \in 1..k : f[i] = f[j] => i = j
    BY <1>0, ListingOnce
  <2> HIDE DEF f, T
  <2> QED
    BY <2>1, <2>2 DEF Bijection, Injection, Surjection, IsInjective
<1>2. ExistsBijection(1..k, T)
  BY <1>1 DEF ExistsBijection
<1>3. IsFiniteSet(1..k) /\ Cardinality(1..k) = k
  BY <1>0, FS_Interval
<1> HIDE DEF T
<1>4. IsFiniteSet(T) /\ Cardinality(T) = k
  BY <1>2, <1>3, FS_Bijection
<1> QED
  BY <1>4 DEF T

LEMMA ListingRank ==
  ASSUME NEW S, IsFiniteSet(S), NEW R, Orders(R, S), NEW s, Listing(s, S, R),
         NEW i \in 1..Cardinality(S)
  PROVE  RankIn(s[i], S, R) = i - 1
<1>0. Cardinality(S) \in Nat
  BY FS_CardinalityType
<1>1. {y \in S : <<y, s[i]>> \in R} = {s[k] : k \in 1..i - 1}
  <2>1. ASSUME NEW y \in S, <<y, s[i]>> \in R
        PROVE  y \in {s[k] : k \in 1..i - 1}
    <3>1. PICK k \in 1..Cardinality(S) : s[k] = y
      BY DEF Listing
    <3>2. s[i] \in S
      BY DEF Listing
    <3>3. ~(i < k)
      <4>1. i < k => <<s[i], y>> \in R
        BY <3>1 DEF Listing
      <4> QED
        BY <4>1, <3>2, <2>1 DEF Orders
    <3>4. k # i
      BY <3>1, <3>2, <2>1 DEF Orders
    <3> QED
      BY <1>0, <3>1, <3>3, <3>4
  <2>2. ASSUME NEW k \in 1..i - 1
        PROVE  s[k] \in S /\ <<s[k], s[i]>> \in R
    BY <1>0 DEF Listing
  <2> QED
    BY <2>1, <2>2
<1>2. i - 1 \in 0..Cardinality(S)
  BY <1>0
<1>3. Cardinality({s[k] : k \in 1..i - 1}) = i - 1
  BY <1>2, FirstOnes
<1> QED
  BY <1>1, <1>3, Zenon DEF RankIn

\* There is one listing of a set in an order.
LEMMA OneListing ==
  ASSUME NEW S, IsFiniteSet(S), NEW R, Orders(R, S),
         NEW s, Listing(s, S, R), NEW t, Listing(t, S, R)
  PROVE  s = t
<1>1. ASSUME NEW i \in 1..Cardinality(S)
      PROVE  s[i] = t[i]
  <2>1. RankIn(s[i], S, R) = i - 1 /\ RankIn(t[i], S, R) = i - 1
    BY ListingRank
  <2>2. s[i] \in S /\ t[i] \in S
    BY DEF Listing
  <2> QED
    BY <2>1, <2>2, RankOnce
<1>2. s = [i \in 1..Cardinality(S) |-> s[i]] /\ t = [i \in 1..Cardinality(S) |-> t[i]]
  BY DEF Listing
<1> QED
  BY <1>1, <1>2

-----------------------------------------------------------------------------
(* The orders of MsgRows.  The ids make each of them total.                *)
Rowlike(S) ==
  /\ \A r \in S : r.id \in Int /\ r.time \in Int
  /\ \A x, y \in S : x.id = y.id => x = y

NewerOn(S) == {p \in S \X S : Newer(p[1], p[2])}
OlderOn(S) == {p \in S \X S : Older(p[1], p[2])}
LaterOn(S) == {p \in S \X S : Later(p[1], p[2])}
ById(S) == {p \in S \X S : p[1].id < p[2].id}
Below(K) == {p \in K \X K : p[1] < p[2]}

LEMMA NewestLists ==
  ASSUME NEW S, IsFiniteSet(S), Rowlike(S)
  PROVE  Orders(NewerOn(S), S) /\ Listing(Newest(S), S, NewerOn(S))
<1> DEFINE s == Newest(S)
           Ahead(r) == Cardinality({x \in S : Newer(x, r)})
<1>1. Orders(NewerOn(S), S)
  <2>1. \A x, y \in S : <<x, y>> \in NewerOn(S) <=> Newer(x, y)
    BY DEF NewerOn
  <2>2. \A x, y \in S : /\ x # y => Newer(x, y) \/ Newer(y, x)
                        /\ ~Newer(x, x)
                        /\ \A z \in S : Newer(x, y) /\ Newer(y, z) => Newer(x, z)
    BY DEF Newer, Rowlike
  <2> QED
    BY <2>1, <2>2 DEF Orders
<1>2. ASSUME NEW r \in S
      PROVE  Ahead(r) = RankIn(r, S, NewerOn(S))
  <2>1. {x \in S : Newer(x, r)} = {x \in S : <<x, r>> \in NewerOn(S)}
    BY DEF NewerOn
  <2> QED
    BY <2>1 DEF RankIn
<1>3. s = [i \in 1..Cardinality(S) |-> CHOOSE r \in S : Ahead(r) = i - 1]
  BY DEF Newest, Sorted
<1> HIDE DEF s, Ahead
<1>4. ASSUME NEW i \in 1..Cardinality(S)
      PROVE  s[i] \in S /\ RankIn(s[i], S, NewerOn(S)) = i - 1
  <2>1. i - 1 \in 0..Cardinality(S) - 1
    BY FS_CardinalityType
  <2>2. \E r \in S : Ahead(r) = i - 1
    BY <2>1, <1>1, <1>2, RankReached
  <2>3. s[i] = CHOOSE r \in S : Ahead(r) = i - 1
    BY <1>3
  <2>4. s[i] \in S /\ Ahead(s[i]) = i - 1
    BY <2>2, <2>3, Zenon
  <2> QED
    BY <2>4, <1>2
<1>5. s = [i \in 1..Cardinality(S) |-> s[i]]
  BY <1>3
<1>6. Listing(s, S, NewerOn(S))
  BY <1>1, <1>4, <1>5, RanksList
<1> QED
  BY <1>1, <1>6 DEF s

LEMMA OlderLists ==
  ASSUME NEW S, IsFiniteSet(S), Rowlike(S)
  PROVE  Orders(OlderOn(S), S) /\ Listing(Sorted(S, Older), S, OlderOn(S))
<1> DEFINE s == Sorted(S, Older)
           Ahead(r) == Cardinality({x \in S : Older(x, r)})
<1>1. Orders(OlderOn(S), S)
  <2>1. \A x, y \in S : <<x, y>> \in OlderOn(S) <=> Older(x, y)
    BY DEF OlderOn
  <2>2. \A x, y \in S : /\ x # y => Older(x, y) \/ Older(y, x)
                        /\ ~Older(x, x)
                        /\ \A z \in S : Older(x, y) /\ Older(y, z) => Older(x, z)
    BY DEF Older, Rowlike
  <2> QED
    BY <2>1, <2>2 DEF Orders
<1>2. ASSUME NEW r \in S
      PROVE  Ahead(r) = RankIn(r, S, OlderOn(S))
  <2>1. {x \in S : Older(x, r)} = {x \in S : <<x, r>> \in OlderOn(S)}
    BY DEF OlderOn
  <2> QED
    BY <2>1 DEF RankIn
<1>3. s = [i \in 1..Cardinality(S) |-> CHOOSE r \in S : Ahead(r) = i - 1]
  BY DEF Sorted
<1> HIDE DEF s, Ahead
<1>4. ASSUME NEW i \in 1..Cardinality(S)
      PROVE  s[i] \in S /\ RankIn(s[i], S, OlderOn(S)) = i - 1
  <2>1. i - 1 \in 0..Cardinality(S) - 1
    BY FS_CardinalityType
  <2>2. \E r \in S : Ahead(r) = i - 1
    <3>1. PICK r \in S : RankIn(r, S, OlderOn(S)) = i - 1
      BY <2>1, <1>1, RankReached
    <3> QED
      BY <3>1, <1>2
  <2>3. s[i] = CHOOSE r \in S : Ahead(r) = i - 1
    BY <1>3
  <2>4. s[i] \in S /\ Ahead(s[i]) = i - 1
    BY <2>2, <2>3, Zenon
  <2> QED
    BY <2>4, <1>2
<1>5. s = [i \in 1..Cardinality(S) |-> s[i]]
  BY <1>3
<1>6. Listing(s, S, OlderOn(S))
  BY <1>1, <1>4, <1>5, RanksList
<1> QED
  BY <1>1, <1>6 DEF s

LEMMA LaterLists ==
  ASSUME NEW S, IsFiniteSet(S), Rowlike(S), \A r \in S : r.seq \in Int
  PROVE  Orders(LaterOn(S), S) /\ Listing(Sorted(S, Later), S, LaterOn(S))
<1> DEFINE s == Sorted(S, Later)
           Ahead(r) == Cardinality({x \in S : Later(x, r)})
<1>1. Orders(LaterOn(S), S)
  <2>1. \A x, y \in S : <<x, y>> \in LaterOn(S) <=> Later(x, y)
    BY DEF LaterOn
  <2>2. \A x, y \in S : /\ x # y => Later(x, y) \/ Later(y, x)
                        /\ ~Later(x, x)
                        /\ \A z \in S : Later(x, y) /\ Later(y, z) => Later(x, z)
    BY DEF Later, Rowlike
  <2> QED
    BY <2>1, <2>2 DEF Orders
<1>2. ASSUME NEW r \in S
      PROVE  Ahead(r) = RankIn(r, S, LaterOn(S))
  <2>1. {x \in S : Later(x, r)} = {x \in S : <<x, r>> \in LaterOn(S)}
    BY DEF LaterOn
  <2> QED
    BY <2>1 DEF RankIn
<1>3. s = [i \in 1..Cardinality(S) |-> CHOOSE r \in S : Ahead(r) = i - 1]
  BY DEF Sorted
<1> HIDE DEF s, Ahead
<1>4. ASSUME NEW i \in 1..Cardinality(S)
      PROVE  s[i] \in S /\ RankIn(s[i], S, LaterOn(S)) = i - 1
  <2>1. i - 1 \in 0..Cardinality(S) - 1
    BY FS_CardinalityType
  <2>2. \E r \in S : Ahead(r) = i - 1
    <3>1. PICK r \in S : RankIn(r, S, LaterOn(S)) = i - 1
      BY <2>1, <1>1, RankReached
    <3> QED
      BY <3>1, <1>2
  <2>3. s[i] = CHOOSE r \in S : Ahead(r) = i - 1
    BY <1>3
  <2>4. s[i] \in S /\ Ahead(s[i]) = i - 1
    BY <2>2, <2>3, Zenon
  <2> QED
    BY <2>4, <1>2
<1>5. s = [i \in 1..Cardinality(S) |-> s[i]]
  BY <1>3
<1>6. Listing(s, S, LaterOn(S))
  BY <1>1, <1>4, <1>5, RanksList
<1> QED
  BY <1>1, <1>6 DEF s

LEMMA IdLists ==
  ASSUME NEW S, IsFiniteSet(S), Rowlike(S)
  PROVE  Orders(ById(S), S) /\ Listing(Sorted(S, LAMBDA a, b : a.id < b.id), S, ById(S))
<1> DEFINE s == Sorted(S, LAMBDA a, b : a.id < b.id)
           Ahead(r) == Cardinality({x \in S : x.id < r.id})
<1>1. Orders(ById(S), S)
  <2>1. \A x, y \in S : <<x, y>> \in ById(S) <=> x.id < y.id
    BY DEF ById
  <2>2. \A x, y \in S : /\ x # y => x.id < y.id \/ y.id < x.id
                        /\ ~(x.id < x.id)
                        /\ \A z \in S : x.id < y.id /\ y.id < z.id => x.id < z.id
    BY DEF Rowlike
  <2> QED
    BY <2>1, <2>2 DEF Orders
<1>2. ASSUME NEW r \in S
      PROVE  Ahead(r) = RankIn(r, S, ById(S))
  <2>1. {x \in S : x.id < r.id} = {x \in S : <<x, r>> \in ById(S)}
    BY DEF ById
  <2> QED
    BY <2>1 DEF RankIn
<1>3. s = [i \in 1..Cardinality(S) |-> CHOOSE r \in S : Ahead(r) = i - 1]
  BY DEF Sorted
<1> HIDE DEF s, Ahead
<1>4. ASSUME NEW i \in 1..Cardinality(S)
      PROVE  s[i] \in S /\ RankIn(s[i], S, ById(S)) = i - 1
  <2>1. i - 1 \in 0..Cardinality(S) - 1
    BY FS_CardinalityType
  <2>2. \E r \in S : Ahead(r) = i - 1
    <3>1. PICK r \in S : RankIn(r, S, ById(S)) = i - 1
      BY <2>1, <1>1, RankReached
    <3> QED
      BY <3>1, <1>2
  <2>3. s[i] = CHOOSE r \in S : Ahead(r) = i - 1
    BY <1>3
  <2>4. s[i] \in S /\ Ahead(s[i]) = i - 1
    BY <2>2, <2>3, Zenon
  <2> QED
    BY <2>4, <1>2
<1>5. s = [i \in 1..Cardinality(S) |-> s[i]]
  BY <1>3
<1>6. Listing(s, S, ById(S))
  BY <1>1, <1>4, <1>5, RanksList
<1> QED
  BY <1>1, <1>6 DEF s

LEMMA BelowLists ==
  ASSUME NEW K, IsFiniteSet(K), K \subseteq Int
  PROVE  Orders(Below(K), K) /\ Listing(Sorted(K, LAMBDA i, j : i < j), K, Below(K))
<1> DEFINE s == Sorted(K, LAMBDA i, j : i < j)
           Ahead(r) == Cardinality({x \in K : x < r})
<1>1. Orders(Below(K), K)
  <2>1. \A x, y \in K : <<x, y>> \in Below(K) <=> x < y
    BY DEF Below
  <2>2. \A x, y \in K : /\ x # y => x < y \/ y < x
                        /\ ~(x < x)
                        /\ \A z \in K : x < y /\ y < z => x < z
    OBVIOUS
  <2> QED
    BY <2>1, <2>2 DEF Orders
<1>2. ASSUME NEW r \in K
      PROVE  Ahead(r) = RankIn(r, K, Below(K))
  <2>1. {x \in K : x < r} = {x \in K : <<x, r>> \in Below(K)}
    BY DEF Below
  <2> QED
    BY <2>1 DEF RankIn
<1>3. s = [i \in 1..Cardinality(K) |-> CHOOSE r \in K : Ahead(r) = i - 1]
  BY DEF Sorted
<1> HIDE DEF s, Ahead
<1>4. ASSUME NEW i \in 1..Cardinality(K)
      PROVE  s[i] \in K /\ RankIn(s[i], K, Below(K)) = i - 1
  <2>1. i - 1 \in 0..Cardinality(K) - 1
    BY FS_CardinalityType
  <2>2. \E r \in K : Ahead(r) = i - 1
    <3>1. PICK r \in K : RankIn(r, K, Below(K)) = i - 1
      BY <2>1, <1>1, RankReached
    <3> QED
      BY <3>1, <1>2
  <2>3. s[i] = CHOOSE r \in K : Ahead(r) = i - 1
    BY <1>3
  <2>4. s[i] \in K /\ Ahead(s[i]) = i - 1
    BY <2>2, <2>3, Zenon
  <2> QED
    BY <2>4, <1>2
<1>5. s = [i \in 1..Cardinality(K) |-> s[i]]
  BY <1>3
<1>6. Listing(s, K, Below(K))
  BY <1>1, <1>4, <1>5, RanksList
<1> QED
  BY <1>1, <1>6 DEF s

-----------------------------------------------------------------------------
(* A listing as a sequence, and what LIMIT and OFFSET leave of one.        *)
LEMMA ListingSeq ==
  ASSUME NEW S, IsFiniteSet(S), NEW R, NEW s, Listing(s, S, R)
  PROVE  /\ s \in Seq(S) /\ Len(s) = Cardinality(S) /\ Cardinality(S) \in Nat
         /\ s = [i \in 1..Len(s) |-> s[i]] /\ DOMAIN s = 1..Len(s)
<1>1. Cardinality(S) \in Nat
  BY FS_CardinalityType
<1>2. s \in [1..Cardinality(S) -> S]
  BY DEF Listing
<1>3. s \in Seq(S)
  BY <1>1, <1>2
<1>4. Len(s) = Cardinality(S)
  BY <1>1, <1>2, <1>3
<1> QED
  BY <1>1, <1>2, <1>3, <1>4

LEMMA WindowIs ==
  ASSUME NEW E, NEW s \in Seq(E), NEW o \in Nat, NEW n \in Nat
  PROVE  /\ Window(s, o, n) \in Seq(E)
         /\ Len(Window(s, o, n)) = IF o < Least(Len(s), o + n) THEN Least(Len(s), o + n) - o ELSE 0
         /\ \A i \in 1..Len(Window(s, o, n)) : /\ Window(s, o, n)[i] = s[o + i]
                                              /\ o + i \in 1..Len(s) /\ i <= n
<1> DEFINE e == Least(Len(s), o + n)
<1>1. e \in Nat /\ e <= Len(s) /\ e <= o + n /\ Len(s) \in Nat
  BY DEF Least
<1>2. \A i \in o + 1..e : s[i] \in E
  BY <1>1
<1> HIDE DEF e
<1>3. /\ SubSeq(s, o + 1, e) \in Seq(E)
      /\ Len(SubSeq(s, o + 1, e)) = IF o + 1 <= e THEN e - (o + 1) + 1 ELSE 0
      /\ \A i \in 1..e - (o + 1) + 1 : SubSeq(s, o + 1, e)[i] = s[(o + 1) + i - 1]
  BY <1>1, <1>2, SubSeqProperties
<1>4. Window(s, o, n) = SubSeq(s, o + 1, e)
  BY DEF Window, e
<1>5. Len(Window(s, o, n)) = IF o < e THEN e - o ELSE 0
  BY <1>1, <1>3, <1>4
<1>6. ASSUME NEW i \in 1..Len(Window(s, o, n))
      PROVE  Window(s, o, n)[i] = s[o + i] /\ o + i \in 1..Len(s) /\ i <= n
  <2>1. i \in 1..e - (o + 1) + 1 /\ (o + 1) + i - 1 = o + i
    BY <1>1, <1>5
  <2> QED
    BY <2>1, <1>1, <1>3, <1>4
<1> QED
  BY <1>3, <1>4, <1>5, <1>6 DEF e

\* Rows that can all be read are all there.
LEMMA AllMapped ==
  ASSUME NEW E, NEW s \in Seq(E), \A i \in 1..Len(s) : s[i].ok
  PROVE  Mapped(s) = s
<1> DEFINE K == {i \in 1..Len(s) : s[i].ok}
           kept == Sorted(K, LAMBDA i, j : i < j)
           all == [i \in 1..Len(s) |-> i]
<1>1. K = 1..Len(s) /\ Len(s) \in Nat
  OBVIOUS
<1>2. IsFiniteSet(K) /\ K \subseteq Int /\ Cardinality(K) = Len(s)
  <2>1. IsFiniteSet(1..Len(s)) /\ Cardinality(1..Len(s)) = Len(s)
    BY <1>1, FS_Interval
  <2> HIDE DEF K
  <2> QED
    BY <1>1, <2>1
<1>3. Listing(all, K, Below(K))
  BY <1>1, <1>2 DEF Listing, Below
<1>4. Mapped(s) = [k \in 1..Len(kept) |-> s[kept[k]]]
  BY DEF Mapped, Only
<1> HIDE DEF K, kept
<1>5. Orders(Below(K), K) /\ Listing(kept, K, Below(K))
  BY <1>2, BelowLists DEF kept
<1>6. kept = all
  BY <1>2, <1>3, <1>5, OneListing
<1>7. Len(kept) = Len(s)
  BY <1>2, <1>5, ListingSeq
<1>8. \A k \in 1..Len(s) : kept[k] = k
  BY <1>6
<1>9. [k \in 1..Len(kept) |-> s[kept[k]]] = [k \in 1..Len(s) |-> s[k]]
  BY <1>7, <1>8
<1>10. [k \in 1..Len(s) |-> s[k]] = s
  OBVIOUS
<1> QED
  BY <1>4, <1>9, <1>10

-----------------------------------------------------------------------------
(* Rows with the number of the branch of UNION ALL they come from: if each *)
(* row comes from one, the branches are listed as the rows are.            *)
Tagged(B, R) == {p \in B \X B : <<p[1][2], p[2][2]>> \in R}
OnceEach(B, M) ==
  /\ \A x \in B : x[2] \in M
  /\ \A x, y \in B : x[2] = y[2] => x = y
  /\ \A r \in M : \E x \in B : x[2] = r

LEMMA TaggedOrder ==
  ASSUME NEW M, IsFiniteSet(M), NEW R, Orders(R, M), NEW B, OnceEach(B, M)
  PROVE  IsFiniteSet(B) /\ Cardinality(B) = Cardinality(M) /\ Orders(Tagged(B, R), B)
<1> DEFINE f == [x \in B |-> x[2]]
<1>1. f \in [B -> M] /\ (\A x, y \in B : f[x] = f[y] => x = y) /\ \A r \in M : \E x \in B : f[x] = r
  BY DEF OnceEach
<1> HIDE DEF f
<1>2. f \in Injection(B, M) /\ f \in Surjection(B, M)
  BY <1>1 DEF Injection, Surjection, IsInjective
<1>3. IsFiniteSet(B) /\ Cardinality(B) = Cardinality(M)
  BY <1>2, FS_Injection
<1>4. \A x, y \in B : <<x, y>> \in Tagged(B, R) <=> <<x[2], y[2]>> \in R
  BY DEF Tagged
<1>5. Orders(Tagged(B, R), B)
  <2>0. /\ \A a, b \in M : (a # b => <<a, b>> \in R \/ <<b, a>> \in R) /\ <<a, a>> \notin R
        /\ \A a, b, c \in M : <<a, b>> \in R /\ <<b, c>> \in R => <<a, c>> \in R
    BY DEF Orders
  <2>3. ASSUME NEW a \in M, NEW b \in M, NEW c \in M, <<a, b>> \in R, <<b, c>> \in R
        PROVE  <<a, c>> \in R
    BY <2>0, <2>3
  <2> HIDE DEF Tagged
  <2>1. ASSUME NEW x \in B, NEW y \in B
        PROVE  /\ x # y => <<x, y>> \in Tagged(B, R) \/ <<y, x>> \in Tagged(B, R)
               /\ <<x, x>> \notin Tagged(B, R)
    <3>1. x[2] \in M /\ y[2] \in M /\ (x # y => x[2] # y[2])
      BY DEF OnceEach
    <3>2. /\ x # y => <<x[2], y[2]>> \in R \/ <<y[2], x[2]>> \in R
          /\ <<x[2], x[2]>> \notin R
      BY <3>1, <2>0, Zenon
    <3> QED
      BY <3>2, <1>4, Zenon
  <2>2. ASSUME NEW x \in B, NEW y \in B, NEW z \in B,
               <<x, y>> \in Tagged(B, R), <<y, z>> \in Tagged(B, R)
        PROVE  <<x, z>> \in Tagged(B, R)
    <3>1. x[2] \in M /\ y[2] \in M /\ z[2] \in M
      BY DEF OnceEach
    <3>2. <<x[2], y[2]>> \in R /\ <<y[2], z[2]>> \in R
      BY <2>2, <1>4
    <3>3. <<x[2], z[2]>> \in R
      BY <3>1, <3>2, <2>3, Zenon
    <3> QED
      BY <3>3, <1>4, Zenon
  <2> QED
    BY <2>1, <2>2 DEF Orders
<1> QED
  BY <1>3, <1>5

LEMMA TaggedRows ==
  ASSUME NEW M, IsFiniteSet(M), NEW R, Orders(R, M), NEW B, OnceEach(B, M),
         NEW s, Listing(s, B, Tagged(B, R))
  PROVE  Listing(Rows(s), M, R)
<1>1. IsFiniteSet(B) /\ Cardinality(B) = Cardinality(M)
  BY TaggedOrder
<1>2. Len(s) = Cardinality(M)
  BY <1>1, ListingSeq
<1>3. Rows(s) = [i \in 1..Cardinality(M) |-> s[i][2]]
  BY <1>2 DEF Rows
<1>4. \A i \in 1..Cardinality(M) : s[i] \in B
  BY <1>1 DEF Listing
<1>5. Rows(s) \in [1..Cardinality(M) -> M]
  BY <1>3, <1>4 DEF OnceEach
<1>6. \A r \in M : \E i \in 1..Cardinality(M) : Rows(s)[i] = r
  <2> SUFFICES ASSUME NEW r \in M PROVE \E i \in 1..Cardinality(M) : Rows(s)[i] = r
    OBVIOUS
  <2>1. PICK x \in B : x[2] = r
    BY DEF OnceEach
  <2>2. PICK i \in 1..Cardinality(B) : s[i] = x
    BY DEF Listing
  <2> QED
    BY <2>1, <2>2, <1>1, <1>3
<1>7. \A i, j \in 1..Cardinality(M) : i < j => <<Rows(s)[i], Rows(s)[j]>> \in R
  <2> SUFFICES ASSUME NEW i \in 1..Cardinality(M), NEW j \in 1..Cardinality(M), i < j
               PROVE  <<Rows(s)[i], Rows(s)[j]>> \in R
    OBVIOUS
  <2>1. <<s[i], s[j]>> \in Tagged(B, R)
    BY <1>1 DEF Listing
  <2>2. <<s[i][2], s[j][2]>> \in R
    BY <2>1 DEF Tagged
  <2> QED
    BY <2>2, <1>3
<1> QED
  BY <1>5, <1>6, <1>7 DEF Listing

LEMMA TaggedNewer ==
  ASSUME NEW M, IsFiniteSet(M), Rowlike(M), NEW B, OnceEach(B, M), \A x \in B : x[1] \in Int
  PROVE  LET Comes(x, y) == Newer(x[2], y[2]) \/ (x[2] = y[2] /\ x[1] < y[1])
         IN  Rows(Sorted(B, Comes)) = Newest(M)
<1> DEFINE Comes(x, y) == Newer(x[2], y[2]) \/ (x[2] = y[2] /\ x[1] < y[1])
           s == Sorted(B, Comes)
           T == Tagged(B, NewerOn(M))
           Ahead(r) == Cardinality({x \in B : Comes(x, r)})
<1>1. Orders(NewerOn(M), M) /\ Listing(Newest(M), M, NewerOn(M))
  BY NewestLists
<1>2. IsFiniteSet(B) /\ Cardinality(B) = Cardinality(M) /\ Orders(T, B)
  BY <1>1, TaggedOrder
<1>3. ASSUME NEW r \in B
      PROVE  Ahead(r) = RankIn(r, B, T)
  <2>1. ASSUME NEW x \in B
        PROVE  Comes(x, r) <=> <<x, r>> \in T
    <3>1. x[2] \in M /\ r[2] \in M /\ (x[2] = r[2] => x = r)
      BY DEF OnceEach
    <3>2. <<x, r>> \in T <=> Newer(x[2], r[2])
      BY <3>1 DEF Tagged, NewerOn
    <3>3. x[2] = r[2] => ~Newer(x[2], r[2]) /\ ~(x[1] < r[1])
      <4>1. SUFFICES ASSUME x[2] = r[2] PROVE ~Newer(x[2], r[2]) /\ ~(x[1] < r[1])
        OBVIOUS
      <4>2. x[1] = r[1] /\ x[1] \in Int /\ x[2].time \in Int /\ x[2].id \in Int
        BY <3>1, <4>1 DEF Rowlike
      <4> QED
        BY <4>1, <4>2 DEF Newer
    <3> QED
      BY <3>2, <3>3
  <2> HIDE DEF T, Comes
  <2>2. {x \in B : Comes(x, r)} = {x \in B : <<x, r>> \in T}
    BY <2>1
  <2> QED
    BY <2>2 DEF RankIn
<1>4. s = [i \in 1..Cardinality(B) |-> CHOOSE r \in B : Ahead(r) = i - 1]
  BY DEF Sorted
<1> HIDE DEF s, Ahead, T
<1>5. ASSUME NEW i \in 1..Cardinality(B)
      PROVE  s[i] \in B /\ RankIn(s[i], B, T) = i - 1
  <2>1. i - 1 \in 0..Cardinality(B) - 1
    BY <1>2, FS_CardinalityType
  <2>2. \E r \in B : Ahead(r) = i - 1
    <3>1. PICK r \in B : RankIn(r, B, T) = i - 1
      BY <2>1, <1>2, RankReached
    <3> QED
      BY <3>1, <1>3
  <2>3. s[i] = CHOOSE r \in B : Ahead(r) = i - 1
    BY <1>4
  <2>4. s[i] \in B /\ Ahead(s[i]) = i - 1
    BY <2>2, <2>3, Zenon
  <2> QED
    BY <2>4, <1>3
<1>6. s = [i \in 1..Cardinality(B) |-> s[i]]
  BY <1>4
<1>7. Listing(s, B, T)
  BY <1>2, <1>5, <1>6, RanksList
<1>8. Listing(Rows(s), M, NewerOn(M))
  BY <1>1, <1>7, TaggedRows DEF T
<1>9. Rows(s) = Newest(M)
  BY <1>1, <1>8, OneListing
<1> QED
  BY <1>9 DEF s

LEMMA TaggedOlder ==
  ASSUME NEW M, IsFiniteSet(M), Rowlike(M), NEW B, OnceEach(B, M), \A x \in B : x[1] \in Int
  PROVE  LET Comes(x, y) == Older(x[2], y[2]) \/ (x[2] = y[2] /\ x[1] < y[1])
         IN  Rows(Sorted(B, Comes)) = Sorted(M, Older)
<1> DEFINE Comes(x, y) == Older(x[2], y[2]) \/ (x[2] = y[2] /\ x[1] < y[1])
           s == Sorted(B, Comes)
           T == Tagged(B, OlderOn(M))
           Ahead(r) == Cardinality({x \in B : Comes(x, r)})
<1>1. Orders(OlderOn(M), M) /\ Listing(Sorted(M, Older), M, OlderOn(M))
  BY OlderLists
<1>2. IsFiniteSet(B) /\ Cardinality(B) = Cardinality(M) /\ Orders(T, B)
  BY <1>1, TaggedOrder
<1>3. ASSUME NEW r \in B
      PROVE  Ahead(r) = RankIn(r, B, T)
  <2>1. ASSUME NEW x \in B
        PROVE  Comes(x, r) <=> <<x, r>> \in T
    <3>1. x[2] \in M /\ r[2] \in M /\ (x[2] = r[2] => x = r)
      BY DEF OnceEach
    <3>2. <<x, r>> \in T <=> Older(x[2], r[2])
      BY <3>1 DEF Tagged, OlderOn
    <3>3. x[2] = r[2] => ~Older(x[2], r[2]) /\ ~(x[1] < r[1])
      <4>1. SUFFICES ASSUME x[2] = r[2] PROVE ~Older(x[2], r[2]) /\ ~(x[1] < r[1])
        OBVIOUS
      <4>2. x[1] = r[1] /\ x[1] \in Int /\ x[2].time \in Int /\ x[2].id \in Int
        BY <3>1, <4>1 DEF Rowlike
      <4> QED
        BY <4>1, <4>2 DEF Older
    <3> QED
      BY <3>2, <3>3
  <2> HIDE DEF T, Comes
  <2>2. {x \in B : Comes(x, r)} = {x \in B : <<x, r>> \in T}
    BY <2>1
  <2> QED
    BY <2>2 DEF RankIn
<1>4. s = [i \in 1..Cardinality(B) |-> CHOOSE r \in B : Ahead(r) = i - 1]
  BY DEF Sorted
<1> HIDE DEF s, Ahead, T
<1>5. ASSUME NEW i \in 1..Cardinality(B)
      PROVE  s[i] \in B /\ RankIn(s[i], B, T) = i - 1
  <2>1. i - 1 \in 0..Cardinality(B) - 1
    BY <1>2, FS_CardinalityType
  <2>2. \E r \in B : Ahead(r) = i - 1
    <3>1. PICK r \in B : RankIn(r, B, T) = i - 1
      BY <2>1, <1>2, RankReached
    <3> QED
      BY <3>1, <1>3
  <2>3. s[i] = CHOOSE r \in B : Ahead(r) = i - 1
    BY <1>4
  <2>4. s[i] \in B /\ Ahead(s[i]) = i - 1
    BY <2>2, <2>3, Zenon
  <2> QED
    BY <2>4, <1>3
<1>6. s = [i \in 1..Cardinality(B) |-> s[i]]
  BY <1>4
<1>7. Listing(s, B, T)
  BY <1>2, <1>5, <1>6, RanksList
<1>8. Listing(Rows(s), M, OlderOn(M))
  BY <1>1, <1>7, TaggedRows DEF T
<1>9. Rows(s) = Sorted(M, Older)
  BY <1>1, <1>8, OneListing
<1> QED
  BY <1>9 DEF s

-----------------------------------------------------------------------------
(* The invariant of the table: rows of different ids, each with a sort_seq *)
(* that is its create_time's or one of the two anomalies.                  *)
SeqOf(r) == r.seq \in {NoSeq, 0} \/ \E o \in SeqOffsets : r.seq = r.time * Scale + o

TableInv ==
  /\ IsFiniteSet(table)
  /\ \A r \in table :
       /\ r.id \in 1..Cardinality(table) /\ r.time \in Times /\ SeqOf(r)
       /\ r.hit \in Hits /\ (AllowBad = FALSE => r.ok)
  /\ \A x, y \in table : x.id = y.id => x = y

LEMMA TableInitInv == TableInit => TableInv
BY FS_EmptySet DEF TableInit, TableInv

LEMMA TableStep == TableInv /\ [TableNext]_rowVars => TableInv'
<1> SUFFICES ASSUME TableInv, [TableNext]_rowVars PROVE TableInv'
  OBVIOUS
<1>1. CASE UNCHANGED rowVars
  BY <1>1 DEF rowVars, TableInv
<1>2. CASE TableNext
  <2>1. PICK t \in Times, y \in Types, h \in Hits, b \in {TRUE, ~AllowBad} :
          \E s \in {NoSeq, 0} \cup {t * Scale + o : o \in SeqOffsets} : Arrive(t, s, y, h, b)
    BY <1>2 DEF TableNext
  <2>2. PICK s \in {NoSeq, 0} \cup {t * Scale + o : o \in SeqOffsets} : Arrive(t, s, y, h, b)
    BY <2>1
  <2> DEFINE n == Cardinality(table)
             m == [id |-> n + 1, time |-> t, seq |-> s, type |-> y, hit |-> h, ok |-> b]
  <2>3. table' = table \cup {m} /\ UNCHANGED indexed
    BY <2>2 DEF Arrive
  <2>4. n \in Nat /\ IsFiniteSet(table)
    BY FS_CardinalityType DEF TableInv
  <2>5. m.id = n + 1 /\ m.time = t /\ m.seq = s /\ m.hit = h /\ m.ok = b
    OBVIOUS
  <2>6. SeqOf(m)
    BY <2>5 DEF SeqOf
  <2>7. AllowBad = FALSE => m.ok
    <3>1. AllowBad = FALSE => b = TRUE
      BY Zenon
    <3> QED
      BY <2>5, <3>1
  <2> HIDE DEF m
  <2>8. \A r \in table : r.id \in 1..n /\ r.id # m.id
    BY <2>4, <2>5 DEF TableInv
  <2>9. IsFiniteSet(table') /\ Cardinality(table') = n + 1
    <3>1. m \notin table
      BY <2>8
    <3> QED
      BY <2>3, <2>4, <3>1, FS_AddElement
  <2>10. ASSUME NEW r \in table'
         PROVE  /\ r.id \in 1..n + 1 /\ r.time \in Times /\ SeqOf(r)
                /\ r.hit \in Hits /\ (AllowBad = FALSE => r.ok)
    <3>1. CASE r \in table
      <4>1. r.id \in 1..n + 1
        BY <2>4, <2>8, <3>1
      <4> QED
        BY <3>1, <4>1 DEF TableInv
    <3>2. CASE r = m
      BY <2>1, <2>4, <2>5, <2>6, <2>7, <3>2
    <3> QED
      BY <2>3, <3>1, <3>2
  <2>11. \A x, z \in table' : x.id = z.id => x = z
    <3>1. \A x, z \in table : x.id = z.id => x = z
      BY DEF TableInv
    <3> QED
      BY <2>3, <2>8, <3>1
  <2> QED
    BY <2>9, <2>10, <2>11 DEF TableInv
<1> QED
  BY <1>1, <1>2

LEMMA RowTypes ==
  ASSUME TableInv, NEW r \in table
  PROVE  /\ r.id \in Nat /\ r.time \in Int /\ r.time \in Times
         /\ HasSeq(r) => r.seq \in Int
         /\ HasSeq(r) /\ r.seq > 0 => \E o \in SeqOffsets : r.seq = r.time * Scale + o
<1>1. r.id \in 1..Cardinality(table) /\ r.time \in Times /\ SeqOf(r)
  BY DEF TableInv
<1>2. Cardinality(table) \in Nat
  BY FS_CardinalityType DEF TableInv
<1>3. /\ Times \subseteq Int /\ SeqOffsets \subseteq Nat /\ Scale \in Nat
  BY MsgRowsAssumption
<1>4. r.id \in Nat /\ r.time \in Int
  <2>1. r.id \in Nat
    <3> DEFINE n == Cardinality(table)
    <3> HIDE DEF n
    <3>1. r.id \in 1..n /\ n \in Nat
      BY <1>1, <1>2 DEF n
    <3> QED
      BY <3>1
  <2>2. r.time \in Int
    BY <1>1, <1>3
  <2> QED
    BY <2>1, <2>2
<1>5. \A o \in SeqOffsets : r.time * Scale + o \in Int
  BY <1>3, <1>4
<1> QED
  BY <1>1, <1>4, <1>5 DEF SeqOf, HasSeq

LEMMA PartOfTable ==
  ASSUME TableInv, NEW S, S \subseteq table
  PROVE  IsFiniteSet(S) /\ Rowlike(S)
<1>1. IsFiniteSet(S)
  BY FS_Subset DEF TableInv
<1>2. \A x, y \in S : x.id = y.id => x = y
  BY DEF TableInv
<1>3. \A r \in S : r.id \in Int /\ r.time \in Int
  BY RowTypes
<1> QED
  BY <1>1, <1>2, <1>3 DEF Rowlike

LEMMA NoneDropped ==
  ASSUME TableInv, AllowBad = FALSE, NEW s \in Seq(table)
  PROVE  Mapped(s) = s
<1>1. \A r \in table : r.ok
  BY DEF TableInv
<1> QED
  BY <1>1, AllMapped

LEMMA WindowMapped ==
  ASSUME TableInv, AllowBad = FALSE, NEW s \in Seq(table), NEW o \in Nat, NEW n \in Nat
  PROVE  Mapped(Window(s, o, n)) = Window(s, o, n) /\ Window(s, o, n) \in Seq(table)
<1>1. Window(s, o, n) \in Seq(table)
  BY WindowIs
<1> QED
  BY <1>1, NoneDropped

LEMMA Grows ==
  ASSUME NEW a \in Int, NEW b \in Int, a <= b
  PROVE  a * Scale <= b * Scale /\ a * Scale \in Int /\ b * Scale \in Int
<1>1. Scale \in Nat
  BY MsgRowsAssumption
<1>2. \A k \in Nat : k * Scale \in Nat
  BY <1>1
<1>3. b - a \in Nat /\ (b - a) * Scale \in Nat
  BY <1>2
<1>4. (b - a) * Scale = b * Scale - a * Scale
  BY <1>1
<1> QED
  BY <1>1, <1>3, <1>4

\* The three branches together have each row that can be asked for, once.
LEMMA UnionOnce ==
  ASSUME TableInv, NEW floor \in Int, floor >= 1, NEW M, M \subseteq table,
         \A r \in M : HasSeq(r) /\ r.seq > 0 => r.seq >= floor
  PROVE  LET B == {x \in Union(floor) : x[2] \in M}
         IN  OnceEach(B, M) /\ \A x \in B : x[1] \in Int
<1> DEFINE B == {x \in Union(floor) : x[2] \in M}
<1>1. \A r \in table : HasSeq(r) => r.seq \in Int
  BY RowTypes
<1>2. \A x \in Union(floor) : /\ x = <<x[1], x[2]>> /\ x[1] \in {1, 2, 3} /\ x[2] \in table
                              /\ x[1] = 1 <=> HasSeq(x[2]) /\ x[2].seq >= floor
                              /\ x[1] = 2 <=> ~HasSeq(x[2])
  <2> TAKE x \in Union(floor)
  <2>1. CASE x \in {1} \X FromIndex(floor)
    BY <2>1 DEF FromIndex
  <2>2. CASE x \in {2} \X WithoutSeq
    BY <2>2 DEF WithoutSeq
  <2>3. CASE x \in {3} \X NotPositive
    <3>1. x = <<x[1], x[2]>> /\ x[1] = 3 /\ x[2] \in table /\ HasSeq(x[2]) /\ x[2].seq <= 0
      BY <2>3 DEF NotPositive
    <3> QED
      BY <3>1, <1>1
  <2> QED
    BY <2>1, <2>2, <2>3 DEF Union
<1>3. \A x, y \in B : x[2] = y[2] => x = y
  <2> SUFFICES ASSUME NEW x \in B, NEW y \in B, x[2] = y[2] PROVE x = y
    OBVIOUS
  <2>1. x[1] = y[1]
    BY <1>2
  <2> QED
    BY <1>2, <2>1
<1>4. \A r \in M : \E x \in B : x[2] = r
  <2> SUFFICES ASSUME NEW r \in M PROVE \E x \in B : x[2] = r
    OBVIOUS
  <2>1. CASE ~HasSeq(r)
    <3>1. <<2, r>> \in Union(floor) /\ <<2, r>>[2] = r
      BY <2>1 DEF Union, WithoutSeq
    <3> QED
      BY <3>1
  <2>2. CASE HasSeq(r) /\ r.seq > 0
    <3>1. <<1, r>> \in Union(floor) /\ <<1, r>>[2] = r
      BY <2>2 DEF Union, FromIndex
    <3> QED
      BY <3>1
  <2>3. CASE HasSeq(r) /\ ~(r.seq > 0)
    <3>1. r.seq <= 0
      BY <1>1, <2>3
    <3>2. <<3, r>> \in Union(floor) /\ <<3, r>>[2] = r
      BY <2>3, <3>1 DEF Union, NotPositive
    <3> QED
      BY <3>2
  <2> QED
    BY <2>1, <2>2, <2>3
<1>5. \A x \in B : x[2] \in M /\ x[1] \in Int
  BY <1>2
<1> QED
  BY <1>3, <1>4, <1>5 DEF OnceEach

\* A row of time t or later is not below the floor of t.
LEMMA AboveFloor ==
  ASSUME TableInv, NEW r \in table, HasSeq(r), r.seq > 0, NEW t \in Int, t <= r.time,
         NEW floor \in Int, floor <= t * Scale
  PROVE  r.seq >= floor
<1>1. r.time \in Int
  BY RowTypes
<1>3. PICK o \in SeqOffsets : r.seq = r.time * Scale + o
  BY RowTypes
<1>4. o \in Nat
  BY MsgRowsAssumption
<1> QED
  BY <1>1, <1>3, <1>4, Grows

LEMMA Floors ==
  ASSUME NEW t \in Int, t > 0
  PROVE  FloorGe(t) \in Int /\ FloorGe(t) >= 1 /\ FloorGe(t) <= t * Scale
<1>1. Scale \in Nat \ {0} /\ MaxInt \in Nat \ {0}
  BY MsgRowsAssumption
<1>2. 1 * Scale <= t * Scale /\ t * Scale \in Int
  BY Grows
<1> QED
  BY <1>1, <1>2 DEF FloorGe, Least

LEMMA FullScanIs ==
  ASSUME TableInv, AllowBad = FALSE, NEW q, q.offset \in Nat, q.limit \in Nat
  PROVE  LET M == {r \in table : Matches(r, q)}
         IN  /\ Orders(NewerOn(M), M) /\ Listing(Newest(M), M, NewerOn(M)) /\ IsFiniteSet(M)
             /\ Newest(M) \in Seq(table)
             /\ FullScan(q) = Window(Newest(M), q.offset, q.limit)
<1> DEFINE M == {r \in table : Matches(r, q)}
<1>1. M \subseteq table
  OBVIOUS
<1> HIDE DEF M
<1>2. IsFiniteSet(M) /\ Rowlike(M)
  BY <1>1, PartOfTable
<1>3. Orders(NewerOn(M), M) /\ Listing(Newest(M), M, NewerOn(M))
  BY <1>2, NewestLists
<1>4. Newest(M) \in Seq(table)
  <2>1. Newest(M) \in Seq(M)
    BY <1>2, <1>3, ListingSeq
  <2> QED
    BY <1>1, <2>1
<1>5. FullScan(q) = Window(Newest(M), q.offset, q.limit)
  <2>1. FullScan(q) = Mapped(Window(Newest(M), q.offset, q.limit))
    BY DEF FullScan, M
  <2> QED
    BY <2>1, <1>4, WindowMapped
<1> QED
  BY <1>2, <1>3, <1>4, <1>5 DEF M

LEMMA SinceExact ==
  ASSUME TableInv, AllowBad = FALSE, NEW q, q.since \in Int, q.since > 0,
         q.offset \in Nat, q.limit \in Nat
  PROVE  SinceScan(q) = FullScan(q)
<1> DEFINE M == {r \in table : Matches(r, q)}
           floor == FloorGe(q.since)
           B == {x \in Union(floor) : x[2] \in M}
           Comes(x, y) == Newer(x[2], y[2]) \/ (x[2] = y[2] /\ x[1] < y[1])
<1>1. floor \in Int /\ floor >= 1 /\ floor <= q.since * Scale
  BY Floors
<1>2. \A r \in M : HasSeq(r) /\ r.seq > 0 => r.seq >= floor
  <2> SUFFICES ASSUME NEW r \in M, HasSeq(r), r.seq > 0 PROVE r.seq >= floor
    OBVIOUS
  <2>1. q.since <= r.time
    <3>1. q.since # Absent /\ r.time \in Int
      BY MsgRowsAssumption, RowTypes
    <3> QED
      BY <3>1 DEF Matches, Bounded
  <2> HIDE DEF floor
  <2> QED
    BY <2>1, <1>1, AboveFloor
<1>3. M \subseteq table /\ IsFiniteSet(M) /\ Rowlike(M)
  BY PartOfTable
<1>4. OnceEach(B, M) /\ \A x \in B : x[1] \in Int
  <2> HIDE DEF M, floor
  <2> QED
    BY <1>1, <1>2, <1>3, UnionOnce
<1>5. Rows(Sorted(B, Comes)) = Newest(M)
  <2> HIDE DEF M, B
  <2> QED
    BY <1>3, <1>4, TaggedNewer
<1>6. {x \in Union(floor) : Matches(x[2], q)} = B
  BY DEF Union, FromIndex, WithoutSeq, NotPositive
<1>7. SinceScan(q) = Mapped(Window(Rows(Sorted({x \in Union(floor) : Matches(x[2], q)}, Comes)),
                                   q.offset, q.limit))
  BY DEF SinceScan
<1>8. SinceScan(q) = Mapped(Window(Newest(M), q.offset, q.limit))
  BY <1>5, <1>6, <1>7
<1> QED
  BY <1>8 DEF FullScan

-----------------------------------------------------------------------------
(* The newest rows: those of a part stand for those of the whole.          *)
LEMMA NewestTimes ==
  ASSUME NEW S, IsFiniteSet(S), Rowlike(S),
         NEW i \in 1..Cardinality(S), NEW j \in 1..Cardinality(S), i <= j
  PROVE  /\ Newest(S)[i] \in S /\ Newest(S)[j] \in S
         /\ Newest(S)[j].time <= Newest(S)[i].time
<1>1. Listing(Newest(S), S, NewerOn(S))
  BY NewestLists
<1>2. Newest(S)[i] \in S /\ Newest(S)[j] \in S
  BY <1>1 DEF Listing
<1>3. i < j => Newer(Newest(S)[i], Newest(S)[j])
  <2>1. i < j => <<Newest(S)[i], Newest(S)[j]>> \in NewerOn(S)
    BY <1>1 DEF Listing
  <2> QED
    BY <2>1 DEF NewerOn
<1>4. Cardinality(S) \in Nat
  BY FS_CardinalityType
<1>5. CASE i < j
  BY <1>2, <1>3, <1>5 DEF Newer, Rowlike
<1>6. CASE i = j
  BY <1>2, <1>6 DEF Rowlike
<1> QED
  BY <1>4, <1>5, <1>6

\* No i rows are newer than the i-th.
LEMMA FewNewer ==
  ASSUME NEW S, IsFiniteSet(S), Rowlike(S), NEW i \in 1..Cardinality(S),
         NEW T, T \subseteq S, Cardinality(T) >= i, \A r \in T : r.time > Newest(S)[i].time
  PROVE  FALSE
<1> DEFINE s == Newest(S)
           F == {s[k] : k \in 1..i - 1}
<1>0. Cardinality(S) \in Nat
  BY FS_CardinalityType
<1>1. Orders(NewerOn(S), S) /\ Listing(s, S, NewerOn(S))
  BY NewestLists
<1>2. T \subseteq F
  <2> SUFFICES ASSUME NEW r \in T PROVE r \in F
    OBVIOUS
  <2>1. PICK k \in 1..Cardinality(S) : s[k] = r
    BY <1>1 DEF Listing
  <2>2. ~(i <= k)
    <3>1. i <= k => s[k].time <= s[i].time /\ s[i] \in S
      BY NewestTimes
    <3>2. r.time > s[i].time /\ r.time \in Int
      BY DEF Rowlike
    <3>3. i <= k => s[i].time \in Int
      BY <3>1 DEF Rowlike
    <3> QED
      BY <2>1, <3>1, <3>2, <3>3
  <2> QED
    BY <1>0, <2>1, <2>2
<1>3. IsFiniteSet(F) /\ Cardinality(F) = i - 1
  <2>1. i - 1 \in 0..Cardinality(S)
    BY <1>0
  <2> HIDE DEF s
  <2> QED
    BY <1>1, <2>1, FirstOnes
<1>4. Cardinality(T) <= i - 1 /\ Cardinality(T) \in Nat
  <2> HIDE DEF F
  <2> QED
    BY <1>2, <1>3, FS_Subset, FS_CardinalityType
<1> QED
  BY <1>0, <1>4

\* The first ones of a part have the times of the first ones of the whole, if nothing outside
\* of the part is newer than the last of them.
LEMMA SameTimes ==
  ASSUME NEW M, IsFiniteSet(M), Rowlike(M), NEW C, C \subseteq M, NEW need \in 1..Cardinality(C),
         \A r \in M \ C : r.time <= Newest(C)[need].time
  PROVE  /\ need <= Cardinality(M)
         /\ \A i \in 1..need : Newest(M)[i].time = Newest(C)[i].time
<1> DEFINE a == Newest(M)
           c == Newest(C)
<1>1. IsFiniteSet(C) /\ Cardinality(C) <= Cardinality(M) /\ Cardinality(C) \in Nat
      /\ Cardinality(M) \in Nat /\ Rowlike(C)
  BY FS_Subset, FS_CardinalityType DEF Rowlike
<1>2. /\ Orders(NewerOn(M), M) /\ Listing(a, M, NewerOn(M))
      /\ Orders(NewerOn(C), C) /\ Listing(c, C, NewerOn(C))
  BY <1>1, NewestLists
<1>3. need <= Cardinality(M)
  BY <1>1
<1>4. ASSUME NEW i \in 1..need
      PROVE  a[i].time = c[i].time
  <2>0. i \in 1..Cardinality(M) /\ i \in 1..Cardinality(C) /\ i \in 0..Cardinality(M)
        /\ i \in 0..Cardinality(C) /\ i <= need
    BY <1>1
  <2>1. a[i] \in M /\ c[i] \in C /\ a[i].time \in Int /\ c[i].time \in Int
    BY <2>0, <1>2 DEF Listing, Rowlike
  <2>2. ~(c[i].time > a[i].time)
    <3> SUFFICES ASSUME c[i].time > a[i].time PROVE FALSE
      OBVIOUS
    <3> DEFINE T == {c[k] : k \in 1..i}
    <3>1. Cardinality(T) = i
      <4>1. IsFiniteSet(C) /\ Orders(NewerOn(C), C) /\ Listing(c, C, NewerOn(C)) /\ i \in 0..Cardinality(C)
        BY <1>1, <1>2, <2>0
      <4> HIDE DEF c
      <4> QED
        BY <4>1, FirstOnes
    <3>2. ASSUME NEW k \in 1..i
          PROVE  c[k] \in M /\ c[k].time > a[i].time
      <4>1. k \in 1..Cardinality(C) /\ k <= i
        BY <2>0, <1>1
      <4>2. c[i].time <= c[k].time /\ c[k] \in C
        BY <4>1, <2>0, <1>1, NewestTimes
      <4>3. c[k].time \in Int
        BY <4>2 DEF Rowlike
      <4> QED
        BY <4>2, <4>3, <2>1
    <3>3. T \subseteq M /\ (\A r \in T : r.time > a[i].time) /\ Cardinality(T) >= i
      BY <3>1, <3>2
    <3> HIDE DEF T
    <3> QED
      BY <3>3, <2>0, FewNewer
  <2>3. ~(a[i].time > c[i].time)
    <3> SUFFICES ASSUME a[i].time > c[i].time PROVE FALSE
      OBVIOUS
    <3> DEFINE T == {a[k] : k \in 1..i}
    <3>1. Cardinality(T) = i
      <4>1. IsFiniteSet(M) /\ Orders(NewerOn(M), M) /\ Listing(a, M, NewerOn(M)) /\ i \in 0..Cardinality(M)
        BY <1>2, <2>0
      <4> HIDE DEF a
      <4> QED
        BY <4>1, FirstOnes
    <3>2. ASSUME NEW k \in 1..i
          PROVE  a[k] \in C /\ a[k].time > c[i].time
      <4>1. k \in 1..Cardinality(M) /\ k <= i
        BY <2>0, <1>1
      <4>2. a[i].time <= a[k].time /\ a[k] \in M
        BY <4>1, <2>0, <1>1, NewestTimes
      <4>3. a[k].time \in Int
        BY <4>2 DEF Rowlike
      <4>4. a[k].time > c[i].time
        BY <4>2, <4>3, <2>1
      <4>5. c[need].time <= c[i].time /\ c[need] \in C
        BY <2>0, <1>1, NewestTimes
      <4>6. c[need].time \in Int
        BY <4>5 DEF Rowlike
      <4>7. a[k] \in C
        <5>1. a[k] \notin C => a[k].time <= c[need].time
          BY <4>2
        <5> QED
          BY <5>1, <4>3, <4>4, <4>5, <4>6, <2>1
      <4> QED
        BY <4>4, <4>7
    <3>3. T \subseteq C /\ (\A r \in T : r.time > c[i].time) /\ Cardinality(T) >= i
      BY <3>1, <3>2
    <3> HIDE DEF T
    <3> QED
      BY <3>3, <2>0, <1>1, FewNewer
  <2> QED
    BY <2>1, <2>2, <2>3
<1> QED
  BY <1>3, <1>4

\* A page of a listing has no row twice.
LEMMA WindowOnce ==
  ASSUME NEW S, IsFiniteSet(S), NEW R, Orders(R, S), NEW s, Listing(s, S, R),
         NEW o \in Nat, NEW n \in Nat
  PROVE  /\ Cardinality(Elements(Window(s, o, n))) = Len(Window(s, o, n))
         /\ Elements(Window(s, o, n)) \subseteq S
         /\ \A i, j \in 1..Len(Window(s, o, n)) :
               Window(s, o, n)[i] = Window(s, o, n)[j] => i = j
<1> DEFINE w == Window(s, o, n)
<1>1. s \in Seq(S) /\ Len(s) = Cardinality(S)
  BY ListingSeq
<1>2. /\ w \in Seq(S)
      /\ \A i \in 1..Len(w) : w[i] = s[o + i] /\ o + i \in 1..Len(s)
  BY <1>1, WindowIs
<1> HIDE DEF w
<1>3. \A i, j \in 1..Len(w) : w[i] = w[j] => i = j
  <2> SUFFICES ASSUME NEW i \in 1..Len(w), NEW j \in 1..Len(w), w[i] = w[j] PROVE i = j
    OBVIOUS
  <2>1. s[o + i] = s[o + j] /\ o + i \in 1..Cardinality(S) /\ o + j \in 1..Cardinality(S)
    BY <1>1, <1>2
  <2>2. o + i = o + j
    BY <2>1, ListingOnce
  <2> QED
    BY <2>2
<1>4. Len(w) \in Nat /\ DOMAIN w = 1..Len(w)
  BY <1>2
<1>5. w \in Bijection(1..Len(w), Elements(w))
  <2>1. w \in [1..Len(w) -> Elements(w)] /\ \A e \in Elements(w) : \E i \in 1..Len(w) : w[i] = e
    BY <1>2, <1>4 DEF Elements
  <2> QED
    BY <2>1, <1>3 DEF Bijection, Injection, Surjection, IsInjective
<1>6. ExistsBijection(1..Len(w), Elements(w))
  BY <1>5 DEF ExistsBijection
<1>7. Cardinality(Elements(w)) = Len(w)
  BY <1>4, <1>6, FS_CountingElements
<1>8. Elements(w) \subseteq S
  BY <1>2, <1>4 DEF Elements
<1> QED
  BY <1>3, <1>7, <1>8 DEF w

\* Dropping rows leaves none twice.
LEMMA MappedOnce ==
  ASSUME NEW E, NEW s \in Seq(E), \A i, j \in 1..Len(s) : s[i] = s[j] => i = j
  PROVE  /\ Cardinality(Elements(Mapped(s))) = Len(Mapped(s))
         /\ Elements(Mapped(s)) \subseteq Elements(s)
<1> DEFINE K == {i \in 1..Len(s) : s[i].ok}
           kept == Sorted(K, LAMBDA i, j : i < j)
           w == Mapped(s)
<1>1. Len(s) \in Nat /\ DOMAIN s = 1..Len(s)
  OBVIOUS
<1>2. IsFiniteSet(K) /\ K \subseteq Int /\ K \subseteq 1..Len(s)
  <2> DEFINE Z == 1..Len(s)
  <2>1. K \in SUBSET Z /\ IsFiniteSet(Z) /\ Z \subseteq Int
    BY <1>1, FS_Interval
  <2> HIDE DEF K, Z
  <2>2. IsFiniteSet(K)
    BY <2>1, FS_Subset
  <2>3. K \subseteq Int /\ K \subseteq Z
    BY <2>1
  <2> QED
    BY <2>2, <2>3 DEF Z
<1>3. w = [k \in 1..Len(kept) |-> s[kept[k]]]
  BY DEF Mapped, Only
<1> HIDE DEF K, kept, w
<1>4. Orders(Below(K), K) /\ Listing(kept, K, Below(K))
  BY <1>2, BelowLists DEF kept
<1>5. Len(kept) = Cardinality(K) /\ Cardinality(K) \in Nat
  BY <1>2, <1>4, ListingSeq
<1>6. \A k \in 1..Len(kept) : kept[k] \in 1..Len(s)
  BY <1>2, <1>4, <1>5 DEF Listing
<1>7. Len(w) = Len(kept) /\ DOMAIN w = 1..Len(w) /\ Len(w) \in Nat
      /\ \A k \in 1..Len(w) : w[k] = s[kept[k]]
  BY <1>3, <1>5
<1>8. \A k, l \in 1..Len(w) : w[k] = w[l] => k = l
  <2> SUFFICES ASSUME NEW k \in 1..Len(w), NEW l \in 1..Len(w), w[k] = w[l] PROVE k = l
    OBVIOUS
  <2>1. kept[k] = kept[l]
    BY <1>6, <1>7
  <2>2. k \in 1..Cardinality(K) /\ l \in 1..Cardinality(K)
    BY <1>5, <1>7
  <2> QED
    BY <2>1, <2>2, <1>2, <1>4, ListingOnce
<1>9. w \in Bijection(1..Len(w), Elements(w))
  <2>1. w \in [1..Len(w) -> Elements(w)] /\ \A e \in Elements(w) : \E i \in 1..Len(w) : w[i] = e
    <3>1. w = [k \in 1..Len(w) |-> w[k]]
      BY <1>3, <1>7
    <3> QED
      BY <3>1, <1>7 DEF Elements
  <2> QED
    BY <2>1, <1>8 DEF Bijection, Injection, Surjection, IsInjective
<1>10. ExistsBijection(1..Len(w), Elements(w))
  BY <1>9 DEF ExistsBijection
<1>11. Cardinality(Elements(w)) = Len(w)
  BY <1>7, <1>10, FS_CountingElements
<1>12. Elements(w) \subseteq Elements(s)
  BY <1>1, <1>6, <1>7 DEF Elements
<1> QED
  BY <1>11, <1>12 DEF w

\* LIMIT m without OFFSET: fewer than m rows are all of them.
LEMMA FirstPage ==
  ASSUME NEW S, IsFiniteSet(S), NEW R, NEW s, Listing(s, S, R), NEW m \in Nat
  PROVE  /\ Len(Window(s, 0, m)) = Least(Cardinality(S), m)
         /\ \A i \in 1..Len(Window(s, 0, m)) : Window(s, 0, m)[i] = s[i]
         /\ Elements(Window(s, 0, m)) \subseteq S
         /\ Len(Window(s, 0, m)) < m => Elements(Window(s, 0, m)) = S
<1> DEFINE w == Window(s, 0, m)
<1>1. s \in Seq(S) /\ Len(s) = Cardinality(S) /\ Cardinality(S) \in Nat
  BY ListingSeq
<1>2. /\ w \in Seq(S)
      /\ Len(w) = IF 0 < Least(Len(s), 0 + m) THEN Least(Len(s), 0 + m) - 0 ELSE 0
      /\ \A i \in 1..Len(w) : w[i] = s[0 + i] /\ 0 + i \in 1..Len(s)
  BY <1>1, WindowIs
<1> HIDE DEF w
<1>3. Len(w) = Least(Cardinality(S), m)
  BY <1>1, <1>2 DEF Least
<1>4. \A i \in 1..Len(w) : w[i] = s[i]
  BY <1>2
<1>5. DOMAIN w = 1..Len(w)
  BY <1>2
<1>6. Elements(w) \subseteq S
  BY <1>2, <1>5 DEF Elements
<1>7. ASSUME Len(w) < m
      PROVE  S \subseteq Elements(w)
  <2>1. Len(w) = Cardinality(S)
    BY <1>1, <1>3, <1>7 DEF Least
  <2>2. \A r \in S : \E i \in 1..Cardinality(S) : s[i] = r
    BY DEF Listing
  <2> QED
    BY <2>1, <2>2, <1>4, <1>5 DEF Elements
<1> QED
  BY <1>3, <1>4, <1>6, <1>7 DEF w

-----------------------------------------------------------------------------
(* TopN: rows read by the index, and both anomalies.  A row left unread    *)
(* has a sort_seq not above the last one read, so a create_time not above  *)
(* the last one's divided by Scale; if as many rows as are needed are not  *)
(* older than that, none of the unread ones belongs to the page, except in *)
(* place of a row of the same second.                                      *)
LEMMA QuotientOf ==
  ASSUME NEW t \in Int, NEW x \in Int, t * Scale <= x
  PROVE  t <= x \div Scale
<1>1. Scale \in Nat /\ Scale > 0
  BY MsgRowsAssumption
<1> DEFINE d == x \div Scale
<1>2. d \in Int /\ x < (d + 1) * Scale
  BY <1>1
<1> HIDE DEF d
<1>3. ~(d + 1 <= t)
  <2> SUFFICES ASSUME d + 1 <= t PROVE FALSE
    OBVIOUS
  <2>1. (d + 1) * Scale <= t * Scale /\ t * Scale \in Int /\ (d + 1) * Scale \in Int
    BY <1>2, Grows
  <2> QED
    BY <1>2, <2>1
<1> QED
  BY <1>2, <1>3 DEF d

LEMMA ElementsOf ==
  ASSUME NEW E, NEW s \in Seq(E), NEW t \in Seq(E)
  PROVE  Elements(s \o t) = Elements(s) \cup Elements(t)
<1> DEFINE u == s \o t
<1>1. /\ u \in Seq(E) /\ Len(u) = Len(s) + Len(t) /\ Len(s) \in Nat /\ Len(t) \in Nat
      /\ \A i \in 1..Len(u) : u[i] = IF i <= Len(s) THEN s[i] ELSE t[i - Len(s)]
  OBVIOUS
<1> HIDE DEF u
<1>2. DOMAIN u = 1..Len(u) /\ DOMAIN s = 1..Len(s) /\ DOMAIN t = 1..Len(t)
  BY <1>1
<1>3. Elements(u) \subseteq Elements(s) \cup Elements(t)
  <2> SUFFICES ASSUME NEW i \in 1..Len(u)
               PROVE  u[i] \in Elements(s) \cup Elements(t)
    BY <1>2 DEF Elements
  <2>1. CASE i <= Len(s)
    BY <1>1, <1>2, <2>1 DEF Elements
  <2>2. CASE ~(i <= Len(s))
    <3>1. i - Len(s) \in 1..Len(t) /\ u[i] = t[i - Len(s)]
      BY <1>1, <2>2
    <3> QED
      BY <3>1, <1>2 DEF Elements
  <2> QED
    BY <2>1, <2>2
<1>4. Elements(s) \subseteq Elements(u)
  <2> SUFFICES ASSUME NEW i \in 1..Len(s) PROVE s[i] \in Elements(u)
    BY <1>2 DEF Elements
  <2>1. i \in 1..Len(u) /\ u[i] = s[i]
    BY <1>1
  <2> QED
    BY <2>1, <1>2 DEF Elements
<1>5. Elements(t) \subseteq Elements(u)
  <2> SUFFICES ASSUME NEW i \in 1..Len(t) PROVE t[i] \in Elements(u)
    BY <1>2 DEF Elements
  <2> DEFINE k == Len(s) + i
  <2>1. k \in 1..Len(u) /\ ~(k <= Len(s)) /\ k - Len(s) = i
    BY <1>1
  <2> HIDE DEF k
  <2>2. u[k] = t[i]
    BY <1>1, <2>1
  <2> QED
    BY <2>1, <2>2, <1>2 DEF Elements
<1> QED
  BY <1>3, <1>4, <1>5 DEF u

LEMMA ProbedAll ==
  ASSUME TableInv, AllowBad = FALSE, NEW S, S \subseteq table, NEW q, ProbeCap(q) \in Nat
  PROVE  LET P == {r \in S : OfType(r, q)}
         IN  /\ Probed(S, q) \in Seq(table) /\ Elements(Probed(S, q)) \subseteq P
             /\ Len(Probed(S, q)) < ProbeCap(q) => Elements(Probed(S, q)) = P
<1> DEFINE P == {r \in S : OfType(r, q)}
           s == Sorted(P, LAMBDA x, y : x.id < y.id)
           cap == ProbeCap(q)
<1>1. Probed(S, q) = Mapped(Window(s, 0, cap))
  BY DEF Probed
<1>2. P \subseteq table
  OBVIOUS
<1> HIDE DEF P
<1>3. IsFiniteSet(P) /\ Rowlike(P)
  BY <1>2, PartOfTable
<1>4. Listing(s, P, ById(P))
  BY <1>3, IdLists
<1> HIDE DEF s, cap
<1>5. s \in Seq(P)
  BY <1>3, <1>4, ListingSeq
<1>6. s \in Seq(table)
  BY <1>2, <1>5
<1>7. Mapped(Window(s, 0, cap)) = Window(s, 0, cap) /\ Window(s, 0, cap) \in Seq(table)
  BY <1>6, WindowMapped DEF cap
<1>8. /\ Elements(Window(s, 0, cap)) \subseteq P
      /\ Len(Window(s, 0, cap)) < cap => Elements(Window(s, 0, cap)) = P
  BY <1>3, <1>4, FirstPage DEF cap
<1> QED
  BY <1>1, <1>7, <1>8 DEF P, cap

\* What is read by the index, in its order: all of it, or none left out is higher in the
\* order than the last one read.
LEMMA FetchedFirst ==
  ASSUME TableInv, AllowBad = FALSE, NEW q, NEW m \in Nat
  PROVE  LET I == {r \in FromIndex(1) : OfType(r, q)}
             f == Fetched(q, m)
         IN  /\ f \in Seq(table) /\ Elements(f) \subseteq I
             /\ Len(f) < m => Elements(f) = I
             /\ ~(Len(f) < m) /\ m > 0 =>
                  /\ f[Len(f)].seq \in Int
                  /\ \A r \in I \ Elements(f) : r.seq <= f[Len(f)].seq
<1> DEFINE I == {r \in FromIndex(1) : OfType(r, q)}
           s == ByIndex(q)
           f == Fetched(q, m)
<1>1. I \subseteq table /\ \A r \in I : r.seq \in Int
  BY RowTypes DEF FromIndex
<1>2. IsFiniteSet(I) /\ Rowlike(I)
  <2> HIDE DEF I
  <2> QED
    BY <1>1, PartOfTable
<1>3. Listing(s, I, LaterOn(I))
  <2>1. s = Sorted(I, Later)
    BY DEF ByIndex
  <2> HIDE DEF s, I
  <2> QED
    BY <2>1, <1>1, <1>2, LaterLists
<1>4. f = Mapped(Window(s, 0, m))
  BY DEF Fetched
<1> HIDE DEF I, s, f
<1>5. s \in Seq(table) /\ Len(s) = Cardinality(I) /\ Cardinality(I) \in Nat
  <2>1. s \in Seq(I) /\ Len(s) = Cardinality(I) /\ Cardinality(I) \in Nat
    BY <1>2, <1>3, ListingSeq
  <2> QED
    BY <2>1, <1>1
<1>6. f = Window(s, 0, m) /\ f \in Seq(table)
  BY <1>4, <1>5, WindowMapped
<1>7. /\ Len(f) = Least(Cardinality(I), m)
      /\ \A i \in 1..Len(f) : f[i] = s[i]
      /\ Elements(f) \subseteq I
      /\ Len(f) < m => Elements(f) = I
  BY <1>2, <1>3, <1>6, FirstPage
<1>8. ASSUME ~(Len(f) < m), m > 0
      PROVE  f[Len(f)].seq \in Int /\ \A r \in I \ Elements(f) : r.seq <= f[Len(f)].seq
  <2>1. Len(f) = m /\ m <= Cardinality(I)
    BY <1>5, <1>7, <1>8 DEF Least
  <2>2. m \in 1..Cardinality(I) /\ f[m] = s[m] /\ s[m] \in I
    BY <1>3, <1>5, <1>7, <1>8, <2>1 DEF Listing
  <2>3. ASSUME NEW r \in I \ Elements(f)
        PROVE  r.seq <= s[m].seq
    <3>1. PICK k \in 1..Cardinality(I) : s[k] = r
      BY <1>3 DEF Listing
    <3>2. ~(k <= m)
      <4> SUFFICES ASSUME k <= m PROVE FALSE
        OBVIOUS
      <4>1. k \in 1..Len(f) /\ f[k] = r
        BY <1>7, <2>1, <3>1
      <4>2. k \in DOMAIN f
        BY <4>1, <1>6
      <4> QED
        BY <4>1, <4>2 DEF Elements
    <3>3. <<s[m], s[k]>> \in LaterOn(I)
      BY <1>3, <1>5, <2>2, <3>1, <3>2 DEF Listing
    <3>4. Later(s[m], r)
      BY <3>1, <3>3 DEF LaterOn
    <3> QED
      BY <3>4, <2>2, <1>1 DEF Later
  <2> QED
    BY <2>1, <2>2, <2>3, <1>1
<1> QED
  BY <1>6, <1>7, <1>8 DEF I, f

\* An answer accepted by Complete is the scan's.
LEMMA ReadEnough ==
  ASSUME TableInv, AllowBad = FALSE, NEW q, q.since = Absent, q.until = Absent,
         q.offset \in Nat, q.limit \in Nat, Need(q) > 0, ~ProbesOverflow(q),
         NEW m \in Nat, m > 0, Complete(q, m)
  PROVE  LET w == Window(Candidates(q, m), q.offset, q.limit)
         IN  Same(w, FullScan(q)) /\ \A r \in Elements(w) : Matches(r, q)
<1> DEFINE M == {r \in table : Matches(r, q)}
           I == {r \in FromIndex(1) : OfType(r, q)}
           O == {r \in WithoutSeq : OfType(r, q)}
           N == {r \in NotPositive : OfType(r, q)}
           f == Fetched(q, m)
           C == Elements(Probes(q)) \cup Elements(f)
           c == Candidates(q, m)
           a == Newest(M)
           need == q.offset + q.limit
<1>1. need = Need(q) /\ need \in Nat /\ need > 0 /\ ProbeCap(q) \in Nat
  BY MsgRowsAssumption DEF Need, ProbeCap
<1>2. M = {r \in table : OfType(r, q)}
  BY DEF Matches, Bounded
<1>3. M = I \cup O \cup N /\ M \subseteq table /\ I \subseteq M
  <2>1. \A r \in table : HasSeq(r) => r.seq \in Int
    BY RowTypes
  <2> HIDE DEF M
  <2>2. M \subseteq I \cup O \cup N
    <3> SUFFICES ASSUME NEW r \in table, OfType(r, q) PROVE r \in I \cup O \cup N
      BY <1>2
    <3>1. CASE ~HasSeq(r)
      BY <3>1 DEF WithoutSeq
    <3>2. CASE HasSeq(r)
      <4>1. r.seq >= 1 \/ r.seq <= 0
        BY <3>2, <2>1
      <4> QED
        BY <3>2, <4>1 DEF FromIndex, NotPositive
    <3> QED
      BY <3>1, <3>2
  <2> QED
    BY <1>2, <2>2 DEF FromIndex, WithoutSeq, NotPositive
<1>4. Elements(Probes(q)) = O \cup N
  <2>1. WithoutSeq \subseteq table /\ NotPositive \subseteq table
    BY DEF WithoutSeq, NotPositive
  <2>2. /\ Probed(WithoutSeq, q) \in Seq(table) /\ Probed(NotPositive, q) \in Seq(table)
        /\ Len(Probed(WithoutSeq, q)) < ProbeCap(q) => Elements(Probed(WithoutSeq, q)) = O
        /\ Len(Probed(NotPositive, q)) < ProbeCap(q) => Elements(Probed(NotPositive, q)) = N
    BY <1>1, <2>1, ProbedAll
  <2>3. Len(Probed(WithoutSeq, q)) < ProbeCap(q) /\ Len(Probed(NotPositive, q)) < ProbeCap(q)
    <3>1. Len(Probed(WithoutSeq, q)) \in Nat /\ Len(Probed(NotPositive, q)) \in Nat
      BY <2>2
    <3> QED
      BY <1>1, <3>1 DEF ProbesOverflow
  <2>4. Elements(Probes(q)) = Elements(Probed(WithoutSeq, q)) \cup Elements(Probed(NotPositive, q))
    BY <2>2, ElementsOf DEF Probes
  <2> QED
    BY <2>2, <2>3, <2>4
<1>5. /\ f \in Seq(table) /\ Elements(f) \subseteq I
      /\ Len(f) < m => Elements(f) = I
      /\ ~(Len(f) < m) => /\ f[Len(f)].seq \in Int
                          /\ \A r \in I \ Elements(f) : r.seq <= f[Len(f)].seq
  BY FetchedFirst
<1>6. C \subseteq M
  <2> HIDE DEF M, I, O, N, f
  <2> QED
    BY <1>3, <1>4, <1>5
<1>7. c = Newest(C)
  BY DEF Candidates
<1> HIDE DEF c, C
<1>8. /\ IsFiniteSet(M) /\ Rowlike(M) /\ IsFiniteSet(C) /\ Rowlike(C)
      /\ Orders(NewerOn(C), C) /\ Listing(c, C, NewerOn(C))
  <2> HIDE DEF M
  <2>1. C \subseteq table
    BY <1>3, <1>6
  <2> QED
    BY <2>1, <1>3, <1>7, PartOfTable, NewestLists
<1>9. /\ Orders(NewerOn(M), M) /\ Listing(a, M, NewerOn(M))
      /\ FullScan(q) = Window(a, q.offset, q.limit)
  BY FullScanIs
<1> DEFINE w == Window(c, q.offset, q.limit)
           v == Window(a, q.offset, q.limit)
<1>10. Cardinality(Elements(w)) = Len(w) /\ Elements(w) \subseteq C
  <2> HIDE DEF w
  <2> QED
    BY <1>8, WindowOnce DEF w
<1>11. Len(w) = Len(v) /\ \A i \in DOMAIN w : w[i].time = v[i].time
  <2>1. CASE Len(f) < m
    <3>1. C = M
      <4> HIDE DEF M, I, O, N, f
      <4> QED
        BY <2>1, <1>3, <1>4, <1>5 DEF C
    <3>2. w = v
      BY <3>1, <1>7
    <3> QED
      BY <3>2
  <2>2. CASE ~(Len(f) < m)
    <3>1. need <= Len(c) /\ f[Len(f)].seq \div Scale <= c[need].time
      BY <2>2, <1>1 DEF Complete, c
    <3> HIDE DEF a, M, f, O, N
    <3>2. Len(c) = Cardinality(C) /\ Cardinality(C) \in Nat /\ c \in Seq(C)
          /\ Len(a) = Cardinality(M) /\ Cardinality(M) \in Nat /\ a \in Seq(M)
      BY <1>8, <1>9, ListingSeq
    <3>3. need \in 1..Cardinality(C) /\ c[need] \in C /\ c[need].time \in Int
      <4>1. need \in 1..Cardinality(C)
        BY <3>1, <3>2, <1>1
      <4> HIDE DEF need
      <4> QED
        BY <4>1, <1>8 DEF Listing, Rowlike
    <3>4. ASSUME NEW r \in M \ C
          PROVE  r.time <= Newest(C)[need].time
      <4>1. r \in table /\ r \in I /\ r \notin Elements(f)
        <5> HIDE DEF I
        <5> QED
          BY <1>3, <1>4 DEF C
      <4>2. HasSeq(r) /\ r.seq >= 1 /\ r.seq \in Int
        BY <4>1, RowTypes DEF FromIndex
      <4>3. PICK o \in SeqOffsets : r.seq = r.time * Scale + o
        BY <4>1, <4>2, RowTypes
      <4>4. o \in Nat /\ r.time \in Int /\ Scale \in Nat \ {0}
        BY <4>1, RowTypes, MsgRowsAssumption
      <4> DEFINE x == f[Len(f)].seq
      <4>5. x \in Int /\ r.seq <= x
        <5> HIDE DEF I
        <5> QED
          BY <2>2, <4>1, <1>5
      <4> HIDE DEF x
      <4>6. r.time * Scale <= x
        BY <4>2, <4>3, <4>4, <4>5
      <4>7. r.time <= x \div Scale /\ x \div Scale \in Int
        BY <4>4, <4>5, <4>6, QuotientOf
      <4>8. x \div Scale <= c[need].time
        BY <3>1 DEF x
      <4> HIDE DEF need
      <4> QED
        BY <4>4, <4>7, <4>8, <3>3, <1>7
    <3>5. need <= Cardinality(M) /\ \A i \in 1..need : a[i].time = c[i].time
      <4> HIDE DEF need
      <4> QED
        BY <3>3, <3>4, <1>6, <1>7, <1>8, SameTimes DEF a
    <3>6. Len(w) = q.limit /\ Len(v) = q.limit
      <4>1. Least(Len(c), need) = need /\ Least(Len(a), need) = need
        BY <3>1, <3>2, <3>5, <1>1 DEF Least
      <4> QED
        BY <4>1, <3>2, WindowIs
    <3>7. ASSUME NEW i \in 1..q.limit
          PROVE  w[i].time = v[i].time
      <4>1. w[i] = c[q.offset + i] /\ v[i] = a[q.offset + i]
        <5>1. i \in 1..Len(Window(c, q.offset, q.limit)) /\ i \in 1..Len(Window(a, q.offset, q.limit))
          BY <3>6
        <5>2. \A k \in 1..Len(Window(c, q.offset, q.limit)) : w[k] = c[q.offset + k]
          BY <3>2, WindowIs
        <5>3. \A k \in 1..Len(Window(a, q.offset, q.limit)) : v[k] = a[q.offset + k]
          BY <3>2, WindowIs
        <5> QED
          BY <5>1, <5>2, <5>3
      <4>2. q.offset + i \in 1..need
        OBVIOUS
      <4> QED
        BY <4>1, <4>2, <3>5
    <3>8. DOMAIN w = 1..q.limit
      <4>1. w \in Seq(C)
        BY <3>2, WindowIs
      <4> HIDE DEF w
      <4> QED
        BY <4>1, <3>6
    <3> QED
      BY <3>6, <3>7, <3>8
  <2> QED
    BY <2>1, <2>2
<1>12. Same(w, FullScan(q))
  <2> HIDE DEF w, v, a
  <2> QED
    BY <1>9, <1>10, <1>11 DEF Same, v
<1>13. \A r \in Elements(w) : Matches(r, q)
  BY <1>6, <1>10
<1> QED
  BY <1>12, <1>13 DEF c

LEMMA ScanOnce ==
  ASSUME TableInv, AllowBad = FALSE, NEW q, q.offset \in Nat, q.limit \in Nat
  PROVE  Same(FullScan(q), FullScan(q)) /\ \A r \in Elements(FullScan(q)) : Matches(r, q)
<1> DEFINE M == {r \in table : Matches(r, q)}
           w == FullScan(q)
<1>1. /\ Orders(NewerOn(M), M) /\ Listing(Newest(M), M, NewerOn(M)) /\ IsFiniteSet(M)
      /\ w = Window(Newest(M), q.offset, q.limit)
  BY FullScanIs
<1>2. Cardinality(Elements(w)) = Len(w) /\ Elements(w) \subseteq M
  <2> DEFINE s == Newest(M)
  <2>1. IsFiniteSet(M) /\ Orders(NewerOn(M), M) /\ Listing(s, M, NewerOn(M))
        /\ w = Window(s, q.offset, q.limit)
    BY <1>1
  <2> HIDE DEF M, w, s
  <2>2. /\ Cardinality(Elements(Window(s, q.offset, q.limit))) = Len(Window(s, q.offset, q.limit))
        /\ Elements(Window(s, q.offset, q.limit)) \subseteq M
    BY <2>1, WindowOnce
  <2> QED
    BY <2>1, <2>2
<1> QED
  BY <1>2 DEF Same

LEMMA TopNExact ==
  ASSUME TableInv, AllowBad = FALSE, NEW q, q.since = Absent, q.until = Absent,
         q.offset \in Nat, q.limit \in Nat
  PROVE  Same(TopN(q), FullScan(q)) /\ \A r \in Elements(TopN(q)) : Matches(r, q)
<1>1. Need(q) \in Nat /\ Need(q) = q.offset + q.limit
  BY DEF Need
<1>2. CASE Need(q) = 0
  <2> DEFINE M == {r \in table : Matches(r, q)}
  <2>1. q.offset = 0 /\ q.limit = 0
    BY <1>1, <1>2
  <2>2. Newest(M) \in Seq(table) /\ FullScan(q) = Window(Newest(M), 0, 0)
    BY <2>1, FullScanIs
  <2>3. Len(FullScan(q)) = 0
    <3> HIDE DEF M
    <3>1. Len(Window(Newest(M), 0, 0))
            = IF 0 < Least(Len(Newest(M)), 0 + 0) THEN Least(Len(Newest(M)), 0 + 0) - 0 ELSE 0
      BY <2>2, WindowIs
    <3>2. Len(Newest(M)) \in Nat
      BY <2>2
    <3> QED
      BY <2>2, <3>1, <3>2 DEF Least
  <2>4. TopN(q) = <<>>
    BY <1>2 DEF TopN
  <2>5. Len(<<>>) = 0 /\ DOMAIN <<>> = {} /\ Cardinality({}) = 0
    BY FS_EmptySet
  <2>6. Elements(<<>>) = {}
    BY <2>5 DEF Elements
  <2> QED
    BY <2>3, <2>4, <2>5, <2>6 DEF Same
<1>3. CASE Need(q) # 0 /\ ~ProbesOverflow(q) /\ \E m \in ReadCounts(q) : Complete(q, m)
  <2> DEFINE Good(m) == Complete(q, m) /\ \A k \in ReadCounts(q) : Complete(q, k) => m <= k
             e == CHOOSE m \in ReadCounts(q) : Good(m)
             x == Need(q) + Extra
             y == x * Growth
  <2>1. x \in Nat /\ x > 0 /\ y \in Nat /\ y > 0 /\ ReadCounts(q) = {x, y}
    <3>1. Extra \in Nat /\ Growth \in Nat \ {0}
      BY MsgRowsAssumption
    <3>2. x \in Nat /\ x > 0
      BY <1>1, <1>3, <3>1
    <3>3. ReadCounts(q) = {x, y}
      BY DEF ReadCounts
    <3> HIDE DEF x
    <3>4. y \in Nat /\ y > 0
      BY <3>1, <3>2
    <3> QED
      BY <3>2, <3>3, <3>4
  <2> HIDE DEF x, y
  <2>2. \E m \in ReadCounts(q) : Good(m)
    <3>1. x <= y \/ y <= x
      BY <2>1
    <3>2. x <= x /\ y <= y
      BY <2>1
    <3>3. CASE Complete(q, x) /\ (x <= y \/ ~Complete(q, y))
      BY <3>2, <3>3, <2>1
    <3>4. CASE Complete(q, y) /\ (y <= x \/ ~Complete(q, x))
      BY <3>2, <3>4, <2>1
    <3> QED
      BY <1>3, <2>1, <3>1, <3>3, <3>4
  <2> HIDE DEF Good
  <2>3. e \in ReadCounts(q) /\ Good(e)
    BY <2>2, Zenon
  <2>4. TopN(q) = Window(Candidates(q, e), q.offset, q.limit)
    BY <1>3 DEF TopN, Good
  <2> HIDE DEF e
  <2>5. e \in Nat /\ e > 0 /\ Complete(q, e)
    BY <2>1, <2>3 DEF Good
  <2>6. Need(q) > 0
    BY <1>1, <1>3
  <2> QED
    BY <2>4, <2>5, <2>6, <1>3, ReadEnough
<1>4. CASE Need(q) # 0 /\ ~(~ProbesOverflow(q) /\ \E m \in ReadCounts(q) : Complete(q, m))
  <2>1. TopN(q) = FullScan(q)
    BY <1>4 DEF TopN
  <2> QED
    BY <2>1, ScanOnce
<1> QED
  BY <1>2, <1>3, <1>4

LEMMA FetchSame ==
  ASSUME TableInv, AllowBad = FALSE, NEW q \in Query
  PROVE  Same(Fetch(q), FullScan(q)) /\ \A r \in Elements(Fetch(q)) : Matches(r, q)
<1>1. q.offset \in Nat /\ q.limit \in Nat /\ (q.since # Absent => q.since \in Int)
  <2>1. q.since \in Since /\ q.limit \in PageSizes /\ q.offset \in Skips
    BY DEF Query
  <2>2. Times \subseteq Int /\ MaxInt \in Nat /\ PageSizes \subseteq Nat /\ Skips \subseteq Nat
    BY MsgRowsAssumption
  <2>3. q.offset \in Nat /\ q.limit \in Nat
    BY <2>1, <2>2
  <2>4. \A t \in Since : t # Absent => t \in Int
    BY <2>2 DEF Since
  <2> QED
    BY <2>1, <2>3, <2>4
<1>2. CASE ByRange(q)
  <2>1. Fetch(q) = SinceScan(q) /\ q.since # Absent /\ q.since > 0
    <3>1. ~(q.since = Absent /\ q.until = Absent) /\ q.since # Absent /\ q.since > 0
      BY <1>2 DEF ByRange
    <3> QED
      BY <1>2, <3>1, Zenon DEF Fetch
  <2>2. Fetch(q) = FullScan(q)
    BY <2>1, <1>1, SinceExact
  <2> QED
    BY <2>2, <1>1, ScanOnce
<1>3. CASE indexed /\ q.since = Absent /\ q.until = Absent
  <2>1. Fetch(q) = TopN(q)
    BY <1>3 DEF Fetch, ByRange
  <2> QED
    BY <2>1, <1>1, <1>3, TopNExact
<1>4. CASE ~ByRange(q) /\ ~(indexed /\ q.since = Absent /\ q.until = Absent)
  <2>1. Fetch(q) = FullScan(q)
    BY <1>4 DEF Fetch
  <2> QED
    BY <2>1, <1>1, ScanOnce
<1> QED
  BY <1>2, <1>3, <1>4

\* A poll: the rows of later times, the oldest first.
LEMMA PollIsPlain ==
  ASSUME TableInv, NEW t \in Int, NEW n \in Nat
  PROVE  /\ Same(Poll(t, n), PlainPoll(t, n)) /\ \A r \in Elements(Poll(t, n)) : r.time > t
<1> DEFINE M == {r \in table : r.time > t}
           floor == FloorGt(t)
           B == {x \in Union(floor) : x[2] \in M}
           Comes(x, y) == Older(x[2], y[2]) \/ (x[2] = y[2] /\ x[1] < y[1])
           s == Sorted(M, Older)
           w == Window(s, 0, n)
<1>1. M \subseteq table /\ IsFiniteSet(M) /\ Rowlike(M)
  BY PartOfTable
<1>2. Orders(OlderOn(M), M) /\ Listing(s, M, OlderOn(M))
  <2> HIDE DEF M
  <2> QED
    BY <1>1, OlderLists
<1>3. s \in Seq(table)
  <2> HIDE DEF M, s
  <2>1. s \in Seq(M)
    BY <1>1, <1>2, ListingSeq
  <2> QED
    BY <1>1, <2>1
<1>4. PlainPoll(t, n) = Mapped(w)
  BY DEF PlainPoll
<1>5. w \in Seq(table) /\ Elements(w) \subseteq M
      /\ \A i, j \in 1..Len(w) : w[i] = w[j] => i = j
  <2> HIDE DEF M, s
  <2> QED
    BY <1>1, <1>2, <1>3, WindowIs, WindowOnce
<1>6. Cardinality(Elements(Mapped(w))) = Len(Mapped(w)) /\ Elements(Mapped(w)) \subseteq M
  <2> HIDE DEF M, w
  <2>1. /\ Cardinality(Elements(Mapped(w))) = Len(Mapped(w))
        /\ Elements(Mapped(w)) \subseteq Elements(w)
    BY <1>5, MappedOnce
  <2> QED
    BY <2>1, <1>5
<1>7. Poll(t, n) = Mapped(w)
  <2>1. CASE Fast(t, n)
    <3>1. t >= 0
      BY <2>1 DEF Fast
    <3>2. floor \in Int /\ floor >= 1 /\ floor <= (t + 1) * Scale
      <4>1. Scale \in Nat \ {0} /\ MaxInt \in Nat \ {0}
        BY MsgRowsAssumption
      <4>2. 1 * Scale <= (t + 1) * Scale /\ (t + 1) * Scale \in Int
        BY <3>1, Grows
      <4> QED
        BY <4>1, <4>2 DEF FloorGt, Least
    <3>3. \A r \in M : HasSeq(r) /\ r.seq > 0 => r.seq >= floor
      <4> SUFFICES ASSUME NEW r \in M, HasSeq(r), r.seq > 0 PROVE r.seq >= floor
        OBVIOUS
      <4>1. t + 1 <= r.time
        BY RowTypes
      <4> HIDE DEF floor
      <4> QED
        BY <4>1, <3>2, AboveFloor
    <3>4. OnceEach(B, M) /\ \A x \in B : x[1] \in Int
      <4> HIDE DEF M, floor
      <4> QED
        BY <3>2, <3>3, <1>1, UnionOnce
    <3>5. Rows(Sorted(B, Comes)) = s
      <4> HIDE DEF M, B
      <4> QED
        BY <1>1, <3>4, TaggedOlder
    <3>6. {x \in Union(floor) : x[2].time > t} = B
      BY DEF Union, FromIndex, WithoutSeq, NotPositive
    <3>7. Poll(t, n) = Mapped(Window(Rows(Sorted({x \in Union(floor) : x[2].time > t}, Comes)), 0, n))
      BY <2>1 DEF Poll
    <3> HIDE DEF floor, B, s
    <3> QED
      BY <3>5, <3>6, <3>7
  <2>2. CASE ~Fast(t, n)
    BY <2>2, <1>4 DEF Poll
  <2> QED
    BY <2>1, <2>2
<1>8. \A r \in Elements(Mapped(w)) : r.time > t
  <2> HIDE DEF w
  <2> QED
    BY <1>6
<1> HIDE DEF w
<1> QED
  BY <1>4, <1>6, <1>7, <1>8 DEF Same

\* The newest time is that of the first row of a listing.
LEMMA MaximumIs ==
  ASSUME NEW S, IsFiniteSet(S), S # {}, S \subseteq Int
  PROVE  Maximum(S) \in S /\ \A u \in S : u <= Maximum(S)
<1> DEFINE s == Sorted(S, LAMBDA i, j : i < j)
           n == Cardinality(S)
<1>1. n \in Nat \ {0}
  BY FS_CardinalityType, FS_EmptySet
<1>2. Listing(s, S, Below(S))
  BY BelowLists
<1> HIDE DEF s
<1>3. s[n] \in S /\ \A u \in S : u <= s[n]
  <2> HIDE DEF n
  <2>1. Listing(s, S, Below(S)) /\ n = Cardinality(S)
    BY <1>2 DEF n
  <2>2. n \in 1..n /\ s[n] \in S
    BY <1>1, <2>1 DEF Listing
  <2>3. ASSUME NEW u \in S
        PROVE  u <= s[n]
    <3>1. PICK k \in 1..n : s[k] = u
      BY <2>1 DEF Listing
    <3>2. k < n => <<s[k], s[n]>> \in Below(S)
      BY <2>1, <2>2, <3>1 DEF Listing
    <3>3. k < n => u < s[n]
      BY <3>1, <3>2 DEF Below
    <3>4. k = n \/ k < n
      BY <1>1, <3>1
    <3>5. u \in Int /\ s[n] \in Int
      BY <2>2
    <3>6. k = n => u = s[n]
      BY <3>1
    <3> QED
      BY <3>3, <3>4, <3>5, <3>6
  <2> QED
    BY <2>2, <2>3
<1>4. \E t \in S : \A u \in S : u <= t
  BY <1>3
<1>5. Maximum(S) = CHOOSE t \in S : \A u \in S : u <= t
  BY DEF Maximum
<1> QED
  BY <1>4, <1>5, Zenon

LEMMA TimesFinite ==
  ASSUME TableInv, NEW S, S \subseteq table
  PROVE  IsFiniteSet(TimesOf(S)) /\ TimesOf(S) \subseteq Int
<1>1. IsFiniteSet(S)
  BY PartOfTable
<1> DEFINE Z == TimesOf(S)
           f == [r \in S |-> r.time]
<1>2. IsFiniteSet(Z)
  <2>1. f \in [S -> Z] /\ \A z \in Z : \E r \in S : f[r] = z
    BY DEF TimesOf
  <2> HIDE DEF f, Z
  <2>2. f \in Surjection(S, Z)
    BY <2>1 DEF Surjection
  <2> QED
    BY <2>2, <1>1, FS_Surjection
<1> QED
  BY <1>2, RowTypes DEF TimesOf

LEMMA MaxBounds ==
  ASSUME TableInv, table # {}
  PROVE  LET exact == Maximum(TimesOf(table))
         IN  /\ MaxCreateTime # Absent /\ MaxCreateTime <= exact
             /\ \E o \in SeqOffsets : MaxCreateTime * Scale + o >= exact * Scale
<1> DEFINE Z == TimesOf(table)
           exact == Maximum(Z)
           H == {r \in table : HasSeq(r)}
           main == Sorted(H, Later)
           F == {main[i].time : i \in 1..Least(1, Len(main))}
           X == F \cup TimesOf(WithoutSeq) \cup TimesOf(NotPositive)
           max == Maximum(X)
<1>1. IsFiniteSet(Z) /\ Z \subseteq Int /\ Z # {}
  <2>1. Z # {}
    BY DEF TimesOf
  <2> HIDE DEF Z
  <2> QED
    BY <2>1, TimesFinite DEF Z
<1>2. exact \in Z /\ \A u \in Z : u <= exact
  <2> HIDE DEF Z
  <2> QED
    BY <1>1, MaximumIs
<1>3. /\ Absent \notin Int /\ SeqOffsets # {} /\ SeqOffsets \subseteq Nat /\ Scale \in Nat
  BY MsgRowsAssumption
<1>4. exact \in Int /\ exact * Scale \in Int
  <2> HIDE DEF Z, exact
  <2> QED
    BY <1>1, <1>2, <1>3
<1>5. CASE ~indexed
  <2>1. MaxCreateTime = exact
    BY <1>5 DEF MaxCreateTime
  <2> HIDE DEF exact
  <2>2. PICK o \in SeqOffsets : TRUE
    BY <1>3
  <2>3. o \in Nat /\ exact * Scale + o >= exact * Scale
    BY <2>2, <1>3, <1>4
  <2>4. /\ exact # Absent /\ exact <= exact
        /\ \E p \in SeqOffsets : exact * Scale + p >= exact * Scale
    BY <2>3, <1>3, <1>4
  <2> QED
    BY <2>1, <2>4 DEF exact, Z
<1>6. CASE indexed
  <2>1. MaxCreateTime = max
    BY <1>6 DEF MaxCreateTime
  <2>2. H \subseteq table /\ IsFiniteSet(H) /\ Rowlike(H) /\ \A r \in H : HasSeq(r) /\ r.seq \in Int
    BY PartOfTable, RowTypes
  <2>3. Listing(main, H, LaterOn(H))
    <3> HIDE DEF H
    <3> QED
      BY <2>2, LaterLists
  <2>4. Len(main) = Cardinality(H) /\ Cardinality(H) \in Nat
    <3> HIDE DEF main, H
    <3> QED
      BY <2>2, <2>3, ListingSeq
  <2>5. H # {} => /\ Cardinality(H) >= 1 /\ main[1] \in H /\ F = {main[1].time}
                  /\ \A r \in H : r.seq <= main[1].seq
    <3> SUFFICES ASSUME H # {} PROVE /\ Cardinality(H) >= 1 /\ main[1] \in H /\ F = {main[1].time}
                                     /\ \A r \in H : r.seq <= main[1].seq
      OBVIOUS
    <3> HIDE DEF main, H
    <3>1. Cardinality(H) >= 1
      BY <2>2, <2>4, FS_EmptySet
    <3>2. 1 \in 1..Cardinality(H) /\ main[1] \in H
      BY <2>3, <2>4, <3>1 DEF Listing
    <3>3. Least(1, Len(main)) = 1
      BY <2>4, <3>1 DEF Least
    <3>4. F = {main[1].time}
      BY <3>3
    <3>5. ASSUME NEW r \in H
          PROVE  r.seq <= main[1].seq
      <4>1. PICK k \in 1..Cardinality(H) : main[k] = r
        BY <2>3 DEF Listing
      <4>2. 1 < k => <<main[1], main[k]>> \in LaterOn(H)
        BY <2>3, <3>2 DEF Listing
      <4>3. 1 < k => Later(main[1], r)
        BY <4>1, <4>2 DEF LaterOn
      <4>4. k = 1 \/ 1 < k
        BY <2>4, <4>1
      <4>5. r.seq \in Int /\ main[1].seq \in Int
        BY <2>2, <3>2
      <4>6. k = 1 => r.seq = main[1].seq
        BY <4>1
      <4> QED
        BY <4>3, <4>4, <4>5, <4>6 DEF Later
    <3> QED
      BY <3>1, <3>2, <3>4, <3>5
  <2>6. H = {} => F = {}
    <3> SUFFICES ASSUME H = {} PROVE F = {}
      OBVIOUS
    <3> HIDE DEF main
    <3>1. Cardinality(H) = 0
      <4> HIDE DEF H
      <4> QED
        BY FS_EmptySet
    <3>2. Least(1, Len(main)) = 0
      BY <2>4, <3>1 DEF Least
    <3> QED
      BY <3>2
  <2> HIDE DEF main
  <2>7. X \subseteq Z
    <3>1. F \subseteq Z
      <4>1. H # {} => main[1].time \in Z
        <5>1. H # {} => main[1] \in table
          BY <2>2, <2>5
        <5> QED
          BY <5>1 DEF TimesOf
      <4> HIDE DEF F, H, Z
      <4> QED
        BY <2>5, <2>6, <4>1
    <3>2. TimesOf(WithoutSeq) \subseteq Z /\ TimesOf(NotPositive) \subseteq Z
      BY DEF TimesOf, WithoutSeq, NotPositive
    <3> HIDE DEF F, Z
    <3> QED
      BY <3>1, <3>2
  <2>8. X # {}
    <3>1. PICK r \in table : TRUE
      OBVIOUS
    <3>2. CASE HasSeq(r)
      <4>1. H # {}
        BY <3>2
      <4> HIDE DEF H
      <4> QED
        BY <2>5, <4>1
    <3>3. CASE ~HasSeq(r)
      <4>1. r.time \in TimesOf(WithoutSeq)
        BY <3>3 DEF TimesOf, WithoutSeq
      <4> QED
        BY <4>1
    <3> QED
      BY <3>2, <3>3
  <2>9. max \in X /\ (\A u \in X : u <= max) /\ max \in Int /\ max <= exact
    <3> HIDE DEF X, Z
    <3>1. IsFiniteSet(X) /\ X \subseteq Int
      BY <1>1, <2>7, FS_Subset
    <3>2. max \in X /\ \A u \in X : u <= max
      BY <2>8, <3>1, MaximumIs
    <3> HIDE DEF max, exact
    <3> QED
      BY <1>2, <2>7, <3>1, <3>2
  <2> HIDE DEF max, exact
  <2>10. \E o \in SeqOffsets : max * Scale + o >= exact * Scale
    <3>1. PICK r \in table : r.time = exact
      BY <1>2 DEF TimesOf
    <3>2. CASE ~HasSeq(r) \/ r.seq <= 0
      <4>1. exact \in TimesOf(WithoutSeq) \cup TimesOf(NotPositive)
        BY <3>1, <3>2 DEF TimesOf, WithoutSeq, NotPositive
      <4>2. exact <= max
        <5>1. exact \in X
          BY <4>1
        <5> HIDE DEF X
        <5> QED
          BY <5>1, <2>9
      <4>3. exact * Scale <= max * Scale /\ max * Scale \in Int
        BY <4>2, <2>9, <1>4, Grows
      <4>4. PICK o \in SeqOffsets : o \in Nat
        BY <1>3
      <4>5. max * Scale + o >= exact * Scale
        BY <4>3, <4>4, <1>4
      <4> QED
        BY <4>5
    <3>3. CASE HasSeq(r) /\ ~(r.seq <= 0)
      <4> DEFINE b == main[1]
      <4>1. r \in H /\ H # {}
        BY <3>3
      <4>2. b \in H /\ r.seq <= b.seq /\ b.time \in F
        <5> HIDE DEF F, H
        <5>1. b \in H /\ r.seq <= b.seq /\ F = {b.time}
          BY <4>1, <2>5
        <5> QED
          BY <5>1
      <4> HIDE DEF b
      <4>3. b \in table /\ HasSeq(b) /\ b.seq \in Int /\ r.seq \in Int /\ b.time \in Int
        BY <2>2, <4>1, <4>2, RowTypes
      <4>4. b.seq > 0 /\ r.seq > 0
        BY <3>3, <4>2, <4>3
      <4>5. PICK p \in SeqOffsets : r.seq = r.time * Scale + p
        BY <3>3, <4>4, RowTypes
      <4>6. PICK o \in SeqOffsets : b.seq = b.time * Scale + o
        BY <4>3, <4>4, RowTypes
      <4>7. b.time <= max
        <5>1. b.time \in X
          BY <4>2
        <5> HIDE DEF X
        <5> QED
          BY <5>1, <2>9
      <4>8. b.time * Scale <= max * Scale /\ b.time * Scale \in Int /\ max * Scale \in Int
        BY <4>3, <4>7, <2>9, Grows
      <4>9. p \in Nat /\ o \in Nat /\ r.time * Scale = exact * Scale
        BY <1>3, <3>1
      <4>10. max * Scale + o >= exact * Scale
        BY <4>2, <4>3, <4>5, <4>6, <4>8, <4>9, <1>4
      <4> QED
        BY <4>10
    <3> QED
      BY <3>2, <3>3
  <2>11. max # Absent
    BY <2>9, <1>3
  <2> QED
    BY <2>1, <2>9, <2>10, <2>11 DEF exact
<1> QED
  BY <1>5, <1>6

\* What a filter leaves of the rows, the newest first, are the rows left, the newest first.
LEMMA FoundNewest ==
  ASSUME NEW S, IsFiniteSet(S), Rowlike(S)
  PROVE  Only(Newest(S), LAMBDA r : r.hit # "no") = Newest({r \in S : r.hit # "no"})
<1> DEFINE P == {r \in S : r.hit # "no"}
           s == Newest(S)
           K == {i \in 1..Len(s) : s[i].hit # "no"}
           kept == Sorted(K, LAMBDA i, j : i < j)
           t == [k \in 1..Len(kept) |-> s[kept[k]]]
<1>1. Only(s, LAMBDA r : r.hit # "no") = t
  BY DEF Only
<1>2. P \subseteq S /\ IsFiniteSet(P) /\ Rowlike(P)
  <2>1. P \subseteq S
    OBVIOUS
  <2> HIDE DEF P
  <2>2. IsFiniteSet(P)
    <3>1. IsFiniteSet(S) /\ P \in SUBSET S
      BY <2>1
    <3> QED
      BY <3>1, FS_Subset, Zenon
  <2>3. Rowlike(P)
    BY <2>1 DEF Rowlike
  <2> QED
    BY <2>1, <2>2, <2>3
<1>3. /\ Orders(NewerOn(S), S) /\ Listing(s, S, NewerOn(S))
      /\ Orders(NewerOn(P), P) /\ Listing(Newest(P), P, NewerOn(P))
  <2> HIDE DEF P, s
  <2> QED
    BY <1>2, NewestLists DEF s
<1> HIDE DEF s
<1>4. Len(s) = Cardinality(S) /\ Cardinality(S) \in Nat
  BY <1>3, ListingSeq
<1>5. \A i \in 1..Len(s) : s[i] \in S
  BY <1>3, <1>4 DEF Listing
<1>6. IsFiniteSet(K) /\ K \subseteq Int /\ K \subseteq 1..Len(s)
  <2> DEFINE Z == 1..Len(s)
  <2>1. K \in SUBSET Z /\ IsFiniteSet(Z) /\ Z \subseteq Int
    BY <1>4, FS_Interval
  <2> HIDE DEF K, Z
  <2>2. IsFiniteSet(K)
    BY <2>1, FS_Subset
  <2>3. K \subseteq Int /\ K \subseteq Z
    BY <2>1
  <2> QED
    BY <2>2, <2>3 DEF Z
<1>7. Orders(Below(K), K) /\ Listing(kept, K, Below(K))
  <2> HIDE DEF K
  <2> QED
    BY <1>6, BelowLists
<1> DEFINE f == [i \in K |-> s[i]]
<1>8. Cardinality(K) = Cardinality(P)
  <2>1. f \in [K -> P] /\ \A i \in K : f[i] = s[i]
    BY <1>5
  <2>2. \A i, j \in K : f[i] = f[j] => i = j
    <3> SUFFICES ASSUME NEW i \in K, NEW j \in K, f[i] = f[j] PROVE i = j
      OBVIOUS
    <3>1. i \in 1..Cardinality(S) /\ j \in 1..Cardinality(S) /\ s[i] = s[j]
      BY <1>4
    <3> HIDE DEF K
    <3> QED
      BY <3>1, <1>3, ListingOnce
  <2>3. \A r \in P : \E i \in K : f[i] = r
    <3> SUFFICES ASSUME NEW r \in P PROVE \E i \in K : f[i] = r
      OBVIOUS
    <3>1. PICK i \in 1..Cardinality(S) : s[i] = r
      BY <1>3 DEF Listing
    <3>2. i \in K
      BY <1>4, <3>1
    <3> QED
      BY <3>1, <3>2
  <2> HIDE DEF f, K, P
  <2>4. f \in Bijection(K, P)
    BY <2>1, <2>2, <2>3 DEF Bijection, Injection, Surjection, IsInjective
  <2>5. ExistsBijection(K, P)
    BY <2>4 DEF ExistsBijection
  <2> QED
    BY <2>5, <1>6, FS_Bijection
<1> HIDE DEF kept
<1>9. Len(kept) = Cardinality(P) /\ Cardinality(P) \in Nat
  <2> HIDE DEF K, P
  <2> QED
    BY <1>6, <1>7, <1>8, ListingSeq
<1>10. Listing(t, P, NewerOn(P))
  <2> DEFINE n == Cardinality(P)
  <2>1. t = [k \in 1..n |-> s[kept[k]]] /\ n = Cardinality(K)
    BY <1>8, <1>9
  <2>2. \A k \in 1..n : kept[k] \in K
    <3> HIDE DEF K, P
    <3> QED
      BY <2>1, <1>7 DEF Listing
  <2>3. \A k \in 1..n : s[kept[k]] \in P
    BY <2>2, <1>5
  <2>4. t \in [1..n -> P]
    <3> HIDE DEF t, P, n
    <3> QED
      BY <2>1, <2>3
  <2>5. ASSUME NEW r \in P
        PROVE  \E k \in 1..n : t[k] = r
    <3>1. PICK i \in 1..Cardinality(S) : s[i] = r
      BY <1>3 DEF Listing
    <3>2. i \in K
      BY <1>4, <3>1
    <3> HIDE DEF K, P, n, t
    <3>3. PICK k \in 1..n : kept[k] = i
      BY <3>2, <2>1, <1>7 DEF Listing
    <3> QED
      BY <3>1, <3>3, <2>1
  <2>6. ASSUME NEW k \in 1..n, NEW l \in 1..n, k < l
        PROVE  <<t[k], t[l]>> \in NewerOn(P)
    <3>1. <<kept[k], kept[l]>> \in Below(K)
      <4> HIDE DEF K, P, n, t
      <4> QED
        BY <2>1, <2>6, <1>7 DEF Listing
    <3>2. kept[k] < kept[l] /\ kept[k] \in K /\ kept[l] \in K
      BY <3>1 DEF Below
    <3>3. kept[k] \in 1..Cardinality(S) /\ kept[l] \in 1..Cardinality(S)
      BY <3>2, <1>4
    <3>4. <<s[kept[k]], s[kept[l]]>> \in NewerOn(S)
      BY <3>2, <3>3, <1>3 DEF Listing
    <3>5. s[kept[k]] \in P /\ s[kept[l]] \in P
      BY <2>3
    <3>6. <<s[kept[k]], s[kept[l]]>> \in NewerOn(P)
      <4> HIDE DEF P
      <4> QED
        BY <3>4, <3>5 DEF NewerOn
    <3>7. t[k] = s[kept[k]] /\ t[l] = s[kept[l]]
      <4> HIDE DEF t
      <4> QED
        BY <2>1
    <3> QED
      BY <3>6, <3>7
  <2> HIDE DEF t, P
  <2> QED
    BY <2>4, <2>5, <2>6 DEF Listing
<1>11. t = Newest(P)
  <2> HIDE DEF t, P
  <2> QED
    BY <1>2, <1>3, <1>10, OneListing
<1> QED
  BY <1>1, <1>11 DEF s

LEMMA SearchIs ==
  ASSUME TableInv, AllowBad = FALSE, NEW q, q.limit \in Nat \ {0}
  PROVE  Search(q) = Window(Newest({r \in table : /\ Matches(r, q)
                                                  /\ \/ r.hit = "raw"
                                                     \/ Decoded(q) /\ r.hit = "shown"}),
                            0, q.limit)
<1> DEFINE A == {r \in table : Matches(r, q)}
           K == {r \in table : /\ Matches(r, q)
                               /\ \/ r.hit = "raw"
                                  \/ Decoded(q) /\ r.hit = "shown"}
<1>1. \A S : S \subseteq table => /\ IsFiniteSet(S) /\ Rowlike(S)
                                  /\ Newest(S) \in Seq(table)
                                  /\ Mapped(Newest(S)) = Newest(S)
                                  /\ Mapped(Window(Newest(S), 0, q.limit)) = Window(Newest(S), 0, q.limit)
  <2> SUFFICES ASSUME NEW S, S \subseteq table
               PROVE  /\ IsFiniteSet(S) /\ Rowlike(S)
                      /\ Newest(S) \in Seq(table)
                      /\ Mapped(Newest(S)) = Newest(S)
                      /\ Mapped(Window(Newest(S), 0, q.limit)) = Window(Newest(S), 0, q.limit)
    OBVIOUS
  <2>1. IsFiniteSet(S) /\ Rowlike(S)
    BY PartOfTable
  <2>2. Listing(Newest(S), S, NewerOn(S))
    BY <2>1, NewestLists
  <2>3. Newest(S) \in Seq(S)
    BY <2>1, <2>2, ListingSeq
  <2>4. Newest(S) \in Seq(table)
    BY <2>3
  <2> QED
    BY <2>1, <2>4, NoneDropped, WindowMapped
<1>2. CASE Decoded(q)
  <2>1. K = {r \in A : r.hit # "no"}
    <3>1. \A r \in table : r.hit \in {"raw", "shown", "no"}
      BY MsgRowsAssumption DEF TableInv
    <3> QED
      BY <1>2, <3>1
  <2>2. A \subseteq table
    OBVIOUS
  <2>3. Search(q) = Window(Only(Mapped(Newest(A)), LAMBDA r : r.hit # "no"), 0, Most(q.limit, 1))
    BY <1>2 DEF Search
  <2> HIDE DEF A, K
  <2>4. Mapped(Newest(A)) = Newest(A) /\ IsFiniteSet(A) /\ Rowlike(A)
    BY <1>1, <2>2
  <2>5. Only(Newest(A), LAMBDA r : r.hit # "no") = Newest({r \in A : r.hit # "no"})
    BY <2>4, FoundNewest
  <2>6. Most(q.limit, 1) = q.limit
    BY DEF Most
  <2>7. Search(q) = Window(Newest(K), 0, q.limit)
    BY <2>1, <2>3, <2>4, <2>5, <2>6
  <2> QED
    BY <2>7 DEF K
<1>3. CASE ~Decoded(q)
  <2>1. K = {r \in table : Matches(r, q) /\ r.hit = "raw"}
    BY <1>3
  <2>2. Search(q) = Mapped(Window(Newest({r \in table : Matches(r, q) /\ r.hit = "raw"}), 0, q.limit))
    BY <1>3 DEF Search
  <2>3. K \subseteq table
    OBVIOUS
  <2> HIDE DEF K
  <2>4. Search(q) = Window(Newest(K), 0, q.limit)
    BY <1>1, <2>1, <2>2, <2>3
  <2> QED
    BY <2>4 DEF K
<1> QED
  BY <1>2, <1>3

-----------------------------------------------------------------------------
TableFew == Cardinality(table) <= MaxRows

LEMMA TableTypeStep ==
  ASSUME TableInv, TableType, TableFew, [TableNext]_rowVars
  PROVE  TableType' /\ TableFew'
<1>1. CASE UNCHANGED rowVars
  BY <1>1 DEF rowVars, TableType, TableFew
<1>2. CASE TableNext
  <2>1. PICK t \in Times, y \in Types, h \in Hits, b \in {TRUE, ~AllowBad} :
          \E s \in {NoSeq, 0} \cup {t * Scale + o : o \in SeqOffsets} : Arrive(t, s, y, h, b)
    BY <1>2 DEF TableNext
  <2>2. PICK s \in {NoSeq, 0} \cup {t * Scale + o : o \in SeqOffsets} : Arrive(t, s, y, h, b)
    BY <2>1
  <2> DEFINE k == Cardinality(table)
             r == [id |-> k + 1, time |-> t, seq |-> s, type |-> y, hit |-> h, ok |-> b]
  <2>3. k \in Nat /\ IsFiniteSet(table) /\ k < MaxRows /\ table' = table \cup {r} /\ UNCHANGED indexed
    BY <2>2, FS_CardinalityType DEF Arrive, TableInv
  <2>4. MaxRows \in Nat /\ Scale \in Nat /\ SeqOffsets \subseteq Nat /\ Times \subseteq Int
    BY MsgRowsAssumption
  <2>5. b \in BOOLEAN
    BY MsgRowsAssumption, Zenon
  <2>6. s \in Int \cup {NoSeq}
    BY <2>4
  <2>7. k + 1 \in 1..MaxRows
    BY <2>3, <2>4
  <2>8. r \in Row
    BY <2>5, <2>6, <2>7 DEF Row
  <2>9. Cardinality(table \cup {r}) <= k + 1
    <3> HIDE DEF r
    <3>1. r \in table => Cardinality(table \cup {r}) = k
      <4>1. r \in table => table \cup {r} = table
        OBVIOUS
      <4> QED
        BY <4>1, Zenon
    <3>2. r \notin table => Cardinality(table \cup {r}) = k + 1
      BY <2>3, FS_AddElement
    <3>3. k <= k + 1 /\ k + 1 <= k + 1
      BY <2>3
    <3> HIDE DEF k
    <3> QED
      BY <3>1, <3>2, <3>3
  <2> HIDE DEF r
  <2>10. TableFew'
    <3>1. Cardinality(table') \in Nat
      <4>1. IsFiniteSet(table \cup {r})
        BY <2>3, FS_AddElement
      <4> QED
        BY <4>1, <2>3, FS_CardinalityType
    <3> QED
      BY <3>1, <2>3, <2>4, <2>9 DEF TableFew
  <2> QED
    BY <2>3, <2>8, <2>10 DEF TableType
<1> QED
  BY <1>1, <1>2

(* Every table the model reaches is made of rows the code expects.         *)
THEOREM TableTypeCorrect == TableSpec => []TableType
<1>1. TableInit => TableType /\ TableFew
  <2> SUFFICES ASSUME TableInit PROVE TableType /\ TableFew
    OBVIOUS
  <2>1. table = {} /\ indexed \in BOOLEAN
    BY DEF TableInit
  <2> QED
    BY <2>1, FS_EmptySet, MsgRowsAssumption DEF TableType, TableFew
<1>2. TableInv /\ TableType /\ TableFew /\ [TableNext]_rowVars
        => TableType' /\ TableFew'
  BY TableTypeStep
<1> QED
  BY <1>1, <1>2, TableInitInv, TableStep, PTL DEF TableSpec

(* Whatever path fetch_message_rows takes, by the range of the index, by   *)
(* its newest rows or through the whole table, its rows are those of the   *)
(* scan of the whole table, each once and in the same order of times, if   *)
(* every row can be read.                                                  *)
THEOREM RowsFetched == AllowBad = FALSE /\ TableSpec => []FetchExact
<1> SUFFICES ASSUME AllowBad = FALSE PROVE TableSpec => []FetchExact
  OBVIOUS
<1>1. TableInv => FetchExact
  BY FetchSame DEF FetchExact
<1> QED
  BY <1>1, TableInitInv, TableStep, PTL DEF TableSpec

(* A poll by the index has the rows of the poll without it, each once and  *)
(* none that is not after the cursor; also where some rows cannot be read. *)
(* The newest time of a table is never overstated, and understated at most *)
(* by what WeChat adds to a sort_seq.                                      *)
THEOREM RowsPolled == TableSpec => []PollExact
<1>1. TableInv => PollExact
  <2> SUFFICES ASSUME TableInv PROVE PollExact
    OBVIOUS
  <2>1. ASSUME NEW t \in Since \ {Absent}, NEW n \in PageSizes
        PROVE  Same(Poll(t, n), PlainPoll(t, n)) /\ \A r \in Elements(Poll(t, n)) : r.time > t
    <3>1. t \in Int /\ n \in Nat
      BY MsgRowsAssumption DEF Since
    <3> QED
      BY <3>1, PollIsPlain
  <2>2. table = {} => MaxCreateTime = Absent
    <3> SUFFICES ASSUME table = {} PROVE MaxCreateTime = Absent
      OBVIOUS
    <3> DEFINE H == {r \in table : HasSeq(r)}
               main == Sorted(H, Later)
    <3>1. TimesOf(table) = {} /\ TimesOf(WithoutSeq) = {} /\ TimesOf(NotPositive) = {}
      BY DEF TimesOf, WithoutSeq, NotPositive
    <3>2. H = {} /\ Cardinality(H) = 0
      <4>1. H = {}
        OBVIOUS
      <4> HIDE DEF H
      <4> QED
        BY <4>1, FS_EmptySet
    <3>3. main = [i \in 1..0 |-> CHOOSE r \in H : Cardinality({x \in H : Later(x, r)}) = i - 1]
      <4> HIDE DEF H
      <4> QED
        BY <3>2 DEF Sorted
    <3>4. Len(main) = 0
      <4> HIDE DEF main
      <4> QED
        BY <3>3
    <3>5. {main[i].time : i \in 1..Least(1, Len(main))} = {}
      <4> HIDE DEF main
      <4> QED
        BY <3>4 DEF Least
    <3> QED
      BY <3>1, <3>5 DEF MaxCreateTime, Maximum
  <2>3. table # {} => /\ MaxCreateTime # Absent /\ MaxCreateTime <= Maximum(TimesOf(table))
                      /\ \E o \in SeqOffsets :
                            MaxCreateTime * Scale + o >= Maximum(TimesOf(table)) * Scale
    BY MaxBounds
  <2> QED
    BY <2>1, <2>2, <2>3 DEF PollExact
<1> QED
  BY <1>1, TableInitInv, TableStep, PTL DEF TableSpec

(* A search has the newest matches: of what is shown for links and files,  *)
(* of what is stored for the other types, if every row can be read.        *)
THEOREM RowsSearched == AllowBad = FALSE /\ TableSpec => []SearchNewest
<1> SUFFICES ASSUME AllowBad = FALSE PROVE TableSpec => []SearchNewest
  OBVIOUS
<1>1. TableInv => SearchNewest
  <2> SUFFICES ASSUME TableInv,
                      NEW q \in [since : {Absent} \cup Times, until : Until, type : {Absent} \cup Types,
                                 limit : PageSizes \ {0}, offset : {0}]
               PROVE  Search(q) = Window(Newest({r \in table : /\ Matches(r, q)
                                                               /\ \/ r.hit = "raw"
                                                                  \/ Decoded(q) /\ r.hit = "shown"}),
                                         0, q.limit)
    BY DEF SearchNewest
  <2>1. q.limit \in Nat \ {0}
    BY MsgRowsAssumption
  <2> QED
    BY <2>1, SearchIs
<1> QED
  BY <1>1, TableInitInv, TableStep, PTL DEF TableSpec
=============================================================================
