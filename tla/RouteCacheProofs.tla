-------------------------- MODULE RouteCacheProofs --------------------------
(***************************************************************************)
(* What the route cache and the hot connections promise, for any number of *)
(* requests, slots, commits and generations, with or without failures,     *)
(* metadata lag and restarts: a label is never newer than what it labels,  *)
(* a poll reads what it invalidated for, an invalidated route stays gone,  *)
(* and what is believed once the metadata is exact is current.             *)
(***************************************************************************)
EXTENDS RouteCache, TLAPS

\* A request between its handle and its answer holds a slot.
InHand == \A r \in Rpc : pc[r] \in {"gen", "queued", "opening", "query"} => slot[r] \in Slot

\* The metadata shows, and a request has captured, only what was committed.
Captured == seen <= content /\ \A r \in Rpc : snap[r] <= content

\* LabelNotNewer of every label, those still to be written included.
Labels ==
  /\ route.snap <= route.ver /\ file.snap <= file.ver
  /\ \A e \in writers : e.snap <= e.ver
  /\ \A s \in Slot : conns[s].snap <= conns[s].ver

\* The slot's lock: two requests never work on one connection.
Exclusive ==
  \A r, q \in Rpc :
    /\ r # q
    /\ pc[r] \in {"opening", "query"} /\ pc[q] \in {"opening", "query"}
    => slot[r] # slot[q]

\* The connection a request reads, and the table list it is about to store,
\* are no older than the snapshot the request was judged by.
AtLeastAsNew ==
  \A r \in Rpc :
    /\ pc[r] = "query" => snap[r] <= conns[slot[r]].ver
    /\ pc[r] = "put" => snap[r] <= tables[r]

Inv == TypeOK /\ InHand /\ Captured /\ Labels /\ Exclusive /\ AtLeastAsNew

-----------------------------------------------------------------------------
\* Closing the connections nobody holds leaves the others as they are.
LEMMA HeldKeeps ==
  ASSUME TypeOK, NEW p, NEW h
  PROVE  /\ Held(p, h) \in [Slot -> Entry]
         /\ \A s \in Slot : Held(p, h)[s] \in {conns[s], None}
         /\ \A r \in Rpc : h[r] \in Slot => Held(p, h)[h[r]] = conns[h[r]]
<1>1. None \in Entry
  BY DEF None, Entry
<1>2. \A s \in Slot : Held(p, h)[s] \in {conns[s], None}
  BY DEF Held
<1>3. Held(p, h) \in [Slot -> Entry]
  BY <1>1 DEF Held, TypeOK
<1>4. \A r \in Rpc : h[r] \in Slot => Held(p, h)[h[r]] = conns[h[r]]
  BY DEF Held
<1> QED BY <1>2, <1>3, <1>4

LEMMA InitInv == Init => Inv
BY DEF Init, Inv, TypeOK, InHand, Captured, Labels, Exclusive, AtLeastAsNew, Entry, None,
  PCs

LEMMA CommitKeeps == ASSUME Inv, Commit PROVE Inv'
BY DEF Commit, Inv, TypeOK, InHand, Captured, Labels, Exclusive, AtLeastAsNew, saved,
  answer, judgement

LEMMA OtherInvalidatedKeeps == ASSUME Inv, OtherInvalidated PROVE Inv'
BY DEF OtherInvalidated, Inv, TypeOK, InHand, Captured, Labels, Exclusive, AtLeastAsNew,
  source, saved, answer, judgement

LEMMA DebounceElapsesKeeps == ASSUME Inv, DebounceElapses PROVE Inv'
BY DEF DebounceElapses, Inv, TypeOK, InHand, Captured, Labels, Exclusive, AtLeastAsNew,
  source, answer, judgement

LEMMA RestartKeeps == ASSUME Inv, Restart PROVE Inv'
<1> USE RouteCacheAssumption DEF Inv, Restart, source
<1>0. None \in Entry /\ None.snap = 0 /\ None.ver = 0
  BY DEF None, Entry
<1>1. TypeOK'
  BY <1>0 DEF TypeOK, PCs
<1>2. InHand'
  BY DEF InHand
<1>3. Captured'
  BY DEF Captured, TypeOK
<1>4. Labels'
  BY <1>0 DEF Labels
<1>5. Exclusive' /\ AtLeastAsNew'
  BY DEF Exclusive, AtLeastAsNew
<1> QED BY <1>1, <1>2, <1>3, <1>4, <1>5

LEMMA PoolEvictsKeeps == ASSUME Inv, PoolEvicts PROVE Inv'
BY HeldKeeps DEF PoolEvicts, Inv, TypeOK, InHand, Captured, Labels, Exclusive, AtLeastAsNew,
  source, saved, answer, judgement, None

LEMMA AppearKeeps == ASSUME Inv, NEW v \in 1..content, Appear(v) PROVE Inv'
BY DEF Appear, Inv, TypeOK, InHand, Captured, Labels, Exclusive, AtLeastAsNew, saved,
  answer, judgement

LEMMA AgeKeeps == ASSUME Inv, NEW v \in 1..content, Age(v) PROVE Inv'
BY DEF Age, Inv, TypeOK, InHand, Captured, Labels, Exclusive, AtLeastAsNew, saved, answer,
  judgement

LEMMA WriteFileKeeps == ASSUME Inv, NEW e \in writers, WriteFile(e) PROVE Inv'
BY DEF WriteFile, Inv, TypeOK, InHand, Captured, Labels, Exclusive, AtLeastAsNew, source,
  answer, judgement, Entry, None

LEMMA StartPollKeeps == ASSUME Inv, NEW r \in Rpc, StartPoll(r) PROVE Inv'
BY DEF StartPoll, Inv, TypeOK, InHand, Captured, Labels, Exclusive, AtLeastAsNew, source,
  saved, answer, judgement, PCs

LEMMA RemoveRouteKeeps == ASSUME Inv, NEW r \in Rpc, RemoveRoute(r) PROVE Inv'
BY DEF RemoveRoute, Inv, TypeOK, InHand, Captured, Labels, Exclusive, AtLeastAsNew, source,
  saved, answer, judgement, Entry, None, PCs

LEMMA EvictConnKeeps == ASSUME Inv, NEW r \in Rpc, EvictConn(r) PROVE Inv'
BY HeldKeeps DEF EvictConn, Inv, TypeOK, InHand, Captured, Labels, Exclusive, AtLeastAsNew,
  source, saved, answer, judgement, None, PCs

LEMMA NoteDirtyKeeps == ASSUME Inv, NEW r \in Rpc, NoteDirty(r) PROVE Inv'
BY DEF NoteDirty, Inv, TypeOK, InHand, Captured, Labels, Exclusive, AtLeastAsNew, source,
  answer, judgement, PCs

LEMMA CaptureKeeps == ASSUME Inv, NEW r \in Rpc, Capture(r) PROVE Inv'
BY DEF Capture, Inv, TypeOK, InHand, Captured, Labels, Exclusive, AtLeastAsNew, source,
  saved, answer, PCs

LEMMA LookupKeeps == ASSUME Inv, NEW r \in Rpc, Lookup(r) PROVE Inv'
<1> USE RouteCacheAssumption DEF Inv, Lookup, source, saved
<1>0. route.snap \in Nat /\ route.ver \in Nat
  BY DEF TypeOK, Entry
<1>1. TypeOK'
  BY <1>0 DEF TypeOK, PCs
<1>2. InHand'
  BY <1>0 DEF InHand, TypeOK
<1>3. Captured'
  BY <1>0 DEF Captured, TypeOK
<1>4. Labels'
  BY <1>0 DEF Labels, TypeOK
<1>5. Exclusive'
  BY <1>0 DEF Exclusive, TypeOK
<1>6. AtLeastAsNew'
  BY <1>0 DEF AtLeastAsNew, TypeOK, Exclusive, InHand
<1> QED BY <1>1, <1>2, <1>3, <1>4, <1>5, <1>6

LEMMA SkipLookupKeeps == ASSUME Inv, NEW r \in Rpc, SkipLookup(r) PROVE Inv'
BY DEF SkipLookup, Inv, TypeOK, InHand, Captured, Labels, Exclusive, AtLeastAsNew, source,
  saved, answer, judgement, PCs

LEMMA HandleKeeps == ASSUME Inv, NEW r \in Rpc, Handle(r) PROVE Inv'
BY DEF Handle, Inv, TypeOK, InHand, Captured, Labels, Exclusive, AtLeastAsNew, source,
  saved, answer, judgement, PCs

LEMMA ReadGenerationKeeps == ASSUME Inv, NEW r \in Rpc, ReadGeneration(r) PROVE Inv'
BY DEF ReadGeneration, Inv, TypeOK, InHand, Captured, Labels, Exclusive, AtLeastAsNew,
  source, saved, answer, PCs

LEMMA LockSlotKeeps == ASSUME Inv, NEW r \in Rpc, LockSlot(r) PROVE Inv'
<1> USE RouteCacheAssumption DEF Inv, LockSlot, source, saved, answer, judgement, Locked
<1>0. /\ slot[r] \in Slot
      /\ None \in Entry /\ None.snap = 0 /\ None.ver = 0
      /\ conns[slot[r]] \in Entry
      /\ Believed(conns[slot[r]], snap[r]) => conns[slot[r]].snap = snap[r]
      /\ \A e \in Entry : e.snap \in Nat /\ e.ver \in Nat
  BY DEF InHand, TypeOK, None, Entry, Believed
<1>1. TypeOK'
  BY <1>0 DEF TypeOK, PCs
<1>2. InHand'
  BY <1>0 DEF InHand, TypeOK
<1>3. Captured'
  BY <1>0 DEF Captured, TypeOK
<1>4. Labels'
  BY <1>0 DEF Labels, TypeOK
<1>5. Exclusive'
  BY <1>0 DEF Exclusive, TypeOK
<1>6. AtLeastAsNew'
  <2>1. \A q \in Rpc : q # r => pc'[q] = pc[q]
    BY DEF TypeOK
  <2>2. \A q \in Rpc : q # r /\ pc[q] = "query" => conns'[slot[q]] = conns[slot[q]]
    BY <1>0 DEF TypeOK, InHand
  <2>3. pc'[r] = "query" => conns'[slot[r]] = conns[slot[r]] /\ conns[slot[r]].snap = snap[r]
    BY <1>0 DEF TypeOK
  <2>4. pc'[r] # "put"
    BY DEF TypeOK
  <2> QED BY <1>0, <2>1, <2>2, <2>3, <2>4 DEF AtLeastAsNew, Labels
<1> QED BY <1>1, <1>2, <1>3, <1>4, <1>5, <1>6

LEMMA OpenConnKeeps == ASSUME Inv, NEW r \in Rpc, OpenConn(r) PROVE Inv'
BY DEF OpenConn, Inv, TypeOK, InHand, Captured, Labels, Exclusive, AtLeastAsNew, source,
  saved, answer, judgement, Label, Current, Entry, PCs

LEMMA QueryKeeps == ASSUME Inv, NEW r \in Rpc, Query(r) PROVE Inv'
<1> USE RouteCacheAssumption DEF Inv, Query, source, saved, judgement
<1>0. /\ slot[r] \in Slot
      /\ None.snap = 0 /\ None.ver = 0
      /\ conns' \in [Slot -> Entry]
      /\ \A s \in Slot : conns'[s] = conns[s] \/ conns'[s] = None
      /\ \A q \in Rpc : q # r /\ slot[q] \in Slot => conns'[slot[q]] = conns[slot[q]]
      /\ conns[slot[r]].ver \in Nat
  <2> DEFINE held == Held(pool, slot')
  <2>1. \A q \in Rpc : q # r => slot'[q] = slot[q]
    BY DEF TypeOK
  <2>2. /\ held \in [Slot -> Entry]
        /\ \A s \in Slot : held[s] \in {conns[s], None}
        /\ \A q \in Rpc : slot'[q] \in Slot => held[slot'[q]] = conns[slot'[q]]
    BY DEF Held, TypeOK, None, Entry
  <2>3. slot[r] \in Slot /\ conns[slot[r]].ver \in Nat
    BY DEF InHand, TypeOK, Entry
  <2>4. conns' = held
    OBVIOUS
  <2> HIDE DEF held, Query
  <2> QED BY <2>1, <2>2, <2>3, <2>4 DEF None
<1>1. TypeOK'
  BY <1>0 DEF TypeOK, PCs
<1>2. InHand'
  BY <1>0 DEF InHand, TypeOK
<1>3. Captured'
  BY <1>0 DEF Captured, TypeOK
<1>4. Labels'
  <2>1. UNCHANGED <<route, file, writers>>
    BY DEF saved
  <2>2. \A s \in Slot : conns'[s].snap <= conns'[s].ver
    <3> HIDE DEF Query
    <3> QED BY <1>0 DEF Labels
  <2> QED BY <2>1, <2>2 DEF Labels
<1>5. Exclusive'
  BY <1>0 DEF Exclusive, TypeOK
<1>6. AtLeastAsNew'
  BY <1>0 DEF AtLeastAsNew, TypeOK, Exclusive, InHand
<1> QED BY <1>1, <1>2, <1>3, <1>4, <1>5, <1>6

LEMMA RetryScanKeeps == ASSUME Inv, NEW r \in Rpc, RetryScan(r) PROVE Inv'
BY DEF RetryScan, Inv, TypeOK, InHand, Captured, Labels, Exclusive, AtLeastAsNew, source,
  saved, answer, judgement, Entry, None, PCs

LEMMA PutRouteKeeps == ASSUME Inv, NEW r \in Rpc, PutRoute(r) PROVE Inv'
BY DEF PutRoute, Inv, TypeOK, InHand, Captured, Labels, Exclusive, AtLeastAsNew, source,
  saved, answer, judgement, Label, Current, Entry, PCs

LEMMA FinishKeeps == ASSUME Inv, NEW r \in Rpc, Finish(r) PROVE Inv'
<1> USE RouteCacheAssumption DEF Inv, Finish, source, saved
<1>0. /\ None \in Entry /\ None.snap = 0 /\ None.ver = 0
      /\ conns' \in [Slot -> Entry]
      /\ \A s \in Slot : conns'[s] = conns[s] \/ conns'[s] = None
      /\ \A q \in Rpc : q # r /\ pc[q] = "query" => conns'[slot[q]] = conns[slot[q]]
  <2> DEFINE held == Held(pool, slot')
  <2>1. \A q \in Rpc : q # r => slot'[q] = slot[q]
    BY DEF TypeOK
  <2>2. /\ held \in [Slot -> Entry]
        /\ \A s \in Slot : held[s] \in {conns[s], None}
        /\ \A q \in Rpc : slot'[q] \in Slot => held[slot'[q]] = conns[slot'[q]]
    BY DEF Held, TypeOK, None, Entry
  <2>3. \A q \in Rpc : q # r /\ pc[q] = "query" =>
          /\ slot[q] \in Slot
          /\ pc[r] \in {"opening", "query"} => slot[q] # slot[r]
    BY DEF Exclusive, InHand
  <2>4. None \in Entry /\ None.snap = 0 /\ None.ver = 0
    BY DEF None, Entry
  <2>5. CASE pc[r] \in {"opening", "query"}
    <3>1. conns' = [held EXCEPT ![slot[r]] = None]
      BY <2>5
    <3> HIDE DEF held, Finish
    <3>2. conns' \in [Slot -> Entry]
      BY <2>2, <2>4, <3>1
    <3>3. \A s \in Slot : conns'[s] = conns[s] \/ conns'[s] = None
      BY <2>2, <3>1
    <3>4. \A q \in Rpc : q # r /\ pc[q] = "query" => conns'[slot[q]] = conns[slot[q]]
      BY <2>1, <2>2, <2>3, <2>5, <3>1
    <3> QED BY <2>4, <3>2, <3>3, <3>4
  <2>6. CASE pc[r] \notin {"opening", "query"}
    BY <2>4, <2>6 DEF TypeOK
  <2> QED BY <2>5, <2>6
<1>1. TypeOK'
  BY <1>0 DEF TypeOK, PCs
<1>2. InHand'
  BY <1>0 DEF InHand, TypeOK
<1>3. Captured'
  BY <1>0 DEF Captured, TypeOK
<1>4. Labels'
  <2>1. UNCHANGED <<route, file, writers>>
    BY DEF saved
  <2>2. \A s \in Slot : conns'[s].snap <= conns'[s].ver
    <3> HIDE DEF Finish
    <3> QED BY <1>0 DEF Labels
  <2> QED BY <2>1, <2>2 DEF Labels
<1>5. Exclusive'
  BY <1>0 DEF Exclusive, TypeOK
<1>6. AtLeastAsNew'
  <2>1. \A q \in Rpc : q # r =>
          pc'[q] = pc[q] /\ slot'[q] = slot[q] /\ snap'[q] = snap[q] /\ tables'[q] = tables[q]
    BY DEF TypeOK
  <2>2. pc'[r] = "idle"
    BY DEF TypeOK
  <2> QED BY <1>0, <2>1, <2>2 DEF AtLeastAsNew
<1> QED BY <1>1, <1>2, <1>3, <1>4, <1>5, <1>6

LEMMA StepInv == Inv /\ [Next]_vars => Inv'
<1> SUFFICES ASSUME Inv, [Next]_vars
             PROVE  Inv'
  OBVIOUS
<1>1. CASE UNCHANGED vars
  BY <1>1 DEF vars, source, saved, answer, judgement, Inv, TypeOK, InHand, Captured, Labels,
    Exclusive, AtLeastAsNew
<1>2. CASE Environment
  BY <1>2, CommitKeeps, AppearKeeps, AgeKeeps, PoolEvictsKeeps, OtherInvalidatedKeeps, DebounceElapsesKeeps, RestartKeeps, WriteFileKeeps
     DEF Environment
<1>3. CASE \E r \in Rpc : Request(r)
  BY <1>3, StartPollKeeps, RemoveRouteKeeps, EvictConnKeeps, NoteDirtyKeeps, CaptureKeeps, LookupKeeps, SkipLookupKeeps, HandleKeeps,
     ReadGenerationKeeps, LockSlotKeeps, OpenConnKeeps, QueryKeeps, RetryScanKeeps, PutRouteKeeps, FinishKeeps
     DEF Request
<1> QED BY <1>1, <1>2, <1>3 DEF Next

\* The variables and the locals of requests have their types in every reachable state.
THEOREM RouteCacheTypes == Spec => []TypeOK
<1>1. Inv => TypeOK
  BY DEF Inv
<1> QED BY InitInv, StepInv, <1>1, PTL DEF Spec

\* Whatever the interleaving, the failures and the lag, a cached route, a hot
\* connection and the saved file are never older than their labels say.
THEOREM LabelsNeverNewer == Spec => []LabelNotNewer
<1>1. Inv => LabelNotNewer
  BY DEF Inv, Labels, LabelNotNewer
<1> QED BY InitInv, StepInv, <1>1, PTL DEF Spec

-----------------------------------------------------------------------------
\* What a slot offers is absent or no older than commit m.
Offers(s, m) == s \in Slot /\ conns[s].ver # 0 => m <= conns[s].ver

\* A slot nobody holds is empty: a slot made for the pool starts without a
\* connection.
Unheld ==
  \A s \in Slot : s # pool /\ (\A r \in Rpc : slot[r] # s) => conns[s].ver = 0

\* Only a request between its handle and its answer holds a slot, and only one
\* that has its answer has rows.
HandsEmpty ==
  \A r \in Rpc :
    /\ pc[r] \notin {"gen", "queued", "opening", "query"} => slot[r] = NoSlot
    /\ pc[r] \notin {"put", "notePut", "done"} => rows[r] = 0

\* After its own invalidation, neither the pool nor the slot in its hand can
\* offer a request anything older than that invalidation.
Evicted ==
  \A r \in Rpc :
    /\ must[r] <= content
    /\ pc[r] \notin {"remove", "evict"} => Offers(pool, must[r]) /\ Offers(slot[r], must[r])

OwnInv == Unheld /\ HandsEmpty /\ Evicted /\ ReadsOwnInvalidation

LEMMA InitOwn == Init => OwnInv
BY DEF Init, OwnInv, Unheld, HandsEmpty, Evicted, Offers, ReadsOwnInvalidation, None

LEMMA CommitOwns == ASSUME Inv, OwnInv, Commit PROVE OwnInv'
BY DEF Commit, OwnInv, Unheld, HandsEmpty, Evicted, Offers, ReadsOwnInvalidation, Inv,
  TypeOK, answer, judgement

LEMMA OtherInvalidatedOwns == ASSUME Inv, OwnInv, OtherInvalidated PROVE OwnInv'
BY DEF OtherInvalidated, OwnInv, Unheld, HandsEmpty, Evicted, Offers, ReadsOwnInvalidation,
  Inv, TypeOK, source, answer, judgement

LEMMA DebounceElapsesOwns == ASSUME Inv, OwnInv, DebounceElapses PROVE OwnInv'
BY DEF DebounceElapses, OwnInv, Unheld, HandsEmpty, Evicted, Offers, ReadsOwnInvalidation,
  Inv, TypeOK, source, answer, judgement

LEMMA RestartOwns == ASSUME Inv, OwnInv, Restart PROVE OwnInv'
BY DEF Restart, OwnInv, Unheld, HandsEmpty, Evicted, Offers, ReadsOwnInvalidation, Inv,
  TypeOK, source, None

LEMMA PoolEvictsOwns == ASSUME Inv, OwnInv, PoolEvicts PROVE OwnInv'
BY RouteCacheAssumption DEF PoolEvicts, OwnInv, Unheld, HandsEmpty, Evicted, Offers,
  ReadsOwnInvalidation, Inv, TypeOK, source, answer, judgement, None, Held

LEMMA AppearOwns == ASSUME Inv, OwnInv, NEW v \in 1..content, Appear(v) PROVE OwnInv'
BY DEF Appear, OwnInv, Unheld, HandsEmpty, Evicted, Offers, ReadsOwnInvalidation, Inv,
  TypeOK, answer, judgement

LEMMA AgeOwns == ASSUME Inv, OwnInv, NEW v \in 1..content, Age(v) PROVE OwnInv'
BY DEF Age, OwnInv, Unheld, HandsEmpty, Evicted, Offers, ReadsOwnInvalidation, Inv, TypeOK,
  answer, judgement

LEMMA WriteFileOwns == ASSUME Inv, OwnInv, NEW e \in writers, WriteFile(e) PROVE OwnInv'
BY DEF WriteFile, OwnInv, Unheld, HandsEmpty, Evicted, Offers, ReadsOwnInvalidation, Inv,
  TypeOK, source, answer, judgement

LEMMA StartPollOwns == ASSUME Inv, OwnInv, NEW r \in Rpc, StartPoll(r) PROVE OwnInv'
BY DEF StartPoll, OwnInv, Unheld, HandsEmpty, Evicted, Offers, ReadsOwnInvalidation, Inv,
  TypeOK, source, answer, judgement

LEMMA RemoveRouteOwns == ASSUME Inv, OwnInv, NEW r \in Rpc, RemoveRoute(r) PROVE OwnInv'
BY DEF RemoveRoute, OwnInv, Unheld, HandsEmpty, Evicted, Offers, ReadsOwnInvalidation, Inv,
  TypeOK, source, answer, judgement

LEMMA EvictConnOwns == ASSUME Inv, OwnInv, NEW r \in Rpc, EvictConn(r) PROVE OwnInv'
BY RouteCacheAssumption DEF EvictConn, OwnInv, Unheld, HandsEmpty, Evicted, Offers,
  ReadsOwnInvalidation, Inv, TypeOK, source, answer, judgement, None, Held

LEMMA NoteDirtyOwns == ASSUME Inv, OwnInv, NEW r \in Rpc, NoteDirty(r) PROVE OwnInv'
BY DEF NoteDirty, OwnInv, Unheld, HandsEmpty, Evicted, Offers, ReadsOwnInvalidation, Inv,
  TypeOK, source, answer, judgement

LEMMA CaptureOwns == ASSUME Inv, OwnInv, NEW r \in Rpc, Capture(r) PROVE OwnInv'
BY DEF Capture, OwnInv, Unheld, HandsEmpty, Evicted, Offers, ReadsOwnInvalidation, Inv,
  TypeOK, source, answer

LEMMA LookupOwns == ASSUME Inv, OwnInv, NEW r \in Rpc, Lookup(r) PROVE OwnInv'
BY DEF Lookup, OwnInv, Unheld, HandsEmpty, Evicted, Offers, ReadsOwnInvalidation, Inv,
  TypeOK, source

LEMMA SkipLookupOwns == ASSUME Inv, OwnInv, NEW r \in Rpc, SkipLookup(r) PROVE OwnInv'
BY DEF SkipLookup, OwnInv, Unheld, HandsEmpty, Evicted, Offers, ReadsOwnInvalidation, Inv,
  TypeOK, source, answer, judgement

LEMMA HandleOwns == ASSUME Inv, OwnInv, NEW r \in Rpc, Handle(r) PROVE OwnInv'
BY RouteCacheAssumption DEF Handle, OwnInv, Unheld, HandsEmpty, Evicted, Offers,
  ReadsOwnInvalidation, Inv, TypeOK, source, answer, judgement

LEMMA ReadGenerationOwns == ASSUME Inv, OwnInv, NEW r \in Rpc, ReadGeneration(r) PROVE OwnInv'
BY DEF ReadGeneration, OwnInv, Unheld, HandsEmpty, Evicted, Offers, ReadsOwnInvalidation,
  Inv, TypeOK, source, answer

LEMMA LockSlotOwns == ASSUME Inv, OwnInv, NEW r \in Rpc, LockSlot(r) PROVE OwnInv'
<1> USE RouteCacheAssumption DEF Inv, OwnInv, LockSlot, source, saved, answer, judgement
<1>0. /\ slot[r] \in Slot
      /\ conns' \in [Slot -> Entry]
      /\ \A s \in Slot : conns'[s] = conns[s] \/ conns'[s].ver = 0
  <2>1. slot[r] \in Slot /\ None \in Entry /\ None.ver = 0
    BY DEF InHand, None, Entry
  <2> QED BY <2>1 DEF TypeOK
<1>2. Unheld'
  BY <1>0 DEF Unheld, TypeOK
<1>3. HandsEmpty'
  BY <1>0 DEF HandsEmpty, TypeOK
<1>4. Evicted'
  BY <1>0 DEF Evicted, Offers, TypeOK, HandsEmpty
<1>5. ReadsOwnInvalidation'
  BY <1>0 DEF ReadsOwnInvalidation, TypeOK
<1> QED BY <1>2, <1>3, <1>4, <1>5

LEMMA OpenConnOwns == ASSUME Inv, OwnInv, NEW r \in Rpc, OpenConn(r) PROVE OwnInv'
BY DEF OpenConn, OwnInv, Unheld, HandsEmpty, Evicted, Offers, ReadsOwnInvalidation, Inv,
  TypeOK, source, answer, judgement

LEMMA QueryOwns == ASSUME Inv, OwnInv, NEW r \in Rpc, Query(r) PROVE OwnInv'
BY RouteCacheAssumption DEF Query, OwnInv, Unheld, HandsEmpty, Evicted, Offers,
  ReadsOwnInvalidation, Inv, TypeOK, source, judgement, None, Held, InHand

LEMMA RetryScanOwns == ASSUME Inv, OwnInv, NEW r \in Rpc, RetryScan(r) PROVE OwnInv'
BY DEF RetryScan, OwnInv, Unheld, HandsEmpty, Evicted, Offers, ReadsOwnInvalidation, Inv,
  TypeOK, source, answer, judgement, None

LEMMA PutRouteOwns == ASSUME Inv, OwnInv, NEW r \in Rpc, PutRoute(r) PROVE OwnInv'
BY DEF PutRoute, OwnInv, Unheld, HandsEmpty, Evicted, Offers, ReadsOwnInvalidation, Inv,
  TypeOK, source, answer, judgement

LEMMA FinishOwns == ASSUME Inv, OwnInv, NEW r \in Rpc, Finish(r) PROVE OwnInv'
<1> USE RouteCacheAssumption DEF Inv, OwnInv, Finish, source, saved
<1>0. /\ conns' \in [Slot -> Entry]
      /\ \A s \in Slot : conns'[s] = conns[s] \/ conns'[s].ver = 0
      /\ slot[r] \in Slot => slot[r] = pool \/ conns'[slot[r]].ver = 0
  <2>1. None \in Entry /\ None.ver = 0
    BY DEF None, Entry
  <2>2. CASE pc[r] \in {"opening", "query"}
    <3> DEFINE held == Held(pool, slot')
    <3>1. held \in [Slot -> Entry] /\ \A s \in Slot : held[s] = conns[s] \/ held[s] = None
      BY <2>1 DEF Held, TypeOK
    <3>2. conns' = [held EXCEPT ![slot[r]] = None]
      BY <2>2
    <3> HIDE DEF held, Finish
    <3> QED BY <2>1, <3>1, <3>2
  <2>3. CASE pc[r] \notin {"opening", "query"}
    BY <2>3 DEF TypeOK, HandsEmpty
  <2> QED BY <2>2, <2>3
<1>2. Unheld'
  BY <1>0 DEF Unheld, TypeOK
<1>3. HandsEmpty'
  BY <1>0 DEF HandsEmpty, TypeOK
<1>4. Evicted'
  <2>1. \A q \in Rpc : q # r =>
          pc'[q] = pc[q] /\ slot'[q] = slot[q] /\ must'[q] = must[q]
    BY DEF TypeOK
  <2>2. slot'[r] = NoSlot /\ must'[r] = 0 /\ UNCHANGED <<content, pool>>
    BY DEF TypeOK
  <2>3. \A s \in Slot : conns'[s].ver \in Nat
    BY <1>0 DEF Entry
  <2> HIDE DEF Finish
  <2> QED BY <1>0, <2>1, <2>2, <2>3 DEF Evicted, Offers, TypeOK
<1>5. ReadsOwnInvalidation'
  BY <1>0 DEF ReadsOwnInvalidation, TypeOK
<1> QED BY <1>2, <1>3, <1>4, <1>5

LEMMA StepOwn == Inv /\ OwnInv /\ [Next]_vars => OwnInv'
<1> SUFFICES ASSUME Inv, OwnInv, [Next]_vars
             PROVE  OwnInv'
  OBVIOUS
<1>1. CASE UNCHANGED vars
  BY <1>1 DEF vars, source, saved, answer, judgement, OwnInv, Unheld, HandsEmpty, Evicted, Offers,
    ReadsOwnInvalidation
<1>2. CASE Environment
  BY <1>2, CommitOwns, AppearOwns, AgeOwns, PoolEvictsOwns, OtherInvalidatedOwns, DebounceElapsesOwns, RestartOwns, WriteFileOwns
     DEF Environment
<1>3. CASE \E r \in Rpc : Request(r)
  BY <1>3, StartPollOwns, RemoveRouteOwns, EvictConnOwns, NoteDirtyOwns, CaptureOwns, LookupOwns, SkipLookupOwns, HandleOwns,
     ReadGenerationOwns, LockSlotOwns, OpenConnOwns, QueryOwns, RetryScanOwns, PutRouteOwns, FinishOwns
     DEF Request
<1> QED BY <1>1, <1>2, <1>3 DEF Next

\* A poll that has invalidated the shard reads, through the pool, everything
\* committed before it did, whoever else uses the shard and however late its
\* metadata is.
THEOREM PollReadsOwn == Spec => []ReadsOwnInvalidation
<1>1. Inv /\ OwnInv /\ [Next]_vars => (Inv /\ OwnInv)'
  BY StepInv, StepOwn
<1>2. OwnInv => ReadsOwnInvalidation
  BY DEF OwnInv
<1> QED BY InitInv, InitOwn, <1>1, <1>2, PTL DEF Spec
-----------------------------------------------------------------------------
\* Nothing kept or about to be kept is from a commit that was not made.
Made ==
  /\ route.ver <= content /\ file.ver <= content
  /\ \A e \in writers : e.ver <= content
  /\ \A s \in Slot : conns[s].ver <= content
  /\ \A r \in Rpc : tables[r] <= content

LEMMA EnvironmentMakes == ASSUME Inv, Made, Environment PROVE Made'
<1>1. CASE Commit
  BY <1>1 DEF Commit, Inv, TypeOK, Made, Entry, saved, answer, judgement
<1>2. CASE \E v \in 1..content : Appear(v) \/ Age(v)
  BY <1>2 DEF Appear, Age, Inv, TypeOK, Made, saved, answer, judgement
<1>3. CASE PoolEvicts
  BY <1>3, HeldKeeps DEF PoolEvicts, Inv, TypeOK, Made, None, source, saved, answer, judgement
<1>4. CASE OtherInvalidated \/ DebounceElapses
  BY <1>4 DEF OtherInvalidated, DebounceElapses, Made, source, saved, answer, judgement
<1>5. CASE Restart
  BY <1>5 DEF Restart, Inv, TypeOK, Made, None, source
<1>6. CASE \E e \in writers : WriteFile(e)
  BY <1>6 DEF WriteFile, Inv, TypeOK, Made, None, source, answer, judgement
<1> QED BY <1>1, <1>2, <1>3, <1>4, <1>5, <1>6 DEF Environment

LEMMA RequestMakes == ASSUME Inv, Made, NEW r \in Rpc, Request(r) PROVE Made'
<1>1. CASE StartPoll(r) \/ Capture(r) \/ SkipLookup(r) \/ Handle(r) \/ ReadGeneration(r)
  BY <1>1 DEF StartPoll, Capture, SkipLookup, Handle, ReadGeneration, Made, source, saved,
    answer, judgement
<1>2. CASE RemoveRoute(r)
  BY <1>2 DEF RemoveRoute, Inv, TypeOK, Made, None, source, saved, answer, judgement
<1>3. CASE EvictConn(r)
  BY <1>3, HeldKeeps DEF EvictConn, Inv, TypeOK, Made, None, source, saved, answer, judgement
<1>4. CASE NoteDirty(r)
  BY <1>4 DEF NoteDirty, Made, source, answer, judgement
<1>5. CASE Lookup(r)
  BY <1>5 DEF Lookup, Inv, TypeOK, Made, source, saved
<1>6. CASE LockSlot(r) \/ RetryScan(r)
  BY <1>6 DEF LockSlot, RetryScan, Inv, TypeOK, Made, None, source, saved, answer, judgement
<1>7. CASE OpenConn(r)
  BY <1>7 DEF OpenConn, Label, Inv, TypeOK, Made, source, saved, answer, judgement
<1>8. CASE Query(r)
  <2>1. slot[r] \in Slot
    BY <1>8 DEF Query, Inv, InHand
  <2>2. \A s \in Slot : conns'[s] \in {conns[s], None}
    BY <1>8, HeldKeeps DEF Query, Inv
  <2>3. \A s \in Slot : conns'[s].ver <= content
    BY <2>2 DEF Inv, TypeOK, Made, None
  <2>4. \A q \in Rpc : tables'[q] <= content
    BY <1>8, <2>1 DEF Query, Inv, TypeOK, Made
  <2>5. UNCHANGED <<content, seen, route, file, writers>>
    BY <1>8 DEF Query, source, saved
  <2> QED BY <2>3, <2>4, <2>5 DEF Made
<1>9. CASE PutRoute(r)
  BY <1>9 DEF PutRoute, Inv, TypeOK, Made, source, saved, answer, judgement
<1>10. CASE Finish(r)
  <2>1. /\ Held(pool, slot') \in [Slot -> Entry]
        /\ \A s \in Slot : Held(pool, slot')[s] \in {conns[s], None}
    BY HeldKeeps DEF Inv
  <2>2. \A s \in Slot : conns'[s] \in {conns[s], None}
    BY <1>10, <2>1 DEF Finish
  <2>3. \A s \in Slot : conns'[s].ver <= content
    BY <2>2 DEF Inv, TypeOK, Made, None
  <2>4. \A q \in Rpc : tables'[q] <= content
    BY <1>10 DEF Finish, Inv, TypeOK, Made
  <2>5. UNCHANGED <<content, seen, route, file, writers>>
    BY <1>10 DEF Finish, source, saved
  <2> QED BY <2>3, <2>4, <2>5 DEF Made
<1> QED BY <1>1, <1>2, <1>3, <1>4, <1>5, <1>6, <1>7, <1>8, <1>9, <1>10 DEF Request

\* Once the metadata shows the last commit, what a new request would believe is
\* what the shard holds, after any commits, failures, invalidations and restarts
\* and with any number of requests in flight.
THEOREM BelievedIsCurrent == Spec => []FreshIsCurrent
<1>1. Init => Made
  BY DEF Init, Made, None
<1>2. Inv /\ Made /\ [Next]_vars => (Inv /\ Made)'
  <2> SUFFICES ASSUME Inv, Made, [Next]_vars
               PROVE  Made'
    BY StepInv
  <2>1. CASE UNCHANGED vars
    BY <2>1 DEF vars, source, saved, answer, judgement, Made
  <2> QED BY <2>1, EnvironmentMakes, RequestMakes DEF Next
<1>3. Inv /\ Made => FreshIsCurrent
  <2> SUFFICES ASSUME Inv, Made, seen = content
               PROVE  FreshIsCurrent
    BY DEF FreshIsCurrent
  <2>1. ASSUME NEW e \in Entry, e.snap <= e.ver, e.ver <= content, Believed(e, seen)
        PROVE  e.ver = content
    <3>1. e.ver \in Nat /\ content \in Nat
      BY DEF Entry, Inv, TypeOK
    <3>2. e.snap = content
      BY <2>1 DEF Believed
    <3> QED BY <2>1, <3>1, <3>2
  <2>2. route \in Entry /\ route.snap <= route.ver /\ route.ver <= content
    BY DEF Inv, TypeOK, Labels, Made
  <2>3. ASSUME pool # NoSlot
        PROVE  /\ conns[pool] \in Entry
               /\ conns[pool].snap <= conns[pool].ver /\ conns[pool].ver <= content
    BY <2>3 DEF Inv, TypeOK, Labels, Made
  <2> QED BY <2>1, <2>2, <2>3 DEF FreshIsCurrent
<1> QED BY InitInv, <1>1, <1>2, <1>3, PTL DEF Spec
-----------------------------------------------------------------------------
\* A request whose result the generation guard would still let into the cache.
MayStore(q) == pc[q] \in {"queued", "opening", "query", "put"} /\ gen[q] = generation

\* The invalidations that are over are for commits, and no request has read a
\* generation that is still to come.
FloorMade == floor <= content /\ \A q \in Rpc : gen[q] <= generation

\* Neither the route nor the pool's connection is older than an invalidation
\* that is over.
CacheGone == (route.ver # 0 => floor <= route.ver) /\ Offers(pool, floor)

\* Nor is what a request in flight may still store.
FlightGone ==
  \A q \in Rpc :
    /\ pc[q] = "gen" \/ (MayStore(q) /\ pc[q] # "put") => Offers(slot[q], floor)
    /\ MayStore(q) /\ pc[q] = "put" /\ tables[q] # 0 => floor <= tables[q]

\* Between the two halves of an invalidation nothing can be stored.
Quiet ==
  (\E r \in Rpc : pc[r] = "evict") =>
    route.ver = 0 /\ \A q \in Rpc : pc[q] # "gen" /\ ~MayStore(q)

GoneInv == FloorMade /\ CacheGone /\ FlightGone /\ Quiet

LEMMA InitGone == Init => GoneInv
BY DEF Init, GoneInv, FloorMade, CacheGone, FlightGone, Quiet, MayStore, Offers, None

LEMMA EnvironmentGone ==
  ASSUME ~Persist, Inv, GoneInv, Environment PROVE GoneInv'
<1>1. CASE Commit
  BY <1>1 DEF Commit, Inv, TypeOK, GoneInv, FloorMade, CacheGone, FlightGone, Quiet, MayStore,
    Offers, saved, answer, judgement
<1>2. CASE \E v \in 1..content : Appear(v) \/ Age(v)
  BY <1>2 DEF Appear, Age, GoneInv, FloorMade, CacheGone, FlightGone, Quiet, MayStore, Offers,
    saved, answer, judgement
<1>3. CASE PoolEvicts
  <2>1. \A q \in Rpc : slot[q] \in Slot => conns'[slot[q]] = conns[slot[q]]
    BY <1>3, HeldKeeps DEF PoolEvicts, Inv
  <2> QED BY <1>3, <2>1, RouteCacheAssumption DEF PoolEvicts, GoneInv, FloorMade, CacheGone,
    FlightGone, Quiet, MayStore, Offers, source, saved, answer, judgement
<1>4. CASE OtherInvalidated
  BY <1>4 DEF OtherInvalidated, Inv, TypeOK, GoneInv, FloorMade, CacheGone, FlightGone, Quiet,
    MayStore, Offers, source, saved, answer, judgement
<1>5. CASE \E e \in writers : WriteFile(e)
  BY <1>5 DEF WriteFile, GoneInv, FloorMade, CacheGone, FlightGone, Quiet, MayStore, Offers,
    source, answer, judgement
<1> QED BY <1>1, <1>2, <1>3, <1>4, <1>5 DEF Environment, DebounceElapses, Restart

LEMMA InvalidationGone ==
  ASSUME ~MayStraddle, Inv, OwnInv, GoneInv, NEW r \in Rpc,
         StartPoll(r) \/ RemoveRoute(r) \/ EvictConn(r) \/ NoteDirty(r)
  PROVE  GoneInv'
<1>1. CASE StartPoll(r) \/ NoteDirty(r)
  BY <1>1 DEF StartPoll, NoteDirty, Inv, TypeOK, GoneInv, FloorMade, CacheGone, FlightGone,
    Quiet, MayStore, Offers, source, saved, answer, judgement
<1>2. CASE RemoveRoute(r)
  BY <1>2 DEF RemoveRoute, Inv, TypeOK, GoneInv, FloorMade, CacheGone, FlightGone, Quiet,
    MayStore, Offers, None, source, saved, answer, judgement
<1>3. CASE EvictConn(r)
  <2>1. route.ver = 0 /\ \A q \in Rpc : pc[q] # "gen" /\ ~MayStore(q)
    BY <1>3 DEF EvictConn, GoneInv, Quiet
  <2>2. /\ pool' = NoSlot /\ pc' = [pc EXCEPT ![r] = "noteGone"]
        /\ UNCHANGED <<content, route, generation, gen, slot, tables>>
    BY <1>3 DEF EvictConn, source, answer, judgement
  <2>3. floor' <= content
    BY <1>3 DEF EvictConn, OwnInv, Evicted, GoneInv, FloorMade
  <2>4. \A q \in Rpc : pc'[q] # "gen" /\ ~MayStore(q)'
    BY <2>1, <2>2 DEF MayStore, Inv, TypeOK
  <2>5. FloorMade' /\ Quiet'
    BY <2>1, <2>2, <2>3, <2>4 DEF GoneInv, FloorMade, Quiet
  <2>6. CacheGone' /\ FlightGone'
    BY <2>1, <2>2, <2>4, RouteCacheAssumption DEF CacheGone, FlightGone, Offers
  <2> QED BY <2>5, <2>6 DEF GoneInv
<1> QED BY <1>1, <1>2, <1>3

LEMMA JudgementGone ==
  ASSUME ~MayStraddle, Inv, OwnInv, GoneInv, NEW r \in Rpc,
         \/ Capture(r) \/ Lookup(r) \/ SkipLookup(r) \/ Handle(r) \/ ReadGeneration(r)
  PROVE  GoneInv'
<1>1. CASE Capture(r) \/ SkipLookup(r)
  BY <1>1 DEF Capture, SkipLookup, Inv, TypeOK, GoneInv, FloorMade, CacheGone, FlightGone,
    Quiet, MayStore, Offers, source, saved, answer, judgement
<1>2. CASE Lookup(r)
  BY <1>2 DEF Lookup, Inv, TypeOK, GoneInv, FloorMade, CacheGone, FlightGone, Quiet, MayStore,
    Offers, source, saved
<1>3. CASE Handle(r)
  BY <1>3, RouteCacheAssumption DEF Handle, Inv, TypeOK, OwnInv, Unheld, GoneInv, FloorMade,
    CacheGone, FlightGone, Quiet, MayStore, Offers, source, saved, answer, judgement
<1>4. CASE ReadGeneration(r)
  BY <1>4 DEF ReadGeneration, Inv, TypeOK, GoneInv, FloorMade, CacheGone, FlightGone, Quiet,
    MayStore, Offers, source, saved, answer
<1> QED BY <1>1, <1>2, <1>3, <1>4

LEMMA SlotGone ==
  ASSUME Inv, OwnInv, GoneInv, NEW r \in Rpc,
         \/ LockSlot(r) \/ OpenConn(r) \/ Query(r) \/ RetryScan(r)
         \/ PutRoute(r) \/ Finish(r)
  PROVE  GoneInv'
<1>1. CASE LockSlot(r) \/ RetryScan(r)
  BY <1>1 DEF LockSlot, RetryScan, Inv, TypeOK, GoneInv, FloorMade, CacheGone, FlightGone,
    Quiet, MayStore, Offers, None, source, saved, answer, judgement
<1>2. CASE OpenConn(r)
  BY <1>2 DEF OpenConn, Label, Inv, TypeOK, GoneInv, FloorMade, CacheGone, FlightGone, Quiet,
    MayStore, Offers, source, saved, answer, judgement
<1>3. CASE Query(r)
  <2>1. \A s \in Slot : conns'[s] = conns[s] \/ conns'[s].ver = 0
    BY <1>3, HeldKeeps DEF Query, Inv, None
  <2>2. /\ slot[r] \in Slot
        /\ pc' = [pc EXCEPT ![r] = IF rebuild[r] THEN "put" ELSE "done"]
        /\ slot' = [slot EXCEPT ![r] = NoSlot]
        /\ UNCHANGED <<content, route, generation, pool, gen, floor>>
        /\ \A q \in Rpc : q # r => tables'[q] = tables[q]
        /\ rebuild[r] => tables'[r] = conns[slot[r]].ver
        /\ pc[r] = "query"
    BY <1>3 DEF Query, Inv, InHand, TypeOK, source, judgement
  <2>3. FloorMade' /\ CacheGone'
    BY <2>1, <2>2 DEF GoneInv, FloorMade, CacheGone, Offers
  <2>4. FlightGone'
    BY <2>1, <2>2, RouteCacheAssumption DEF GoneInv, FlightGone, MayStore, Offers, Inv, TypeOK
  <2>5. Quiet'
    BY <2>2 DEF GoneInv, Quiet, MayStore, Inv, TypeOK
  <2> QED BY <2>3, <2>4, <2>5 DEF GoneInv
<1>4. CASE PutRoute(r)
  BY <1>4 DEF PutRoute, Current, Label, Inv, TypeOK, GoneInv, FloorMade, CacheGone,
    FlightGone, Quiet, MayStore, Offers, source, saved, answer, judgement
<1>5. CASE Finish(r)
  <2>1. \A s \in Slot : conns'[s] = conns[s] \/ conns'[s].ver = 0
    <3> DEFINE held == Held(pool, slot')
    <3>1. held \in [Slot -> Entry] /\ \A s \in Slot : held[s] \in {conns[s], None}
      BY HeldKeeps DEF Inv
    <3>2. conns' = [held EXCEPT ![slot[r]] = None] \/ conns' = conns
      BY <1>5 DEF Finish
    <3>3. None.ver = 0
      BY DEF None
    <3> HIDE DEF held
    <3> QED BY <3>1, <3>2, <3>3
  <2>2. /\ pc' = [pc EXCEPT ![r] = "idle"]
        /\ slot' = [slot EXCEPT ![r] = NoSlot]
        /\ gen' = [gen EXCEPT ![r] = 0]
        /\ tables' = [tables EXCEPT ![r] = 0]
        /\ UNCHANGED <<content, route, generation, pool, floor>>
    BY <1>5 DEF Finish, source
  <2>3. FloorMade' /\ CacheGone'
    BY <2>1, <2>2 DEF GoneInv, FloorMade, CacheGone, Offers, Inv, TypeOK
  <2>4. FlightGone'
    BY <2>1, <2>2 DEF GoneInv, FlightGone, MayStore, Offers, Inv, TypeOK
  <2>5. Quiet'
    BY <2>2 DEF GoneInv, Quiet, MayStore, Inv, TypeOK
  <2> QED BY <2>3, <2>4, <2>5 DEF GoneInv
<1> QED BY <1>1, <1>2, <1>3, <1>4, <1>5

\* As long as no invalidation falls into the stretch from a request's handle to
\* its generation, nor a handle between the halves of an invalidation, and until
\* the daemon ends, a route older than a completed invalidation is never
\* believed again, with any number of requests, late metadata and failures.
THEOREM GoneStaysGone ==
  ASSUME ~MayStraddle, ~Persist
  PROVE  Spec => []InvalidatedStaysGone
<1>1. Inv /\ OwnInv /\ GoneInv /\ [Next]_vars => (Inv /\ OwnInv /\ GoneInv)'
  <2> SUFFICES ASSUME Inv, OwnInv, GoneInv, [Next]_vars
               PROVE  GoneInv'
    BY StepInv, StepOwn
  <2>1. CASE UNCHANGED vars
    BY <2>1 DEF vars, source, saved, answer, judgement, GoneInv, FloorMade, CacheGone,
      FlightGone, Quiet, MayStore, Offers
  <2>2. CASE Environment
    BY <2>2, EnvironmentGone
  <2>3. CASE \E r \in Rpc : Request(r)
    BY <2>3, InvalidationGone, JudgementGone, SlotGone DEF Request
  <2> QED BY <2>1, <2>2, <2>3 DEF Next
<1>2. GoneInv => InvalidatedStaysGone
  BY DEF GoneInv, CacheGone, InvalidatedStaysGone, Believed
<1> QED BY InitInv, InitOwn, InitGone, <1>1, <1>2, PTL DEF Spec
=============================================================================
