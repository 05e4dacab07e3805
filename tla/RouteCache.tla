----------------------------- MODULE RouteCache -----------------------------
(***************************************************************************)
(* src/daemon/cache.rs: what the daemon remembers of one message shard     *)
(* between requests.  The route (which Msg_ tables the shard has) and the  *)
(* hot connection each carry the SourceSnapshot of the shard's files they  *)
(* were judged by, and are believed again when a new snapshot equals it    *)
(* and is older than the slack.  An Rpc is one request on that shard, a    *)
(* task of a multi-threaded runtime: find_msg_shards and                   *)
(* aggregate_new_messages_by_shard (query.rs), and the queries that only   *)
(* borrow the connection.  Other shards appear as what they do to the      *)
(* state they share with this one.                                         *)
(*                                                                         *)
(* The shard's content is the number of its last commit.  A snapshot is    *)
(* the commit whose mtime and length the metadata calls report, 0 when     *)
(* they fail (has_unknown_component).                                      *)
(***************************************************************************)
EXTENDS Naturals, FiniteSets

CONSTANTS
  Rpc,          \* requests that run at the same time
  Slot,         \* places of the heap a hot connection slot may live in
  NoSlot,       \* the pool has no slot for the shard, the request none in hand
  MaxVersion,   \* bound: commits to the shard
  MaxGen,       \* bound: route_generation
  MaxWriters,   \* bound: writer threads at work on different contents
  AllowLag,     \* BOOLEAN: a commit may show in the metadata later than in the file
  MayFail,      \* BOOLEAN: metadata calls, opens and scans may fail
  Persist,      \* BOOLEAN: the run covers route_cache.json: flushes and restarts
  MayStraddle   \* BOOLEAN: an invalidation may overlap the stretch from a
                \* request's handle to its generation

ASSUME RouteCacheAssumption ==
  /\ NoSlot \notin Slot
  /\ MaxVersion \in Nat /\ MaxGen \in Nat /\ MaxWriters \in Nat
  /\ AllowLag \in BOOLEAN /\ MayFail \in BOOLEAN
  /\ Persist \in BOOLEAN /\ MayStraddle \in BOOLEAN

VARIABLES
  content,    \* the shard's last commit
  seen,       \* the commit the metadata shows
  aged,       \* commits 1..aged are older than HOT_CACHE_FRESHNESS_SLACK
  route,      \* the shard's entry of shard_routes
  generation, \* route_generation
  pool,       \* the shard's slot of hot_conns
  conns,      \* the connection in each slot
  file,       \* the shard's entry of route_cache.json
  writers,    \* what the detached writer threads have yet to write
  debouncing, \* the last flush is less than ROUTE_FLUSH_DEBOUNCE_SECS ago
  pc,         \* where each request is
  snap,       \* the snapshot it was judged by
  slot,       \* the slot its handle holds
  rebuild,    \* need_rebuild
  gen,        \* expected_generation
  retried,    \* its scan has failed once
  tables,     \* the commit its table list is from, 0 before it has one
  rows,       \* the commit its rows are from, 0 before it has any
  must,       \* history: the content when its own invalidation began
  floor       \* history: the newest content an invalidation completed by this
              \* daemon is for

source == <<content, seen, aged>>
saved == <<file, writers, debouncing>>
answer == <<tables, rows>>
judgement == <<snap, rebuild, gen>>
vars == <<source, route, generation, pool, conns, saved, pc, judgement,
          slot, retried, answer, must, floor>>

PCs == {"idle", "remove", "evict", "noteGone", "ready", "captured", "handle",
        "gen", "queued", "opening", "query", "put", "notePut", "done"}

\* ShardSchemaEntry and HotConn: a label, and the commit the content is from;
\* 0 is none.
Entry == [snap : Nat, ver : Nat]
None == [snap |-> 0, ver |-> 0]

Init ==
  /\ content = 1 /\ seen = 1 /\ aged = 0
  /\ route = None /\ generation = 0
  /\ pool = NoSlot
  /\ conns = [s \in Slot |-> None]
  /\ file = None /\ writers = {} /\ debouncing = ~Persist
  /\ pc = [r \in Rpc |-> "idle"]
  /\ snap = [r \in Rpc |-> 0]
  /\ slot = [r \in Rpc |-> NoSlot]
  /\ rebuild = [r \in Rpc |-> FALSE]
  /\ gen = [r \in Rpc |-> 0]
  /\ retried = [r \in Rpc |-> FALSE]
  /\ tables = [r \in Rpc |-> 0]
  /\ rows = [r \in Rpc |-> 0]
  /\ must = [r \in Rpc |-> 0]
  /\ floor = 0

\* Mutant: the label is read again when the result is stored.
LabelNow(r) == seen

\* The label of what request r stores: the snapshot it was judged by.
Label(r) == snap[r]

\* Mutant: no generation guard.
AlwaysCurrent(r) == TRUE

\* put_shard_schema's guard: no invalidation since r read the generation.
Current(r) == generation = gen[r]

\* SourceSnapshot::trusted_as_of
Trusted(s) == s # 0 /\ s <= aged

\* An entry a request judged by snapshot s takes for the truth.
Believed(e, s) == e.ver # 0 /\ e.snap = s /\ Trusted(s)

\* Mutant: a slot that is closed is no slot any more.
HeldOnly(inPool, inHand) ==
  [s \in {t \in Slot : t = inPool \/ \E r \in Rpc : inHand[r] = t} |-> conns[s]]

\* Connections whose slot nobody holds any longer are closed.
Held(inPool, inHand) ==
  [s \in Slot |-> IF s = inPool \/ \E r \in Rpc : inHand[r] = s THEN conns[s] ELSE None]

\* slot.lock()
Locked(s) == \E r \in Rpc : slot[r] = s /\ pc[r] \in {"opening", "query"}

-----------------------------------------------------------------------------
\* WeChat commits to the shard.
Commit ==
  /\ content < MaxVersion
  /\ content' = content + 1
  /\ seen' = IF AllowLag THEN seen ELSE content + 1
  /\ UNCHANGED <<aged, route, generation, pool, conns, saved, pc, judgement,
                 slot, retried, answer, must, floor>>

\* The metadata catches up.
Appear(v) ==
  /\ v \in seen + 1 .. content
  /\ seen' = v
  /\ UNCHANGED <<content, aged, route, generation, pool, conns, saved, pc,
                 judgement, slot, retried, answer, must, floor>>

\* The slack passes.  No commit stays unseen for as long as the slack.
Age(v) ==
  /\ v \in aged + 1 .. seen
  /\ aged' = v
  /\ UNCHANGED <<content, seen, route, generation, pool, conns, saved, pc,
                 judgement, slot, retried, answer, must, floor>>

\* HotConnPool::slot for another shard drops the least recently used slot.
PoolEvicts ==
  /\ pool # NoSlot
  /\ pool' = NoSlot
  /\ conns' = Held(NoSlot, slot)
  /\ UNCHANGED <<source, route, generation, saved, pc, judgement, slot,
                 retried, answer, must, floor>>

\* invalidate_shard of another shard: the generation is one for all of them.
OtherInvalidated ==
  /\ generation < MaxGen
  /\ generation' = generation + 1
  /\ UNCHANGED <<source, route, pool, conns, saved, pc, judgement, slot,
                 retried, answer, must, floor>>

DebounceElapses ==
  /\ Persist
  /\ debouncing
  /\ Cardinality(writers) < MaxWriters
  /\ debouncing' = FALSE
  /\ UNCHANGED <<source, route, generation, pool, conns, file, writers, pc,
                 judgement, slot, retried, answer, must, floor>>

\* write_route_cache_file in a detached thread: it may fail, and two threads
\* share one temporary file, so that what is renamed may not parse.
WriteFile(e) ==
  /\ e \in writers
  /\ writers' = writers \ {e}
  /\ file' \in {e, file} \cup (IF writers = {e} THEN {} ELSE {None})
  /\ UNCHANGED <<source, route, generation, pool, conns, debouncing, pc,
                 judgement, slot, retried, answer, must, floor>>

\* The daemon dies, whatever it is doing; the next one loads the file.
Restart ==
  /\ Persist
  /\ route' = file
  /\ generation' = 0
  /\ pool' = NoSlot
  /\ conns' = [s \in Slot |-> None]
  /\ writers' = {}
  /\ debouncing' = FALSE
  /\ pc' = [r \in Rpc |-> "idle"]
  /\ snap' = [r \in Rpc |-> 0]
  /\ slot' = [r \in Rpc |-> NoSlot]
  /\ rebuild' = [r \in Rpc |-> FALSE]
  /\ gen' = [r \in Rpc |-> 0]
  /\ retried' = [r \in Rpc |-> FALSE]
  /\ tables' = [r \in Rpc |-> 0]
  /\ rows' = [r \in Rpc |-> 0]
  /\ must' = [r \in Rpc |-> 0]
  /\ floor' = 0
  /\ UNCHANGED <<source, file>>

-----------------------------------------------------------------------------
\* q_new_messages: session.db shows a message of the shard, which is then to
\* be invalidated before it is read.
StartPoll(r) ==
  /\ pc[r] = "idle"
  /\ generation < MaxGen
  /\ must' = [must EXCEPT ![r] = content]
  /\ pc' = [pc EXCEPT ![r] = "remove"]
  /\ UNCHANGED <<source, route, generation, pool, conns, saved, judgement,
                 slot, retried, answer, floor>>

\* invalidate_shard, first half: remove_and_bump_generation, one critical section.
RemoveRoute(r) ==
  /\ pc[r] = "remove"
  /\ generation < MaxGen
  /\ MayStraddle \/ \A q \in Rpc : pc[q] # "gen"
  /\ route' = None
  /\ generation' = generation + 1
  /\ pc' = [pc EXCEPT ![r] = "evict"]
  /\ UNCHANGED <<source, pool, conns, saved, judgement, slot, retried, answer,
                 must, floor>>

\* Mutant: the second half never comes.
EvictNothing(r) ==
  /\ pc[r] = "evict"
  /\ floor' = IF must[r] > floor THEN must[r] ELSE floor
  /\ pc' = [pc EXCEPT ![r] = "noteGone"]
  /\ UNCHANGED <<source, route, generation, pool, conns, saved, judgement,
                 slot, retried, answer, must>>

\* Its second half, under another lock.
EvictConn(r) ==
  /\ pc[r] = "evict"
  /\ pool' = NoSlot
  /\ conns' = Held(NoSlot, slot)
  /\ floor' = IF must[r] > floor THEN must[r] ELSE floor
  /\ pc' = [pc EXCEPT ![r] = "noteGone"]
  /\ UNCHANGED <<source, route, generation, saved, judgement, slot, retried,
                 answer, must>>

\* note_routes_dirty: inside the debounce interval nothing is written, not
\* even later: routes_dirty is set and never read.
NoteDirty(r) ==
  /\ pc[r] \in {"noteGone", "notePut"}
  /\ pc' = [pc EXCEPT ![r] = IF pc[r] = "noteGone" THEN "ready" ELSE "done"]
  /\ debouncing' = TRUE
  /\ writers' = IF debouncing THEN writers ELSE writers \cup {route}
  /\ UNCHANGED <<source, route, generation, pool, conns, file, judgement, slot,
                 retried, answer, must, floor>>

\* source_snapshot: SourceSnapshot::capture
Capture(r) ==
  /\ pc[r] \in {"idle", "ready"}
  /\ \E s \in {seen} \cup (IF MayFail THEN {0} ELSE {}) :
       snap' = [snap EXCEPT ![r] = s]
  /\ pc' = [pc EXCEPT ![r] = "captured"]
  /\ UNCHANGED <<source, route, generation, pool, conns, saved, slot, rebuild,
                 gen, retried, answer, must, floor>>

\* shard_route_lookup_with_snapshot; a shard whose believed route lacks the
\* wanted table is not read at all.
Lookup(r) ==
  /\ pc[r] = "captured"
  /\ \/ /\ Believed(route, snap[r])
        /\ tables' = [tables EXCEPT ![r] = route.ver]
        /\ \E next \in {"handle", "done"} : pc' = [pc EXCEPT ![r] = next]
        /\ UNCHANGED rebuild
     \/ /\ ~Believed(route, snap[r])
        /\ rebuild' = [rebuild EXCEPT ![r] = TRUE]
        /\ pc' = [pc EXCEPT ![r] = "handle"]
        /\ UNCHANGED tables
  /\ UNCHANGED <<source, route, generation, pool, conns, saved, snap, slot,
                 gen, retried, rows, must, floor>>

\* hot_conn_handle, called for a shard whose tables are known already.
SkipLookup(r) ==
  /\ pc[r] = "captured"
  /\ pc' = [pc EXCEPT ![r] = "handle"]
  /\ UNCHANGED <<source, route, generation, pool, conns, saved, judgement,
                 slot, retried, answer, must, floor>>

\* hot_conn_handle_with_snapshot: the pool's slot, or a new one for the pool.
Handle(r) ==
  /\ pc[r] = "handle"
  /\ MayStraddle \/ \A q \in Rpc : pc[q] # "evict"
  /\ \E s \in Slot :
       /\ IF pool # NoSlot THEN s = pool ELSE \A q \in Rpc : slot[q] # s
       /\ pool' = s
       /\ slot' = [slot EXCEPT ![r] = s]
  /\ pc' = [pc EXCEPT ![r] = "gen"]
  /\ UNCHANGED <<source, route, generation, conns, saved, judgement, retried,
                 answer, must, floor>>

\* route_generation, read after the lookup and the handle.
ReadGeneration(r) ==
  /\ pc[r] = "gen"
  /\ gen' = [gen EXCEPT ![r] = generation]
  /\ pc' = [pc EXCEPT ![r] = "queued"]
  /\ UNCHANGED <<source, route, generation, pool, conns, saved, snap, slot,
                 rebuild, retried, answer, must, floor>>

\* HotConnHandle::with takes the slot's lock, and drops a connection that is
\* not to be believed.
LockSlot(r) ==
  /\ pc[r] = "queued"
  /\ ~Locked(slot[r])
  /\ \/ /\ Believed(conns[slot[r]], snap[r])
        /\ pc' = [pc EXCEPT ![r] = "query"]
        /\ UNCHANGED conns
     \/ /\ ~Believed(conns[slot[r]], snap[r])
        /\ conns' = [conns EXCEPT ![slot[r]] = None]
        /\ pc' = [pc EXCEPT ![r] = "opening"]
  /\ UNCHANGED <<source, route, generation, pool, saved, judgement, slot,
                 retried, answer, must, floor>>

\* ConnParams::open reads the file as it is; the label is the handle's.
OpenConn(r) ==
  /\ pc[r] = "opening"
  /\ conns' = [conns EXCEPT ![slot[r]] = [snap |-> Label(r), ver |-> content]]
  /\ pc' = [pc EXCEPT ![r] = "query"]
  /\ UNCHANGED <<source, route, generation, pool, saved, judgement, slot,
                 retried, answer, must, floor>>

\* The closure reads the connection; the lock and the handle are released.
Query(r) ==
  LET ver == conns[slot[r]].ver IN
  /\ pc[r] = "query"
  /\ rows' = [rows EXCEPT ![r] = ver]
  /\ tables' = IF rebuild[r] THEN [tables EXCEPT ![r] = ver] ELSE tables
  /\ slot' = [slot EXCEPT ![r] = NoSlot]
  /\ conns' = Held(pool, slot')
  /\ retried' = [retried EXCEPT ![r] = FALSE]
  /\ pc' = [pc EXCEPT ![r] = IF rebuild[r] THEN "put" ELSE "done"]
  /\ UNCHANGED <<source, route, generation, pool, saved, judgement, must, floor>>

\* The open or the closure fails: the slot is emptied, and a find_msg_shards
\* scan goes through the same handle once more.
RetryScan(r) ==
  /\ MayFail
  /\ pc[r] \in {"opening", "query"}
  /\ ~retried[r]
  /\ retried' = [retried EXCEPT ![r] = TRUE]
  /\ conns' = [conns EXCEPT ![slot[r]] = None]
  /\ pc' = [pc EXCEPT ![r] = "queued"]
  /\ UNCHANGED <<source, route, generation, pool, saved, judgement, slot,
                 answer, must, floor>>

\* put_shard_schema: one critical section.
PutRoute(r) ==
  /\ pc[r] = "put"
  /\ \/ /\ Current(r)
        /\ route' = [snap |-> Label(r), ver |-> tables[r]]
        /\ pc' = [pc EXCEPT ![r] = "notePut"]
     \/ /\ ~Current(r)
        /\ pc' = [pc EXCEPT ![r] = "done"]
        /\ UNCHANGED route
  /\ UNCHANGED <<source, generation, pool, conns, saved, judgement, slot,
                 retried, answer, must, floor>>

\* The request is over; or it ends without an answer: no key or no file for
\* the shard, a scan that failed for good, another shard's failure.
Finish(r) ==
  /\ pc[r] \in {"done"} \cup (IF MayFail THEN {"handle", "opening", "query", "put"} ELSE {})
  /\ slot' = [slot EXCEPT ![r] = NoSlot]
  /\ conns' = IF pc[r] \in {"opening", "query"}
              THEN [Held(pool, slot') EXCEPT ![slot[r]] = None]
              ELSE conns
  /\ pc' = [pc EXCEPT ![r] = "idle"]
  /\ snap' = [snap EXCEPT ![r] = 0]
  /\ rebuild' = [rebuild EXCEPT ![r] = FALSE]
  /\ gen' = [gen EXCEPT ![r] = 0]
  /\ retried' = [retried EXCEPT ![r] = FALSE]
  /\ tables' = [tables EXCEPT ![r] = 0]
  /\ rows' = [rows EXCEPT ![r] = 0]
  /\ must' = [must EXCEPT ![r] = 0]
  /\ UNCHANGED <<source, route, generation, pool, saved, floor>>

Environment ==
  \/ Commit
  \/ \E v \in 1..content : Appear(v) \/ Age(v)
  \/ PoolEvicts \/ OtherInvalidated \/ DebounceElapses \/ Restart
  \/ \E e \in writers : WriteFile(e)

Request(r) ==
  \/ StartPoll(r) \/ RemoveRoute(r) \/ EvictConn(r) \/ NoteDirty(r)
  \/ Capture(r) \/ Lookup(r) \/ SkipLookup(r) \/ Handle(r) \/ ReadGeneration(r)
  \/ LockSlot(r) \/ OpenConn(r) \/ Query(r) \/ RetryScan(r)
  \/ PutRoute(r) \/ Finish(r)

Next == Environment \/ \E r \in Rpc : Request(r)

Spec == Init /\ [][Next]_vars
-----------------------------------------------------------------------------
\* Type invariant: the source, the caches, the file and every request's locals.
TypeOK ==
  /\ content \in Nat /\ seen \in Nat /\ aged \in Nat
  /\ route \in Entry /\ file \in Entry /\ writers \subseteq Entry
  /\ generation \in Nat /\ debouncing \in BOOLEAN
  /\ pool \in Slot \cup {NoSlot}
  /\ conns \in [Slot -> Entry]
  /\ pc \in [Rpc -> PCs]
  /\ slot \in [Rpc -> Slot \cup {NoSlot}]
  /\ rebuild \in [Rpc -> BOOLEAN] /\ retried \in [Rpc -> BOOLEAN]
  /\ snap \in [Rpc -> Nat] /\ gen \in [Rpc -> Nat]
  /\ tables \in [Rpc -> Nat] /\ rows \in [Rpc -> Nat]
  /\ must \in [Rpc -> Nat] /\ floor \in Nat

\* cache.rs:572-584: a label is never newer than what it labels, in the route
\* cache, in the hot connections and in the saved file, whatever was written
\* while the request queued, scanned and retried.  The only error left is then
\* a rebuild too many.
LabelNotNewer ==
  /\ route.snap <= route.ver
  /\ file.snap <= file.ver
  /\ \A s \in Slot : conns[s].ver # 0 => conns[s].snap <= conns[s].ver

\* cache.rs:1016-1026: once the metadata shows the last commit, what a new
\* request would believe is what the shard holds, its route and its hot
\* connection alike.  Where the metadata is exact, that is at any time.
FreshIsCurrent ==
  seen = content =>
    /\ Believed(route, seen) => route.ver = content
    /\ pool # NoSlot /\ Believed(conns[pool], seen) => conns[pool].ver = content

\* cache.rs:805-876: after invalidate_shard has returned, its caller's reads
\* through the pool show everything committed before it was called, however
\* late the metadata is and whoever else uses the shard meanwhile.
ReadsOwnInvalidation ==
  \A r \in Rpc : rows[r] # 0 =>
    /\ rows[r] >= must[r]
    /\ rebuild[r] => tables[r] >= must[r]

\* cache.rs:589-598, 833-839: a route older than a completed invalidation is
\* never believed again, until the daemon ends.
InvalidatedStaysGone == Believed(route, seen) => route.ver >= floor
=============================================================================
